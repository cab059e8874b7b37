------------------------------ MODULE DlmKeyStore ------------------------------
(***************************************************************************)
(* services/DlmKeyStore.scala: the cloud accounts of DLM, kept as one      *)
(* serialized list under one alias of the Dataplane keystore, behind a     *)
(* Guava LoadingCache.  An add, an update or a delete reads the whole list *)
(* from the keystore, and a callback that runs later writes the whole list *)
(* back and invalidates the cache; nothing serializes two of them.  Lists  *)
(* and lookups go through the cache.                                       *)
(*                                                                         *)
(* The keystore and the cache are libraries.  A keystore read or write may *)
(* fail and then has no effect.  A cache load is started by the first      *)
(* reader that finds the cache empty; the readers that come during the     *)
(* load wait for its value; an invalidation that arrives during the load   *)
(* finds nothing to remove and is lost.                                    *)
(***************************************************************************)
EXTENDS Naturals, FiniteSets

CONSTANTS Callers,        \* requests the backend can be serving at a time
          AccountIds,     \* the names users give to cloud accounts
          Secrets,        \* what an account's credentials can be
          Overlap,        \* TRUE: writers may overlap, as the code lets them
          ReadsMayFail,   \* TRUE: a keystore read may return Failure
          MaxVersion,     \* bound on the versions of accounts
          MaxReloads      \* bound on the replacements of the keystore file

Account == [id : AccountIds, version : Nat, secret : Secrets]

Bucket == SUBSET Account

\* What a read of the keystore gives: Right(list) or Left(error), in which the
\* callers that go on see no account.
Found(S) == [found |-> TRUE, accounts |-> S]
NotFound == [found |-> FALSE, accounts |-> {}]
Reading == [found : BOOLEAN, accounts : Bucket]

\* The accounts a keystore starts from, or is replaced by.
FirstVersions == [id : AccountIds, version : {1}, secret : Secrets]

NoRequest == [op |-> "list", account |-> CHOOSE a \in FirstVersions : TRUE]

ASSUME KeyStoreConstants ==
  /\ AccountIds # {} /\ Secrets # {}
  /\ Overlap \in BOOLEAN /\ ReadsMayFail \in BOOLEAN
  /\ MaxVersion \in Nat /\ MaxReloads \in Nat

VARIABLES store,      \* what the alias holds: a list of accounts, or nothing yet
          cache,      \* the cached reading, if any: a set of at most one
          pc,         \* where each caller is
          req,        \* what each caller asked for
          seen,       \* the reading each caller took of the keystore
          reply,      \* the answers given in the last step
          reloads,    \* how often the keystore file was replaced
          reloaded,   \* a KeystoreReloadEvent is still to be delivered
          missed,     \* an invalidation was lost on a load that had read already
          behind      \* of each writer: accounts that its reading may be out of date in

vars == <<store, cache, pc, req, seen, reply, reloads, reloaded, missed, behind>>

Readers == {"list", "get"}
Writers == {"add", "update", "delete"}

Request == [op : Readers \cup Writers, account : Account]

WithId(S, i) == {a \in S : a.id = i}
Others(S, i) == {a \in S : a.id # i}
UniqueIn(S) == \A a, b \in S : a.id = b.id => a = b

Writing(c) == pc[c] = "write"
Loading == \E c \in Callers : pc[c] \in {"load", "loaded"}

\* The environment assumption that Overlap = FALSE stands for.
MayStartWriting == Overlap \/ \A c \in Callers : ~Writing(c)

Init ==
  /\ store \in {NotFound} \cup {Found({a}) : a \in FirstVersions}
  /\ cache = {}
  /\ pc = [c \in Callers |-> "idle"]
  /\ req = [c \in Callers |-> NoRequest]
  /\ seen = [c \in Callers |-> NotFound]
  /\ reply = {}
  /\ reloads = 0 /\ reloaded = FALSE /\ missed = FALSE
  /\ behind = [c \in Callers |-> {}]

-----------------------------------------------------------------------------
(* Reads of the keystore and the calls that take them. *)

\* behind is not in the code: it remembers what a reading cannot know of.
Take(c, r, B) == seen' = [seen EXCEPT ![c] = r] /\ behind' = [behind EXCEPT ![c] = B]

ReadThroughCache(c) == \E r \in (IF cache = {} THEN {store} ELSE cache) : Take(c, r, {})

\* getCloudAccountsFromKeyStore: a failed read and a missing bucket look alike.
ReadKeyStore(c) ==
  \/ Take(c, store, {})
  \/ ReadsMayFail /\ Take(c, NotFound, AccountIds)

\* The requests of the callers in D end, and with them what they had read.
Forget(D) ==
  /\ pc' = [c \in Callers |-> IF c \in D THEN "idle" ELSE pc[c]]
  /\ req' = [c \in Callers |-> IF c \in D THEN NoRequest ELSE req[c]]
  /\ seen' = [c \in Callers |-> IF c \in D THEN NotFound ELSE seen[c]]
  /\ behind' = [c \in Callers |-> IF c \in D THEN {} ELSE behind[c]]

\* What a list or a get makes of the cached reading r for caller c.
ReadReply(c, q, r) ==
  LET found == IF q.op = "list" THEN r.accounts ELSE WithId(r.accounts, q.account.id)
  IN  [to |-> c, accounts |-> found,
       outcome |-> IF q.op = "get" /\ found = {} THEN "error" ELSE "ok"]

\* cloudAccountsCache.get: take the cached value, wait for a load, or load.
GetFromCache(c, q) ==
  /\ pc[c] = "idle" /\ q.op \in Readers
  /\ \/ /\ cache # {}
        /\ reply' = {ReadReply(c, q, r) : r \in cache}
        /\ UNCHANGED <<pc, req>>
     \/ /\ cache = {}
        /\ pc' = [pc EXCEPT ![c] = IF Loading THEN "wait" ELSE "load"]
        /\ req' = [req EXCEPT ![c] = q]
        /\ reply' = {}
  /\ UNCHANGED <<store, cache, seen, reloads, reloaded, missed, behind>>

\* CloudAccountsCacheLoader.load
Load(c) ==
  /\ pc[c] = "load"
  /\ ReadKeyStore(c)
  /\ pc' = [pc EXCEPT ![c] = "loaded"]
  /\ reply' = {}
  /\ UNCHANGED <<store, cache, req, reloads, reloaded, missed>>

\* Who gets the value that c has loaded.
ServedAlone(c) == {c}
Served(c) == {c} \cup {d \in Callers : pc[d] = "wait"}

\* The loaded value, a NotFound too, is cached and given to all who wait for it.
FinishLoad(c) ==
  /\ pc[c] = "loaded"
  /\ cache' = {seen[c]}
  /\ reply' = {ReadReply(d, req[d], seen[c]) : d \in Served(c)}
  /\ Forget(Served(c))
  /\ UNCHANGED <<store, reloads, reloaded, missed>>

-----------------------------------------------------------------------------
(* Add, update and delete: read the list, then write it back. *)

\* Bounds the versions that updates reach.
BelowBound == \A a \in store.accounts : a.version < MaxVersion

StartWriter(c, q) ==
  /\ pc[c] = "idle" /\ q.op \in Writers
  /\ MayStartWriting /\ BelowBound
  /\ req' = [req EXCEPT ![c] = q]
  /\ ReadKeyStore(c)
  /\ pc' = [pc EXCEPT ![c] = "write"]
  /\ reply' = {}
  /\ UNCHANGED <<store, cache, reloads, reloaded, missed>>

\* The lists that updateCloudAccount, addCloudAccount and deleteCloudAccount may
\* save when the list they read is S: none when they refuse the request.
UpdatedInSameVersion(S, a) ==
  {Others(S, a.id) \cup {[a EXCEPT !.version = old.version]} : old \in WithId(S, a.id)}

UpdatedIn(S, a) ==
  {Others(S, a.id) \cup {[a EXCEPT !.version = old.version + 1]} : old \in WithId(S, a.id)}

AddedToUnchecked(S, a) == {S \cup {a}}

AddedTo(S, a) == IF WithId(S, a.id) = {} THEN {S \cup {a}} ELSE {}

DeletedFrom(S, i) == IF WithId(S, i) = {} THEN {} ELSE {Others(S, i)}

\* Left, a bucket never written or a failed read, stops an update and a delete,
\* and is an empty list to an add.
ToSave(q, r) ==
  CASE q.op = "update" -> UpdatedIn(r.accounts, q.account)
    [] q.op = "add"    -> AddedTo(r.accounts, q.account)
    [] q.op = "delete" -> DeletedFrom(r.accounts, q.account.id)

Answer(c, outcome) ==
  /\ reply' = {[to |-> c, outcome |-> outcome, accounts |-> {}]}
  /\ Forget({c})

\* The account is there already, is not there, or the keystore refuses the write.
RefuseWrite(c) ==
  /\ Writing(c)
  /\ Answer(c, "error")
  /\ UNCHANGED <<store, cache, reloads, reloaded, missed>>

\* Writers about to write fall behind in the accounts of B.
FallBehind(B) ==
  behind' = [d \in Callers |-> IF pc'[d] = "write" THEN behind[d] \cup B ELSE {}]

\* saveCloudAccountsToKeyStore, up to the write
Write(c) ==
  /\ Writing(c)
  /\ \E S \in ToSave(req[c], seen[c]) : store' = Found(S)
  /\ pc' = [pc EXCEPT ![c] = "invalidate"]
  /\ FallBehind(behind[c] \cup {req[c].account.id})
  /\ reply' = {}
  /\ UNCHANGED <<cache, req, seen, reloads, reloaded, missed>>

\* cloudAccountsCache.invalidate
InvalidateNothing == UNCHANGED <<cache, missed>>
InvalidateByAdding == cache' = cache \cup {store} /\ missed' = FALSE

InvalidateCache ==
  /\ cache' = {}
  /\ missed' = IF cache # {} THEN FALSE
               ELSE missed \/ \E c \in Callers : pc[c] = "loaded"

\* saveCloudAccountsToKeyStore, after the write
Invalidate(c) ==
  /\ pc[c] = "invalidate"
  /\ InvalidateCache
  /\ Answer(c, "ok")
  /\ UNCHANGED <<store, reloads, reloaded>>

-----------------------------------------------------------------------------
(* The keystore file is replaced under DLM; the manager reloads it and     *)
(* publishes an event, on which DLM invalidates its cache.                 *)

Reload ==
  /\ reloads < MaxReloads /\ ~reloaded
  /\ MayStartWriting
  /\ store' \in {Found({a}) : a \in FirstVersions}
  /\ reloads' = reloads + 1 /\ reloaded' = TRUE
  /\ reply' = {}
  /\ UNCHANGED <<cache, pc, req, seen, missed>>
  /\ FallBehind(AccountIds)

Notify ==
  /\ reloaded
  /\ InvalidateCache
  /\ reloaded' = FALSE
  /\ reply' = {}
  /\ UNCHANGED <<store, pc, req, seen, reloads, behind>>

-----------------------------------------------------------------------------

\* The requests users make; versions past the bound are not requested.
NewRequest ==
  {q \in [op : Readers \cup Writers,
          account : [id : AccountIds, version : 1..MaxVersion, secret : Secrets]] :
     q.op # "add" => q.account.version = 1}

Step(c) == \/ Load(c) \/ FinishLoad(c)
           \/ RefuseWrite(c) \/ Write(c) \/ Invalidate(c)

Next == \/ \E c \in Callers : \/ \E q \in NewRequest : GetFromCache(c, q) \/ StartWriter(c, q)
                              \/ Step(c)
        \/ Reload \/ Notify

Spec == Init /\ [][Next]_vars

\* A callback that was scheduled runs; users and the keystore file may rest.
FairSpec == Spec /\ \A c \in Callers : WF_vars(Step(c))

-----------------------------------------------------------------------------
(* Properties. *)

TypeOK ==
  /\ store \in Reading
  /\ cache \subseteq Reading /\ \A r, s \in cache : r = s
  /\ pc \in [Callers -> {"idle", "wait", "load", "loaded", "write", "invalidate"}]
  /\ req \in [Callers -> Request]
  /\ seen \in [Callers -> Reading]
  /\ reply \subseteq [to : Callers, outcome : {"ok", "error"}, accounts : Bucket]
  /\ reloads \in Nat /\ reloaded \in BOOLEAN /\ missed \in BOOLEAN
  /\ behind \in [Callers -> SUBSET AccountIds]

\* However requests interleave, whole lists written from old readings included,
\* neither the keystore nor an answer has two accounts with one id: add checks
\* the very list it extends, update drops what it replaces.
UniqueIds ==
  /\ UniqueIn(store.accounts)
  /\ \A m \in reply : UniqueIn(m.accounts)

\* A cached list is the stored list, except while a writer stands between its
\* write and its invalidation, while a reload event is on its way, or when an
\* invalidation met a load that had already read: the cache has no other way
\* to be stale.
CacheCurrent ==
  (~missed /\ ~reloaded /\ \A c \in Callers : pc[c] # "invalidate")
    => cache \subseteq {store, NotFound}

\* Every request is answered, those that wait for another caller's load too.
RequestsAnswered == \A c \in Callers : pc[c] # "idle" ~> pc[c] = "idle"

\* With one writer at a time and reads that succeed, the keystore is the store
\* of accounts it stands for: each write adds, updates or deletes one account.
Abstract == INSTANCE CloudAccountStore WITH accounts <- store.accounts, reloads <- reloads

ImplementsStore == Abstract!Spec

\* However writers overlap and whichever reads fail, a step that is not one of the
\* store of accounts is the write of one change to a list that was read earlier.  What
\* it loses are the accounts others wrote since, or wrote back from readings that were
\* out of date themselves; all of them only if the keystore was reloaded since or the
\* read failed, and on a failed read nothing but an add is ever written.
LosesOnlyOverlapped ==
  /\ Abstract!Init
  /\ [][\/ Abstract!Next
        \/ \E c \in Callers : /\ pc[c] = "write" /\ pc'[c] = "invalidate"
                              /\ Abstract!Overwrite(seen[c].accounts, behind[c])
       ]_(Abstract!vars)
=============================================================================
