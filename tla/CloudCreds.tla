------------------------------ MODULE CloudCreds ------------------------------
(***************************************************************************)
(* services/BeaconService.scala, the cloud credential operations: an       *)
(* account lives in the DLM keystore with a version; copies of it, made    *)
(* when a policy first needs them, live on Beacon servers.  Requests are   *)
(* sequences of calls to the keystore and of parallel calls to all the     *)
(* Beacon servers; requests interleave at every call, any call to a Beacon *)
(* may fail, and a call that failed may nevertheless have taken effect     *)
(* (its response was lost).  Where the Beacons are is looked up first, and *)
(* a lookup may fail or never end (see ClusterLookups): the request hangs. *)
(*                                                                         *)
(* A keystore operation is one step here (see CloudAccountStore); what     *)
(* overlapping ones do to each other is the subject of DlmKeyStore.        *)
(***************************************************************************)
EXTENDS Naturals

CONSTANTS Handlers,       \* requests the backend can be serving at a time
          Names,          \* credential names, which are the account ids
          Beacons,        \* Beacon servers with cloud replication
          Secrets,        \* what an account's credentials can be
          Requested,      \* the operations that users request
          StatusMayFail,  \* TRUE: a Beacon may miss its admin status call
          ListsMayFail,   \* TRUE: a Beacon may miss the call listing credentials
          MaxVersion      \* bound on the versions of accounts

\* An account, or a copy of it: the secret and its version.
Cred == [version : Nat, secret : Secrets]

AtMostOne(S) == \A x, y \in S : x = y

Ops == {"add", "update", "sync", "delete", "unregister", "provision"}

ASSUME CredsConstants ==
  /\ Beacons # {} /\ Secrets # {} /\ Names # {}
  /\ Requested \subseteq Ops
  /\ StatusMayFail \in BOOLEAN /\ ListsMayFail \in BOOLEAN /\ MaxVersion \in Nat

VARIABLES account,  \* the account of each name in the keystore, if any
          creds,    \* the copy of each name on each Beacon, if any
          pc,       \* the phase each handler is in
          job,      \* what each handler was asked to do
          mine,     \* the account each handler took from the keystore, if any
          todo,     \* Beacons the handler has still to hear from in this phase
          listed,   \* what the Beacons listed to each handler
          errors,   \* Beacons whose failures each handler will report
          answer    \* the answers given in the last step

vars == <<account, creds, pc, job, mine, todo, listed, errors, answer>>

local == <<pc, job, mine, todo, listed, errors>>

Job == [op : Ops, name : Names, secret : Secrets, beacon : Beacons]

NoJob == [op |-> "sync", name |-> CHOOSE n \in Names : TRUE,
          secret |-> CHOOSE s \in Secrets : TRUE, beacon |-> CHOOSE b \in Beacons : TRUE]

\* What one Beacon listed: does it hold the name, in which version, and which
\* credential comes first in its list.
Listing == [beacon : Beacons, holds : BOOLEAN, version : Nat, head : Names]

Init ==
  /\ account = [n \in Names |-> {}]
  /\ creds = [b \in Beacons |-> [n \in Names |-> {}]]
  /\ pc = [h \in Handlers |-> "idle"]
  /\ job = [h \in Handlers |-> NoJob]
  /\ mine = [h \in Handlers |-> {}]
  /\ todo = [h \in Handlers |-> {}]
  /\ listed = [h \in Handlers |-> {}]
  /\ errors = [h \in Handlers |-> {}]
  /\ answer = {}

-----------------------------------------------------------------------------
(* Phases of a handler. *)

\* No request is at work in these phases: none came, or it never will go on.
Rest == {"idle", "hung"}
Working == {"beacons", "list", "account", "lookup", "push"}

Forget(h, rest) ==
  /\ pc' = [pc EXCEPT ![h] = rest]
  /\ job' = [job EXCEPT ![h] = NoJob]
  /\ mine' = [mine EXCEPT ![h] = {}]
  /\ todo' = [todo EXCEPT ![h] = {}]
  /\ listed' = [listed EXCEPT ![h] = {}]
  /\ errors' = [errors EXCEPT ![h] = {}]

\* p.success: the request is over and its handler forgotten.
Finish(h, outcome, failed) ==
  /\ answer' = {[op |-> job[h].op, name |-> job[h].name, outcome |-> outcome, errors |-> failed]}
  /\ Forget(h, "idle")

\* A call to every Beacon in B is sent; the handler goes on when all have ended.
Call(h, phase, B) ==
  /\ pc' = [pc EXCEPT ![h] = phase]
  /\ todo' = [todo EXCEPT ![h] = B]
  /\ answer' = {}

\* Bounds the versions that adds and updates reach.
BelowBound == \A n \in Names : /\ \A a \in account[n] : a.version < MaxVersion
                               /\ \A b \in Beacons : \A c \in creds[b][n] : c.version < MaxVersion

\* The calls a request begins with: add, delete and unregister look up the Beacons
\* to list their credentials, provision looks the name up on one, update and
\* sync go to the keystore.
Receive(h, j) ==
  /\ pc[h] \in Rest
  /\ j.op \in Requested
  /\ j.op \in {"add", "update"} => BelowBound
  /\ job' = [job EXCEPT ![h] = j]
  /\ \/ j.op \in {"add", "delete", "unregister"} /\ Call(h, "beacons", {})
     \/ j.op \in {"update", "sync"} /\ Call(h, "account", {})
     \/ j.op = "provision" /\ Call(h, "lookup", {j.beacon})
  /\ UNCHANGED <<account, creds, mine, listed, errors>>

-----------------------------------------------------------------------------
(* getAllCloudCreds: where the Beacons are, the admin status of each, then  *)
(* the credentials of those that gave it.                                   *)

\* getAllCloudCreds is Left; an update has been made in the keystore and answers
\* with the errors.
GiveUp(h) == Finish(h, IF job[h].op \in {"update", "sync"} THEN "ok" ELSE "error", Beacons)

\* getBeaconClusters: the Beacons, or an error for all.
FindBeacons(h) ==
  /\ pc[h] = "beacons"
  /\ \/ Call(h, "list", Beacons) /\ UNCHANGED <<job, mine, listed, errors>>
     \/ GiveUp(h)
  /\ UNCHANGED <<account, creds>>

\* The host of a Beacon is never had: getBeaconClusters does not end, nor does
\* getBeaconService or checkAndCreateClusterDefinition, which a policy waits for
\* before each of its calls, and nobody completes the promise.
NeverAnswered(h) ==
  /\ \/ pc[h] = "beacons"
     \/ job[h].op = "provision" /\ (pc[h] = "account" \/ todo[h] # {})
  /\ Forget(h, "hung")
  /\ answer' = {}
  /\ UNCHANGED <<account, creds>>

\* Which credential is first in a Beacon's list is the Beacon's choice.
ListingOf(b, n) ==
  LET held == {m \in Names : creds[b][m] # {}}
  IN  {[beacon |-> b, holds |-> n \in held,
        version |-> IF n \in held THEN (CHOOSE c \in creds[b][n] : TRUE).version ELSE 0,
        head |-> m] : m \in IF held = {} THEN {n} ELSE held}

ListBeacon(h, b) ==
  /\ pc[h] = "list" /\ b \in todo[h]
  /\ todo' = [todo EXCEPT ![h] = @ \ {b}]
  /\ \/ \E l \in ListingOf(b, job[h].name) : listed' = [listed EXCEPT ![h] = @ \cup {l}]
        /\ UNCHANGED errors
     \/ \* no admin status: the Beacon is left out, and so is the failure
        /\ StatusMayFail
        /\ UNCHANGED <<listed, errors>>
     \/ /\ ListsMayFail
        /\ errors' = [errors EXCEPT ![h] = @ \cup {b}]
        /\ UNCHANGED listed
  /\ answer' = {}
  /\ UNCHANGED <<account, creds, pc, job, mine>>

\* Nobody gave a list: getAllCloudCreds is Left, with the failures of all.
NoListing(h) == listed[h] = {}

Targets(h) == {l.beacon : l \in {m \in listed[h] : m.holds}}

\* All calls of the phase have ended.
SettledWithoutFailure(h) == todo[h] = {} /\ errors[h] = {}
Settled(h) == todo[h] = {}

\* All Beacons have answered or failed; what comes next is the request's own.
ListDone(h) ==
  /\ pc[h] = "list" /\ Settled(h)
  /\ \/ NoListing(h) /\ GiveUp(h)
     \/ /\ ~NoListing(h)
        /\ \/ job[h].op \in {"add", "delete"} /\ Call(h, "account", {})
           \/ job[h].op \in {"update", "sync", "unregister"} /\ Call(h, "push", Targets(h))
        /\ UNCHANGED <<job, mine, listed, errors>>
  /\ UNCHANGED <<account, creds>>

-----------------------------------------------------------------------------
(* The keystore. *)

\* The versions of the name that a handler was told of, and none.
HeardNothing(h) == {0}
Heard(h) == {0} \cup {l.version : l \in listed[h]}

\* addCloudAccount: one more than any version a Beacon was heard to know.
AddAccount(h) ==
  LET n == job[h].name
  IN  /\ pc[h] = "account" /\ job[h].op = "add"
      /\ \/ /\ account[n] = {}
            /\ \E v \in Heard(h) :
                 /\ \A w \in Heard(h) : w <= v
                 /\ account' = [account EXCEPT ![n] =
                      {[version |-> v + 1, secret |-> job[h].secret]}]
            /\ Finish(h, "ok", {})
         \/ \* it exists, or the keystore refuses the write
            Finish(h, "error", {}) /\ UNCHANGED account
      /\ UNCHANGED creds

\* updateCloudAccount: what becomes of the account old with a new secret.
SecretReplaced(old, s) == [old EXCEPT !.secret = s]
Updated(old, s) == [version |-> old.version + 1, secret |-> s]

UpdateAccount(h) ==
  LET n == job[h].name
  IN  /\ pc[h] = "account" /\ job[h].op = "update"
      /\ \/ \E old \in account[n] :
              /\ account' = [account EXCEPT ![n] = {Updated(old, job[h].secret)}]
              /\ mine' = [mine EXCEPT ![h] = {Updated(old, job[h].secret)}]
              /\ Call(h, "beacons", {})
              /\ UNCHANGED <<job, listed, errors>>
         \/ Finish(h, "error", {}) /\ UNCHANGED account
      /\ UNCHANGED creds

\* syncCloudCred and, for a policy's credential, createReplicationPolicy
ReadAccount(h) ==
  LET n == job[h].name
  IN  /\ pc[h] = "account" /\ job[h].op \in {"sync", "provision"}
      /\ \/ /\ account[n] # {}
            /\ mine' = [mine EXCEPT ![h] = account[n]]
            /\ IF job[h].op = "sync" THEN Call(h, "beacons", {})
                                     ELSE Call(h, "push", {job[h].beacon})
            /\ UNCHANGED <<job, listed, errors>>
         \/ Finish(h, "error", {})
      /\ UNCHANGED <<account, creds>>

\* deleteCloudCreds takes the account out of the keystore before the copies.
DeleteAccount(h) ==
  LET n == job[h].name
  IN  /\ pc[h] = "account" /\ job[h].op = "delete"
      /\ \/ /\ account[n] # {}
            /\ account' = [account EXCEPT ![n] = {}]
            /\ Call(h, "push", Targets(h))
            /\ UNCHANGED <<job, mine, listed, errors>>
         \/ Finish(h, "error", {}) /\ UNCHANGED account
      /\ UNCHANGED creds

-----------------------------------------------------------------------------
(* Calls that change a Beacon. *)

\* createPolicy: does the Beacon hold the credential already?
Lookup(h) ==
  LET b == job[h].beacon
  IN  /\ pc[h] = "lookup"
      /\ \/ creds[b][job[h].name] # {} /\ Finish(h, "ok", {})
         \/ /\ creds[b][job[h].name] = {}
            /\ Call(h, "account", {})
            /\ UNCHANGED <<job, mine, listed, errors>>
         \/ Finish(h, "error", {b})
      /\ UNCHANGED <<account, creds>>

\* Beacon b with the copy of n replaced by o.
KeepingOld(b, n, o) == [creds[b] EXCEPT ![n] = @ \cup o]
Replacing(b, n, o) == [creds[b] EXCEPT ![n] = o]

\* The credential a request removes from a Beacon: the first of its list.
DeletedName(h, l) == l.head

\* The credentials of Beacon b after the call of handler h took effect: none
\* when the Beacon rejects it.  (A copy that was deleted and made again has a
\* new id, and a call with the old one is rejected: as any call may be.)
Effect(h, b) ==
  LET n == job[h].name
      held == creds[b][n] # {}
  IN  IF job[h].op \in (IF held THEN {"update", "sync"} ELSE {"provision"})
      THEN {Replacing(b, n, mine[h])}
      ELSE {Replacing(b, DeletedName(h, l), {}) :
              l \in {m \in listed[h] : /\ job[h].op \in {"delete", "unregister"}
                                      /\ m.beacon = b
                                      /\ creds[b][DeletedName(h, m)] # {}}}

\* The failures of the calls made so far: a call that did not answer 200 counts.
FailedUncounted(h, b, acked) == errors[h]
Failed(h, b, acked) == IF acked THEN errors[h] ELSE errors[h] \cup {b}

PushBeacon(h, b) ==
  /\ pc[h] = "push" /\ b \in todo[h]
  /\ todo' = [todo EXCEPT ![h] = @ \ {b}]
  /\ \/ \E c \in Effect(h, b), acked \in BOOLEAN :
          /\ creds' = [creds EXCEPT ![b] = c]
          /\ errors' = [errors EXCEPT ![h] = Failed(h, b, acked)]
     \/ \* the call was rejected or never arrived
        /\ errors' = [errors EXCEPT ![h] = Failed(h, b, FALSE)]
        /\ UNCHANGED creds
  /\ answer' = {}
  /\ UNCHANGED <<account, pc, job, mine, listed>>

PushDone(h) ==
  /\ pc[h] = "push" /\ Settled(h)
  /\ Finish(h, IF job[h].op = "provision" /\ errors[h] # {} THEN "error" ELSE "ok", errors[h])
  /\ UNCHANGED <<account, creds>>

-----------------------------------------------------------------------------

\* Requests, told apart by what their operation looks at.
Requests ==
  {j \in Job : /\ j.op \notin {"add", "update"} => j.secret = NoJob.secret
               /\ j.op # "provision" => j.beacon = NoJob.beacon}

Step(h) ==
  \/ \E b \in Beacons : ListBeacon(h, b) \/ PushBeacon(h, b)
  \/ FindBeacons(h) \/ NeverAnswered(h) \/ ListDone(h) \/ Lookup(h) \/ PushDone(h)
  \/ AddAccount(h) \/ UpdateAccount(h) \/ ReadAccount(h) \/ DeleteAccount(h)

Next == \E h \in Handlers :
          \/ \E j \in Requests : Receive(h, j)
          \/ Step(h)

Spec == Init /\ [][Next]_vars

\* Every call to a Beacon or to the keystore ends, with an answer or an error, and
\* a lookup with an answer, an error or in NeverAnswered.
FairSpec == Spec /\ \A h \in Handlers : WF_vars(Step(h))

-----------------------------------------------------------------------------
(* Properties. *)

TypeOK ==
  /\ account \in [Names -> SUBSET Cred] /\ \A n \in Names : AtMostOne(account[n])
  /\ creds \in [Beacons -> [Names -> SUBSET Cred]]
  /\ \A b \in Beacons, n \in Names : AtMostOne(creds[b][n])
  /\ pc \in [Handlers -> Rest \cup Working]
  /\ job \in [Handlers -> Job]
  /\ mine \in [Handlers -> SUBSET Cred]
  /\ todo \in [Handlers -> SUBSET Beacons]
  /\ listed \in [Handlers -> SUBSET Listing]
  /\ errors \in [Handlers -> SUBSET Beacons]
  /\ answer \subseteq [op : Ops, name : Names, outcome : {"ok", "error"}, errors : SUBSET Beacons]

\* getClusterCred: what DLM shows as a copy in sync.
InSync(c, a) == c.version = a.version

\* No Beacon is ahead of the keystore, and a copy that DLM shows in sync is the
\* account, secret included: versions are enough to tell old secrets from new
\* ones, across failed updates, failed deletes and accounts added back.
VersionsTellSecrets ==
  \A b \in Beacons, n \in Names : \A c \in creds[b][n], a \in account[n] :
     c.version <= a.version /\ (InSync(c, a) => c = a)

Clean(m) == m.outcome = "ok" /\ m.errors = {}

\* "Update cloud credential in the keystore and in all existing beacon clusters"
\* (BeaconService.scala:1189): when an update or a sync answers without any
\* error, every copy is the account.
SyncedWhenClean ==
  \A m \in answer : m.op \in {"update", "sync"} /\ Clean(m) =>
     \A b \in Beacons : creds[b][m.name] \subseteq account[m.name]

\* A delete takes the account out of the keystore before the copies, and either of
\* delete and unregister may fail at some Beacons.  When one answers, a copy of the name
\* that is left is at a Beacon that the answer names, or the Beacon deleted another
\* credential, the first one of its list, in its place (see OnlyNamedDeleted).
LeftAt(h, b) == creds'[b][job[h].name] # {}
OtherDeletedAt(h, b) ==
  \E l \in listed[h] : l.beacon = b /\ l.head # job[h].name /\ creds'[b][l.head] = {}

LeftoversReported ==
  [][\A h \in Handlers, m \in answer' :
        pc'[h] # pc[h] /\ job[h].op \in {"delete", "unregister"} /\ m.outcome = "ok" =>
           /\ job[h].op = "delete" => account'[job[h].name] = {}
           /\ \A b \in Beacons \ m.errors : LeftAt(h, b) => OtherDeletedAt(h, b)]_vars

\* Every request ends, whatever fails on the way and whoever else is at work, unless
\* a lookup of Beacons never does; one that knows the Beacons is answered.
RequestsEnd ==
  \A h \in Handlers : /\ (pc[h] \notin Rest) ~> (pc[h] \in Rest)
                      /\ (pc[h] = "list") ~> (pc[h] = "idle")

\* "Delete cloud credential from all existing beacon clusters"
\* (BeaconService.scala:1269): a request removes copies of the name it was given.
OnlyNamedDeleted ==
  [][\A b \in Beacons, n \in Names :
        creds[b][n] # {} /\ creds'[b][n] = {} => \E h \in Handlers : job[h].name = n]_vars
=============================================================================
