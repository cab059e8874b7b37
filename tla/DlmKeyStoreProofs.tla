--------------------------- MODULE DlmKeyStoreProofs ---------------------------
(***************************************************************************)
(* Proofs about DlmKeyStore, for any callers, account ids, secrets and     *)
(* bounds.                                                                 *)
(***************************************************************************)
EXTENDS DlmKeyStore, TLAPS

\* A request that a caller may make is a request.
LEMMA NewRequestTyped == NewRequest \subseteq Request
  BY KeyStoreConstants DEF NewRequest, Request, Account, Readers, Writers

\* What stands for no request is one, too.
LEMMA NoRequestTyped == NoRequest \in Request
<1>1. \E a \in FirstVersions : TRUE
  <2>1. PICK i \in AccountIds, s \in Secrets : TRUE
    BY KeyStoreConstants
  <2>2. [id |-> i, version |-> 1, secret |-> s] \in FirstVersions
    BY DEF FirstVersions
  <2>. QED  BY <2>2
<1>2. (CHOOSE a \in FirstVersions : TRUE) \in FirstVersions
  BY <1>1
<1>3. FirstVersions \subseteq Account
  BY DEF FirstVersions, Account
<1>. QED  BY <1>2, <1>3 DEF NoRequest, Request, Readers

\* A keystore of one first version is a reading without two accounts of one id.
LEMMA FirstStores ==
  ASSUME NEW a \in FirstVersions
  PROVE  Found({a}) \in Reading /\ UniqueIn(Found({a}).accounts)
<1>1. a \in Account
  BY DEF FirstVersions, Account
<1>. QED  BY <1>1 DEF Found, Reading, Bucket, UniqueIn

\* A keystore without a bucket is a reading, too.
LEMMA NotFoundTyped == NotFound \in Reading /\ UniqueIn(NotFound.accounts)
  BY DEF NotFound, Reading, Bucket, UniqueIn

\* The lists that the three writers save are lists of accounts, without two of
\* one id when the list they read had none.
LEMMA SavedLists ==
  ASSUME NEW q \in Request, q.op \in Writers,
         NEW r \in Reading, UniqueIn(r.accounts),
         NEW S \in ToSave(q, r)
  PROVE  S \in Bucket /\ UniqueIn(S)
<1>. DEFINE a == q.account
            L == r.accounts
<1>1. a \in Account /\ L \in SUBSET Account
  BY DEF Request, Reading, Bucket
<1>2. Others(L, a.id) \in SUBSET Account /\ UniqueIn(Others(L, a.id))
  BY <1>1 DEF Others, UniqueIn
<1>3. CASE q.op = "update"
  <2>1. PICK old \in WithId(L, a.id) :
               S = Others(L, a.id) \cup {[a EXCEPT !.version = old.version + 1]}
    BY <1>3 DEF ToSave, UpdatedIn
  <2>. DEFINE new == [a EXCEPT !.version = old.version + 1]
  <2>2. old.version \in Nat
    BY <1>1 DEF WithId, Account
  <2>3. new \in Account /\ new.id = a.id
    BY <1>1, <2>2 DEF Account
  <2>4. \A b \in Others(L, a.id) : b.id # new.id
    BY <2>3 DEF Others
  <2>. HIDE DEF new
  <2>5. UniqueIn(Others(L, a.id) \cup {new})
    BY <1>2, <2>4 DEF UniqueIn
  <2>. QED  BY <1>2, <2>1, <2>3, <2>5 DEF Bucket, new
<1>4. CASE q.op = "add"
  <2>1. WithId(L, a.id) = {} /\ S = L \cup {a}
    BY <1>4 DEF ToSave, AddedTo
  <2>2. \A b \in L : b.id # a.id
    BY <2>1 DEF WithId
  <2>. QED  BY <1>1, <2>1, <2>2 DEF Bucket, UniqueIn
<1>5. CASE q.op = "delete"
  <2>1. S = Others(L, a.id)
    BY <1>5 DEF ToSave, DeletedFrom
  <2>. QED  BY <1>2, <2>1 DEF Bucket
<1>. QED  BY <1>3, <1>4, <1>5 DEF Writers

-----------------------------------------------------------------------------
(* Types and unique ids. *)

\* No list in flight has two accounts of one id; neither has the keystore.
UniqueInv ==
  /\ UniqueIn(store.accounts)
  /\ \A r \in cache : UniqueIn(r.accounts)
  /\ \A c \in Callers : UniqueIn(seen[c].accounts)
  /\ \A m \in reply : UniqueIn(m.accounts)

\* A caller about to write has a write to make.
PendingWrites == \A c \in Callers : pc[c] = "write" => req[c].op \in Writers

TypeInv == TypeOK /\ UniqueInv /\ PendingWrites

\* Answers are typed.
LEMMA ReplyTyped ==
  ASSUME NEW c \in Callers, NEW q \in Request,
         NEW r \in Reading, UniqueIn(r.accounts)
  PROVE  /\ ReadReply(c, q, r) \in [to : Callers, outcome : {"ok", "error"}, accounts : Bucket]
         /\ UniqueIn(ReadReply(c, q, r).accounts)
  BY DEF ReadReply, WithId, UniqueIn, Reading, Bucket

\* Reading the keystore keeps types.
LEMMA ReadTyped ==
  ASSUME TypeInv, NEW c \in Callers, ReadKeyStore(c)
  PROVE  /\ seen' \in [Callers -> Reading]
         /\ \A d \in Callers : UniqueIn(seen'[d].accounts)
         /\ behind' \in [Callers -> SUBSET AccountIds]
<1>1. PICK r \in {store, NotFound}, B \in SUBSET AccountIds : Take(c, r, B)
  BY DEF ReadKeyStore
<1>2. r \in Reading /\ UniqueIn(r.accounts)
  BY NotFoundTyped DEF TypeInv, TypeOK, UniqueInv
<1>. QED  BY <1>1, <1>2 DEF Take, TypeInv, TypeOK, UniqueInv

\* A request that ends keeps types.
LEMMA ForgetTyped ==
  ASSUME TypeInv, NEW D \in SUBSET Callers, Forget(D)
  PROVE  /\ pc' \in [Callers -> {"idle", "wait", "load", "loaded", "write", "invalidate"}]
         /\ req' \in [Callers -> Request]
         /\ seen' \in [Callers -> Reading]
         /\ \A d \in Callers : UniqueIn(seen'[d].accounts)
         /\ behind' \in [Callers -> SUBSET AccountIds]
         /\ PendingWrites'
  BY NoRequestTyped, NotFoundTyped DEF Forget, TypeInv, TypeOK, UniqueInv, PendingWrites

\* Writers fall behind in accounts.
LEMMA FallBehindTyped ==
  ASSUME TypeInv, NEW B \in SUBSET AccountIds, FallBehind(B)
  PROVE  behind' \in [Callers -> SUBSET AccountIds]
  BY DEF FallBehind, TypeInv, TypeOK

\* The initial state satisfies the type invariant.
LEMMA TypeInvInit == Init => TypeInv
<1>. SUFFICES ASSUME Init PROVE TypeInv
  OBVIOUS
<1>1. store \in Reading /\ UniqueIn(store.accounts)
  BY FirstStores, NotFoundTyped DEF Init
<1>. QED
  BY <1>1, NoRequestTyped, NotFoundTyped
  DEF Init, TypeInv, TypeOK, UniqueInv, PendingWrites

\* Every step keeps the type invariant.
LEMMA TypeInvStep == TypeInv /\ [Next]_vars => TypeInv'
<1>. SUFFICES ASSUME TypeInv, [Next]_vars PROVE TypeInv'
  OBVIOUS
<1>. USE DEF TypeInv
<1>1. ASSUME NEW c \in Callers, NEW q \in NewRequest, GetFromCache(c, q)
      PROVE  TypeInv'
  <2>1. q \in Request
    BY NewRequestTyped
  <2>2. /\ reply' \subseteq [to : Callers, outcome : {"ok", "error"}, accounts : Bucket]
        /\ \A m \in reply' : UniqueIn(m.accounts)
    <3>1. reply' \subseteq {ReadReply(c, q, r) : r \in cache}
      BY <1>1 DEF GetFromCache
    <3>2. \A r \in cache : r \in Reading /\ UniqueIn(r.accounts)
      BY DEF TypeOK, UniqueInv
    <3>. QED  BY <2>1, <3>1, <3>2, ReplyTyped
  <2>. QED
    BY <1>1, <2>1, <2>2 DEF GetFromCache, TypeOK, UniqueInv, PendingWrites
<1>2. ASSUME NEW c \in Callers, NEW q \in NewRequest, StartWriter(c, q)
      PROVE  TypeInv'
  <2>1. q \in Request /\ q.op \in Writers
    BY <1>2, NewRequestTyped DEF StartWriter
  <2>2. /\ seen' \in [Callers -> Reading] /\ \A d \in Callers : UniqueIn(seen'[d].accounts)
        /\ behind' \in [Callers -> SUBSET AccountIds]
    BY <1>2, ReadTyped DEF StartWriter
  <2>. QED  BY <1>2, <2>1, <2>2 DEF StartWriter, TypeOK, UniqueInv, PendingWrites
<1>3. ASSUME NEW c \in Callers, Load(c)
      PROVE  TypeInv'
  <2>1. /\ seen' \in [Callers -> Reading] /\ \A d \in Callers : UniqueIn(seen'[d].accounts)
        /\ behind' \in [Callers -> SUBSET AccountIds]
    BY <1>3, ReadTyped DEF Load
  <2>. QED  BY <1>3, <2>1 DEF Load, TypeOK, UniqueInv, PendingWrites
<1>4. ASSUME NEW c \in Callers, FinishLoad(c)
      PROVE  TypeInv'
  <2>1. Served(c) \in SUBSET Callers
    BY DEF Served
  <2>2. seen[c] \in Reading /\ UniqueIn(seen[c].accounts)
    BY DEF TypeOK, UniqueInv
  <2>3. \A d \in Served(c) : d \in Callers /\ req[d] \in Request
    BY <2>1 DEF TypeOK
  <2>4. /\ reply' \subseteq [to : Callers, outcome : {"ok", "error"}, accounts : Bucket]
        /\ \A m \in reply' : UniqueIn(m.accounts)
    BY <1>4, <2>2, <2>3, ReplyTyped DEF FinishLoad
  <2>. QED
    BY <1>4, <2>1, <2>2, <2>4, ForgetTyped DEF FinishLoad, TypeOK, UniqueInv
<1>5. ASSUME NEW c \in Callers, RefuseWrite(c)
      PROVE  TypeInv'
  BY <1>5, ForgetTyped DEF RefuseWrite, Answer, TypeOK, UniqueInv, Bucket, UniqueIn
<1>6. ASSUME NEW c \in Callers, Write(c)
      PROVE  TypeInv'
  <2>1. PICK S \in ToSave(req[c], seen[c]) : store' = Found(S)
    BY <1>6 DEF Write
  <2>2. S \in Bucket /\ UniqueIn(S)
    BY <1>6, SavedLists DEF Write, Writing, PendingWrites, TypeOK, UniqueInv
  <2>3. store' \in Reading /\ UniqueIn(store'.accounts)
    BY <2>1, <2>2 DEF Found, Reading
  <2>4. behind[c] \cup {req[c].account.id} \in SUBSET AccountIds
    BY DEF TypeOK, Request, Account
  <2>5. behind' \in [Callers -> SUBSET AccountIds]
    BY <1>6, <2>4, FallBehindTyped DEF Write
  <2>. QED  BY <1>6, <2>3, <2>5 DEF Write, TypeOK, UniqueInv, PendingWrites
<1>7. ASSUME NEW c \in Callers, Invalidate(c)
      PROVE  TypeInv'
  <2>1. cache' = {} /\ missed' \in BOOLEAN
    BY <1>7 DEF Invalidate, InvalidateCache, TypeOK
  <2>2. /\ reply' \subseteq [to : Callers, outcome : {"ok", "error"}, accounts : Bucket]
        /\ \A m \in reply' : UniqueIn(m.accounts)
    BY <1>7 DEF Invalidate, Answer, Bucket, UniqueIn
  <2>3. Forget({c}) /\ UNCHANGED <<store, reloads, reloaded>>
    BY <1>7 DEF Invalidate, Answer
  <2>. QED  BY <2>1, <2>2, <2>3, ForgetTyped DEF TypeOK, UniqueInv
<1>8. CASE Reload
  <2>1. store' \in Reading /\ UniqueIn(store'.accounts)
    BY <1>8, FirstStores DEF Reload
  <2>2. behind' \in [Callers -> SUBSET AccountIds]
    BY <1>8, FallBehindTyped DEF Reload
  <2>. QED  BY <1>8, <2>1, <2>2 DEF Reload, TypeOK, UniqueInv, PendingWrites
<1>9. CASE Notify
  BY <1>9 DEF Notify, InvalidateCache, TypeOK, UniqueInv, PendingWrites
<1>10. CASE UNCHANGED vars
  BY <1>10 DEF vars, TypeOK, UniqueInv, PendingWrites
<1>. QED
  BY <1>1, <1>2, <1>3, <1>4, <1>5, <1>6, <1>7, <1>8, <1>9, <1>10 DEF Next, Step

\* Every variable keeps its type, whatever requests overlap.
THEOREM TypeCorrect == Spec => []TypeOK
<1>1. TypeInv => TypeOK
  BY DEF TypeInv
<1>. QED  BY TypeInvInit, TypeInvStep, <1>1, PTL DEF Spec

\* The keystore and the answers never hold two accounts with one id, although
\* writers save whole lists they read before others wrote.
THEOREM IdsStayUnique == Spec => []UniqueIds
<1>1. TypeInv => UniqueIds
  BY DEF TypeInv, UniqueInv, UniqueIds
<1>. QED  BY TypeInvInit, TypeInvStep, <1>1, PTL DEF Spec

-----------------------------------------------------------------------------
(* The cache. *)

\* Only one caller loads at a time, none while a value is cached, and nobody waits
\* for a load that no caller performs: what the cache is taken to see to.
SingleLoad ==
  /\ \A c, d \in Callers : pc[c] \in {"load", "loaded"} /\ pc[d] \in {"load", "loaded"} => c = d
  /\ cache # {} => ~Loading
  /\ (\E c \in Callers : pc[c] = "wait") => Loading

Fresh == ~missed /\ ~reloaded /\ \A c \in Callers : pc[c] # "invalidate"

\* What a load has read, like what is cached, is current or a failed read,
\* unless an invalidation is still to come or was lost.
LoadsCurrent ==
  Fresh => \A c \in Callers : pc[c] = "loaded" => seen[c] \in {store, NotFound}

CacheInv == SingleLoad /\ CacheCurrent /\ LoadsCurrent

\* The initial state satisfies the cache invariant.
LEMMA CacheInvInit == Init => CacheInv
  BY DEF Init, CacheInv, SingleLoad, CacheCurrent, LoadsCurrent, Loading

\* An invalidation empties the cache; if a load has read by then, it is lost.
LEMMA InvalidationKeeps ==
  ASSUME TypeOK, SingleLoad, InvalidateCache
  PROVE  \/ missed'
         \/ cache' = {} /\ \A c \in Callers : pc[c] # "loaded"
  BY DEF TypeOK, SingleLoad, InvalidateCache, Loading

\* Every step keeps the cache invariant.
LEMMA CacheInvStep == TypeInv /\ CacheInv /\ [Next]_vars => CacheInv'
<1>. SUFFICES ASSUME TypeInv, CacheInv, [Next]_vars PROVE CacheInv'
  OBVIOUS
<1>. USE DEF TypeInv, CacheInv, Fresh
<1>1. ASSUME NEW c \in Callers, NEW q \in NewRequest, GetFromCache(c, q)
      PROVE  CacheInv'
  BY <1>1 DEF GetFromCache, TypeOK, SingleLoad, CacheCurrent, LoadsCurrent, Loading
<1>2. ASSUME NEW c \in Callers, NEW q \in NewRequest, StartWriter(c, q)
      PROVE  CacheInv'
  BY <1>2 DEF StartWriter, ReadKeyStore, Take, TypeOK, SingleLoad, CacheCurrent, LoadsCurrent, Loading
<1>3. ASSUME NEW c \in Callers, Load(c)
      PROVE  CacheInv'
  BY <1>3 DEF Load, ReadKeyStore, Take, TypeOK, SingleLoad, CacheCurrent, LoadsCurrent, Loading
<1>4. ASSUME NEW c \in Callers, FinishLoad(c)
      PROVE  CacheInv'
  <2>1. \A d \in Callers : (pc'[d] = pc[d] /\ seen'[d] = seen[d]) \/ pc'[d] = "idle"
    BY <1>4 DEF FinishLoad, Forget, TypeOK
  <2>2. \A d \in Callers : pc'[d] \notin {"load", "loaded", "wait"}
    BY <1>4 DEF FinishLoad, Forget, Served, TypeOK, SingleLoad
  <2>3. SingleLoad'
    BY <2>2 DEF SingleLoad, Loading
  <2>4. Fresh' => Fresh
    BY <1>4, <2>1 DEF FinishLoad, Forget, Served
  <2>5. CacheCurrent'
    BY <1>4, <2>4 DEF FinishLoad, CacheCurrent, LoadsCurrent
  <2>6. LoadsCurrent'
    BY <2>2 DEF LoadsCurrent
  <2>. QED  BY <2>3, <2>5, <2>6
<1>5. ASSUME NEW c \in Callers, RefuseWrite(c)
      PROVE  CacheInv'
  BY <1>5
  DEF RefuseWrite, Answer, Forget, Writing, TypeOK, SingleLoad, CacheCurrent, LoadsCurrent, Loading
<1>6. ASSUME NEW c \in Callers, Write(c)
      PROVE  CacheInv'
  BY <1>6
  DEF Write, Writing, TypeOK, SingleLoad, CacheCurrent, LoadsCurrent, Loading
<1>7. ASSUME NEW c \in Callers, Invalidate(c)
      PROVE  CacheInv'
  <2>1. \/ missed'
        \/ cache' = {} /\ \A d \in Callers : pc[d] # "loaded"
    BY <1>7, InvalidationKeeps DEF Invalidate
  <2>2. cache' = {} /\ \A d \in Callers : pc'[d] = IF d = c THEN "idle" ELSE pc[d]
    BY <1>7 DEF Invalidate, InvalidateCache, Answer, Forget
  <2>3. SingleLoad'
    BY <1>7, <2>2 DEF Invalidate, SingleLoad, Loading, TypeOK
  <2>. QED  BY <2>1, <2>2, <2>3 DEF CacheCurrent, LoadsCurrent
<1>8. CASE Reload
  BY <1>8 DEF Reload, SingleLoad, CacheCurrent, LoadsCurrent, Loading
<1>9. CASE Notify
  <2>1. \/ missed'
        \/ cache' = {} /\ \A d \in Callers : pc[d] # "loaded"
    BY <1>9, InvalidationKeeps DEF Notify
  <2>2. cache' = {} /\ pc' = pc
    BY <1>9 DEF Notify, InvalidateCache
  <2>. QED  BY <2>1, <2>2 DEF SingleLoad, CacheCurrent, LoadsCurrent, Loading
<1>10. CASE UNCHANGED vars
  BY <1>10 DEF vars, SingleLoad, CacheCurrent, LoadsCurrent, Loading
<1>. QED
  BY <1>1, <1>2, <1>3, <1>4, <1>5, <1>6, <1>7, <1>8, <1>9, <1>10 DEF Next, Step

\* The lost invalidation, the pending one and the failed read are the only ways
\* for the cached list to differ from the stored one.
THEOREM CacheStaysCurrent == Spec => []CacheCurrent
<1>1. CacheInv => CacheCurrent
  BY DEF CacheInv
<1>. QED
  BY TypeInvInit, TypeInvStep, CacheInvInit, CacheInvStep, <1>1, PTL DEF Spec

-----------------------------------------------------------------------------
(* What a step may lose: a writer's reading agrees with the stored list in  *)
(* all accounts but those it is known to be behind in.                      *)

\* Two lists have the same accounts, except of the ids in B.
AgreeBut(B, S, T) == \A i \in AccountIds \ B : WithId(S, i) = WithId(T, i)

BehindInv ==
  \A c \in Callers : pc[c] = "write" => AgreeBut(behind[c], seen[c].accounts, store.accounts)

\* A change leaves other accounts than the one it names alone.
LEMMA ChangesOne ==
  ASSUME NEW q \in Request, q.op \in Writers, NEW r \in Reading, NEW S \in ToSave(q, r),
         NEW i \in AccountIds, i # q.account.id
  PROVE  WithId(S, i) = WithId(r.accounts, i)
<1>. DEFINE a == q.account
            L == r.accounts
<1>1. a \in Account
  BY DEF Request
<1>2. WithId(Others(L, a.id), i) = WithId(L, i)
  BY DEF Others, WithId
<1>3. CASE q.op = "update"
  <2>1. PICK old \in WithId(L, a.id) :
               S = Others(L, a.id) \cup {[a EXCEPT !.version = old.version + 1]}
    BY <1>3 DEF ToSave, UpdatedIn
  <2>2. [a EXCEPT !.version = old.version + 1].id = a.id
    BY <1>1 DEF Account
  <2>. QED  BY <1>2, <2>1, <2>2 DEF WithId
<1>4. CASE q.op = "add"
  BY <1>4 DEF ToSave, AddedTo, WithId
<1>5. CASE q.op = "delete"
  BY <1>2, <1>5 DEF ToSave, DeletedFrom
<1>. QED  BY <1>3, <1>4, <1>5 DEF Writers

\* Who reads agrees with what is stored, or knows nothing.
LEMMA ReadAgrees ==
  ASSUME TypeInv, BehindInv, NEW c \in Callers, ReadKeyStore(c), UNCHANGED store,
         \A d \in Callers : pc'[d] = "write" => d = c \/ pc[d] = "write"
  PROVE  BehindInv'
<1>1. PICK r, B : Take(c, r, B) /\ AgreeBut(B, r.accounts, store.accounts)
  BY DEF ReadKeyStore, AgreeBut
<1>2. ASSUME NEW d \in Callers, pc'[d] = "write"
      PROVE  AgreeBut(behind'[d], seen'[d].accounts, store'.accounts)
  BY <1>1, <1>2 DEF Take, BehindInv, TypeInv, TypeOK
<1>. QED  BY <1>2 DEF BehindInv

\* Where nobody reads or writes, nothing comes to be behind.
LEMMA RestAgrees ==
  ASSUME BehindInv, UNCHANGED store,
         \A d \in Callers : pc'[d] = "write" =>
           pc[d] = "write" /\ seen'[d] = seen[d] /\ behind'[d] = behind[d]
  PROVE  BehindInv'
  BY DEF BehindInv, AgreeBut

\* Others fall behind by what is written, and by what its writer was behind in.
LEMMA WriteAgrees ==
  ASSUME TypeInv, BehindInv, NEW c \in Callers, Write(c)
  PROVE  BehindInv'
<1>. DEFINE q == req[c]
<1>1. PICK S \in ToSave(q, seen[c]) : store' = Found(S)
  BY DEF Write
<1>2. q \in Request /\ q.op \in Writers /\ seen[c] \in Reading /\ pc[c] = "write"
  BY DEF TypeInv, TypeOK, PendingWrites, Write, Writing
<1>3. AgreeBut({q.account.id}, S, seen[c].accounts)
  BY <1>1, <1>2, ChangesOne DEF AgreeBut
<1>4. AgreeBut(behind[c], seen[c].accounts, store.accounts)
  BY <1>2 DEF BehindInv
<1>5. store'.accounts = S
  BY <1>1 DEF Found
<1>6. ASSUME NEW d \in Callers, pc'[d] = "write"
      PROVE  AgreeBut(behind'[d], seen'[d].accounts, store'.accounts)
  <2>1. pc[d] = "write" /\ seen'[d] = seen[d]
    BY <1>6 DEF Write, TypeInv, TypeOK
  <2>2. behind'[d] = behind[d] \cup behind[c] \cup {q.account.id}
    BY <1>6 DEF Write, FallBehind
  <2>3. AgreeBut(behind[d], seen[d].accounts, store.accounts)
    BY <2>1 DEF BehindInv
  <2>. HIDE DEF q
  <2>. QED  BY <1>3, <1>4, <1>5, <2>1, <2>2, <2>3 DEF AgreeBut
<1>. QED  BY <1>6 DEF BehindInv

\* Every step keeps readings as close to the store as behind says.
LEMMA BehindStep == TypeInv /\ BehindInv /\ [Next]_vars => BehindInv'
<1>. SUFFICES ASSUME TypeInv, BehindInv, [Next]_vars PROVE BehindInv'
  OBVIOUS
<1>1. ASSUME NEW c \in Callers, NEW q \in NewRequest, GetFromCache(c, q) PROVE BehindInv'
  BY <1>1, RestAgrees DEF GetFromCache, TypeInv, TypeOK
<1>2. ASSUME NEW c \in Callers, NEW q \in NewRequest, StartWriter(c, q) PROVE BehindInv'
  BY <1>2, ReadAgrees DEF StartWriter, TypeInv, TypeOK
<1>3. ASSUME NEW c \in Callers, Load(c) PROVE BehindInv'
  BY <1>3, ReadAgrees DEF Load, TypeInv, TypeOK
<1>4. ASSUME NEW c \in Callers, FinishLoad(c) \/ RefuseWrite(c) \/ Invalidate(c) PROVE BehindInv'
  <2>1. UNCHANGED store /\ \E D \in SUBSET Callers : Forget(D)
    BY <1>4 DEF FinishLoad, Served, RefuseWrite, Invalidate, Answer
  <2>. QED  BY <2>1, RestAgrees DEF Forget
<1>5. CASE Reload
  BY <1>5 DEF Reload, FallBehind, BehindInv, AgreeBut, TypeInv, TypeOK
<1>6. CASE Notify
  BY <1>6, RestAgrees DEF Notify
<1>7. CASE UNCHANGED vars
  BY <1>7, RestAgrees DEF vars
<1>. QED
  BY <1>1, <1>2, <1>3, <1>4, <1>5, <1>6, <1>7, WriteAgrees DEF Next, Step

\* What is saved is a change of what was read.
LEMMA SavedChanges ==
  ASSUME NEW q \in Request, q.op \in Writers, NEW r \in Reading, NEW S \in ToSave(q, r)
  PROVE  Abstract!Changes(r.accounts, S)
<1>. DEFINE a == q.account
            L == r.accounts
<1>1. a \in Account
  BY DEF Request
<1>2. CASE q.op = "update"
  <2>1. PICK old \in WithId(L, a.id) :
               S = Others(L, a.id) \cup {[a EXCEPT !.version = old.version + 1]}
    BY <1>2 DEF ToSave, UpdatedIn
  <2>2. [a EXCEPT !.version = old.version + 1]
          = [id |-> a.id, version |-> old.version + 1, secret |-> a.secret]
    BY <1>1 DEF Account
  <2>3. old \in L /\ old.id = a.id /\ a.secret \in Secrets
    BY <1>1, <2>1 DEF WithId, Account
  <2>4. Abstract!Others(L, old.id) = Others(L, a.id)
    BY <2>3 DEF Abstract!Others, Others
  <2>5. Abstract!Updates(L, S)
    BY <2>1, <2>2, <2>3, <2>4 DEF Abstract!Updates
  <2>. QED  BY <2>5 DEF Abstract!Changes
<1>3. CASE q.op = "add"
  <2>1. WithId(L, a.id) = {} /\ S = L \cup {a}
    BY <1>3 DEF ToSave, AddedTo
  <2>2. Abstract!WithId(L, a.id) = {}
    BY <2>1 DEF WithId, Abstract!WithId
  <2>3. a \in Abstract!Account
    BY <1>1 DEF Account, Abstract!Account
  <2>4. Abstract!Adds(L, S)
    BY <2>1, <2>2, <2>3 DEF Abstract!Adds
  <2>. QED  BY <2>4 DEF Abstract!Changes
<1>4. CASE q.op = "delete"
  <2>1. WithId(L, a.id) # {} /\ S = Others(L, a.id)
    BY <1>4 DEF ToSave, DeletedFrom
  <2>2. PICK old \in L : old.id = a.id
    BY <2>1 DEF WithId
  <2>3. Abstract!Others(L, old.id) = Others(L, a.id)
    BY <2>2 DEF Abstract!Others, Others
  <2>4. Abstract!Deletes(L, S)
    BY <2>1, <2>2, <2>3 DEF Abstract!Deletes
  <2>. QED  BY <2>4 DEF Abstract!Changes
<1>. QED  BY <1>2, <1>3, <1>4 DEF Writers

\* A write is one change of the stored list if its reading is not behind, and of
\* what was read otherwise.
LEMMA WriteIsChange ==
  ASSUME TypeInv, BehindInv, NEW c \in Callers, Write(c)
  PROVE  Abstract!Change \/ Abstract!Overwrite(seen[c].accounts, behind[c])
<1>. DEFINE R == seen[c].accounts
<1>1. PICK S \in ToSave(req[c], seen[c]) : store' = Found(S)
  BY DEF Write
<1>2. req[c] \in Request /\ req[c].op \in Writers /\ seen[c] \in Reading
  BY DEF TypeInv, TypeOK, PendingWrites, Write, Writing
<1>3. Abstract!Changes(R, S)
  BY <1>1, <1>2, SavedChanges
<1>4. store'.accounts = S /\ UNCHANGED reloads
  BY <1>1 DEF Found, Write
<1>5. AgreeBut(behind[c], R, store.accounts)
  BY DEF BehindInv, Write, Writing
<1>6. CASE behind[c] = {}
  <2>1. \A i \in AccountIds : WithId(R, i) = WithId(store.accounts, i)
    BY <1>5, <1>6 DEF AgreeBut
  <2>2. R \in SUBSET Account /\ store.accounts \in SUBSET Account
    BY <1>2 DEF TypeInv, TypeOK, Reading, Bucket
  <2>3. \A a \in Account : a \in R <=> a \in store.accounts
    BY <2>1 DEF WithId, Account
  <2>4. R = store.accounts
    BY <2>2, <2>3
  <2>. HIDE DEF R
  <2>. QED  BY <1>3, <1>4, <2>4 DEF Abstract!Change
<1>7. CASE behind[c] # {}
  <2>1. \A i \in AccountIds \ behind[c] :
           Abstract!WithId(R, i) = Abstract!WithId(store.accounts, i)
    BY <1>5 DEF AgreeBut, WithId, Abstract!WithId
  <2>. HIDE DEF R
  <2>2. Abstract!Overwrite(R, behind[c])
    BY <1>3, <1>4, <1>7, <2>1 DEF Abstract!Overwrite
  <2>. QED  BY <2>2 DEF R
<1>. QED  BY <1>6, <1>7

\* A step of the store of accounts, or a write by a caller whose reading is behind.
StepOrOverwrite ==
  \/ Abstract!Next
  \/ \E c \in Callers : /\ pc[c] = "write" /\ pc'[c] = "invalidate"
                        /\ Abstract!Overwrite(seen[c].accounts, behind[c])

\* Every other step leaves the accounts alone, or replaces the keystore file.
LEMMA StepLosesOnlyOverlapped ==
  TypeInv /\ BehindInv /\ [Next]_vars => [StepOrOverwrite]_(Abstract!vars)
<1>. SUFFICES ASSUME TypeInv, BehindInv, [Next]_vars
              PROVE  [StepOrOverwrite]_(Abstract!vars)
  OBVIOUS
<1>1. ASSUME NEW c \in Callers, Write(c)
      PROVE  StepOrOverwrite
  <2>1. pc[c] = "write" /\ pc'[c] = "invalidate"
    BY <1>1 DEF Write, Writing, TypeInv, TypeOK
  <2>. QED  BY <1>1, <2>1, WriteIsChange DEF StepOrOverwrite, Abstract!Next
<1>2. CASE Reload
  <2>1. PICK a \in FirstVersions : store' = Found({a})
    BY <1>2 DEF Reload
  <2>2. store'.accounts = {a} /\ a \in Abstract!Account
    BY <2>1 DEF Found, FirstVersions, Abstract!Account
  <2>3. reloads' = reloads + 1
    BY <1>2 DEF Reload
  <2>. QED
    BY <2>2, <2>3 DEF StepOrOverwrite, Abstract!Next, Abstract!Replace, Abstract!UniqueIn
<1>3. ASSUME NEW c \in Callers, NEW q \in NewRequest, GetFromCache(c, q) \/ StartWriter(c, q)
      PROVE  UNCHANGED <<store, reloads>>
  BY <1>3 DEF GetFromCache, StartWriter
<1>4. ASSUME NEW c \in Callers, Load(c) \/ FinishLoad(c) \/ RefuseWrite(c) \/ Invalidate(c)
      PROVE  UNCHANGED <<store, reloads>>
  BY <1>4 DEF Load, FinishLoad, RefuseWrite, Invalidate
<1>5. Notify \/ UNCHANGED vars => UNCHANGED <<store, reloads>>
  BY DEF Notify, vars
<1>. QED
  BY <1>1, <1>2, <1>3, <1>4, <1>5 DEF Next, Step, Abstract!vars

\* However many writers overlap, however often the keystore is reloaded and whichever
\* reads fail: a change is made to the list that is stored, or to one that differs from
\* it in accounts of others only, which is all that a write can lose.
THEOREM OverlapsBoundLosses == Spec => LosesOnlyOverlapped
<1>1. Init => Abstract!Init
  <2>. SUFFICES ASSUME Init PROVE Abstract!Init
    OBVIOUS
  <2>1. TypeInv
    BY TypeInvInit
  <2>2. Abstract!Account = Account
    BY DEF Abstract!Account, Account
  <2>. QED
    BY <2>1, <2>2
    DEF Init, TypeInv, TypeOK, UniqueInv, Reading, Bucket, Abstract!Init, Abstract!UniqueIn, UniqueIn
<1>2. Init => BehindInv
  BY DEF Init, BehindInv
<1>. QED
  BY <1>1, <1>2, TypeInvInit, TypeInvStep, BehindStep, StepLosesOnlyOverlapped, PTL
  DEF Spec, LosesOnlyOverlapped, StepOrOverwrite
=============================================================================
