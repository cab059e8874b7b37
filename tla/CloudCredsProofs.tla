---------------------------- MODULE CloudCredsProofs ----------------------------
(***************************************************************************)
(* Proofs about CloudCreds, for any handlers, names, Beacons, secrets and  *)
(* bounds: types, and the version discipline that holds while no account   *)
(* is deleted, however requests interleave and whatever calls fail.  Then, *)
(* of requests that are served one at a time: that updates without errors  *)
(* are complete, and what deletes leave is reported (with Progress, what a *)
(* request at work has done), and versions with deletes and accounts added *)
(* back (with AllTold).                                                    *)
(***************************************************************************)
EXTENDS CloudCreds, TLAPS

\* What stands for no job is one.
LEMMA NoJobTyped == NoJob \in Job
<1>1. /\ (CHOOSE n \in Names : TRUE) \in Names
      /\ (CHOOSE s \in Secrets : TRUE) \in Secrets
      /\ (CHOOSE b \in Beacons : TRUE) \in Beacons
  BY CredsConstants
<1>. QED  BY <1>1 DEF NoJob, Job, Ops

\* The initial state has its types.
LEMMA TypeInit == Init => TypeOK
  BY NoJobTyped DEF Init, TypeOK, AtMostOne, Rest

\* The local state of handlers.
LocalOK ==
  /\ pc \in [Handlers -> Rest \cup Working]
  /\ job \in [Handlers -> Job]
  /\ mine \in [Handlers -> SUBSET Cred]
  /\ todo \in [Handlers -> SUBSET Beacons]
  /\ listed \in [Handlers -> SUBSET Listing]
  /\ errors \in [Handlers -> SUBSET Beacons]

AnswerOK ==
  answer \subseteq [op : Ops, name : Names, outcome : {"ok", "error"}, errors : SUBSET Beacons]

StoresOK ==
  /\ account \in [Names -> SUBSET Cred] /\ \A n \in Names : AtMostOne(account[n])
  /\ creds \in [Beacons -> [Names -> SUBSET Cred]]
  /\ \A b \in Beacons, n \in Names : AtMostOne(creds[b][n])

\* TypeOK, split by who keeps what.
LEMMA TypeParts == TypeOK <=> StoresOK /\ LocalOK /\ AnswerOK
  BY DEF TypeOK, StoresOK, LocalOK, AnswerOK

\* A handler that forgets its request stays well typed.
LEMMA ForgetTyped ==
  ASSUME LocalOK, NEW h \in Handlers, NEW r \in Rest, Forget(h, r)
  PROVE  LocalOK'
  BY NoJobTyped DEF LocalOK, Forget

\* Ending a request keeps types.
LEMMA FinishTyped ==
  ASSUME LocalOK, NEW h \in Handlers, NEW o \in {"ok", "error"}, NEW F \in SUBSET Beacons,
         Finish(h, o, F)
  PROVE  LocalOK' /\ AnswerOK'
<1>1. job[h].op \in Ops /\ job[h].name \in Names
  BY DEF LocalOK, Job
<1>2. LocalOK'
  BY ForgetTyped DEF Finish, Rest
<1>. QED  BY <1>1, <1>2 DEF AnswerOK, Finish

\* Sending calls keeps the types of what it changes.
LEMMA CallTyped ==
  ASSUME LocalOK, NEW h \in Handlers,
         NEW ph \in Working, NEW B \in SUBSET Beacons,
         Call(h, ph, B)
  PROVE  /\ pc' \in [Handlers -> Rest \cup Working]
         /\ todo' \in [Handlers -> SUBSET Beacons]
         /\ AnswerOK'
  BY DEF LocalOK, AnswerOK, Call

\* Calls go to Beacons.
LEMMA TargetsTyped ==
  ASSUME LocalOK, NEW h \in Handlers PROVE Targets(h) \in SUBSET Beacons
  BY DEF LocalOK, Targets, Listing

\* Receive keeps types.
LEMMA ReceiveTyped ==
  ASSUME TypeOK, NEW h \in Handlers, NEW j \in Requests, Receive(h, j)
  PROVE  TypeOK'
<1>1. j \in Job /\ j.beacon \in Beacons
  BY DEF Requests, Job
<1>2. StoresOK /\ LocalOK
  BY TypeParts
<1>3. \E ph \in Working, B \in SUBSET Beacons : Call(h, ph, B)
  BY <1>1 DEF Receive, Working
<1>4. /\ pc' \in [Handlers -> Rest \cup Working]
      /\ todo' \in [Handlers -> SUBSET Beacons]
      /\ AnswerOK'
  BY <1>2, <1>3, CallTyped
<1>5. job' \in [Handlers -> Job]
  BY <1>1, <1>2 DEF Receive, LocalOK
<1>6. UNCHANGED <<account, creds, mine, listed, errors>>
  BY DEF Receive
<1>7. LocalOK'
  BY <1>2, <1>4, <1>5, <1>6 DEF LocalOK
<1>8. StoresOK'
  BY <1>2, <1>6 DEF StoresOK
<1>. QED  BY <1>4, <1>7, <1>8, TypeParts DEF TypeOK, StoresOK, LocalOK, AnswerOK

\* A handler that goes on to the next phase, or ends, stays well typed.
LEMMA GoesOn ==
  ASSUME LocalOK, NEW h \in Handlers,
         NEW ph \in Working, NEW B \in SUBSET Beacons,
         Call(h, ph, B), mine' \in [Handlers -> SUBSET Cred], UNCHANGED <<job, listed, errors>>
  PROVE  LocalOK' /\ AnswerOK'
<1>1. /\ pc' \in [Handlers -> Rest \cup Working]
      /\ todo' \in [Handlers -> SUBSET Beacons]
      /\ AnswerOK'
  BY CallTyped
<1>. QED  BY <1>1 DEF LocalOK

\* What a Beacon lists is a listing.
LEMMA ListingTyped ==
  ASSUME StoresOK, NEW b \in Beacons, NEW n \in Names
  PROVE  ListingOf(b, n) \subseteq Listing
<1>. DEFINE held == {m \in Names : creds[b][m] # {}}
            first == CHOOSE c \in creds[b][n] : TRUE
<1>1. \A c \in creds[b][n] : c.version \in Nat
  BY DEF StoresOK, Cred
<1>2. n \in held => first.version \in Nat
  BY <1>1
<1>. HIDE DEF first
<1>3. (IF n \in held THEN first.version ELSE 0) \in Nat
  BY <1>2
<1>4. (IF held = {} THEN {n} ELSE held) \subseteq Names
  OBVIOUS
<1>5. ASSUME NEW l \in ListingOf(b, n) PROVE l \in Listing
  <2>1. PICK m \in (IF held = {} THEN {n} ELSE held) :
               l = [beacon |-> b, holds |-> n \in held,
                    version |-> IF n \in held THEN first.version ELSE 0, head |-> m]
    BY <1>5, Zenon DEF ListingOf, first
  <2>2. m \in Names /\ (n \in held) \in BOOLEAN
    BY <1>4, <2>1
  <2>. HIDE DEF held
  <2>. QED  BY <1>3, <2>1, <2>2 DEF Listing
<1>. QED  BY <1>5

\* ListBeacon keeps types.
LEMMA ListBeaconTyped ==
  ASSUME TypeOK, NEW h \in Handlers, NEW b \in Beacons, ListBeacon(h, b)
  PROVE  TypeOK'
<1>1. StoresOK /\ LocalOK
  BY TypeParts
<1>2. job[h].name \in Names
  BY <1>1 DEF LocalOK, Job
<1>3. listed' \in [Handlers -> SUBSET Listing]
  BY <1>1, <1>2, ListingTyped DEF ListBeacon, LocalOK
<1>4. /\ errors' \in [Handlers -> SUBSET Beacons]
      /\ todo' \in [Handlers -> SUBSET Beacons]
  BY <1>1 DEF ListBeacon, LocalOK
<1>5. UNCHANGED <<account, creds, pc, job, mine>> /\ answer' = {}
  BY DEF ListBeacon
<1>6. LocalOK'
  BY <1>1, <1>3, <1>4, <1>5 DEF LocalOK
<1>7. StoresOK'
  BY <1>1, <1>5 DEF StoresOK
<1>. QED  BY <1>5, <1>6, <1>7 DEF TypeOK, StoresOK, LocalOK

\* FindBeacons keeps types.
LEMMA FindTyped ==
  ASSUME TypeOK, NEW h \in Handlers, FindBeacons(h)
  PROVE  TypeOK'
<1>1. StoresOK /\ LocalOK /\ mine \in [Handlers -> SUBSET Cred]
  BY TypeParts DEF LocalOK
<1>2. \/ \E o \in {"ok", "error"} : Finish(h, o, Beacons)
      \/ Call(h, "list", Beacons) /\ UNCHANGED <<job, mine, listed, errors>>
  BY DEF FindBeacons, GiveUp
<1>3. LocalOK' /\ AnswerOK'
  BY <1>1, <1>2, FinishTyped, GoesOn DEF Working
<1>4. StoresOK'
  BY <1>1 DEF StoresOK, FindBeacons
<1>. QED  BY <1>3, <1>4 DEF TypeOK, StoresOK, LocalOK, AnswerOK

\* NeverAnswered keeps types.
LEMMA NeverTyped ==
  ASSUME TypeOK, NEW h \in Handlers, NeverAnswered(h)
  PROVE  TypeOK'
<1>1. StoresOK /\ LocalOK
  BY TypeParts
<1>2. LocalOK'
  BY <1>1, ForgetTyped DEF NeverAnswered, Rest
<1>3. StoresOK' /\ AnswerOK'
  BY <1>1 DEF StoresOK, AnswerOK, NeverAnswered
<1>. QED  BY <1>2, <1>3 DEF TypeOK, StoresOK, LocalOK, AnswerOK

\* ListDone keeps types.
LEMMA ListDoneTyped ==
  ASSUME TypeOK, NEW h \in Handlers, ListDone(h)
  PROVE  TypeOK'
<1>1. StoresOK /\ LocalOK
  BY TypeParts
<1>2. UNCHANGED <<account, creds>>
  BY DEF ListDone
<1>3. \/ \E o \in {"ok", "error"} : Finish(h, o, Beacons)
      \/ \E ph \in Working, B \in SUBSET Beacons :
            Call(h, ph, B) /\ UNCHANGED <<job, mine, listed, errors>>
  BY <1>1, TargetsTyped DEF ListDone, GiveUp, Working
<1>4. mine \in [Handlers -> SUBSET Cred]
  BY <1>1 DEF LocalOK
<1>5. LocalOK' /\ AnswerOK'
  BY <1>1, <1>3, <1>4, FinishTyped, GoesOn
<1>6. StoresOK'
  BY <1>1, <1>2 DEF StoresOK
<1>. QED  BY <1>5, <1>6 DEF TypeOK, StoresOK, LocalOK, AnswerOK

\* A keystore in which one name gets an account, or loses it.
LEMMA AccountSet ==
  ASSUME StoresOK, NEW n \in Names, NEW S \in SUBSET Cred, AtMostOne(S),
         account' = [account EXCEPT ![n] = S], UNCHANGED creds
  PROVE  StoresOK'
  BY DEF StoresOK, AtMostOne

\* What a request writes to the keystore is an account.
LEMMA AccountsWritten ==
  ASSUME TypeOK, NEW h \in Handlers
  PROVE  /\ \A v \in Heard(h) : [version |-> v + 1, secret |-> job[h].secret] \in Cred
         /\ \A old \in account[job[h].name] : Updated(old, job[h].secret) \in Cred
<1>1. job[h].secret \in Secrets /\ job[h].name \in Names
  BY DEF TypeOK, Job
<1>2. \A v \in Heard(h) : v \in Nat
  BY DEF Heard, TypeOK, Listing
<1>3. \A old \in account[job[h].name] : old.version \in Nat
  BY <1>1 DEF TypeOK, Cred
<1>. QED  BY <1>1, <1>2, <1>3 DEF Cred, Updated

\* AddAccount keeps types.
LEMMA AddTyped ==
  ASSUME TypeOK, NEW h \in Handlers, AddAccount(h)
  PROVE  TypeOK'
<1>1. StoresOK /\ LocalOK /\ job[h].name \in Names
  BY TypeParts DEF LocalOK, Job
<1>2. \/ UNCHANGED account
      \/ \E a \in Cred : account' = [account EXCEPT ![job[h].name] = {a}]
  BY AccountsWritten DEF AddAccount
<1>3. UNCHANGED creds /\ \E o \in {"ok", "error"} : Finish(h, o, {})
  BY DEF AddAccount
<1>4. LocalOK' /\ AnswerOK'
  BY <1>1, <1>3, FinishTyped
<1>5. StoresOK'
  <2>1. CASE UNCHANGED account
    BY <1>1, <1>3, <2>1 DEF StoresOK
  <2>2. ASSUME NEW a \in Cred, account' = [account EXCEPT ![job[h].name] = {a}]
        PROVE  StoresOK'
    <3>1. AtMostOne({a})
      BY DEF AtMostOne
    <3>. QED  BY <1>1, <1>3, <2>2, <3>1, AccountSet
  <2>. QED  BY <1>2, <2>1, <2>2
<1>. QED  BY <1>4, <1>5 DEF TypeOK, StoresOK, LocalOK, AnswerOK

\* UpdateAccount keeps types.
LEMMA UpdateTyped ==
  ASSUME TypeOK, NEW h \in Handlers, UpdateAccount(h)
  PROVE  TypeOK'
<1>1. StoresOK /\ LocalOK /\ job[h].name \in Names
  BY TypeParts DEF LocalOK, Job
<1>2. UNCHANGED creds
  BY DEF UpdateAccount
<1>3. CASE Finish(h, "error", {}) /\ UNCHANGED account
  <2>1. LocalOK' /\ AnswerOK'
    BY <1>1, <1>3, FinishTyped
  <2>2. StoresOK'
    BY <1>1, <1>2, <1>3 DEF StoresOK
  <2>. QED  BY <2>1, <2>2 DEF TypeOK, StoresOK, LocalOK, AnswerOK
<1>4. ASSUME NEW old \in account[job[h].name],
             account' = [account EXCEPT ![job[h].name] = {Updated(old, job[h].secret)}],
             mine' = [mine EXCEPT ![h] = {Updated(old, job[h].secret)}],
             Call(h, "beacons", {}), UNCHANGED <<job, listed, errors>>
      PROVE  TypeOK'
  <2>. DEFINE new == Updated(old, job[h].secret)
  <2>1. new \in Cred
    BY AccountsWritten
  <2>2. AtMostOne({new})
    BY DEF AtMostOne
  <2>. HIDE DEF new
  <2>3. account' = [account EXCEPT ![job[h].name] = {new}] /\ mine' = [mine EXCEPT ![h] = {new}]
    BY <1>4 DEF new
  <2>4. StoresOK'
    BY <1>1, <1>2, <2>1, <2>2, <2>3, AccountSet
  <2>5. mine' \in [Handlers -> SUBSET Cred]
    BY <1>1, <2>1, <2>3 DEF LocalOK
  <2>6. LocalOK' /\ AnswerOK'
    BY <1>1, <1>4, <2>5, GoesOn DEF Working
  <2>. QED  BY <2>4, <2>6 DEF TypeOK, StoresOK, LocalOK, AnswerOK
<1>. QED  BY <1>3, <1>4 DEF UpdateAccount

\* ReadAccount keeps types.
LEMMA ReadTyped ==
  ASSUME TypeOK, NEW h \in Handlers, ReadAccount(h)
  PROVE  TypeOK'
<1>1. StoresOK /\ LocalOK /\ job[h].name \in Names /\ job[h].beacon \in Beacons
  BY TypeParts DEF LocalOK, Job
<1>2. UNCHANGED <<account, creds>>
  BY DEF ReadAccount
<1>3. StoresOK'
  BY <1>1, <1>2 DEF StoresOK
<1>4. \/ Finish(h, "error", {})
      \/ /\ mine' = [mine EXCEPT ![h] = account[job[h].name]]
         /\ \E ph \in Working, B \in SUBSET Beacons : Call(h, ph, B)
         /\ UNCHANGED <<job, listed, errors>>
  BY <1>1 DEF ReadAccount, Working
<1>5. account[job[h].name] \in SUBSET Cred
  BY <1>1 DEF StoresOK
<1>6. mine' = [mine EXCEPT ![h] = account[job[h].name]] => mine' \in [Handlers -> SUBSET Cred]
  BY <1>1, <1>5 DEF LocalOK
<1>7. LocalOK' /\ AnswerOK'
  BY <1>1, <1>4, <1>6, FinishTyped, GoesOn
<1>. QED  BY <1>3, <1>7 DEF TypeOK, StoresOK, LocalOK, AnswerOK

\* DeleteAccount keeps types.
LEMMA DeleteTyped ==
  ASSUME TypeOK, NEW h \in Handlers, DeleteAccount(h)
  PROVE  TypeOK'
<1>1. StoresOK /\ LocalOK /\ job[h].name \in Names /\ mine \in [Handlers -> SUBSET Cred]
  BY TypeParts DEF LocalOK, Job
<1>2. UNCHANGED creds /\ (account' = [account EXCEPT ![job[h].name] = {}] \/ UNCHANGED account)
  BY DEF DeleteAccount
<1>3. \/ Finish(h, "error", {})
      \/ Call(h, "push", Targets(h)) /\ UNCHANGED <<job, mine, listed, errors>>
  BY DEF DeleteAccount
<1>4. LocalOK' /\ AnswerOK'
  BY <1>1, <1>3, TargetsTyped, FinishTyped, GoesOn DEF Working
<1>5. StoresOK'
  <2>1. CASE UNCHANGED account
    BY <1>1, <1>2, <2>1 DEF StoresOK
  <2>2. CASE account' = [account EXCEPT ![job[h].name] = {}]
    <3>1. {} \in SUBSET Cred /\ AtMostOne({})
      BY DEF AtMostOne
    <3>. QED  BY <1>1, <1>2, <2>2, <3>1, AccountSet
  <2>. QED  BY <1>2, <2>1, <2>2
<1>. QED  BY <1>4, <1>5 DEF TypeOK, StoresOK, LocalOK, AnswerOK

\* Lookup keeps types.
LEMMA LookupTyped ==
  ASSUME TypeOK, NEW h \in Handlers, Lookup(h)
  PROVE  TypeOK'
<1>1. StoresOK /\ LocalOK /\ job[h].beacon \in Beacons /\ mine \in [Handlers -> SUBSET Cred]
  BY TypeParts DEF LocalOK, Job
<1>2. UNCHANGED <<account, creds>>
  BY DEF Lookup
<1>3. \/ \E o \in {"ok", "error"}, F \in SUBSET Beacons : Finish(h, o, F)
      \/ Call(h, "account", {}) /\ UNCHANGED <<job, mine, listed, errors>>
  BY <1>1 DEF Lookup
<1>4. LocalOK' /\ AnswerOK'
  BY <1>1, <1>3, FinishTyped, GoesOn DEF Working
<1>5. StoresOK'
  BY <1>1, <1>2 DEF StoresOK
<1>. QED  BY <1>4, <1>5 DEF TypeOK, StoresOK, LocalOK, AnswerOK

\* PushDone keeps types.
LEMMA PushDoneTyped ==
  ASSUME TypeOK, NEW h \in Handlers, PushDone(h)
  PROVE  TypeOK'
<1>1. StoresOK /\ LocalOK /\ errors[h] \in SUBSET Beacons
  BY TypeParts DEF LocalOK
<1>2. UNCHANGED <<account, creds>> /\ \E o \in {"ok", "error"} : Finish(h, o, errors[h])
  BY DEF PushDone
<1>3. LocalOK' /\ AnswerOK'
  BY <1>1, <1>2, FinishTyped
<1>4. StoresOK'
  BY <1>1, <1>2 DEF StoresOK
<1>. QED  BY <1>3, <1>4 DEF TypeOK, StoresOK, LocalOK, AnswerOK

-----------------------------------------------------------------------------
(* What a handler took from the keystore is one account of the name it was *)
(* asked about: what it pushes is a copy of that.                           *)

MineOK ==
  \A h \in Handlers : AtMostOne(mine[h]) /\ (pc[h] \in Rest => mine[h] = {})

\* What a call to a Beacon leaves there: a copy of what the handler took, or
\* one copy less.
LEMMA EffectIs ==
  ASSUME TypeOK, NEW h \in Handlers, NEW b \in Beacons, NEW c \in Effect(h, b)
  PROVE  \E n \in Names :
           \/ c = [creds[b] EXCEPT ![n] = {}]
           \/ n = job[h].name /\ c = [creds[b] EXCEPT ![n] = mine[h]]
<1>1. job[h].name \in Names /\ \A l \in listed[h] : l.head \in Names
  BY DEF TypeOK, Job, Listing
<1>. QED  BY <1>1 DEF Effect, Replacing, DeletedName

\* PushBeacon keeps types.
LEMMA PushTyped ==
  ASSUME TypeOK, MineOK, NEW h \in Handlers, NEW b \in Beacons, PushBeacon(h, b)
  PROVE  TypeOK'
<1>1. StoresOK /\ LocalOK /\ mine[h] \in SUBSET Cred /\ AtMostOne(mine[h])
  BY TypeParts DEF LocalOK, MineOK
<1>2. /\ errors' \in [Handlers -> SUBSET Beacons]
      /\ todo' \in [Handlers -> SUBSET Beacons]
  BY <1>1 DEF PushBeacon, LocalOK, Failed
<1>3. UNCHANGED <<account, pc, job, mine, listed>> /\ answer' = {}
  BY DEF PushBeacon
<1>4. LocalOK'
  BY <1>1, <1>2, <1>3 DEF LocalOK
<1>5. StoresOK'
  <2>1. CASE UNCHANGED creds
    BY <1>1, <1>3, <2>1 DEF StoresOK
  <2>2. ASSUME NEW c \in Effect(h, b), creds' = [creds EXCEPT ![b] = c]
        PROVE  StoresOK'
    <3>1. PICK n \in Names : \/ c = [creds[b] EXCEPT ![n] = {}]
                             \/ c = [creds[b] EXCEPT ![n] = mine[h]]
      BY EffectIs
    <3>2. c \in [Names -> SUBSET Cred] /\ \A m \in Names : AtMostOne(c[m])
      BY <1>1, <3>1 DEF StoresOK, AtMostOne
    <3>. QED  BY <1>1, <1>3, <2>2, <3>2 DEF StoresOK
  <2>. QED  BY <2>1, <2>2 DEF PushBeacon
<1>. QED  BY <1>3, <1>4, <1>5 DEF TypeOK, StoresOK, LocalOK

\* What steps do to what a handler took.
LEMMA MineStep ==
  ASSUME TypeOK, MineOK, [Next]_vars
  PROVE  MineOK'
<1>7. ASSUME NEW h \in Handlers, NEW r, Forget(h, r) PROVE MineOK'
  BY <1>7 DEF MineOK, TypeOK, Forget, AtMostOne
<1>1. ASSUME NEW h \in Handlers, NEW o, NEW F, Finish(h, o, F)
      PROVE  MineOK'
  BY <1>1, <1>7 DEF Finish
<1>2. ASSUME NEW h \in Handlers, NEW ph \in Working, NEW B,
             Call(h, ph, B), UNCHANGED mine
      PROVE  MineOK'
  BY <1>2 DEF MineOK, TypeOK, Call, Rest, Working
<1>3. ASSUME NEW h \in Handlers, NEW ph \in Working, NEW B, NEW S,
             Call(h, ph, B), AtMostOne(S), mine' = [mine EXCEPT ![h] = S]
      PROVE  MineOK'
  BY <1>3 DEF MineOK, TypeOK, Call, Rest, Working
<1>4. ASSUME UNCHANGED <<pc, mine>> PROVE MineOK'
  BY <1>4 DEF MineOK
<1>5. ASSUME NEW h \in Handlers, NEW j \in Requests, Receive(h, j) PROVE MineOK'
  BY <1>2, <1>5 DEF Receive, Working
<1>6. ASSUME NEW h \in Handlers, Step(h) PROVE MineOK'
  <2>1. CASE \E b \in Beacons : ListBeacon(h, b) \/ PushBeacon(h, b)
    BY <1>4, <2>1 DEF ListBeacon, PushBeacon
  <2>2. CASE ListDone(h)
    BY <1>1, <1>2, <2>2 DEF ListDone, GiveUp, Working
  <2>9. CASE FindBeacons(h) \/ NeverAnswered(h)
    BY <1>1, <1>2, <1>7, <2>9 DEF FindBeacons, GiveUp, NeverAnswered, Working
  <2>3. CASE Lookup(h)
    BY <1>1, <1>2, <2>3 DEF Lookup, Working
  <2>4. CASE PushDone(h)
    BY <1>1, <2>4 DEF PushDone
  <2>5. CASE AddAccount(h)
    BY <1>1, <2>5 DEF AddAccount
  <2>6. CASE UpdateAccount(h)
    <3>1. \A x : AtMostOne({x})
      BY DEF AtMostOne
    <3>. QED  BY <1>1, <1>3, <2>6, <3>1 DEF UpdateAccount, Working
  <2>7. CASE ReadAccount(h)
    <3>1. AtMostOne(account[job[h].name])
      BY DEF TypeOK, Job
    <3>. QED  BY <1>1, <1>3, <2>7, <3>1 DEF ReadAccount, Working
  <2>8. CASE DeleteAccount(h)
    BY <1>1, <1>2, <2>8 DEF DeleteAccount, Working
  <2>. QED  BY <1>6, <2>1, <2>2, <2>3, <2>4, <2>5, <2>6, <2>7, <2>8, <2>9 DEF Step
<1>. QED  BY <1>4, <1>5, <1>6 DEF Next, vars

\* Every step keeps types.
LEMMA TypeStep ==
  ASSUME TypeOK, MineOK, [Next]_vars
  PROVE  TypeOK'
<1>1. CASE UNCHANGED vars
  BY <1>1 DEF vars, TypeOK
<1>2. ASSUME NEW h \in Handlers, NEW j \in Requests, Receive(h, j) PROVE TypeOK'
  BY <1>2, ReceiveTyped
<1>3. ASSUME NEW h \in Handlers, Step(h) PROVE TypeOK'
  BY <1>3, ListBeaconTyped, PushTyped, FindTyped, NeverTyped, ListDoneTyped,
     LookupTyped, PushDoneTyped, AddTyped, UpdateTyped, ReadTyped, DeleteTyped DEF Step
<1>. QED  BY <1>1, <1>2, <1>3 DEF Next

\* Nothing is taken initially.
LEMMA MineInit == Init => MineOK
  BY DEF Init, MineOK, AtMostOne

\* Every state has its types: in particular the keystore and every Beacon hold
\* at most one credential of a name, whatever the requests in flight do.
THEOREM TypeCorrect == Spec => []TypeOK
<1>1. TypeOK /\ MineOK /\ [Next]_vars => TypeOK' /\ MineOK'
  BY TypeStep, MineStep
<1>. QED  BY <1>1, TypeInit, MineInit, PTL DEF Spec

-----------------------------------------------------------------------------
(* Versions, while nobody deletes accounts.                                 *)

\* c is the account of n as it is or as it was in an older version.
Known(c, n) == \E a \in account[n] : c.version <= a.version /\ (InSync(c, a) => c = a)

NobodyDeletes == \A h \in Handlers : job[h].op # "delete"

CopiesKnown == \A b \in Beacons, n \in Names : \A c \in creds[b][n] : Known(c, n)

TakenKnown == \A h \in Handlers : \A c \in mine[h] : Known(c, job[h].name)

KnownOK == NobodyDeletes /\ CopiesKnown /\ TakenKnown

\* Accounts stay, and change only together with their version.
AccountsGrow ==
  \A n \in Names : \A a \in account[n] :
     \E new \in account'[n] : new = a \/ a.version < new.version

\* Every step lets accounts grow while nobody deletes.
LEMMA GrowStep ==
  ASSUME TypeOK, NobodyDeletes, [Next]_vars
  PROVE  AccountsGrow
<1>1. ASSUME UNCHANGED account PROVE AccountsGrow
  BY <1>1 DEF AccountsGrow
<1>2. ASSUME NEW h \in Handlers, AddAccount(h) PROVE AccountsGrow
  <2>1. job[h].name \in Names
    BY DEF TypeOK, Job
  <2>2. \/ /\ account[job[h].name] = {}
           /\ \A n \in Names \ {job[h].name} : account'[n] = account[n]
        \/ UNCHANGED account
    BY <1>2, <2>1 DEF AddAccount, TypeOK
  <2>. QED  BY <1>1, <2>2 DEF AccountsGrow
<1>3. ASSUME NEW h \in Handlers, UpdateAccount(h) PROVE AccountsGrow
  <2>1. job[h].name \in Names
    BY DEF TypeOK, Job
  <2>2. ASSUME NEW old \in account[job[h].name],
               account' = [account EXCEPT ![job[h].name] = {Updated(old, job[h].secret)}]
        PROVE  AccountsGrow
    <3>1. account[job[h].name] = {old} /\ old.version \in Nat
      BY <2>1 DEF TypeOK, AtMostOne, Cred
    <3>2. Updated(old, job[h].secret).version = old.version + 1
      BY DEF Updated
    <3>3. /\ account'[job[h].name] = {Updated(old, job[h].secret)}
          /\ \A n \in Names \ {job[h].name} : account'[n] = account[n]
      BY <2>1, <2>2 DEF TypeOK
    <3>4. old.version < Updated(old, job[h].secret).version
      BY <3>1, <3>2
    <3>. QED  BY <3>1, <3>3, <3>4 DEF AccountsGrow
  <2>. QED  BY <1>1, <1>3, <2>2 DEF UpdateAccount
<1>4. ASSUME NEW h \in Handlers, NEW j \in Requests, Receive(h, j) PROVE UNCHANGED account
  BY <1>4 DEF Receive
<1>5. ASSUME NEW h \in Handlers, Step(h) PROVE AccountsGrow
  <2>1. ~DeleteAccount(h)
    BY DEF NobodyDeletes, DeleteAccount
  <2>2. ASSUME ~AddAccount(h), ~UpdateAccount(h) PROVE UNCHANGED account
    BY <1>5, <2>1, <2>2
       DEF Step, ListBeacon, PushBeacon, FindBeacons, NeverAnswered, ListDone, Lookup, PushDone,
       ReadAccount
  <2>. QED  BY <1>1, <1>2, <1>3, <2>2
<1>. QED  BY <1>1, <1>4, <1>5 DEF Next, vars

\* What was known stays known when accounts grow.
LEMMA KnownStays ==
  ASSUME TypeOK, TypeOK', AccountsGrow, NEW n \in Names, NEW c \in Cred, Known(c, n)
  PROVE  Known(c, n)'
<1>1. PICK a \in account[n] : c.version <= a.version /\ (InSync(c, a) => c = a)
  BY DEF Known
<1>2. PICK new \in account'[n] : new = a \/ a.version < new.version
  BY DEF AccountsGrow
<1>3. c.version \in Nat /\ a.version \in Nat /\ new.version \in Nat
  BY DEF TypeOK, Cred
<1>4. c.version <= new.version /\ (c.version = new.version => c = new)
  BY <1>1, <1>2, <1>3 DEF InSync
<1>. QED  BY <1>4 DEF Known, InSync

\* No request deletes when none that deletes is accepted.
LEMMA NobodyDeletesStep ==
  ASSUME "delete" \notin Requested, TypeOK, NobodyDeletes, [Next]_vars
  PROVE  NobodyDeletes'
<1>1. ASSUME UNCHANGED job PROVE NobodyDeletes'
  BY <1>1 DEF NobodyDeletes
<1>2. ASSUME NEW h \in Handlers, NEW r, Forget(h, r) PROVE NobodyDeletes'
  BY <1>2 DEF NobodyDeletes, TypeOK, Forget, NoJob
<1>3. ASSUME NEW h \in Handlers, NEW j \in Requests, Receive(h, j) PROVE NobodyDeletes'
  BY <1>3 DEF NobodyDeletes, TypeOK, Receive
<1>4. ASSUME NEW h \in Handlers, Step(h) PROVE NobodyDeletes'
  BY <1>1, <1>2, <1>4 DEF Step, ListBeacon, PushBeacon, FindBeacons, NeverAnswered, GiveUp, Finish,
     ListDone, Lookup, PushDone, AddAccount, UpdateAccount, ReadAccount, DeleteAccount
<1>. QED  BY <1>1, <1>3, <1>4 DEF Next, vars

\* Beacons are given what handlers took.
LEMMA CopiesStep ==
  ASSUME TypeOK, TypeOK', KnownOK, AccountsGrow, [Next]_vars
  PROVE  CopiesKnown'
<1>1. \A b \in Beacons, n \in Names : creds'[b][n] \subseteq Cred
  BY DEF TypeOK
<1>2. ASSUME NEW b \in Beacons, NEW n \in Names, NEW c \in creds'[b][n]
      PROVE  c \in creds[b][n] \/ \E h \in Handlers : n = job[h].name /\ c \in mine[h]
  <2>1. ASSUME NEW h \in Handlers, NEW d \in Beacons, NEW e \in Effect(h, d),
               creds' = [creds EXCEPT ![d] = e]
        PROVE  c \in creds[b][n] \/ (n = job[h].name /\ c \in mine[h])
    <3>1. PICK m \in Names : \/ e = [creds[d] EXCEPT ![m] = {}]
                             \/ m = job[h].name /\ e = [creds[d] EXCEPT ![m] = mine[h]]
      BY EffectIs
    <3>5. creds[d] \in [Names -> SUBSET Cred]
      BY DEF TypeOK
    <3>2. \/ e[n] = creds[d][n]
          \/ n = m /\ e[n] = {}
          \/ n = job[h].name /\ e[n] = mine[h]
      <4>1. CASE n = m
        BY <3>1, <3>5, <4>1
      <4>2. CASE n # m
        BY <3>1, <3>5, <4>2
      <4>. QED  BY <4>1, <4>2
    <3>3. creds'[b][n] = IF b = d THEN e[n] ELSE creds[b][n]
      BY <2>1 DEF TypeOK
    <3>. QED  BY <1>2, <3>2, <3>3
  <2>2. \/ UNCHANGED creds
        \/ \E h \in Handlers, d \in Beacons : \E e \in Effect(h, d) : creds' = [creds EXCEPT ![d] = e]
    BY ZenonT(30) DEF Next, vars, Receive, Step, ListBeacon, PushBeacon, FindBeacons, NeverAnswered,
       ListDone, Lookup, PushDone, AddAccount, UpdateAccount, ReadAccount, DeleteAccount
  <2>. QED  BY <1>2, <2>1, <2>2
<1>3. ASSUME NEW b \in Beacons, NEW n \in Names, NEW c \in creds'[b][n] PROVE Known(c, n)
  BY <1>2 DEF KnownOK, CopiesKnown, TakenKnown
<1>. QED  BY <1>1, <1>3, KnownStays DEF CopiesKnown

\* Handlers take what the keystore holds at that moment, or forget everything.
LEMMA MineFrom ==
  ASSUME TypeOK, TypeOK', MineOK, [Next]_vars, NEW h \in Handlers
  PROVE  \/ mine'[h] = {}
         \/ mine'[h] = mine[h] /\ job'[h] = job[h]
         \/ mine'[h] = account'[job[h].name] /\ job'[h] = job[h]
<1>. DEFINE Goal == \/ mine'[h] = {}
                    \/ mine'[h] = mine[h] /\ job'[h] = job[h]
                    \/ mine'[h] = account'[job[h].name] /\ job'[h] = job[h]
<1>1. ASSUME UNCHANGED <<job, mine>> PROVE Goal
  BY <1>1
<1>5. ASSUME NEW k \in Handlers, NEW r, Forget(k, r) PROVE Goal
  BY <1>5 DEF Forget, TypeOK
<1>2. ASSUME NEW k \in Handlers, NEW o, NEW F, Finish(k, o, F) PROVE Goal
  BY <1>2, <1>5 DEF Finish
<1>3. ASSUME NEW k \in Handlers, NEW j \in Requests, Receive(k, j) PROVE Goal
  BY <1>3 DEF Receive, TypeOK, MineOK
<1>4. ASSUME NEW k \in Handlers, Step(k) PROVE Goal
  <2>1. CASE UpdateAccount(k)
    <3>1. job[k].name \in Names
      BY DEF TypeOK, Job
    <3>. QED  BY ZenonT(30), <1>2, <2>1, <3>1 DEF UpdateAccount, TypeOK
  <2>2. CASE ReadAccount(k)
    BY <1>2, <2>2 DEF ReadAccount, TypeOK
  <2>3. CASE ~UpdateAccount(k) /\ ~ReadAccount(k)
    BY <1>1, <1>2, <1>4, <1>5, <2>3
       DEF Step, ListBeacon, PushBeacon, FindBeacons, NeverAnswered, GiveUp, ListDone, Lookup,
       PushDone, AddAccount, DeleteAccount
  <2>. QED  BY <2>1, <2>2, <2>3
<1>. QED  BY <1>1, <1>3, <1>4 DEF Next, vars

\* What handlers took stays known.
LEMMA TakenStep ==
  ASSUME TypeOK, TypeOK', MineOK, KnownOK, AccountsGrow, [Next]_vars
  PROVE  TakenKnown'
<1>1. ASSUME NEW h \in Handlers, NEW c \in mine'[h], NEW n \in Names, n = job[h].name, job'[h] = job[h]
      PROVE  Known(c, n)'
  <2>1. CASE c \in mine[h]
    <3>1. c \in Cred
      BY <1>1 DEF TypeOK
    <3>2. Known(c, n)
      BY <1>1, <2>1 DEF KnownOK, TakenKnown
    <3>. QED  BY <3>1, <3>2, KnownStays
  <2>2. CASE c \in account'[n]
    <3>1. c.version \in Nat
      BY <2>2 DEF TypeOK, Cred
    <3>. QED  BY <2>2, <3>1 DEF Known, InSync
  <2>. QED  BY <1>1, <2>1, <2>2, MineFrom
<1>2. ASSUME NEW h \in Handlers, NEW c \in mine'[h]
      PROVE  job[h].name \in Names /\ job'[h] = job[h]
  BY <1>2, MineFrom DEF TypeOK, Job
<1>. QED  BY <1>1, <1>2 DEF TakenKnown

\* Initially there is nothing to know.
LEMMA KnownInit == Init => KnownOK
  BY DEF Init, KnownOK, NobodyDeletes, CopiesKnown, TakenKnown, NoJob

\* Everything stays known.
LEMMA KnownStep ==
  ASSUME "delete" \notin Requested, TypeOK, TypeOK', MineOK, KnownOK, [Next]_vars
  PROVE  KnownOK'
<1>1. AccountsGrow
  BY GrowStep DEF KnownOK
<1>. QED  BY <1>1, NobodyDeletesStep, CopiesStep, TakenStep DEF KnownOK

\* When copies are known, versions are enough.
LEMMA KnownTells == TypeOK /\ KnownOK => VersionsTellSecrets
<1>1. ASSUME TypeOK, KnownOK,
             NEW b \in Beacons, NEW n \in Names, NEW c \in creds[b][n], NEW a \in account[n]
      PROVE  c.version <= a.version /\ (InSync(c, a) => c = a)
  <2>1. Known(c, n)
    BY <1>1 DEF KnownOK, CopiesKnown
  <2>. QED  BY <1>1, <2>1 DEF Known, TypeOK, AtMostOne
<1>. QED  BY <1>1 DEF VersionsTellSecrets

\* As long as no account is deleted, no Beacon gets ahead of the keystore and a
\* copy that shows the account's version is the account: no interleaving of
\* updates, syncs and policy provisionings, and no lost or failed call, brings
\* an old secret back under the current version.
THEOREM VersionsAreEnough ==
  ASSUME "delete" \notin Requested
  PROVE  Spec => []VersionsTellSecrets
<1>1. Init => TypeOK /\ MineOK /\ KnownOK
  BY TypeInit, MineInit, KnownInit
<1>2. TypeOK /\ MineOK /\ KnownOK /\ [Next]_vars => TypeOK' /\ MineOK' /\ KnownOK'
  BY TypeStep, MineStep, KnownStep
<1>. QED  BY <1>1, <1>2, KnownTells, PTL DEF Spec

-----------------------------------------------------------------------------
(* Requests one at a time, and no status call lost: what an answer without  *)
(* errors promises, and what deletes leave.  (With requests side by side,   *)
(* or a Beacon left out for want of its status, nothing is promised.)       *)

Serial == \A g, h \in Handlers : g = h

\* The handler has still to hear from the Beacon, or will report it.
Open(h, b) == b \in todo[h] \cup errors[h]

\* A Beacon that holds the name is known to hold it, or is open.
Found(h) ==
  \A b \in Beacons : Open(h, b) \/ creds[b][job[h].name] = {} \/ b \in Targets(h)

\* A Beacon holds nothing else than the account, or is open.
Pushed(h) ==
  \A b \in Beacons : Open(h, b) \/ creds[b][job[h].name] \subseteq account[job[h].name]

\* The credential that Beacon b listed first is gone, which is not the one meant.
OtherGone(h, b) ==
  \E l \in listed[h] : l.beacon = b /\ l.head # job[h].name /\ creds[b][l.head] = {}

\* The account is gone, and at a Beacon the copy, or another one, or it is open.
Cleared(h) ==
  /\ job[h].op = "delete" => account[job[h].name] = {}
  /\ \A b \in Beacons : Open(h, b) \/ creds[b][job[h].name] = {} \/ OtherGone(h, b)

Copies(op) == op \in {"update", "sync"}
Removes(op) == op \in {"delete", "unregister"}

\* What a handler has made sure of in each of its phases.
Progress ==
  \A h \in Handlers :
    /\ pc[h] = "lookup" => job[h].op = "provision"
    /\ pc[h] \in {"beacons", "list", "push"} /\ job[h].op \in {"update", "sync", "provision"} =>
         mine[h] = account[job[h].name]
    /\ pc[h] = "list" => Found(h)
    /\ pc[h] = "account" /\ job[h].op = "delete" => Found(h) /\ todo[h] = {}
    /\ pc[h] = "push" /\ Copies(job[h].op) => Pushed(h)
    /\ pc[h] = "push" /\ Removes(job[h].op) => Cleared(h)

\* No answer promises anything.
LEMMA NoAnswer == answer' = {} => SyncedWhenClean'
  BY DEF SyncedWhenClean

\* A request that rests is in no phase.
LEMMA RestProgress ==
  ASSUME TypeOK, Serial, NEW h \in Handlers, NEW r \in Rest, Forget(h, r)
  PROVE  Progress'
<1>1. \A k \in Handlers : pc'[k] \in {"idle", "hung"}
  BY DEF Serial, Forget, TypeOK, Rest
<1>. QED  BY <1>1 DEF Progress

\* A request that ends leaves no phase, and promises what it has pushed.
LEMMA FinishPromises ==
  ASSUME TypeOK, Serial, NEW h \in Handlers, NEW o, NEW F, Finish(h, o, F),
         UNCHANGED creds,
         Copies(job[h].op) /\ o = "ok" /\ F = {} =>
           /\ UNCHANGED account
           /\ \A b \in Beacons : creds[b][job[h].name] \subseteq account[job[h].name]
  PROVE  Progress' /\ SyncedWhenClean'
<1>1. Progress'
  BY RestProgress DEF Finish, Rest
<1>2. answer' = {[op |-> job[h].op, name |-> job[h].name, outcome |-> o, errors |-> F]}
  BY DEF Finish
<1>3. SyncedWhenClean'
  BY <1>2 DEF SyncedWhenClean, Clean, Copies
<1>. QED  BY <1>1, <1>3

\* What calls do to phases.
LEMMA CallSets ==
  ASSUME TypeOK, Serial, NEW h \in Handlers, NEW ph, NEW B, Call(h, ph, B)
  PROVE  pc'[h] = ph /\ todo'[h] = B /\ SyncedWhenClean' /\ \A k \in Handlers : k = h
  BY NoAnswer DEF Serial, Call, TypeOK

\* A request that comes in has yet to hear from every Beacon.
LEMMA ReceiveProgress ==
  ASSUME TypeOK, Serial, NEW h \in Handlers, NEW j \in Requests, Receive(h, j)
  PROVE  Progress' /\ SyncedWhenClean'
<1>1. job'[h] = j
  BY DEF Receive, TypeOK
<1>2. /\ SyncedWhenClean' /\ \A k \in Handlers : k = h
      /\ \/ pc'[h] = "beacons" /\ j.op \in {"add", "delete", "unregister"}
         \/ pc'[h] = "account" /\ j.op \in {"update", "sync"}
         \/ pc'[h] = "lookup" /\ j.op = "provision"
  BY CallSets DEF Receive
<1>. QED  BY <1>1, <1>2 DEF Progress

\* Once the Beacons are known, each has yet to be heard.
LEMMA FindProgress ==
  ASSUME TypeOK, Serial, Progress, NEW h \in Handlers, FindBeacons(h)
  PROVE  Progress' /\ SyncedWhenClean'
<1>1. pc[h] = "beacons" /\ UNCHANGED <<account, creds>> /\ Beacons # {}
  BY CredsConstants DEF FindBeacons
<1>2. ASSUME GiveUp(h) PROVE Progress' /\ SyncedWhenClean'
  BY <1>1, <1>2, FinishPromises DEF GiveUp
<1>3. ASSUME Call(h, "list", Beacons), UNCHANGED <<job, mine>> PROVE Progress' /\ SyncedWhenClean'
  <2>1. pc'[h] = "list" /\ todo'[h] = Beacons /\ SyncedWhenClean' /\ \A k \in Handlers : k = h
    BY <1>3, CallSets
  <2>2. job[h].op \in {"update", "sync", "provision"} => mine'[h] = account'[job'[h].name]
    BY <1>1, <1>3 DEF Progress
  <2>. QED  BY <1>3, <2>1, <2>2 DEF Progress, Found, Open
<1>. QED  BY <1>2, <1>3 DEF FindBeacons

\* A Beacon lists what it holds.
LEMMA ListingSays ==
  ASSUME NEW b, NEW n \in Names, NEW l \in ListingOf(b, n)
  PROVE  l.beacon = b /\ (creds[b][n] # {} => l.holds)
<1>. DEFINE held == {m \in Names : creds[b][m] # {}}
            version == IF n \in held THEN (CHOOSE c \in creds[b][n] : TRUE).version ELSE 0
<1>1. PICK m : l = [beacon |-> b, holds |-> n \in held, version |-> version, head |-> m]
  BY Zenon DEF ListingOf
<1>2. creds[b][n] # {} => n \in held
  OBVIOUS
<1>. HIDE DEF held, version
<1>. QED  BY <1>1, <1>2

\* A Beacon that lists the name is known to hold it; one that fails is reported.
LEMMA ListBeaconProgress ==
  ASSUME TypeOK, Serial, ~StatusMayFail, Progress,
         NEW h \in Handlers, NEW b \in Beacons, ListBeacon(h, b)
  PROVE  Progress' /\ SyncedWhenClean'
<1>1. /\ pc[h] = "list" /\ UNCHANGED <<account, creds, pc, job, mine>> /\ answer' = {}
      /\ todo'[h] = todo[h] \ {b}
  BY DEF ListBeacon, TypeOK
<1>2. job[h].name \in Names
  BY DEF TypeOK, Job
<1>3. \/ errors'[h] = errors[h] \cup {b} /\ UNCHANGED listed
      \/ \E l \in ListingOf(b, job[h].name) : listed'[h] = listed[h] \cup {l} /\ UNCHANGED errors
  BY DEF ListBeacon, TypeOK
<1>4. ASSUME NEW l \in ListingOf(b, job[h].name)
      PROVE  l.beacon = b /\ (creds[b][job[h].name] # {} => l.holds)
  BY <1>2, ListingSays
<1>5. /\ listed[h] \subseteq listed'[h] /\ errors[h] \subseteq errors'[h]
      /\ b \in errors'[h] \/ creds[b][job[h].name] = {} \/ \E l \in listed'[h] : l.beacon = b /\ l.holds
  BY <1>3, <1>4
<1>6. Found(h)
  BY <1>1 DEF Progress
<1>7. Found(h)'
  BY <1>1, <1>5, <1>6 DEF Found, Open, Targets
<1>8. \A k \in Handlers : k = h
  BY DEF Serial
<1>. QED  BY <1>1, <1>7, <1>8, NoAnswer DEF Progress

\* What was found is what is pushed to.
LEMMA ListDoneProgress ==
  ASSUME TypeOK, Serial, Progress, NEW h \in Handlers, ListDone(h)
  PROVE  Progress' /\ SyncedWhenClean'
<1>1. pc[h] = "list" /\ todo[h] = {} /\ Found(h) /\ UNCHANGED <<account, creds>>
  BY DEF ListDone, Settled, Progress
<1>2. ASSUME GiveUp(h) PROVE Progress' /\ SyncedWhenClean'
  <2>1. Beacons # {}
    BY CredsConstants
  <2>. QED  BY <1>1, <1>2, <2>1, FinishPromises DEF GiveUp
<1>3. ASSUME NEW ph \in {"account", "push"}, NEW B, Call(h, ph, B),
             UNCHANGED <<job, mine, listed, errors>>,
             ph = "account" => B = {} /\ job[h].op \in {"add", "delete"},
             ph = "push" => B = Targets(h) /\ job[h].op \in {"update", "sync", "unregister"}
      PROVE  Progress' /\ SyncedWhenClean'
  <2>1. pc'[h] = ph /\ todo'[h] = B /\ SyncedWhenClean' /\ \A k \in Handlers : k = h
    BY <1>3, CallSets
  <2>2. ph = "account" => Found(h)' /\ todo'[h] = {}
    BY <1>1, <1>3, <2>1 DEF Found, Open, Targets
  <2>3. ph = "push" => Pushed(h)' /\ (job'[h].op = "unregister" => Cleared(h)')
    BY <1>1, <1>3, <2>1 DEF Found, Pushed, Cleared, Open
  <2>4. job[h].op \in {"update", "sync", "provision"} => mine'[h] = account'[job'[h].name]
    BY <1>1, <1>3 DEF Progress
  <2>. QED  BY <1>3, <2>1, <2>2, <2>3, <2>4 DEF Progress, Copies, Removes
<1>. QED  BY <1>2, <1>3 DEF ListDone

\* The steps of the keystore.
LEMMA KeystoreProgress ==
  ASSUME TypeOK, Serial, Progress, NEW h \in Handlers,
         AddAccount(h) \/ UpdateAccount(h) \/ ReadAccount(h) \/ DeleteAccount(h)
  PROVE  Progress' /\ SyncedWhenClean'
<1>1. pc[h] = "account" /\ UNCHANGED creds /\ job[h].name \in Names
  BY DEF AddAccount, UpdateAccount, ReadAccount, DeleteAccount, TypeOK, Job
<1>2. ASSUME NEW o, NEW F, Finish(h, o, F), o = "error" \/ job[h].op = "add"
      PROVE  Progress' /\ SyncedWhenClean'
  BY <1>1, <1>2, FinishPromises DEF Copies
<1>3. ASSUME NEW B, Call(h, "beacons", B), mine'[h] = account'[job[h].name], UNCHANGED job
      PROVE  Progress' /\ SyncedWhenClean'
  <2>1. pc'[h] = "beacons" /\ SyncedWhenClean' /\ \A k \in Handlers : k = h
    BY <1>3, CallSets
  <2>. QED  BY <1>3, <2>1 DEF Progress
<1>4. ASSUME NEW B, Call(h, "push", B), job[h].op = "provision", UNCHANGED job,
             mine'[h] = account'[job[h].name]
      PROVE  Progress' /\ SyncedWhenClean'
  <2>1. pc'[h] = "push" /\ SyncedWhenClean' /\ \A k \in Handlers : k = h
    BY <1>4, CallSets
  <2>. QED  BY <1>4, <2>1 DEF Progress, Copies, Removes
<1>5. ASSUME Call(h, "push", Targets(h)), job[h].op = "delete", UNCHANGED <<job, listed, errors>>,
             account' = [account EXCEPT ![job[h].name] = {}]
      PROVE  Progress' /\ SyncedWhenClean'
  <2>1. pc'[h] = "push" /\ todo'[h] = Targets(h) /\ SyncedWhenClean' /\ \A k \in Handlers : k = h
    BY <1>5, CallSets
  <2>2. Found(h) /\ todo[h] = {}
    BY <1>1, <1>5 DEF Progress
  <2>3. account'[job[h].name] = {}
    BY <1>1, <1>5 DEF TypeOK
  <2>4. Cleared(h)'
    BY <1>1, <1>5, <2>1, <2>2, <2>3 DEF Found, Cleared, Open
  <2>. QED  BY <1>5, <2>1, <2>4 DEF Progress, Copies, Removes
<1>6. CASE AddAccount(h)
  BY <1>2, <1>6 DEF AddAccount
<1>7. CASE UpdateAccount(h)
  <2>1. ASSUME NEW a, account' = [account EXCEPT ![job[h].name] = {a}],
               mine' = [mine EXCEPT ![h] = {a}]
        PROVE  mine'[h] = account'[job[h].name]
    BY <1>1, <2>1 DEF TypeOK
  <2>. QED  BY <1>2, <1>3, <1>7, <2>1 DEF UpdateAccount
<1>8. CASE ReadAccount(h)
  <2>1. mine' = [mine EXCEPT ![h] = account[job[h].name]] => mine'[h] = account'[job[h].name]
    BY <1>8 DEF ReadAccount, TypeOK
  <2>. QED  BY <1>2, <1>3, <1>4, <1>8, <2>1 DEF ReadAccount
<1>9. CASE DeleteAccount(h)
  BY <1>2, <1>5, <1>9 DEF DeleteAccount
<1>. QED  BY <1>6, <1>7, <1>8, <1>9

\* A policy's credential is looked up.
LEMMA LookupProgress ==
  ASSUME TypeOK, Serial, Progress, NEW h \in Handlers, Lookup(h)
  PROVE  Progress' /\ SyncedWhenClean'
<1>1. job[h].op = "provision" /\ UNCHANGED creds
  BY DEF Lookup, Progress
<1>2. ASSUME NEW o, NEW F, Finish(h, o, F) PROVE Progress' /\ SyncedWhenClean'
  BY <1>1, <1>2, FinishPromises DEF Copies
<1>3. ASSUME Call(h, "account", {}), UNCHANGED job PROVE Progress' /\ SyncedWhenClean'
  BY <1>1, <1>3, CallSets DEF Progress
<1>. QED  BY <1>2, <1>3 DEF Lookup

\* A Beacon that took what it was sent holds what it should; one that may not
\* have is reported.
LEMMA PushBeaconProgress ==
  ASSUME TypeOK, Serial, Progress, NEW h \in Handlers, NEW b \in Beacons, PushBeacon(h, b)
  PROVE  Progress' /\ SyncedWhenClean'
<1>. DEFINE n == job[h].name
<1>1. /\ pc[h] = "push" /\ UNCHANGED <<account, pc, job, mine, listed>> /\ answer' = {}
      /\ todo'[h] = todo[h] \ {b} /\ \A k \in Handlers : k = h
  BY DEF PushBeacon, TypeOK, Serial
<1>2. n \in Names /\ creds[b] \in [Names -> SUBSET Cred] /\ \A l \in listed[h] : l.head \in Names
  BY DEF TypeOK, Job, Listing
<1>3. \A d \in Beacons : d # b => creds'[d] = creds[d]
  BY DEF PushBeacon, TypeOK
<1>4. errors[h] \subseteq errors'[h]
  BY DEF PushBeacon, Failed, TypeOK
<1>5. b \in errors'[h] \/ \E c \in Effect(h, b) : creds'[b] = c
  BY DEF PushBeacon, Failed, TypeOK
<1>6. ASSUME Copies(job[h].op), NEW c \in Effect(h, b) PROVE c[n] \subseteq account[n]
  <2>1. c = [creds[b] EXCEPT ![n] = mine[h]]
    BY <1>6 DEF Effect, Replacing, Copies
  <2>2. mine[h] = account[n]
    BY <1>1, <1>6 DEF Progress, Copies
  <2>. QED  BY <1>2, <2>1, <2>2
<1>7. Copies(job[h].op) => Pushed(h)'
  <2>. SUFFICES ASSUME Copies(job[h].op), NEW d \in Beacons
                PROVE  Open(h, d)' \/ creds'[d][n] \subseteq account[n]
    BY <1>1 DEF Pushed
  <2>1. Open(h, d) \/ creds[d][n] \subseteq account[n]
    BY <1>1 DEF Progress, Pushed
  <2>2. CASE d = b
    BY <1>5, <1>6, <2>2 DEF Open
  <2>3. CASE d # b
    BY <1>1, <1>3, <1>4, <2>1, <2>3 DEF Open
  <2>. QED  BY <2>2, <2>3
<1>8. ASSUME Removes(job[h].op), NEW c \in Effect(h, b), creds'[b] = c
      PROVE  creds'[b][n] = {} \/ OtherGone(h, b)'
  <2>1. PICK l \in listed[h] : l.beacon = b /\ c = [creds[b] EXCEPT ![l.head] = {}]
    BY <1>8 DEF Effect, Replacing, DeletedName, Removes
  <2>2. c[l.head] = {}
    BY <1>2, <2>1
  <2>. QED  BY <1>1, <1>8, <2>1, <2>2 DEF OtherGone
<1>9. Removes(job[h].op) => Cleared(h)'
  <2>. SUFFICES ASSUME Removes(job[h].op)
                PROVE  Cleared(h)'
    OBVIOUS
  <2>1. Cleared(h)
    BY <1>1 DEF Progress
  <2>2. ASSUME NEW d \in Beacons
        PROVE  Open(h, d)' \/ creds'[d][n] = {} \/ OtherGone(h, d)'
    <3>1. CASE d = b
      BY <1>5, <1>8, <3>1 DEF Open
    <3>2. CASE d # b
      <4>1. Open(h, d) \/ creds'[d][n] = {} \/ OtherGone(h, d)'
        BY <1>1, <1>3, <2>1, <3>2 DEF Cleared, OtherGone
      <4>. QED  BY <1>1, <1>4, <3>2, <4>1 DEF Open
    <3>. QED  BY <3>1, <3>2
  <2>. QED  BY <1>1, <2>1, <2>2 DEF Cleared
<1>. QED  BY <1>1, <1>7, <1>9, NoAnswer DEF Progress

\* All that was to be pushed has been.
LEMMA PushDoneProgress ==
  ASSUME TypeOK, Serial, Progress, NEW h \in Handlers, PushDone(h)
  PROVE  Progress' /\ SyncedWhenClean'
<1>1. /\ pc[h] = "push" /\ todo[h] = {} /\ UNCHANGED <<account, creds>>
      /\ \E o : Finish(h, o, errors[h])
  BY DEF PushDone, Settled
<1>2. Copies(job[h].op) /\ errors[h] = {} =>
        \A b \in Beacons : creds[b][job[h].name] \subseteq account[job[h].name]
  BY <1>1 DEF Progress, Pushed, Open
<1>. QED  BY <1>1, <1>2, FinishPromises

\* Initially nothing is under way, and nothing was answered.
LEMMA ProgressInit == Init => Progress /\ SyncedWhenClean
  BY DEF Init, Progress, SyncedWhenClean

\* Every step makes the progress that its phase is about.
LEMMA ProgressStep ==
  ASSUME TypeOK, Serial, ~StatusMayFail, Progress, SyncedWhenClean, [Next]_vars
  PROVE  Progress' /\ SyncedWhenClean'
<1>1. CASE UNCHANGED vars
  <2>1. Progress'
    BY <1>1 DEF vars, Progress, Found, Pushed, Cleared, OtherGone, Open, Targets
  <2>2. SyncedWhenClean'
    BY <1>1 DEF vars, SyncedWhenClean, Clean
  <2>. QED  BY <2>1, <2>2
<1>2. ASSUME NEW h \in Handlers, NEW j \in Requests, Receive(h, j) PROVE Progress' /\ SyncedWhenClean'
  BY <1>2, ReceiveProgress
<1>3. ASSUME NEW h \in Handlers, NeverAnswered(h) PROVE Progress' /\ SyncedWhenClean'
  BY <1>3, RestProgress, NoAnswer DEF NeverAnswered, Rest
<1>4. ASSUME NEW h \in Handlers, Step(h) PROVE Progress' /\ SyncedWhenClean'
  BY <1>3, <1>4, FindProgress, ListBeaconProgress, ListDoneProgress, KeystoreProgress, LookupProgress,
     PushBeaconProgress, PushDoneProgress DEF Step
<1>. QED  BY <1>1, <1>2, <1>4 DEF Next

\* What holds of requests one at a time.
SerialInv == TypeOK /\ MineOK /\ Progress /\ SyncedWhenClean

LEMMA SerialHolds ==
  ASSUME Serial, ~StatusMayFail PROVE Spec => []SerialInv
<1>1. Init => SerialInv
  BY TypeInit, MineInit, ProgressInit DEF SerialInv
<1>2. SerialInv /\ [Next]_vars => SerialInv'
  BY TypeStep, MineStep, ProgressStep DEF SerialInv
<1>. QED  BY <1>1, <1>2, PTL DEF Spec

\* Served one at a time, an update or a sync that reports no error has brought
\* every copy of the account, on however many Beacons, to what the keystore
\* holds, whichever calls failed or were lost before: as long as no Beacon was
\* left out because its status was not to be had.
THEOREM SyncsAreComplete ==
  ASSUME Serial, ~StatusMayFail
  PROVE  Spec => []SyncedWhenClean
<1>1. SerialInv => SyncedWhenClean
  BY DEF SerialInv
<1>. QED  BY <1>1, SerialHolds, PTL

\* The step that answers a delete or an unregister is the one after all pushes.
LEMMA LeftoversStep ==
  ASSUME TypeOK, Serial, Progress, Next,
         NEW h \in Handlers, NEW m \in answer',
         pc'[h] # pc[h], Removes(job[h].op), m.outcome = "ok"
  PROVE  /\ job[h].op = "delete" => account'[job[h].name] = {}
         /\ \A b \in Beacons \ m.errors : LeftAt(h, b) => OtherDeletedAt(h, b)
<1>1. PICK k \in Handlers : (\E j \in Requests : Receive(k, j)) \/ Step(k)
  BY DEF Next
<1>2. k = h
  BY DEF Serial
<1>3. ~\E j \in Requests : Receive(h, j)
  BY DEF Receive, Call
<1>4. ~NeverAnswered(h) /\ ~\E b \in Beacons : ListBeacon(h, b) \/ PushBeacon(h, b)
  BY DEF NeverAnswered, ListBeacon, PushBeacon
<1>5. ASSUME NEW o, NEW F, Finish(h, o, F) PROVE o = "ok" /\ F = m.errors
  BY <1>5 DEF Finish
<1>6. ~FindBeacons(h) /\ ~ListDone(h)
  BY <1>5 DEF FindBeacons, ListDone, GiveUp, Call, Removes
<1>7. ~Lookup(h)
  BY DEF Lookup, Progress, Removes
<1>8. ~AddAccount(h) /\ ~UpdateAccount(h) /\ ~ReadAccount(h)
  BY DEF AddAccount, UpdateAccount, ReadAccount, Removes
<1>9. ~DeleteAccount(h)
  BY <1>5 DEF DeleteAccount, Call
<1>10. PushDone(h)
  BY <1>1, <1>2, <1>3, <1>4, <1>6, <1>7, <1>8, <1>9 DEF Step
<1>11. /\ pc[h] = "push" /\ todo[h] = {} /\ UNCHANGED <<account, creds>>
       /\ m.errors = errors[h]
  BY <1>5, <1>10 DEF PushDone, Settled
<1>12. Cleared(h)
  BY <1>11 DEF Progress
<1>. QED  BY <1>11, <1>12 DEF Cleared, Open, OtherGone, LeftAt, OtherDeletedAt

\* Served one at a time, deletes leave no account, and a copy only at a Beacon
\* that is reported or has deleted another credential in its place, on however
\* many Beacons and whichever of their calls fail or lose their answer.
THEOREM DeletesAreReported ==
  ASSUME Serial, ~StatusMayFail
  PROVE  Spec => LeftoversReported
<1>1. SerialInv /\ [Next]_vars =>
        [\A h \in Handlers, m \in answer' :
           pc'[h] # pc[h] /\ job[h].op \in {"delete", "unregister"} /\ m.outcome = "ok" =>
              /\ job[h].op = "delete" => account'[job[h].name] = {}
              /\ \A b \in Beacons \ m.errors : LeftAt(h, b) => OtherDeletedAt(h, b)]_vars
  BY LeftoversStep DEF SerialInv, Removes
<1>. QED  BY <1>1, SerialHolds, PTL DEF Spec, LeftoversReported

-----------------------------------------------------------------------------
(* Versions with deletes, one request at a time and no listing lost: an     *)
(* account that is added back starts above every copy that is left.         *)

\* The versions of the copies on Beacons that were heard.
Told(h) ==
  \A b \in Beacons : b \in todo[h] \/ \A c \in creds[b][job[h].name] : c.version \in Heard(h)

AllTold ==
  \A h \in Handlers :
    /\ pc[h] = "list" => Told(h)
    /\ pc[h] = "account" /\ job[h].op = "add" => Told(h) /\ todo[h] = {}

\* A Beacon lists the version of what it holds.
LEMMA ListingTells ==
  ASSUME StoresOK, NEW b \in Beacons, NEW n \in Names, NEW l \in ListingOf(b, n)
  PROVE  \A c \in creds[b][n] : l.version = c.version
<1>. DEFINE held == {m \in Names : creds[b][m] # {}}
            first == CHOOSE c \in creds[b][n] : TRUE
            version == IF n \in held THEN first.version ELSE 0
<1>1. PICK m : l = [beacon |-> b, holds |-> n \in held, version |-> version, head |-> m]
  BY Zenon DEF ListingOf
<1>2. \A c \in creds[b][n] : n \in held /\ first = c
  BY DEF StoresOK, AtMostOne
<1>. HIDE DEF held, first
<1>. QED  BY <1>1, <1>2

\* Listings are told; other steps forget them or leave them alone.
LEMMA AllToldStep ==
  ASSUME TypeOK, Serial, ~StatusMayFail, ~ListsMayFail, Progress, AllTold, [Next]_vars
  PROVE  AllTold'
<1>10. ASSUME NEW h \in Handlers, NEW r \in Rest, Forget(h, r) PROVE AllTold'
  <2>1. \A k \in Handlers : pc'[k] \in {"idle", "hung"}
    BY <1>10 DEF Forget, Serial, TypeOK, Rest
  <2>. QED  BY <2>1 DEF AllTold
<1>1. ASSUME NEW h \in Handlers, NEW o, NEW F, Finish(h, o, F) PROVE AllTold'
  BY <1>1, <1>10 DEF Finish, Rest
<1>2. ASSUME NEW h \in Handlers, NEW ph, NEW B, Call(h, ph, B),
             ph = "list" => B = Beacons,
             ph = "account" => job'[h].op # "add"
      PROVE  AllTold'
  <2>1. pc'[h] = ph /\ todo'[h] = B /\ \A k \in Handlers : k = h
    BY <1>2, CallSets
  <2>. QED  BY <1>2, <2>1 DEF AllTold, Told
<1>3. ASSUME NEW h \in Handlers, NEW j \in Requests, Receive(h, j) PROVE AllTold'
  <2>1. job'[h] = j
    BY <1>3 DEF Receive, TypeOK
  <2>. QED  BY <1>2, <1>3, <2>1 DEF Receive
<1>4. ASSUME NEW h \in Handlers, NEW b \in Beacons, ListBeacon(h, b) PROVE AllTold'
  <2>. DEFINE n == job[h].name
  <2>1. /\ pc[h] = "list" /\ todo'[h] = todo[h] \ {b} /\ UNCHANGED <<creds, pc, job>>
        /\ \A k \in Handlers : k = h
    BY <1>4 DEF ListBeacon, TypeOK, Serial
  <2>2. StoresOK /\ n \in Names
    BY TypeParts DEF TypeOK, Job
  <2>3. PICK l \in ListingOf(b, n) : listed'[h] = listed[h] \cup {l}
    BY <1>4 DEF ListBeacon, TypeOK
  <2>4. \A c \in creds[b][n] : c.version = l.version
    BY <2>2, <2>3, ListingTells
  <2>5. Told(h)
    BY <2>1 DEF AllTold
  <2>6. Told(h)'
    BY <2>1, <2>3, <2>4, <2>5 DEF Told, Heard
  <2>. QED  BY <2>1, <2>6 DEF AllTold
<1>5. ASSUME NEW h \in Handlers, ListDone(h) PROVE AllTold'
  <2>1. pc[h] = "list" /\ todo[h] = {} /\ Told(h) /\ UNCHANGED creds
    BY <1>5 DEF ListDone, Settled, AllTold
  <2>2. ASSUME NEW ph \in {"account", "push"}, NEW B, Call(h, ph, B), UNCHANGED <<job, listed>>,
               ph = "account" => B = {}
        PROVE  AllTold'
    <3>1. pc'[h] = ph /\ todo'[h] = B /\ \A k \in Handlers : k = h
      BY <2>2, CallSets
    <3>. QED  BY <2>1, <2>2, <3>1 DEF AllTold, Told, Heard
  <2>. QED  BY <1>1, <1>5, <2>2 DEF ListDone, GiveUp
<1>6. ASSUME NEW h \in Handlers,
             \/ AddAccount(h) \/ UpdateAccount(h) \/ ReadAccount(h) \/ DeleteAccount(h)
             \/ PushDone(h) \/ FindBeacons(h) \/ NeverAnswered(h)
      PROVE  AllTold'
  BY <1>1, <1>2, <1>6, <1>10 DEF FindBeacons, NeverAnswered, GiveUp, Rest, AddAccount, UpdateAccount, ReadAccount, DeleteAccount, PushDone
<1>7. ASSUME NEW h \in Handlers, Lookup(h) PROVE AllTold'
  <2>1. job[h].op = "provision"
    BY <1>7 DEF Lookup, Progress
  <2>. QED  BY <1>1, <1>2, <1>7, <2>1 DEF Lookup
<1>8. ASSUME NEW h \in Handlers, NEW b \in Beacons, PushBeacon(h, b) PROVE AllTold'
  BY <1>8 DEF PushBeacon, Serial, AllTold
<1>9. CASE UNCHANGED vars
  BY <1>9 DEF vars, AllTold, Told, Heard
<1>. QED  BY <1>3, <1>4, <1>5, <1>6, <1>7, <1>8, <1>9 DEF Next, Step

\* What a call leaves on a Beacon: what the handler took, or one copy less.
LEMMA EffectOf ==
  ASSUME TypeOK, NEW h \in Handlers, NEW b \in Beacons, NEW c \in Effect(h, b)
  PROVE  \E n \in Names :
           \/ c = [creds[b] EXCEPT ![n] = {}]
           \/ /\ n = job[h].name /\ job[h].op \in {"update", "sync", "provision"}
              /\ c = [creds[b] EXCEPT ![n] = mine[h]]
<1>1. job[h].name \in Names /\ \A l \in listed[h] : l.head \in Names
  BY DEF TypeOK, Job, Listing
<1>. QED  BY <1>1 DEF Effect, Replacing, DeletedName

\* Copies that change become the account.
LEMMA PushTells ==
  ASSUME TypeOK, Progress, VersionsTellSecrets,
         NEW h \in Handlers, NEW b \in Beacons, PushBeacon(h, b)
  PROVE  VersionsTellSecrets'
<1>1. pc[h] = "push" /\ UNCHANGED account /\ job[h].name \in Names
  BY DEF PushBeacon, TypeOK, Job
<1>2. CASE UNCHANGED creds
  BY <1>1, <1>2 DEF VersionsTellSecrets
<1>3. ASSUME NEW e \in Effect(h, b), creds' = [creds EXCEPT ![b] = e]
      PROVE  VersionsTellSecrets'
  <2>0. PICK m \in Names :
           \/ e = [creds[b] EXCEPT ![m] = {}]
           \/ /\ m = job[h].name /\ job[h].op \in {"update", "sync", "provision"}
              /\ e = [creds[b] EXCEPT ![m] = mine[h]]
    BY EffectOf
  <2>5. e = [creds[b] EXCEPT ![m] = {}] \/
        (m = job[h].name /\ mine[h] = account[m] /\ e = [creds[b] EXCEPT ![m] = mine[h]])
    BY <1>1, <2>0 DEF Progress
  <2>. SUFFICES ASSUME NEW d \in Beacons, NEW n \in Names, NEW c \in creds'[d][n], NEW a \in account[n]
                PROVE  c.version <= a.version /\ (InSync(c, a) => c = a)
    BY <1>1 DEF VersionsTellSecrets
  <2>1. creds[d] \in [Names -> SUBSET Cred] /\ a.version \in Nat /\ AtMostOne(account[n])
    BY DEF TypeOK, Cred
  <2>2. c \in creds[d][n] \/ (n = job[h].name /\ c \in mine[h] /\ mine[h] = account[n])
    <3>1. CASE d # b
      BY <1>3, <3>1 DEF TypeOK
    <3>2. CASE d = b
      <4>1. creds'[d] = e
        BY <1>3, <3>2 DEF TypeOK
      <4>. QED  BY <2>5, <2>1, <3>2, <4>1
    <3>. QED  BY <3>1, <3>2
  <2>3. CASE c \in creds[d][n]
    BY <2>3 DEF VersionsTellSecrets
  <2>4. CASE c \in account[n]
    BY <2>1, <2>4 DEF AtMostOne
  <2>. QED  BY <2>2, <2>3, <2>4
<1>. QED  BY <1>2, <1>3 DEF PushBeacon

\* An account changes to a version above every copy.
LEMMA AccountTells ==
  ASSUME TypeOK, VersionsTellSecrets, UNCHANGED creds,
         NEW n \in Names, NEW S, account' = [account EXCEPT ![n] = S],
         \A a \in S, b \in Beacons : \A c \in creds[b][n] : c.version < a.version /\ a.version \in Nat
  PROVE  VersionsTellSecrets'
<1>. SUFFICES ASSUME NEW d \in Beacons, NEW m \in Names, NEW c \in creds[d][m], NEW a \in account'[m]
              PROVE  c.version <= a.version /\ (InSync(c, a) => c = a)
  BY DEF VersionsTellSecrets
<1>1. CASE m = n
  <2>1. c.version \in Nat /\ c.version < a.version /\ a.version \in Nat
    BY <1>1 DEF TypeOK, Cred
  <2>. QED  BY <2>1 DEF InSync
<1>2. CASE m # n
  BY <1>2 DEF VersionsTellSecrets, TypeOK
<1>. QED  BY <1>1, <1>2

\* Versions stay enough.
LEMMA TellsStep ==
  ASSUME TypeOK, Progress, AllTold, VersionsTellSecrets, [Next]_vars
  PROVE  VersionsTellSecrets'
<1>1. ASSUME UNCHANGED <<account, creds>> PROVE VersionsTellSecrets'
  BY <1>1 DEF VersionsTellSecrets
<1>2. ASSUME NEW h \in Handlers, AddAccount(h) PROVE VersionsTellSecrets'
  <2>. DEFINE n == job[h].name
  <2>1. n \in Names /\ UNCHANGED creds
    BY <1>2 DEF AddAccount, TypeOK, Job
  <2>2. \A b \in Beacons : \A c \in creds[b][n] : c.version \in Heard(h)
    BY <1>2 DEF AddAccount, AllTold, Told
  <2>3. \A v \in Heard(h) : v \in Nat
    BY DEF Heard, TypeOK, Listing
  <2>4. ASSUME NEW v \in Heard(h), \A w \in Heard(h) : w <= v,
               account' = [account EXCEPT ![n] = {[version |-> v + 1, secret |-> job[h].secret]}]
        PROVE  VersionsTellSecrets'
    <3>. DEFINE S == {[version |-> v + 1, secret |-> job[h].secret]}
    <3>1. \A b \in Beacons : \A c \in creds[b][n] : c.version < v + 1 /\ v + 1 \in Nat
      BY <2>2, <2>3, <2>4
    <3>2. \A a \in S, b \in Beacons : \A c \in creds[b][n] : c.version < a.version /\ a.version \in Nat
      BY <3>1
    <3>3. account' = [account EXCEPT ![n] = S]
      BY <2>4
    <3>. HIDE DEF n, S
    <3>. QED  BY <2>1, <3>2, <3>3, AccountTells
  <2>. QED  BY <1>1, <1>2, <2>1, <2>4 DEF AddAccount
<1>3. ASSUME NEW h \in Handlers, UpdateAccount(h) PROVE VersionsTellSecrets'
  <2>. DEFINE n == job[h].name
  <2>1. n \in Names /\ UNCHANGED creds
    BY <1>3 DEF UpdateAccount, TypeOK, Job
  <2>2. ASSUME NEW old \in account[n],
               account' = [account EXCEPT ![n] = {Updated(old, job[h].secret)}]
        PROVE  VersionsTellSecrets'
    <3>1. old.version \in Nat /\ \A b \in Beacons : \A c \in creds[b][n] : c.version \in Nat
      BY <2>1 DEF TypeOK, Cred
    <3>2. \A b \in Beacons : \A c \in creds[b][n] : c.version <= old.version
      BY <2>1 DEF VersionsTellSecrets
    <3>3. Updated(old, job[h].secret).version = old.version + 1
      BY DEF Updated
    <3>. DEFINE S == {Updated(old, job[h].secret)}
    <3>4. \A a \in S, b \in Beacons : \A c \in creds[b][n] : c.version < a.version /\ a.version \in Nat
      BY <3>1, <3>2, <3>3
    <3>5. account' = [account EXCEPT ![n] = S]
      BY <2>2
    <3>. HIDE DEF n, S
    <3>. QED  BY <2>1, <3>4, <3>5, AccountTells
  <2>. QED  BY <1>1, <1>3, <2>1, <2>2 DEF UpdateAccount
<1>4. ASSUME NEW h \in Handlers, DeleteAccount(h) PROVE VersionsTellSecrets'
  <2>. DEFINE n == job[h].name
             S == {}
  <2>1. n \in Names /\ UNCHANGED creds
    BY <1>4 DEF DeleteAccount, TypeOK, Job
  <2>2. UNCHANGED account \/ account' = [account EXCEPT ![n] = S]
    BY <1>4 DEF DeleteAccount
  <2>3. \A a \in S, b \in Beacons : \A c \in creds[b][n] : c.version < a.version /\ a.version \in Nat
    OBVIOUS
  <2>. HIDE DEF n, S
  <2>. QED  BY <1>1, <2>1, <2>2, <2>3, AccountTells
<1>5. ASSUME NEW h \in Handlers,
             \/ \E j \in Requests : Receive(h, j)
             \/ \E b \in Beacons : ListBeacon(h, b)
             \/ FindBeacons(h) \/ NeverAnswered(h)
             \/ ListDone(h) \/ Lookup(h) \/ PushDone(h) \/ ReadAccount(h)
      PROVE  VersionsTellSecrets'
  BY <1>1, <1>5 DEF Receive, FindBeacons, NeverAnswered, ListBeacon, ListDone, Lookup, PushDone, ReadAccount
<1>. QED  BY <1>1, <1>2, <1>3, <1>4, <1>5, PushTells DEF Next, Step, vars

\* Served one at a time, and with every Beacon heard, requests never bring an
\* old secret back under the current version, deletes and accounts that are
\* added back included, and whichever calls to change a copy fail or are lost.
THEOREM SerialVersionsAreEnough ==
  ASSUME Serial, ~StatusMayFail, ~ListsMayFail
  PROVE  Spec => []VersionsTellSecrets
<1>1. Init => SerialInv /\ AllTold /\ VersionsTellSecrets
  <2>1. Init => AllTold /\ VersionsTellSecrets
    BY DEF Init, AllTold, VersionsTellSecrets
  <2>. QED  BY <2>1, TypeInit, MineInit, ProgressInit DEF SerialInv
<1>2. SerialInv /\ AllTold /\ VersionsTellSecrets /\ [Next]_vars =>
        SerialInv' /\ AllTold' /\ VersionsTellSecrets'
  BY TypeStep, MineStep, ProgressStep, AllToldStep, TellsStep DEF SerialInv
<1>. QED  BY <1>1, <1>2, PTL DEF Spec
=============================================================================
