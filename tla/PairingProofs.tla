----------------------------- MODULE PairingProofs -----------------------------
(***************************************************************************)
(* Proofs about Pairing, for any handlers and clusters: types, that a      *)
(* Beacon is asked to pair only when all four definitions are there, that  *)
(* a pair request fails for a reason only, and that an unpair cleans up.   *)
(***************************************************************************)
EXTENDS Pairing, FiniteSetTheorems, TLAPS

-----------------------------------------------------------------------------
(* Types. *)

StoresOK ==
  /\ defs \in [Clusters -> SUBSET Clusters]
  /\ paired \subseteq {e \in SUBSET Clusters : Cardinality(e) = 2}

LocalOK ==
  /\ pc \in [Handlers -> Phases]
  /\ job \in [Handlers -> Job]
  /\ seen \in [Handlers -> SUBSET Def]
  /\ todo \in [Handlers -> SUBSET Def]
  /\ failed \in [Handlers -> BOOLEAN] /\ conflict \in [Handlers -> BOOLEAN]
  /\ disturbed \in [Handlers -> BOOLEAN]

AnswerOK ==
  answer \subseteq [job : Job, outcome : {"ok", "error"}, failed : BOOLEAN,
                    disturbed : BOOLEAN]

\* Which requests are in which phase, and which definitions idle handlers know.
PhasesOK ==
  \A h \in Handlers :
    /\ pc[h] \in {"clusters", "unpair", "remove", "lost"} => job[h].op = "unpair"
    /\ pc[h] = "submit" => job[h].op # "unpair"
    /\ pc[h] = "pair" => job[h].op = "pair"
    /\ pc[h] = "idle" => seen[h] = {}

\* TypeOK, split by who keeps what.
LEMMA TypeParts ==
  /\ TypeOK <=> StoresOK /\ LocalOK /\ AnswerOK
  /\ TypeOK' <=> StoresOK' /\ LocalOK' /\ AnswerOK'
<1>1. TypeOK <=> StoresOK /\ LocalOK /\ AnswerOK
  BY DEF TypeOK, StoresOK, LocalOK, AnswerOK
<1>2. TypeOK' <=> StoresOK' /\ LocalOK' /\ AnswerOK'
  BY DEF TypeOK, StoresOK, LocalOK, AnswerOK
<1>. QED  BY <1>1, <1>2

\* What stands for no job is one.
LEMMA NoJobTyped == NoJob \in Job
<1>. DEFINE c0 == CHOOSE c \in Clusters : TRUE
<1>1. c0 \in Clusters
  BY PairingConstants
<1>2. NoJob = [op |-> "define", a |-> c0, b |-> c0]
  BY DEF NoJob
<1>. HIDE DEF c0
<1>. QED  BY <1>1, <1>2 DEF Job, Ops

\* A job names two clusters; they differ but for a local definition.
LEMMA JobEnds ==
  ASSUME LocalOK, NEW h \in Handlers
  PROVE  /\ job[h].a \in Clusters /\ job[h].b \in Clusters
         /\ Ends(h) \subseteq Clusters
         /\ job[h].op # "define" => Cardinality(Ends(h)) = 2
<1>1. /\ job[h].a \in Clusters /\ job[h].b \in Clusters
      /\ job[h].op # "define" => job[h].a # job[h].b
  BY DEF LocalOK, Job
<1>2. ASSUME job[h].a # job[h].b PROVE Cardinality({job[h].a, job[h].b}) = 2
  <2>1. IsFiniteSet({job[h].b}) /\ Cardinality({job[h].b}) = 1
    BY FS_Singleton
  <2>2. {job[h].b} \cup {job[h].a} = {job[h].a, job[h].b} /\ job[h].a \notin {job[h].b}
    BY <1>2
  <2>3. Cardinality({job[h].b} \cup {job[h].a}) = Cardinality({job[h].b}) + 1
    BY <2>1, <2>2, FS_AddElement
  <2>. QED  BY <2>1, <2>2, <2>3
<1>. QED  BY <1>1, <1>2 DEF Ends

\* The initial state has its types.
LEMMA TypeInit == Init => TypeOK /\ PhasesOK
  BY NoJobTyped DEF Init, TypeOK, PhasesOK, Phases

\* Ending a request keeps types and phases.
LEMMA FinishTyped ==
  ASSUME LocalOK, PhasesOK, NEW h \in Handlers, NEW o \in {"ok", "error"}, NEW f \in BOOLEAN,
         Finish(h, o, f)
  PROVE  LocalOK' /\ AnswerOK' /\ PhasesOK'
<1>1. job[h] \in Job /\ disturbed[h] \in BOOLEAN
  BY DEF LocalOK
<1>2. AnswerOK'
  BY <1>1 DEF AnswerOK, Finish
<1>3. LocalOK'
  BY NoJobTyped DEF LocalOK, Finish, Phases
<1>4. PhasesOK'
  BY DEF LocalOK, PhasesOK, Finish
<1>. QED  BY <1>2, <1>3, <1>4

\* Going on to a phase that the request may be in keeps them, too.
LEMMA GoTyped ==
  ASSUME LocalOK, PhasesOK, NEW h \in Handlers, NEW ph \in Phases, NEW D \in SUBSET Def,
         Go(h, ph, D),
         seen' \in [Handlers -> SUBSET Def], \A k \in Handlers : k # h => seen'[k] = seen[k],
         failed' \in [Handlers -> BOOLEAN], conflict' \in [Handlers -> BOOLEAN],
         ph # "idle",
         ph \in {"clusters", "unpair", "remove", "lost"} => job[h].op = "unpair",
         ph = "submit" => job[h].op # "unpair",
         ph = "pair" => job[h].op = "pair"
  PROVE  LocalOK' /\ AnswerOK' /\ PhasesOK'
<1>1. LocalOK' /\ AnswerOK'
  BY DEF LocalOK, AnswerOK, Go
<1>2. \A k \in Handlers : /\ pc'[k] = IF k = h THEN ph ELSE pc[k]
                          /\ job'[k] = job[k]
  BY DEF LocalOK, Go
<1>3. PhasesOK'
  BY <1>2 DEF PhasesOK
<1>. QED  BY <1>1, <1>3

\* A request that comes in.
LEMMA ReceiveTyped ==
  ASSUME TypeOK, PhasesOK, NEW h \in Handlers, NEW j \in Job, Receive(h, j)
  PROVE  TypeOK' /\ PhasesOK'
<1>1. StoresOK /\ LocalOK
  BY TypeParts
<1>2. StoresOK' /\ AnswerOK'
  BY <1>1 DEF Receive, stores, StoresOK, AnswerOK
<1>3. LocalOK'
  BY <1>1 DEF Receive, notes, LocalOK, Phases
<1>4. PhasesOK'
  BY <1>1 DEF Receive, notes, LocalOK, PhasesOK
<1>. QED  BY <1>2, <1>3, <1>4, TypeParts

\* What a handler hears of are definitions.
LEMMA HearTyped ==
  ASSUME StoresOK, LocalOK, NEW h \in Handlers, NEW b \in Clusters, Hear(h, b)
  PROVE  /\ StoresOK' /\ seen' \in [Handlers -> SUBSET Def]
         /\ \A k \in Handlers : k # h => seen'[k] = seen[k]
         /\ failed' \in [Handlers -> BOOLEAN] /\ conflict' \in [Handlers -> BOOLEAN]
<1>1. Noted(h, b) \subseteq Def
  BY DEF Noted, Def, StoresOK
<1>. QED  BY ZenonT(30), <1>1 DEF Hear, StoresOK, LocalOK, stores

\* Listings keep types.
LEMMA ListTyped ==
  ASSUME TypeOK, PhasesOK, NEW h \in Handlers, ListFirst(h) \/ ListSecond(h)
  PROVE  TypeOK' /\ PhasesOK'
<1>1. StoresOK /\ LocalOK /\ job[h].a \in Clusters /\ job[h].b \in Clusters
  BY TypeParts, JobEnds
<1>2. PICK b \in Clusters, ph \in {"list b", "listed"} : Hear(h, b) /\ Go(h, ph, {})
  BY <1>1 DEF ListFirst, ListSecond
<1>3. /\ StoresOK' /\ seen' \in [Handlers -> SUBSET Def]
      /\ \A k \in Handlers : k # h => seen'[k] = seen[k]
      /\ failed' \in [Handlers -> BOOLEAN] /\ conflict' \in [Handlers -> BOOLEAN]
  BY <1>1, <1>2, HearTyped
<1>4. ph \in Phases /\ {} \in SUBSET Def
  BY DEF Phases
<1>5. LocalOK' /\ AnswerOK' /\ PhasesOK'
  BY <1>1, <1>2, <1>3, <1>4, GoTyped
<1>. QED  BY <1>3, <1>5, TypeParts

\* The decision after the listings keeps types.
LEMMA ListedTyped ==
  ASSUME TypeOK, PhasesOK, NEW h \in Handlers, Listed(h)
  PROVE  TypeOK' /\ PhasesOK'
<1>1. StoresOK /\ LocalOK /\ StoresOK'
  BY TypeParts DEF Listed, stores, StoresOK
<1>2. ASSUME Finish(h, "error", TRUE) PROVE LocalOK' /\ AnswerOK' /\ PhasesOK'
  BY <1>1, <1>2, FinishTyped
<1>3. ASSUME NEW ph \in {"remove", "submit"}, NEW D \in SUBSET Def, Go(h, ph, D), Use(h),
             ph = "remove" <=> job[h].op = "unpair"
      PROVE  LocalOK' /\ AnswerOK' /\ PhasesOK'
  <2>1. /\ seen' \in [Handlers -> SUBSET Def] /\ \A k \in Handlers : k # h => seen'[k] = seen[k]
        /\ failed' \in [Handlers -> BOOLEAN] /\ conflict' \in [Handlers -> BOOLEAN]
    BY <1>1, <1>3 DEF Use, LocalOK
  <2>2. ph \in Phases
    BY DEF Phases
  <2>. QED  BY <1>1, <1>3, <2>1, <2>2, GoTyped
<1>4. seen[h] \in SUBSET Def /\ Missing(h) \in SUBSET Def
  BY <1>1, JobEnds DEF LocalOK, Missing, Def
<1>5. LocalOK' /\ AnswerOK' /\ PhasesOK'
  BY <1>2, <1>3, <1>4 DEF Listed
<1>. QED  BY <1>1, <1>5, TypeParts

\* A call that submits or deletes a definition keeps types.
LEMMA CallTyped ==
  ASSUME TypeOK, PhasesOK, NEW h \in Handlers, NEW d \in Def, Submit(h, d) \/ Remove(h, d)
  PROVE  TypeOK' /\ PhasesOK'
<1>1. StoresOK /\ LocalOK
  BY TypeParts
<1>2. d[1] \in Clusters /\ d[2] \in Clusters
  BY DEF Def
<1>3. StoresOK'
  BY <1>1, <1>2 DEF Submit, Remove, StoresOK
<1>4. failed' \in [Handlers -> BOOLEAN] /\ conflict' \in [Handlers -> BOOLEAN]
  BY <1>1 DEF Submit, Remove, LocalOK
<1>5. LocalOK' /\ AnswerOK'
  BY <1>1, <1>4 DEF Submit, Remove, LocalOK, AnswerOK
<1>6. PhasesOK'
  BY DEF Submit, Remove, PhasesOK
<1>. QED  BY <1>3, <1>5, <1>6, TypeParts

\* What follows the submissions keeps types.
LEMMA SubmittedTyped ==
  ASSUME TypeOK, PhasesOK, NEW h \in Handlers, Submitted(h)
  PROVE  TypeOK' /\ PhasesOK'
<1>1. StoresOK /\ LocalOK /\ StoresOK' /\ failed[h] \in BOOLEAN
  BY TypeParts DEF Submitted, stores, StoresOK, LocalOK
<1>2. ASSUME NEW o \in {"ok", "error"}, NEW f \in BOOLEAN, Finish(h, o, f)
      PROVE  LocalOK' /\ AnswerOK' /\ PhasesOK'
  BY <1>1, <1>2, FinishTyped
<1>3. ASSUME job[h].op = "pair", Go(h, "pair", {}), UNCHANGED notes
      PROVE  LocalOK' /\ AnswerOK' /\ PhasesOK'
  <2>1. /\ seen' \in [Handlers -> SUBSET Def] /\ \A k \in Handlers : k # h => seen'[k] = seen[k]
        /\ failed' \in [Handlers -> BOOLEAN] /\ conflict' \in [Handlers -> BOOLEAN]
    BY <1>1, <1>3 DEF notes, LocalOK
  <2>2. "pair" \in Phases /\ {} \in SUBSET Def
    BY DEF Phases
  <2>. QED  BY <1>1, <1>3, <2>1, <2>2, GoTyped
<1>4. LocalOK' /\ AnswerOK' /\ PhasesOK'
  BY <1>1, <1>2, <1>3 DEF Submitted
<1>. QED  BY <1>1, <1>4, TypeParts

\* The call that pairs keeps types: what it pairs are two clusters.
LEMMA PairTyped ==
  ASSUME TypeOK, PhasesOK, NEW h \in Handlers, Pair(h)
  PROVE  TypeOK' /\ PhasesOK'
<1>1. StoresOK /\ LocalOK /\ job[h].op = "pair"
  BY TypeParts DEF Pair, PhasesOK
<1>2. Ends(h) \in SUBSET Clusters /\ Cardinality(Ends(h)) = 2
  BY <1>1, JobEnds
<1>3. StoresOK'
  BY <1>1, <1>2 DEF Pair, StoresOK
<1>4. PICK o \in {"ok", "error"}, f \in BOOLEAN : Finish(h, o, f)
  BY DEF Pair, Outcomes
<1>5. LocalOK' /\ AnswerOK' /\ PhasesOK'
  BY <1>1, <1>4, FinishTyped
<1>. QED  BY <1>3, <1>5, TypeParts

\* The calls of an unpair before the listings keep types.
LEMMA UnpairTyped ==
  ASSUME TypeOK, PhasesOK, NEW h \in Handlers, FindClusters(h) \/ Unpair(h)
  PROVE  TypeOK' /\ PhasesOK'
<1>1. StoresOK /\ LocalOK /\ job[h].op = "unpair"
  BY TypeParts DEF FindClusters, Unpair, PhasesOK
<1>2. StoresOK'
  BY <1>1 DEF FindClusters, Unpair, stores, StoresOK
<1>3. ASSUME NEW f \in BOOLEAN, Finish(h, "error", f)
      PROVE  LocalOK' /\ AnswerOK' /\ PhasesOK'
  BY <1>1, <1>3, FinishTyped
<1>4. ASSUME NEW ph \in {"unpair", "lost", "list a"}, Go(h, ph, {}), UNCHANGED notes
      PROVE  LocalOK' /\ AnswerOK' /\ PhasesOK'
  <2>1. /\ seen' \in [Handlers -> SUBSET Def] /\ \A k \in Handlers : k # h => seen'[k] = seen[k]
        /\ failed' \in [Handlers -> BOOLEAN] /\ conflict' \in [Handlers -> BOOLEAN]
    BY <1>1, <1>4 DEF notes, LocalOK
  <2>2. ph \in Phases /\ {} \in SUBSET Def
    BY DEF Phases
  <2>. QED  BY <1>1, <1>4, <2>1, <2>2, GoTyped
<1>5. LocalOK' /\ AnswerOK' /\ PhasesOK'
  BY <1>3, <1>4 DEF FindClusters, Unpair
<1>. QED  BY <1>2, <1>5, TypeParts

\* The end of an unpair keeps types.
LEMMA RemovedTyped ==
  ASSUME TypeOK, PhasesOK, NEW h \in Handlers, Removed(h)
  PROVE  TypeOK' /\ PhasesOK'
<1>1. StoresOK /\ LocalOK /\ StoresOK' /\ failed[h] \in BOOLEAN
  BY TypeParts DEF Removed, stores, StoresOK, LocalOK
<1>2. PICK o \in {"ok", "error"} : Finish(h, o, failed[h])
  BY DEF Removed
<1>3. LocalOK' /\ AnswerOK' /\ PhasesOK'
  BY <1>1, <1>2, FinishTyped
<1>. QED  BY <1>1, <1>3, TypeParts

\* Every step keeps types.
LEMMA TypeStep == TypeOK /\ PhasesOK /\ [Next]_vars => TypeOK' /\ PhasesOK'
<1>. SUFFICES ASSUME TypeOK, PhasesOK, [Next]_vars
              PROVE  TypeOK' /\ PhasesOK'
  OBVIOUS
<1>1. CASE UNCHANGED vars
  BY <1>1 DEF vars, TypeOK, PhasesOK
<1>2. CASE Next
  <2>. PICK h \in Handlers : (\E j \in Job : Receive(h, j)) \/ Step(h)
    BY <1>2 DEF Next
  <2>1. ASSUME NEW j \in Job, Receive(h, j) PROVE TypeOK' /\ PhasesOK'
    BY <2>1, ReceiveTyped
  <2>2. CASE ListFirst(h) \/ ListSecond(h)
    BY <2>2, ListTyped
  <2>3. CASE Listed(h)
    BY <2>3, ListedTyped
  <2>4. ASSUME NEW d \in Def, Submit(h, d) \/ Remove(h, d) PROVE TypeOK' /\ PhasesOK'
    BY <2>4, CallTyped
  <2>5. CASE Submitted(h)
    BY <2>5, SubmittedTyped
  <2>6. CASE Pair(h)
    BY <2>6, PairTyped
  <2>7. CASE FindClusters(h) \/ Unpair(h)
    BY <2>7, UnpairTyped
  <2>8. CASE Removed(h)
    BY <2>8, RemovedTyped
  <2>. QED  BY <2>1, <2>2, <2>3, <2>4, <2>5, <2>6, <2>7, <2>8 DEF Step
<1>. QED  BY <1>1, <1>2

\* The state has its types, and pairs are of two clusters.
THEOREM TypeCorrect == Spec => []TypeOK
<1>1. TypeOK /\ PhasesOK /\ [Next]_vars => (TypeOK /\ PhasesOK)'
  BY TypeStep
<1>2. Init => TypeOK /\ PhasesOK
  BY TypeInit
<1>. QED  BY <1>1, <1>2, PTL DEF Spec

-----------------------------------------------------------------------------
(* Definitions are there before clusters are paired. *)

\* Who must rely on what it was told: an undisturbed pair or define request.
Relies(h) == pc[h] # "idle" /\ job[h].op # "unpair" /\ ~disturbed[h]

\* What such a request was told is so, and what it has no more to submit is
\* there, or it knows of a failure.
KnownIsDefined ==
  \A h \in Handlers : Relies(h) =>
    /\ \A d \in seen[h] : Defined(d)
    /\ pc[h] = "submit" =>
         \A d \in Ends(h) \X Ends(h) : d \in todo[h] \/ Defined(d) \/ failed[h]
    /\ pc[h] = "pair" => \A d \in Ends(h) \X Ends(h) : Defined(d)

\* A request that works beside an unpair is disturbed.
UnpairsDisturb ==
  \A h, k \in Handlers :
    h # k /\ pc[h] # "idle" /\ pc[k] # "idle" /\ job[k].op = "unpair" => disturbed[h]

PairingInv == TypeOK /\ PhasesOK /\ KnownIsDefined /\ UnpairsDisturb

\* The invariant is strong enough.
LEMMA PairingInvIsEnough == PairingInv => DefinedBeforePairing
<1>. SUFFICES ASSUME PairingInv, NEW h \in Handlers, pc[h] = "pair", ~disturbed[h]
              PROVE  \A d \in Ends(h) \X Ends(h) : Defined(d)
  BY DEF DefinedBeforePairing
<1>1. Relies(h)
  BY DEF PairingInv, PhasesOK, Relies
<1>. QED  BY <1>1 DEF PairingInv, KnownIsDefined

\* A step of one handler leaves the others alone; it goes on with its request,
\* as disturbed as it was, or is idle.
StepOf(h) ==
  /\ \A k \in Handlers : k # h =>
       /\ pc'[k] = pc[k] /\ job'[k] = job[k] /\ disturbed'[k] = disturbed[k]
       /\ seen'[k] = seen[k] /\ todo'[k] = todo[k] /\ failed'[k] = failed[k]
  /\ \/ pc'[h] = "idle"
     \/ pc[h] # "idle" /\ job'[h] = job[h] /\ disturbed'[h] = disturbed[h]

\* Nothing that is defined is lost.
DefsStay == \A d \in Def : Defined(d) => Defined(d)'

\* Ending a request is a step of its handler.
LEMMA FinishIsStep ==
  ASSUME LocalOK, NEW h \in Handlers, NEW o, NEW f, Finish(h, o, f)
  PROVE  StepOf(h) /\ pc'[h] = "idle"
BY DEF LocalOK, Finish, StepOf

\* Going on, and what comes with it, is a step of the handler.
LEMMA GoIsStep ==
  ASSUME LocalOK, NEW h \in Handlers, NEW ph \in Phases, NEW D, Go(h, ph, D), pc[h] # "idle",
         \A k \in Handlers : k # h => seen'[k] = seen[k] /\ failed'[k] = failed[k]
  PROVE  StepOf(h) /\ pc'[h] = ph /\ todo'[h] = D
BY DEF LocalOK, Go, StepOf

\* Unpairs keep disturbing those that they work beside.
LEMMA UnpairsDisturbKept ==
  ASSUME UnpairsDisturb, NEW h \in Handlers, StepOf(h)
  PROVE  UnpairsDisturb'
<1>1. \A k \in Handlers : pc'[k] # "idle" =>
        pc[k] # "idle" /\ job'[k] = job[k] /\ disturbed'[k] = disturbed[k]
  BY DEF StepOf
<1>. QED  BY <1>1 DEF UnpairsDisturb

\* The others go on relying on what they know, if no definition is lost or the
\* step is one of an unpair.
LEMMA OthersKnow ==
  ASSUME TypeOK, KnownIsDefined, UnpairsDisturb, NEW h \in Handlers, StepOf(h),
         DefsStay \/ (pc[h] # "idle" /\ job[h].op = "unpair"),
         NEW k \in Handlers, k # h, Relies(k)'
  PROVE  /\ \A d \in seen'[k] : Defined(d)'
         /\ pc'[k] = "submit" =>
              \A d \in Ends(k)' \X Ends(k)' : d \in todo'[k] \/ Defined(d)' \/ failed'[k]
         /\ pc'[k] = "pair" => \A d \in Ends(k)' \X Ends(k)' : Defined(d)'
<1>1. /\ pc'[k] = pc[k] /\ job'[k] = job[k] /\ disturbed'[k] = disturbed[k]
      /\ seen'[k] = seen[k] /\ todo'[k] = todo[k] /\ failed'[k] = failed[k]
  BY DEF StepOf
<1>2. Relies(k) /\ Ends(k)' = Ends(k)
  BY <1>1 DEF Relies, Ends
<1>3. DefsStay
  BY <1>2 DEF Relies, UnpairsDisturb
<1>4. LocalOK /\ seen[k] \subseteq Def
  BY TypeParts DEF LocalOK
<1>5. Ends(k) \X Ends(k) \subseteq Def
  BY <1>4, JobEnds DEF Def
<1>6. /\ \A d \in seen[k] : Defined(d)
      /\ pc[k] = "submit" => \A d \in Ends(k) \X Ends(k) : d \in todo[k] \/ Defined(d) \/ failed[k]
      /\ pc[k] = "pair" => \A d \in Ends(k) \X Ends(k) : Defined(d)
  BY <1>2 DEF KnownIsDefined
<1>. QED  BY <1>1, <1>2, <1>3, <1>4, <1>5, <1>6 DEF DefsStay

\* So a step keeps what is known if its own handler knows what it must.
LEMMA KnownKept ==
  ASSUME TypeOK, KnownIsDefined, UnpairsDisturb, NEW h \in Handlers, StepOf(h),
         DefsStay \/ (pc[h] # "idle" /\ job[h].op = "unpair"),
         Relies(h)' =>
           /\ \A d \in seen'[h] : Defined(d)'
           /\ pc'[h] = "submit" =>
                \A d \in Ends(h)' \X Ends(h)' : d \in todo'[h] \/ Defined(d)' \/ failed'[h]
           /\ pc'[h] = "pair" => \A d \in Ends(h)' \X Ends(h)' : Defined(d)'
  PROVE  KnownIsDefined' /\ UnpairsDisturb'
<1>1. UnpairsDisturb'
  BY UnpairsDisturbKept
<1>2. ASSUME NEW k \in Handlers, Relies(k)'
      PROVE  /\ \A d \in seen'[k] : Defined(d)'
             /\ pc'[k] = "submit" =>
                  \A d \in Ends(k)' \X Ends(k)' : d \in todo'[k] \/ Defined(d)' \/ failed'[k]
             /\ pc'[k] = "pair" => \A d \in Ends(k)' \X Ends(k)' : Defined(d)'
  BY <1>2, OthersKnow
<1>. QED  BY <1>1, <1>2 DEF KnownIsDefined

\* Steps that change no definition lose none.
LEMMA SameDefs == ASSUME UNCHANGED defs PROVE DefsStay
BY DEF DefsStay, Defined

\* A request that comes in knows nothing yet, and disturbs or is disturbed.
LEMMA ReceiveKnown ==
  ASSUME PairingInv, NEW h \in Handlers, NEW j \in Job, Receive(h, j)
  PROVE  KnownIsDefined' /\ UnpairsDisturb'
<1>1. LocalOK /\ pc[h] = "idle" /\ seen[h] = {} /\ UNCHANGED <<defs, seen, todo, failed>>
  BY TypeParts DEF PairingInv, PhasesOK, Receive, stores, notes
<1>2. /\ pc'[h] \in {"clusters", "list a"} /\ job'[h] = j
      /\ \A k \in Handlers : k # h => pc'[k] = pc[k] /\ job'[k] = job[k]
  BY <1>1 DEF Receive, LocalOK
<1>3. /\ \A k \in Handlers : disturbed[k] => disturbed'[k]
      /\ \A k \in Busy : Disturb(j, job[k]) => disturbed'[h] /\ disturbed'[k]
  BY DEF Receive, Busy
<1>4. UnpairsDisturb'
  BY ZenonT(30), <1>1, <1>2, <1>3 DEF PairingInv, UnpairsDisturb, Busy, Disturb
<1>5. ASSUME NEW k \in Handlers, Relies(k)'
      PROVE  /\ \A d \in seen'[k] : Defined(d)'
             /\ pc'[k] = "submit" =>
                  \A d \in Ends(k)' \X Ends(k)' : d \in todo'[k] \/ Defined(d)' \/ failed'[k]
             /\ pc'[k] = "pair" => \A d \in Ends(k)' \X Ends(k)' : Defined(d)'
  <2>1. CASE k = h
    BY <2>1, <1>1, <1>2
  <2>2. CASE k # h
    <3>1. Relies(k) /\ Ends(k)' = Ends(k) /\ pc'[k] = pc[k]
      BY <2>2, <1>2, <1>3, <1>5 DEF Relies, Ends
    <3>. QED  BY <3>1, <1>1 DEF PairingInv, KnownIsDefined, Defined
  <2>. QED  BY <2>1, <2>2
<1>. QED  BY <1>4, <1>5 DEF KnownIsDefined

\* What a Beacon says it has, it has.
LEMMA ListKnown ==
  ASSUME PairingInv, NEW h \in Handlers, ListFirst(h) \/ ListSecond(h)
  PROVE  KnownIsDefined' /\ UnpairsDisturb'
<1>1. LocalOK /\ pc[h] # "idle"
  BY TypeParts DEF PairingInv, ListFirst, ListSecond
<1>2. PICK b \in Clusters, ph \in {"list b", "listed"} : Hear(h, b) /\ Go(h, ph, {})
  BY <1>1, JobEnds DEF ListFirst, ListSecond
<1>3. StepOf(h) /\ pc'[h] = ph
  <2>1. \A k \in Handlers : k # h => seen'[k] = seen[k] /\ failed'[k] = failed[k]
    BY <1>1, <1>2 DEF Hear, LocalOK
  <2>2. ph \in Phases
    BY DEF Phases
  <2>. QED  BY <1>1, <1>2, <2>1, <2>2, GoIsStep
<1>4. UNCHANGED defs /\ seen'[h] \subseteq seen[h] \cup Noted(h, b)
  BY <1>1, <1>2 DEF Hear, stores, LocalOK
<1>5. \A d \in Noted(h, b) : Defined(d)
  BY DEF Noted, Defined
<1>6. Relies(h)' => \A d \in seen'[h] : Defined(d)'
  <2>. SUFFICES ASSUME Relies(h)' PROVE \A d \in seen'[h] : Defined(d)'
    OBVIOUS
  <2>1. Relies(h)
    BY <1>1, <1>2 DEF Relies, Go
  <2>2. \A d \in seen[h] : Defined(d)
    BY <2>1 DEF PairingInv, KnownIsDefined
  <2>. QED  BY <2>2, <1>4, <1>5 DEF Defined
<1>. QED  BY <1>2, <1>3, <1>4, <1>6, SameDefs, KnownKept DEF PairingInv

\* What a request was not told of is what it submits.
LEMMA ListedKnown ==
  ASSUME PairingInv, NEW h \in Handlers, Listed(h)
  PROVE  KnownIsDefined' /\ UnpairsDisturb'
<1>1. LocalOK /\ pc[h] # "idle" /\ UNCHANGED defs
  BY TypeParts DEF PairingInv, Listed, stores
<1>2. ASSUME Finish(h, "error", TRUE) PROVE KnownIsDefined' /\ UnpairsDisturb'
  BY <1>1, <1>2, FinishIsStep, SameDefs, KnownKept DEF PairingInv, Relies
<1>3. ASSUME NEW ph \in {"remove", "submit"}, NEW D, Go(h, ph, D), Use(h),
             ph = "submit" => D = Missing(h)
      PROVE  KnownIsDefined' /\ UnpairsDisturb'
  <2>1. StepOf(h) /\ pc'[h] = ph /\ todo'[h] = D
    <3>1. \A k \in Handlers : k # h => seen'[k] = seen[k] /\ failed'[k] = failed[k]
      BY <1>1, <1>3 DEF Use, LocalOK
    <3>2. ph \in Phases
      BY DEF Phases
    <3>. QED  BY <1>1, <1>3, <3>1, <3>2, GoIsStep
  <2>2. seen'[h] = {}
    BY <1>1, <1>3 DEF Use, LocalOK
  <2>3. ASSUME Relies(h)', ph = "submit", NEW d \in Ends(h)' \X Ends(h)'
        PROVE  d \in todo'[h] \/ Defined(d)'
    <3>1. Relies(h) /\ Ends(h)' = Ends(h)
      BY <1>1, <1>3, <2>3 DEF Relies, Ends, Go
    <3>2. \A e \in seen[h] : Defined(e)'
      BY <1>1, <3>1 DEF PairingInv, KnownIsDefined, Defined
    <3>. QED  BY <3>1, <3>2, <2>1, <2>3, <1>3 DEF Missing
  <2>. QED  BY <1>1, <2>1, <2>2, <2>3, SameDefs, KnownKept DEF PairingInv
<1>. QED  BY <1>2, <1>3 DEF Listed

\* A definition that was submitted is there, it was there, or the call failed.
LEMMA SubmitKnown ==
  ASSUME PairingInv, NEW h \in Handlers, NEW d \in Def, Submit(h, d)
  PROVE  KnownIsDefined' /\ UnpairsDisturb'
<1>1. StoresOK /\ LocalOK /\ pc[h] = "submit" /\ UNCHANGED <<pc, job, seen, disturbed>>
  BY TypeParts DEF PairingInv, Submit
<1>2. StepOf(h)
  BY <1>1 DEF Submit, StepOf, LocalOK
<1>3. DefsStay
  BY <1>1 DEF Submit, DefsStay, Defined, Def, StoresOK
<1>4. todo'[h] = todo[h] \ {d} /\ (failed[h] => failed'[h]) /\ (Defined(d)' \/ failed'[h])
  BY <1>1 DEF Submit, LocalOK, StoresOK, Defined, Def
<1>5. ASSUME Relies(h)'
      PROVE  /\ \A e \in seen'[h] : Defined(e)'
             /\ \A e \in Ends(h)' \X Ends(h)' : e \in todo'[h] \/ Defined(e)' \/ failed'[h]
  <2>1. Relies(h) /\ Ends(h)' = Ends(h) /\ seen'[h] = seen[h]
    BY <1>1, <1>5 DEF Relies, Ends
  <2>2. seen[h] \subseteq Def /\ Ends(h) \X Ends(h) \subseteq Def
    BY <1>1, JobEnds DEF LocalOK, Def
  <2>3. /\ \A e \in seen[h] : Defined(e)
        /\ \A e \in Ends(h) \X Ends(h) : e \in todo[h] \/ Defined(e) \/ failed[h]
    BY <1>1, <2>1 DEF PairingInv, KnownIsDefined
  <2>. QED  BY <1>3, <1>4, <2>1, <2>2, <2>3 DEF DefsStay
<1>. QED  BY <1>1, <1>2, <1>3, <1>5, KnownKept DEF PairingInv

\* A request goes on to pair when all it had to submit is there.
LEMMA SubmittedKnown ==
  ASSUME PairingInv, NEW h \in Handlers, Submitted(h)
  PROVE  KnownIsDefined' /\ UnpairsDisturb'
<1>1. LocalOK /\ pc[h] = "submit" /\ failed[h] \in BOOLEAN /\ UNCHANGED defs
  BY TypeParts DEF PairingInv, Submitted, stores, LocalOK
<1>2. ASSUME NEW o \in {"ok", "error"}, NEW f \in BOOLEAN, Finish(h, o, f)
      PROVE  KnownIsDefined' /\ UnpairsDisturb'
  BY <1>1, <1>2, FinishIsStep, SameDefs, KnownKept DEF PairingInv, Relies
<1>3. ASSUME ~SubmitFailed(h), Settled(h), Go(h, "pair", {}), UNCHANGED notes
      PROVE  KnownIsDefined' /\ UnpairsDisturb'
  <2>1. StepOf(h) /\ pc'[h] = "pair"
    BY <1>1, <1>3, GoIsStep DEF notes, Phases
  <2>2. ASSUME Relies(h)'
        PROVE  /\ \A d \in seen'[h] : Defined(d)'
               /\ \A d \in Ends(h)' \X Ends(h)' : Defined(d)'
    <3>1. Relies(h) /\ Ends(h)' = Ends(h) /\ seen'[h] = seen[h]
      BY <1>1, <1>3, <2>2 DEF Relies, Ends, Go, notes
    <3>2. /\ \A d \in seen[h] : Defined(d)
          /\ \A d \in Ends(h) \X Ends(h) : d \in todo[h] \/ Defined(d) \/ failed[h]
      BY <1>1, <3>1 DEF PairingInv, KnownIsDefined
    <3>. QED  BY <1>1, <1>3, <3>1, <3>2 DEF SubmitFailed, Settled, Defined
  <2>. QED  BY <1>1, <2>1, <2>2, SameDefs, KnownKept DEF PairingInv
<1>. QED  BY <1>1, <1>2, <1>3 DEF Submitted

\* The call that pairs ends its request.
LEMMA PairKnown ==
  ASSUME PairingInv, NEW h \in Handlers, Pair(h)
  PROVE  KnownIsDefined' /\ UnpairsDisturb'
<1>1. LocalOK /\ UNCHANGED defs
  BY TypeParts DEF PairingInv, Pair
<1>2. PICK o \in {"ok", "error"}, f \in BOOLEAN : Finish(h, o, f)
  BY DEF Pair, Outcomes
<1>. QED  BY <1>1, <1>2, FinishIsStep, SameDefs, KnownKept DEF PairingInv, Relies

\* The steps of an unpair disturb whom they may.
LEMMA UnpairKnown ==
  ASSUME PairingInv, NEW h \in Handlers,
         \/ FindClusters(h) \/ Unpair(h) \/ Removed(h)
         \/ \E d \in Def : Remove(h, d)
  PROVE  KnownIsDefined' /\ UnpairsDisturb'
<1>1. LocalOK /\ pc[h] \in {"clusters", "unpair", "remove"} /\ job[h].op = "unpair"
  BY TypeParts DEF PairingInv, PhasesOK, FindClusters, Unpair, Removed, Remove
<1>2. ASSUME NEW o \in {"ok", "error"}, NEW f, Finish(h, o, f) PROVE StepOf(h)
  BY <1>1, <1>2, FinishIsStep
<1>3. ASSUME NEW ph \in {"unpair", "lost", "list a"}, Go(h, ph, {}), UNCHANGED notes
      PROVE  StepOf(h)
  BY <1>1, <1>3, GoIsStep DEF notes, Phases
<1>4. ASSUME NEW d \in Def, Remove(h, d) PROVE StepOf(h)
  BY <1>1, <1>4 DEF Remove, StepOf, LocalOK
<1>5. StepOf(h)
  BY <1>2, <1>3, <1>4 DEF FindClusters, Unpair, Removed
<1>6. ~Relies(h)'
  BY <1>1, <1>5 DEF StepOf, Relies
<1>. QED  BY <1>1, <1>5, <1>6, KnownKept DEF PairingInv

\* The invariant holds at first and is kept by every step.
LEMMA PairingInvInit == Init => PairingInv
  BY TypeInit DEF Init, PairingInv, KnownIsDefined, UnpairsDisturb, Relies

\* Every step keeps the invariant.
LEMMA PairingInvStep == PairingInv /\ [Next]_vars => PairingInv'
<1>. SUFFICES ASSUME PairingInv, [Next]_vars
              PROVE  PairingInv'
  OBVIOUS
<1>1. TypeOK' /\ PhasesOK'
  BY TypeStep DEF PairingInv
<1>2. CASE UNCHANGED vars
  BY <1>1, <1>2 DEF PairingInv, vars, KnownIsDefined, UnpairsDisturb, Relies, Ends, Defined
<1>3. CASE Next
  <2>. SUFFICES KnownIsDefined' /\ UnpairsDisturb'
    BY <1>1 DEF PairingInv
  <2>. PICK h \in Handlers : (\E j \in Job : Receive(h, j)) \/ Step(h)
    BY <1>3 DEF Next
  <2>1. ASSUME NEW j \in Job, Receive(h, j) PROVE KnownIsDefined' /\ UnpairsDisturb'
    BY <2>1, ReceiveKnown
  <2>2. CASE ListFirst(h) \/ ListSecond(h)
    BY <2>2, ListKnown
  <2>3. CASE Listed(h)
    BY <2>3, ListedKnown
  <2>4. ASSUME NEW d \in Def, Submit(h, d) PROVE KnownIsDefined' /\ UnpairsDisturb'
    BY <2>4, SubmitKnown
  <2>5. CASE Submitted(h)
    BY <2>5, SubmittedKnown
  <2>6. CASE Pair(h)
    BY <2>6, PairKnown
  <2>7. CASE FindClusters(h) \/ Unpair(h) \/ Removed(h) \/ \E d \in Def : Remove(h, d)
    BY <2>7, UnpairKnown
  <2>. QED  BY <2>1, <2>2, <2>3, <2>4, <2>5, <2>6, <2>7 DEF Step
<1>. QED  BY <1>2, <1>3

\* A Beacon is asked to pair only when both Beacons have both definitions,
\* however many requests submit them at the same time and whichever calls fail,
\* unless an unpair was at work meanwhile.
THEOREM DefinedWhenPairing == Spec => []DefinedBeforePairing
<1>1. Init => PairingInv
  BY PairingInvInit
<1>2. PairingInv /\ [Next]_vars => PairingInv'
  BY PairingInvStep
<1>3. PairingInv => DefinedBeforePairing
  BY PairingInvIsEnough
<1>. QED  BY <1>1, <1>2, <1>3, PTL DEF Spec

-----------------------------------------------------------------------------
(* A pair request fails only for a reason.                                  *)

\* Only a request for a local definition minds that it exists already.
ConflictOK == \A h \in Handlers : conflict[h] => job[h].op = "define" /\ pc[h] # "idle"

\* An answer with a reason, or none.
LEMMA ReasonGiven ==
  ASSUME NEW h \in Handlers, NEW o, NEW f, Finish(h, o, f),
         job[h].op = "pair" /\ o = "error" => f \/ disturbed[h] \/ Ends(h) \in paired'
  PROVE  PairErrorsHaveReason'
  BY SMTT(20) DEF Finish, PairErrorsHaveReason, Ends

\* No answer needs none.
LEMMA NoReasonNeeded == answer' = {} => PairErrorsHaveReason'
  BY DEF PairErrorsHaveReason

\* Conflicts are noted by those who mind, and forgotten at the end.
LEMMA ConflictStep ==
  ASSUME TypeOK, ConflictOK, [Next]_vars
  PROVE  ConflictOK'
<1>1. ASSUME NEW h \in Handlers, NEW o, NEW f, Finish(h, o, f) PROVE ConflictOK'
  BY <1>1 DEF Finish, ConflictOK, TypeOK
<1>2. ASSUME NEW h \in Handlers, NEW ph, NEW D, Go(h, ph, D), ph # "idle", UNCHANGED conflict
      PROVE  ConflictOK'
  BY <1>2 DEF Go, ConflictOK, TypeOK
<1>3. ASSUME NEW h \in Handlers, NEW j \in Job, Receive(h, j) PROVE ConflictOK'
  BY <1>3 DEF Receive, notes, ConflictOK, TypeOK
<1>4. ASSUME NEW h \in Handlers, Step(h) PROVE ConflictOK'
  <2>1. CASE ListFirst(h) \/ ListSecond(h)
    BY <1>2, <2>1 DEF ListFirst, ListSecond, Hear
  <2>2. CASE Listed(h)
    BY <1>1, <1>2, <2>2 DEF Listed, Use
  <2>3. ASSUME NEW d \in Def, Submit(h, d) PROVE ConflictOK'
    BY <2>3 DEF Submit, Minds, ConflictOK, TypeOK
  <2>4. ASSUME NEW d \in Def, Remove(h, d) PROVE ConflictOK'
    BY <2>4 DEF Remove, ConflictOK
  <2>5. CASE Submitted(h) \/ FindClusters(h) \/ Unpair(h) \/ Removed(h)
    BY <1>1, <1>2, <2>5 DEF Submitted, FindClusters, Unpair, Removed, notes
  <2>6. CASE Pair(h)
    BY <1>1, <2>6 DEF Pair
  <2>. QED  BY <1>4, <2>1, <2>2, <2>3, <2>4, <2>5, <2>6 DEF Step
<1>5. CASE UNCHANGED vars
  BY <1>5 DEF vars, ConflictOK
<1>. QED  BY <1>3, <1>4, <1>5 DEF Next

\* Every error that a pair request answers has its reason.
LEMMA ReasonStep ==
  ASSUME PairingInv, ConflictOK, PairErrorsHaveReason, [Next]_vars
  PROVE  PairErrorsHaveReason'
<1>1. ASSUME NEW h \in Handlers, Listed(h) PROVE PairErrorsHaveReason'
  BY <1>1, ReasonGiven, NoReasonNeeded DEF Listed, Go
<1>2. ASSUME NEW h \in Handlers, Submitted(h) PROVE PairErrorsHaveReason'
  <2>1. job[h].op = "pair" /\ SubmitFailed(h) => failed[h]
    BY DEF SubmitFailed, ConflictOK
  <2>. QED  BY <1>2, <2>1, ReasonGiven, NoReasonNeeded DEF Submitted, Go
<1>3. ASSUME NEW h \in Handlers, Pair(h) PROVE PairErrorsHaveReason'
  <2>1. (\E d \in Ends(h) \X Ends(h) : ~Defined(d)) => disturbed[h]
    BY <1>3, PairingInvIsEnough DEF Pair, DefinedBeforePairing
  <2>. QED  BY <1>3, <2>1, ReasonGiven DEF Pair
<1>4. ASSUME NEW h \in Handlers, FindClusters(h) \/ Unpair(h) \/ Removed(h)
      PROVE  PairErrorsHaveReason'
  <2>1. job[h].op = "unpair"
    BY <1>4 DEF FindClusters, Unpair, Removed, PairingInv, PhasesOK
  <2>. QED  BY <1>4, <2>1, ReasonGiven, NoReasonNeeded DEF FindClusters, Unpair, Removed, Go
<1>5. ASSUME NEW h \in Handlers,
             \/ \E j \in Job : Receive(h, j)
             \/ ListFirst(h) \/ ListSecond(h)
             \/ \E d \in Def : Submit(h, d) \/ Remove(h, d)
      PROVE  PairErrorsHaveReason'
  BY <1>5, NoReasonNeeded DEF Receive, ListFirst, ListSecond, Submit, Remove, Go
<1>6. CASE UNCHANGED vars
  BY <1>6 DEF vars, PairErrorsHaveReason
<1>. QED  BY <1>1, <1>2, <1>3, <1>4, <1>5, <1>6 DEF Next, Step

\* A pair request fails only when one of its calls failed, an unpair was at work
\* meanwhile or the clusters are paired: never because others submit the same
\* definitions at the same time, nor for definitions that were left behind.
THEOREM PairErrorsAreJustified == Spec => []PairErrorsHaveReason
<1>1. Init => PairingInv /\ ConflictOK /\ PairErrorsHaveReason
  <2>1. Init => ConflictOK /\ PairErrorsHaveReason
    BY DEF Init, ConflictOK, PairErrorsHaveReason
  <2>. QED  BY <2>1, PairingInvInit
<1>2. PairingInv /\ ConflictOK /\ PairErrorsHaveReason /\ [Next]_vars =>
        PairingInv' /\ ConflictOK' /\ PairErrorsHaveReason'
  <2>1. PairingInv => TypeOK
    BY DEF PairingInv
  <2>. QED  BY <2>1, PairingInvStep, ConflictStep, ReasonStep
<1>. QED  BY <1>1, <1>2, PTL DEF Spec

-----------------------------------------------------------------------------
(* An unpair that nobody disturbed cleans up.                               *)

\* Who works beside an unpair is disturbed, and so is the unpair.
AloneOK ==
  \A h, k \in Handlers :
    h # k /\ pc[h] # "idle" /\ pc[k] # "idle" /\ job[h].op = "unpair" => disturbed[h]

\* The definitions on the Beacon of b that are left without peers are known to
\* be, or a listing failed.
PeerlessSeen(h, b) == failed[h] \/ \A c \in defs[b] : HasPeers(<<b, c>>) \/ <<b, c>> \in seen[h]

\* They are still to be deleted, or a call failed.
PeerlessTodo(h, b) == failed[h] \/ \A c \in defs[b] : HasPeers(<<b, c>>) \/ <<b, c>> \in todo[h]

\* What an undisturbed unpair has made sure of in each of its phases.
Cleaning(h) ==
  /\ pc[h] \in {"list a", "list b", "listed", "remove"} => Ends(h) \notin paired
  /\ pc[h] = "list b" => PeerlessSeen(h, job[h].a)
  /\ pc[h] = "listed" => \A b \in Ends(h) : PeerlessSeen(h, b)
  /\ pc[h] = "remove" => \A b \in Ends(h) : PeerlessTodo(h, b)

AllClean ==
  \A h \in Handlers : pc[h] # "idle" /\ job[h].op = "unpair" /\ ~disturbed[h] => Cleaning(h)

\* Every step of a handler is one, whatever it does to the Beacons.
LEMMA StepIsStep ==
  ASSUME TypeOK, NEW h \in Handlers, Step(h)
  PROVE  StepOf(h)
<1>1. LocalOK
  BY TypeParts
<1>2. ASSUME NEW o, NEW f, Finish(h, o, f) PROVE StepOf(h)
  BY <1>1, <1>2, FinishIsStep
<1>3. ASSUME NEW ph \in Phases, NEW D, Go(h, ph, D), pc[h] # "idle",
             \A k \in Handlers : k # h => seen'[k] = seen[k] /\ failed'[k] = failed[k]
      PROVE  StepOf(h)
  BY <1>1, <1>3, GoIsStep
<1>4. {"list b", "listed", "remove", "submit", "pair", "unpair", "lost", "list a"} \subseteq Phases
  BY DEF Phases
<1>5. CASE ListFirst(h) \/ ListSecond(h)
  <2>1. \A k \in Handlers : k # h => seen'[k] = seen[k] /\ failed'[k] = failed[k]
    BY <1>1, <1>5 DEF ListFirst, ListSecond, Hear, LocalOK
  <2>. QED  BY <1>3, <1>4, <1>5, <2>1 DEF ListFirst, ListSecond
<1>6. CASE Listed(h)
  <2>1. Use(h) => \A k \in Handlers : k # h => seen'[k] = seen[k] /\ failed'[k] = failed[k]
    BY <1>1 DEF Use, LocalOK
  <2>. QED  BY <1>2, <1>3, <1>4, <1>6, <2>1 DEF Listed
<1>7. ASSUME NEW d \in Def, Submit(h, d) \/ Remove(h, d) PROVE StepOf(h)
  BY <1>1, <1>7 DEF Submit, Remove, StepOf, LocalOK
<1>8. CASE Submitted(h) \/ FindClusters(h) \/ Unpair(h)
  BY <1>2, <1>3, <1>4, <1>8 DEF Submitted, FindClusters, Unpair, notes
<1>9. CASE Pair(h) \/ Removed(h)
  BY <1>2, <1>9 DEF Pair, Removed
<1>. QED  BY <1>5, <1>6, <1>7, <1>8, <1>9 DEF Step

\* Unpairs are disturbed by those that they work beside.
LEMMA AloneStep ==
  ASSUME TypeOK, AloneOK, [Next]_vars
  PROVE  AloneOK'
<1>1. ASSUME NEW h \in Handlers, NEW j \in Job, Receive(h, j) PROVE AloneOK'
  <2>1. /\ job'[h] = j /\ pc[h] = "idle"
        /\ \A k \in Handlers : k # h => pc'[k] = pc[k] /\ job'[k] = job[k]
    BY <1>1 DEF Receive, TypeOK
  <2>2. /\ \A k \in Handlers : disturbed[k] => disturbed'[k]
        /\ \A k \in Busy : Disturb(j, job[k]) => disturbed'[h] /\ disturbed'[k]
    BY <1>1 DEF Receive, Busy
  <2>. QED  BY <2>1, <2>2 DEF AloneOK, Busy, Disturb
<1>2. ASSUME NEW h \in Handlers, Step(h) PROVE AloneOK'
  <2>1. \A k \in Handlers : pc'[k] # "idle" =>
          pc[k] # "idle" /\ job'[k] = job[k] /\ disturbed'[k] = disturbed[k]
    BY <1>2, StepIsStep DEF StepOf
  <2>. QED  BY <2>1 DEF AloneOK
<1>3. CASE UNCHANGED vars
  BY <1>3 DEF vars, AloneOK
<1>. QED  BY <1>1, <1>2, <1>3 DEF Next

\* Listings of an unpair: what is left without peers is seen.
LEMMA ListCleans ==
  ASSUME TypeOK, NEW h \in Handlers, Cleaning(h), job[h].op = "unpair",
         ListFirst(h) \/ ListSecond(h)
  PROVE  Cleaning(h)'
<1>1. UNCHANGED <<defs, paired, job>> /\ job[h].a \in Clusters /\ job[h].b \in Clusters
  BY DEF ListFirst, ListSecond, Hear, stores, Go, TypeOK, Job
<1>2. /\ seen[h] \subseteq seen'[h] /\ (failed[h] => failed'[h])
      /\ \A b \in Clusters : Hear(h, b) => failed'[h] \/ Noted(h, b) \subseteq seen'[h]
  BY ZenonT(30) DEF ListFirst, ListSecond, Hear, TypeOK
<1>3. \A b \in Clusters : \A c \in defs[b] : HasPeers(<<b, c>>) \/ <<b, c>> \in Noted(h, b)
  BY DEF Noted
<1>4. \A b \in Clusters : Hear(h, b) => PeerlessSeen(h, b)'
  BY <1>1, <1>2, <1>3 DEF PeerlessSeen, HasPeers
<1>5. \A b \in Clusters : PeerlessSeen(h, b) => PeerlessSeen(h, b)'
  BY <1>1, <1>2 DEF PeerlessSeen, HasPeers
<1>6. CASE ListFirst(h)
  <2>1. pc[h] = "list a" /\ pc'[h] = "list b" /\ Hear(h, job[h].a)
    BY <1>6 DEF ListFirst, Go, TypeOK
  <2>. QED  BY <1>1, <1>4, <2>1 DEF Cleaning, Ends
<1>7. CASE ListSecond(h)
  <2>1. pc[h] = "list b" /\ pc'[h] = "listed" /\ Hear(h, job[h].b)
    BY <1>7 DEF ListSecond, Go, TypeOK
  <2>2. PeerlessSeen(h, job[h].a)' /\ PeerlessSeen(h, job[h].b)'
    BY <1>1, <1>4, <1>5, <2>1 DEF Cleaning
  <2>3. \A b \in Ends(h)' : PeerlessSeen(h, b)'
    BY <1>1, <2>2 DEF Ends
  <2>. QED  BY <1>1, <2>1, <2>3 DEF Cleaning, Ends
<1>. QED  BY <1>6, <1>7

\* What was seen is deleted.
LEMMA ListedCleans ==
  ASSUME TypeOK, NEW h \in Handlers, Cleaning(h), job[h].op = "unpair", Listed(h)
  PROVE  Cleaning(h)'
<1>1. pc[h] = "listed" /\ UNCHANGED <<defs, paired>>
  BY DEF Listed, stores
<1>2. CASE Finish(h, "error", TRUE)
  <2>1. pc'[h] = "idle"
    BY <1>2 DEF Finish, TypeOK
  <2>. QED  BY <2>1 DEF Cleaning
<1>3. CASE ~failed[h] /\ Go(h, "remove", seen[h]) /\ Use(h)
  <2>1. pc'[h] = "remove" /\ todo'[h] = seen[h] /\ UNCHANGED job
    BY <1>3 DEF Go, TypeOK
  <2>2. \A b \in Ends(h) : PeerlessTodo(h, b)'
    BY <1>1, <1>3, <2>1 DEF Cleaning, PeerlessSeen, PeerlessTodo, HasPeers
  <2>. QED  BY <1>1, <2>1, <2>2 DEF Cleaning, Ends
<1>. QED  BY <1>2, <1>3 DEF Listed

\* What was deleted is gone, or the call failed.
LEMMA RemoveCleans ==
  ASSUME TypeOK, NEW h \in Handlers, Cleaning(h), NEW d \in Def, Remove(h, d)
  PROVE  Cleaning(h)'
<1>1. /\ pc[h] = "remove" /\ UNCHANGED <<paired, pc, job>> /\ todo'[h] = todo[h] \ {d}
      /\ d[1] \in Clusters /\ d = <<d[1], d[2]>>
  BY DEF Remove, TypeOK, Def
<1>2. failed[h] => failed'[h]
  BY DEF Remove, TypeOK
<1>3. failed'[h] \/ defs' = [defs EXCEPT ![d[1]] = @ \ {d[2]}]
  BY DEF Remove, TypeOK
<1>4. ASSUME NEW b \in Ends(h) PROVE PeerlessTodo(h, b)'
  <2>. SUFFICES ASSUME ~failed'[h], NEW c \in defs'[b], ~HasPeers(<<b, c>>)'
                PROVE  <<b, c>> \in todo'[h]
    BY Zenon DEF PeerlessTodo
  <2>0. b \in Clusters /\ defs' = [defs EXCEPT ![d[1]] = @ \ {d[2]}]
    BY <1>3, <1>4 DEF Ends, TypeOK, Job
  <2>1. c \in defs[b] /\ <<b, c>> # d
    BY <1>1, <2>0 DEF TypeOK
  <2>2. PeerlessTodo(h, b) /\ ~HasPeers(<<b, c>>)
    BY <1>1, <1>4 DEF Cleaning, HasPeers
  <2>. QED  BY <1>1, <1>2, <2>1, <2>2 DEF PeerlessTodo
<1>. QED  BY <1>1, <1>4 DEF Cleaning, Ends

\* The steps of an unpair clean up, if nobody else does anything.
LEMMA OwnCleans ==
  ASSUME TypeOK, PhasesOK, NEW h \in Handlers, Cleaning(h), job[h].op = "unpair", Step(h)
  PROVE  Cleaning(h)'
<1>1. ASSUME NEW o, NEW f, Finish(h, o, f) PROVE Cleaning(h)'
  <2>1. pc'[h] = "idle"
    BY <1>1 DEF Finish, TypeOK
  <2>. QED  BY <2>1 DEF Cleaning
<1>2. ASSUME NEW ph \in {"unpair", "lost"}, Go(h, ph, {}) PROVE Cleaning(h)'
  <2>1. pc'[h] = ph
    BY <1>2 DEF Go, TypeOK
  <2>. QED  BY <2>1 DEF Cleaning
<1>3. CASE FindClusters(h) \/ Removed(h)
  BY <1>1, <1>2, <1>3 DEF FindClusters, Removed
<1>4. CASE Unpair(h)
  <2>1. ASSUME paired' = paired \ {Ends(h)}, Go(h, "list a", {}) PROVE Cleaning(h)'
    <3>1. pc'[h] = "list a" /\ UNCHANGED job
      BY <2>1 DEF Go, TypeOK
    <3>. QED  BY <2>1, <3>1 DEF Cleaning, Ends
  <2>. QED  BY <1>1, <1>4, <2>1 DEF Unpair
<1>5. \A d \in Def : ~Submit(h, d)
  BY DEF Submit, PhasesOK
<1>6. ~Submitted(h) /\ ~Pair(h)
  BY DEF Submitted, Pair, PhasesOK
<1>. QED  BY <1>3, <1>4, <1>5, <1>6, ListCleans, ListedCleans, RemoveCleans DEF Step

\* An undisturbed unpair goes on cleaning up: whoever else might do something
\* would disturb it.
LEMMA CleanStep ==
  ASSUME TypeOK, PhasesOK, AloneOK, AllClean, [Next]_vars
  PROVE  AllClean'
<1>. SUFFICES ASSUME NEW h \in Handlers, pc'[h] # "idle", job'[h].op = "unpair", ~disturbed'[h]
              PROVE  Cleaning(h)'
  BY DEF AllClean
<1>1. ASSUME NEW j \in Job, Receive(h, j) PROVE Cleaning(h)'
  <2>1. pc'[h] \in {"clusters", "list a"} /\ (job'[h].op = "unpair" => pc'[h] = "clusters")
    BY <1>1 DEF Receive, TypeOK
  <2>. QED  BY <2>1 DEF Cleaning
<1>2. CASE Step(h)
  <2>1. pc[h] # "idle" /\ job'[h] = job[h] /\ disturbed'[h] = disturbed[h]
    BY <1>2, StepIsStep DEF StepOf
  <2>. QED  BY <1>2, <2>1, OwnCleans DEF AllClean
<1>3. ASSUME NEW k \in Handlers, k # h, NEW j \in Job, Receive(k, j) PROVE FALSE
  <2>1. pc[h] # "idle" /\ job[h].op = "unpair"
    BY <1>3 DEF Receive, TypeOK
  <2>2. disturbed'[h]
    BY <1>3, <2>1 DEF Receive, Busy, Disturb
  <2>. QED  BY <2>2
<1>4. ASSUME NEW k \in Handlers, k # h, Step(k) PROVE FALSE
  <2>1. pc[h] # "idle" /\ job[h].op = "unpair" /\ ~disturbed[h]
    BY <1>4, StepIsStep DEF StepOf
  <2>2. pc[k] # "idle"
    BY <1>4 DEF Step, ListFirst, ListSecond, Listed, Submit, Remove, Submitted, Pair,
       FindClusters, Unpair, Removed
  <2>. QED  BY <1>4, <2>1, <2>2 DEF AloneOK
<1>5. CASE UNCHANGED vars
  <2>1. Cleaning(h)
    BY <1>5 DEF vars, AllClean
  <2>2. \A d : HasPeers(d)' = HasPeers(d)
    BY <1>5 DEF vars, HasPeers
  <2>3. \A b : (PeerlessSeen(h, b) => PeerlessSeen(h, b)') /\ (PeerlessTodo(h, b) => PeerlessTodo(h, b)')
    BY <1>5, <2>2 DEF vars, PeerlessSeen, PeerlessTodo
  <2>. QED  BY <1>5, <2>1, <2>3 DEF vars, Cleaning, Ends
<1>. QED  BY <1>1, <1>2, <1>3, <1>4, <1>5 DEF Next

\* Who answers that an unpair has succeeded has nothing more to delete.
LEMMA CleanAnswer ==
  ASSUME TypeOK, PhasesOK, AllClean, UnpairCleansUp, [Next]_vars
  PROVE  UnpairCleansUp'
<1>1. ASSUME answer' = {} PROVE UnpairCleansUp'
  BY <1>1 DEF UnpairCleansUp
<1>2. ASSUME NEW h \in Handlers, NEW o, NEW f, Finish(h, o, f), job[h].op # "unpair" \/ o = "error"
      PROVE  UnpairCleansUp'
  BY <1>2 DEF Finish, UnpairCleansUp
<1>3. ASSUME NEW h \in Handlers, Removed(h) PROVE UnpairCleansUp'
  <2>. DEFINE o == IF failed[h] THEN "error" ELSE "ok"
  <2>1. /\ pc[h] = "remove" /\ job[h].op = "unpair" /\ todo[h] = {} /\ UNCHANGED <<defs, paired>>
        /\ Finish(h, o, failed[h])
    BY <1>3 DEF Removed, Settled, PhasesOK, stores
  <2>2. /\ answer' = {[job |-> job[h], outcome |-> o, failed |-> failed[h],
                       disturbed |-> disturbed[h]]}
        /\ o = "ok" => ~failed[h]
    BY <2>1 DEF Finish
  <2>3. ~disturbed[h] /\ ~failed[h] =>
          /\ Ends(h) \notin paired
          /\ \A b \in Ends(h) : \A c \in defs[b] : HasPeers(<<b, c>>)
    BY <2>1 DEF AllClean, Cleaning, PeerlessTodo
  <2>4. UNCHANGED <<defs, paired>> /\ \A d : HasPeers(d)' = HasPeers(d)
    BY <2>1 DEF HasPeers
  <2>. HIDE DEF o
  <2>5. \A m \in answer' : m.job = job[h] /\ m.outcome = o /\ m.disturbed = disturbed[h]
    BY <2>2
  <2>6. \A m \in answer' : m.outcome = "ok" /\ ~m.disturbed =>
           /\ {m.job.a, m.job.b} \notin paired'
           /\ \A b \in {m.job.a, m.job.b} : \A c \in defs'[b] : HasPeers(<<b, c>>)'
    BY <2>2, <2>3, <2>4, <2>5 DEF Ends
  <2>. QED  BY <2>6 DEF UnpairCleansUp
<1>4. ASSUME NEW h \in Handlers,
             Listed(h) \/ FindClusters(h) \/ Unpair(h) \/ Submitted(h) \/ Pair(h)
      PROVE  UnpairCleansUp'
  BY <1>1, <1>2, <1>4 DEF Listed, FindClusters, Unpair, Submitted, Pair, Go, PhasesOK
<1>5. ASSUME NEW h \in Handlers,
             \/ \E j \in Job : Receive(h, j)
             \/ ListFirst(h) \/ ListSecond(h)
             \/ \E d \in Def : Submit(h, d) \/ Remove(h, d)
      PROVE  UnpairCleansUp'
  BY <1>1, <1>5 DEF Receive, ListFirst, ListSecond, Submit, Remove, Go
<1>6. CASE UNCHANGED vars
  <2>1. UNCHANGED <<answer, defs, paired>> /\ \A d : HasPeers(d)' = HasPeers(d)
    BY <1>6 DEF vars, HasPeers
  <2>. QED  BY <2>1 DEF UnpairCleansUp
<1>. QED  BY <1>3, <1>4, <1>5, <1>6 DEF Next, Step

\* An unpair that answers without an error, and that no other request disturbed,
\* leaves the clusters unpaired and no definition without peers on their Beacons,
\* those that earlier requests had left there included.
THEOREM UnpairsLeaveNothing == Spec => []UnpairCleansUp
<1>1. Init => TypeOK /\ PhasesOK /\ AloneOK /\ AllClean /\ UnpairCleansUp
  <2>1. Init => AloneOK /\ AllClean /\ UnpairCleansUp
    BY DEF Init, AloneOK, AllClean, UnpairCleansUp
  <2>. QED  BY <2>1, TypeInit
<1>2. TypeOK /\ PhasesOK /\ AloneOK /\ AllClean /\ UnpairCleansUp /\ [Next]_vars =>
        TypeOK' /\ PhasesOK' /\ AloneOK' /\ AllClean' /\ UnpairCleansUp'
  BY TypeStep, AloneStep, CleanStep, CleanAnswer
<1>. QED  BY <1>1, <1>2, PTL DEF Spec
=============================================================================
