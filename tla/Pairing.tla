------------------------------- MODULE Pairing -------------------------------
(***************************************************************************)
(* services/BeaconService.scala, pairClusters, unPairClusters and          *)
(* createLocalClusterDefinition.  Every cluster has a Beacon server, which *)
(* keeps definitions of clusters, its own and its peers'.  To pair two     *)
(* clusters, DLM submits to both Beacons the definitions they lack and     *)
(* then asks one of them to pair; to unpair, it asks one of them and then  *)
(* deletes the definitions that are left without peers.  A policy that     *)
(* replicates to the cloud needs the local definition alone.  Requests     *)
(* interleave at every call, and each call may fail, possibly after it     *)
(* took effect.                                                            *)
(*                                                                         *)
(* Beacon servers are not part of the source.  They are taken to refuse a  *)
(* definition they have (with CONFLICT, which pairClusters expects), to    *)
(* refuse to pair clusters without their definitions, and to refuse to     *)
(* delete the definition of a cluster that is paired.                      *)
(***************************************************************************)
EXTENDS Naturals, FiniteSets

CONSTANTS Handlers,        \* requests the backend can be serving at a time
          Clusters,        \* clusters; each stands for its Beacon server, too
          Requested,       \* the operations that users request
          CallsMayFail,    \* TRUE: a call to Ambari, Dataplane or a Beacon may fail
          DpClusterMayFail \* TRUE: so may the calls getDpCluster of an unpair

Ops == {"pair", "unpair", "define"}

ASSUME PairingConstants ==
  /\ Clusters # {} /\ Requested \subseteq Ops
  /\ CallsMayFail \in BOOLEAN /\ DpClusterMayFail \in BOOLEAN

VARIABLES defs,       \* the clusters that each Beacon has a definition of
          paired,     \* the pairs of clusters
          pc,         \* the phase each handler is in
          job,        \* what each handler was asked to do
          seen,       \* what each handler was told of the definitions
          todo,       \* the definitions it has still to submit or to delete
          failed,     \* a call of the handler has failed
          conflict,   \* a Beacon has answered CONFLICT to a handler that minds
          disturbed,  \* an unpair and another request were at work together
          answer      \* the answers given in the last step

stores == <<defs, paired>>
notes == <<seen, failed, conflict>>
vars == <<defs, paired, pc, job, seen, todo, failed, conflict, disturbed, answer>>

\* a is the first cluster of the request's set and b the other one.
Job == {j \in [op : Ops, a : Clusters, b : Clusters] : j.op = "define" <=> j.a = j.b}

NoJob == [op |-> "define", a |-> CHOOSE c \in Clusters : TRUE, b |-> CHOOSE c \in Clusters : TRUE]

\* A definition of one cluster on the Beacon of another.
Def == Clusters \X Clusters

OneEnd(h) == {job[h].a}
Ends(h) == {job[h].a, job[h].b}

Defined(d) == d[2] \in defs[d[1]]

\* Definition d is of a cluster that its Beacon knows as paired.
HasPeers(d) == IF d[1] = d[2] THEN \E c \in Clusters : {d[1], c} \in paired
                              ELSE {d[1], d[2]} \in paired

Init ==
  /\ defs = [c \in Clusters |-> {}]
  /\ paired = {}
  /\ pc = [h \in Handlers |-> "idle"]
  /\ job = [h \in Handlers |-> NoJob]
  /\ seen = [h \in Handlers |-> {}]
  /\ todo = [h \in Handlers |-> {}]
  /\ failed = [h \in Handlers |-> FALSE]
  /\ conflict = [h \in Handlers |-> FALSE]
  /\ disturbed = [h \in Handlers |-> FALSE]
  /\ answer = {}

-----------------------------------------------------------------------------
(* Phases of a handler. *)

Go(h, phase, D) ==
  /\ pc' = [pc EXCEPT ![h] = phase]
  /\ todo' = [todo EXCEPT ![h] = D]
  /\ answer' = {}
  /\ UNCHANGED <<job, disturbed>>

\* p.success: the request is over and its handler forgotten.
Finish(h, outcome, f) ==
  /\ answer' = {[job |-> job[h], outcome |-> outcome, failed |-> f, disturbed |-> disturbed[h]]}
  /\ pc' = [pc EXCEPT ![h] = "idle"]
  /\ job' = [job EXCEPT ![h] = NoJob]
  /\ seen' = [seen EXCEPT ![h] = {}]
  /\ todo' = [todo EXCEPT ![h] = {}]
  /\ failed' = [failed EXCEPT ![h] = FALSE]
  /\ conflict' = [conflict EXCEPT ![h] = FALSE]
  /\ disturbed' = [disturbed EXCEPT ![h] = FALSE]

\* Requests of which one may undo what the other relies on.
Disturb(i, j) == "unpair" \in {i.op, j.op}

Busy == {h \in Handlers : pc[h] # "idle"}

Receive(h, j) ==
  /\ pc[h] = "idle" /\ j.op \in Requested
  /\ job' = [job EXCEPT ![h] = j]
  /\ pc' = [pc EXCEPT ![h] = IF j.op = "unpair" THEN "clusters" ELSE "list a"]
  /\ disturbed' = [k \in Handlers |->
                     \/ disturbed[k]
                     \/ k = h /\ \E i \in Busy : Disturb(j, job[i])
                     \/ k \in Busy /\ Disturb(j, job[k])]
  /\ answer' = {}
  /\ UNCHANGED <<stores, notes, todo>>

-----------------------------------------------------------------------------
(* Listings of the definitions of a Beacon. *)

\* What a handler takes note of: an unpair the definitions without peers.
OwnPeerless(h, b) == {d \in {<<b, b>>} : Defined(d) /\ (job[h].op = "unpair" => ~HasPeers(d))}
Noted(h, b) == {d \in {b} \X defs[b] : job[h].op = "unpair" => ~HasPeers(d)}

\* listPairedClusters
Hear(h, b) ==
  /\ \/ seen' = [seen EXCEPT ![h] = @ \cup Noted(h, b)] /\ UNCHANGED failed
     \/ CallsMayFail /\ failed' = [failed EXCEPT ![h] = TRUE] /\ UNCHANGED seen
  /\ UNCHANGED <<stores, conflict>>

ListFirst(h) ==
  /\ pc[h] = "list a" /\ Hear(h, job[h].a)
  /\ Go(h, IF job[h].op = "define" THEN "listed" ELSE "list b", {})

ListSecond(h) ==
  /\ pc[h] = "list b" /\ Hear(h, job[h].b)
  /\ Go(h, "listed", {})

\* getClusterDefsToBeSubmitted: each Beacon needs both definitions.
MissingRemote(h) == {d \in Ends(h) \X Ends(h) : d[1] # d[2]} \ seen[h]
Missing(h) == (Ends(h) \X Ends(h)) \ seen[h]

\* The details of the clusters, which a definition is made of, are not to be had.
NoDetails(h) == CallsMayFail /\ (job[h].op = "define" => Missing(h) # {})

\* What the handler was told is not looked at again.
Use(h) == seen' = [seen EXCEPT ![h] = {}] /\ UNCHANGED <<failed, conflict>>

Listed(h) ==
  /\ pc[h] = "listed"
  /\ \/ /\ failed[h] \/ (job[h].op # "unpair" /\ NoDetails(h))
        /\ Finish(h, "error", TRUE)
     \/ /\ ~failed[h] /\ job[h].op = "unpair"
        /\ Go(h, "remove", seen[h]) /\ Use(h)
     \/ /\ ~failed[h] /\ job[h].op # "unpair"
        /\ Go(h, "submit", Missing(h)) /\ Use(h)
  /\ UNCHANGED stores

-----------------------------------------------------------------------------
(* Definitions are submitted, and then the clusters are paired. *)

\* How a call that took effect ends: answered, or as a failure to the caller.
Outcomes == IF CallsMayFail THEN {TRUE, FALSE} ELSE {TRUE}

\* Who minds that a Beacon has a definition already: not a pair request.
MindsAlways(h) == TRUE
Minds(h) == job[h].op = "define"

Submit(h, d) ==
  /\ pc[h] = "submit" /\ d \in todo[h]
  /\ todo' = [todo EXCEPT ![h] = @ \ {d}]
  /\ \/ \E ok \in Outcomes :
          /\ ~Defined(d)
          /\ defs' = [defs EXCEPT ![d[1]] = @ \cup {d[2]}]
          /\ failed' = [failed EXCEPT ![h] = @ \/ ~ok]
          /\ UNCHANGED conflict
     \/ /\ Defined(d)
        /\ conflict' = [conflict EXCEPT ![h] = @ \/ Minds(h)]
        /\ UNCHANGED <<defs, failed>>
     \/ /\ CallsMayFail
        /\ failed' = [failed EXCEPT ![h] = TRUE]
        /\ UNCHANGED <<defs, conflict>>
  /\ answer' = {}
  /\ UNCHANGED <<paired, pc, job, seen, disturbed>>

SubmitFailed(h) == failed[h] \/ conflict[h]

Settled(h) == todo[h] = {}

Submitted(h) ==
  /\ pc[h] = "submit" /\ Settled(h)
  /\ \/ SubmitFailed(h) /\ Finish(h, "error", failed[h])
     \/ ~SubmitFailed(h) /\ job[h].op = "define" /\ Finish(h, "ok", FALSE)
     \/ ~SubmitFailed(h) /\ job[h].op = "pair" /\ Go(h, "pair", {}) /\ UNCHANGED notes
  /\ UNCHANGED stores

\* createPair: the Beacon of a is asked to pair with b.
Pair(h) ==
  /\ pc[h] = "pair"
  /\ \/ /\ \A d \in Ends(h) \X Ends(h) : Defined(d)
        /\ paired' = paired \cup {Ends(h)}
        /\ \E ok \in Outcomes : Finish(h, IF ok THEN "ok" ELSE "error", ~ok)
     \/ \* clusters without definitions, or paired already
        /\ (\E d \in Ends(h) \X Ends(h) : ~Defined(d)) \/ Ends(h) \in paired
        /\ Finish(h, "error", FALSE)
        /\ UNCHANGED paired
     \/ CallsMayFail /\ Finish(h, "error", TRUE) /\ UNCHANGED paired
  /\ UNCHANGED defs

-----------------------------------------------------------------------------
(* Clusters are unpaired, and then definitions are deleted. *)

\* getCluster and getDpCluster of both clusters.  The second result of
\* getDpCluster is taken without a look: when it is an error, an exception ends
\* the callback and nothing ever completes the promise.
FindClusters(h) ==
  /\ pc[h] = "clusters"
  /\ \/ Go(h, "unpair", {}) /\ UNCHANGED notes
     \/ CallsMayFail /\ Finish(h, "error", TRUE)
     \/ DpClusterMayFail /\ Go(h, "lost", {}) /\ UNCHANGED notes
  /\ UNCHANGED stores

\* The Beacon of a is asked to unpair from b; of clusters that are not paired it
\* may say what it likes.
Unpair(h) ==
  /\ pc[h] = "unpair"
  /\ \/ /\ paired' = paired \ {Ends(h)}
        /\ Go(h, "list a", {}) /\ UNCHANGED notes
     \/ /\ CallsMayFail
        /\ paired' \in {paired, paired \ {Ends(h)}}
        /\ Finish(h, "error", TRUE)
     \/ /\ Ends(h) \notin paired
        /\ Finish(h, "error", FALSE) /\ UNCHANGED paired
  /\ UNCHANGED defs

\* removeClusterDefinitions
Remove(h, d) ==
  /\ pc[h] = "remove" /\ d \in todo[h]
  /\ todo' = [todo EXCEPT ![h] = @ \ {d}]
  /\ \/ \E ok \in Outcomes :
          /\ Defined(d) /\ ~HasPeers(d)
          /\ defs' = [defs EXCEPT ![d[1]] = @ \ {d[2]}]
          /\ failed' = [failed EXCEPT ![h] = @ \/ ~ok]
     \/ /\ CallsMayFail \/ ~Defined(d) \/ HasPeers(d)
        /\ failed' = [failed EXCEPT ![h] = TRUE]
        /\ UNCHANGED defs
  /\ answer' = {}
  /\ UNCHANGED <<paired, pc, job, seen, conflict, disturbed>>

Removed(h) ==
  /\ pc[h] = "remove" /\ Settled(h)
  /\ Finish(h, IF failed[h] THEN "error" ELSE "ok", failed[h])
  /\ UNCHANGED stores

-----------------------------------------------------------------------------

Step(h) ==
  \/ ListFirst(h) \/ ListSecond(h) \/ Listed(h)
  \/ \E d \in Def : Submit(h, d) \/ Remove(h, d)
  \/ Submitted(h) \/ Pair(h)
  \/ FindClusters(h) \/ Unpair(h) \/ Removed(h)

Next == \E h \in Handlers : (\E j \in Job : Receive(h, j)) \/ Step(h)

Spec == Init /\ [][Next]_vars

\* Every call ends, with an answer or an error.
FairSpec == Spec /\ \A h \in Handlers : WF_vars(Step(h))

-----------------------------------------------------------------------------
(* Properties. *)

Phases == {"idle", "clusters", "unpair", "list a", "list b", "listed", "submit", "pair",
           "remove", "lost"}

TypeOK ==
  /\ defs \in [Clusters -> SUBSET Clusters]
  /\ paired \subseteq {e \in SUBSET Clusters : Cardinality(e) = 2}
  /\ pc \in [Handlers -> Phases]
  /\ job \in [Handlers -> Job]
  /\ seen \in [Handlers -> SUBSET Def]
  /\ todo \in [Handlers -> SUBSET Def]
  /\ failed \in [Handlers -> BOOLEAN] /\ conflict \in [Handlers -> BOOLEAN]
  /\ disturbed \in [Handlers -> BOOLEAN]
  /\ answer \subseteq [job : Job, outcome : {"ok", "error"}, failed : BOOLEAN,
                       disturbed : BOOLEAN]

\* A Beacon is asked to pair only when both Beacons have both definitions,
\* whoever submitted them, unless an unpair was at work meanwhile.
DefinedBeforePairing ==
  \A h \in Handlers : pc[h] = "pair" /\ ~disturbed[h]
     => \A d \in Ends(h) \X Ends(h) : Defined(d)

\* A pair request fails only for a reason: one of its calls failed, an unpair
\* was at work meanwhile, or the clusters are paired.  Other requests that
\* submit the same definitions at the same time, or definitions that earlier
\* requests left behind, are no such reason.
PairErrorsHaveReason ==
  \A m \in answer : m.job.op = "pair" /\ m.outcome = "error"
     => m.failed \/ m.disturbed \/ {m.job.a, m.job.b} \in paired

\* An unpair without errors, with no other request meanwhile, leaves no
\* definition without peers on the two Beacons, those that earlier requests left
\* there included.
UnpairCleansUp ==
  \A m \in answer : m.job.op = "unpair" /\ m.outcome = "ok" /\ ~m.disturbed
     => /\ {m.job.a, m.job.b} \notin paired
        /\ \A b \in {m.job.a, m.job.b} : \A c \in defs[b] : HasPeers(<<b, c>>)

\* "@return Future from promise" (BeaconService.scala:303): every request ends.
RequestsEnd == \A h \in Handlers : pc[h] # "idle" ~> pc[h] = "idle"
=============================================================================
