------------------------------ MODULE QueueChoice ------------------------------
(***************************************************************************)
(* The queue of YARN that the jobs of a policy run in: the advanced step   *)
(* of the wizard (step-advanced.component.ts), with the queues in the      *)
(* store (yarn.effect.ts, yarn-queues.reducer.ts).  The jobs run on the    *)
(* target, or on the source when the target is a cloud; the step listens   *)
(* to what the steps before it save, also while it is not shown.  Queues   *)
(* are lists of the leaves of their tree, with at least one.               *)
(***************************************************************************)
EXTENDS Naturals, Sequences

CONSTANTS QueueClusters, \* clusters
          OnS3,          \* those whose Hive has its files on S3
          QueuesOf,      \* the queues of each
          MaxSaves       \* bound: steps that are saved or set back

None == ""
QueueChoiceConstants ==
  /\ OnS3 \subseteq QueueClusters /\ MaxSaves \in Nat
  /\ DOMAIN QueuesOf = QueueClusters /\ \A c \in QueueClusters : QueuesOf[c] # <<>>

VARIABLES general, source, destination, \* of the steps as saved
          queues,        \* in the store: those of each cluster, or none
          queueCall,     \* the cluster whose queues are asked for, or None
          refused,       \* clusters whose last call brought none
          yarnQueueList, queueName, \* of the form
          saves

vars == <<general, source, destination, queues, queueCall, refused, yarnQueueList,
          queueName, saves>>

Unsaved == [type |-> None, cluster |-> None]
Ends == {Unsaved, [type |-> "S3", cluster |-> None]}
          \cup {[type |-> "CLUSTER", cluster |-> c] : c \in QueueClusters}

\* sourceOrDestinationTypeChanges$.
RunsAt(type, s, d) ==
  IF s.type = None \/ d.type = None THEN Unsaved
  ELSE IF \/ s.type = "CLUSTER" /\ d.type = "S3"
          \/ type = "HIVE" /\ d.cluster \in OnS3
       THEN s ELSE d

Init ==
  /\ general = None /\ source = Unsaved /\ destination = Unsaved
  /\ queues = [c \in QueueClusters |-> <<>>] /\ queueCall = None /\ refused = {}
  /\ yarnQueueList = <<>> /\ queueName = None /\ saves = 0

\* updateQueueList: the queues of cluster c, when these are other ones than before.
FirstListOnly(before, after) ==
  IF after \in {before, <<>>} \/ yarnQueueList # <<>> THEN UNCHANGED <<yarnQueueList, queueName>>
  ELSE yarnQueueList' = after /\ queueName' = after[1]
UpdateQueueList(before, after) ==
  IF after \in {before, <<>>} THEN UNCHANGED <<yarnQueueList, queueName>>
  ELSE yarnQueueList' = after /\ queueName' = after[1]

Listed(c) == IF c = None THEN <<>> ELSE queues[c]

\* A load replaces the one before.
AskUnlessBusy(c) ==
  IF c = None \/ queueCall # None THEN UNCHANGED <<queueCall, refused>>
  ELSE queueCall' = c /\ refused' = refused \ {c}
Ask(c) ==
  IF c = None THEN UNCHANGED <<queueCall, refused>>
  ELSE queueCall' = c /\ refused' = refused \ {c}

\* A step is saved, or set back.
Saved(type, s, d) ==
  /\ saves < MaxSaves /\ saves' = saves + 1
  /\ <<type, s, d>> # <<general, source, destination>>
  /\ general' = type /\ source' = s /\ destination' = d
  /\ LET c == RunsAt(type, s, d).cluster
     IN /\ Ask(c)
        /\ UpdateQueueList(Listed(RunsAt(general, source, destination).cluster), Listed(c))
  /\ UNCHANGED queues

RunsOn == RunsAt(general, source, destination).cluster

LoadYarnQueuesSuccess ==
  /\ queueCall # None /\ queueCall' = None
  /\ queues' = [queues EXCEPT ![queueCall] = QueuesOf[queueCall]]
  /\ UpdateQueueList(Listed(RunsOn), IF RunsOn = queueCall THEN QueuesOf[queueCall] ELSE Listed(RunsOn))
  /\ UNCHANGED <<general, source, destination, refused, saves>>

LoadYarnQueuesFailure ==
  /\ queueCall # None /\ queueCall' = None
  /\ refused' = refused \cup {queueCall}
  /\ UNCHANGED <<general, source, destination, queues, yarnQueueList, queueName, saves>>

ChooseQueue(name) ==
  /\ name # queueName /\ queueName' = name
  /\ UNCHANGED <<general, source, destination, queues, queueCall, refused, yarnQueueList, saves>>

Next ==
  \/ \E type \in {"HDFS", "HIVE"} : Saved(type, source, destination)
  \/ \E end \in Ends : Saved(general, end, destination) \/ Saved(general, source, end)
  \/ Saved(None, Unsaved, Unsaved)
  \/ LoadYarnQueuesSuccess \/ LoadYarnQueuesFailure
  \/ \E i \in DOMAIN yarnQueueList : ChooseQueue(yarnQueueList[i])

-----------------------------------------------------------------------------

TypeOK ==
  /\ general \in {"HDFS", "HIVE", None} /\ {source, destination} \subseteq Ends
  /\ \A c \in QueueClusters : queues[c] \in {QueuesOf[c], <<>>}
  /\ queueCall \in QueueClusters \cup {None} /\ refused \subseteq QueueClusters

\* Whatever was saved in between, a queue is one of the cluster the jobs run on, as soon
\* as the queues of that are there; and these are there, or asked for, or could not be
\* had (setupSourceDestinationChanges).
QueueOfCluster ==
  RunsOn # None =>
    IF queues[RunsOn] = <<>> THEN queueCall = RunsOn \/ RunsOn \in refused
    ELSE /\ yarnQueueList = queues[RunsOn]
         /\ \E i \in DOMAIN yarnQueueList : queueName = yarnQueueList[i]
=============================================================================
