------------------------------ MODULE PolicyPages ------------------------------
(***************************************************************************)
(* The page of policies and the wizard that adds one: the wizard with its  *)
(* steps, of these the cluster of the source, the queue and the form of    *)
(* the schedule in detail, and the rows of the page.  Each part is a       *)
(* module of its own.                                                      *)
(* The wizard knows these forms by their values and by being valid or not, *)
(* and the page knows the wizard by the policies that are there            *)
(* afterwards, so that it is enough to check one part at a time: part      *)
(* names the one that takes steps in a behaviour.                          *)
(***************************************************************************)
EXTENDS Integers, FiniteSets

CONSTANTS Clusters, Pairings, Is10, CloudFs, Tde, HiveOnS3, Datasets, Preselections,
          MaxMoves,                                                    \* PolicyWizard
          Today, Dates, EndDates, Frequencies, Units, Days, LastDate,  \* ScheduleForm
          Sources, Paired, SuperUsers, MaxPicks,                       \* SourceCluster
          Limits, FirstLimit, MaxFilterings,                           \* PolicyRows
          QueueClusters, MaxSaves                                      \* QueueChoice

VARIABLES part,
          steps, validation, open, preselected, activeStepId, isFormValid, forms,
          policyRequestInProgress, validationInProgress, checking, creating, moves,
          job, startTime, required, errors, given,
          policyType, sourceCluster, database, isSuperUser, setSnapshottable, told, newest, defined,
          submittedClusters, clusterSubmitted, submissions, userCalls, selectedSource,
          databases, databasesCall, tables, tablesLoading, tablesCall, picks,
          policies, initialNames, applied, shared, filters, options, activeService,
          filterByService, limit, offset, linked, filterings,
          general, source, destination, queues, queueCall, refused, yarnQueueList, queueName, saves

wizardVars == <<steps, validation, open, preselected, activeStepId, isFormValid, forms,
                policyRequestInProgress, validationInProgress, checking, creating, moves>>
scheduleVars == <<job, startTime, required, errors, given>>
sourceVars == <<policyType, sourceCluster, database, isSuperUser, setSnapshottable, told, newest, defined,
                submittedClusters, clusterSubmitted, submissions, userCalls, selectedSource,
                databases, databasesCall, tables, tablesLoading, tablesCall, picks>>
rowVars == <<policies, initialNames, applied, shared, filters, options, activeService,
             filterByService, limit, offset, linked, filterings>>
queueVars == <<general, source, destination, queues, queueCall, refused, yarnQueueList,
               queueName, saves>>
vars == <<part, wizardVars, scheduleVars, sourceVars, rowVars, queueVars>>

Wizard == INSTANCE PolicyWizard
Schedule == INSTANCE ScheduleForm
\* Two Hives, with a name in both.
HiveDatabases ==
  {[of |-> "east", name |-> "d"], [of |-> "west", name |-> "d"], [of |-> "west", name |-> "e"]}
Source == INSTANCE SourceCluster
\* Three policies of two kinds to two targets.
TargetOf == [p \in {"p", "q", "r"} |-> IF p = "p" THEN "east" ELSE "west"]
TypeOf == [p \in {"p", "q", "r"} |-> IF p = "r" THEN "HIVE" ELSE "HDFS"]
PolicyTable == INSTANCE PolicyRows WITH Ids <- DOMAIN TypeOf
\* Two queues in each cluster, one of them of the same name.
QueuesOf == [c \in QueueClusters |-> <<"default", IF c \in HiveOnS3 THEN "fast" ELSE "slow">>]
Queue == INSTANCE QueueChoice WITH OnS3 <- HiveOnS3

ASSUME PolicyPagesConstants ==
  /\ Wizard!WizardConstants /\ Schedule!ScheduleConstants
  /\ Source!SourceClusterConstants /\ PolicyTable!PolicyRowsConstants
  /\ Queue!QueueChoiceConstants

Parts == {"wizard", "schedule", "source", "rows", "queue"}

\* What a part may start with matters to it only.
Init ==
  /\ part \in Parts
  /\ part # "rows" => linked = ""
  /\ Wizard!Init /\ Schedule!Init /\ Source!Init /\ PolicyTable!Init /\ Queue!Init

AtWork(p, resting) == part = p /\ UNCHANGED <<part, resting>>
WizardAtWork == AtWork("wizard", <<scheduleVars, sourceVars, rowVars, queueVars>>)
ScheduleAtWork == AtWork("schedule", <<wizardVars, sourceVars, rowVars, queueVars>>)
SourceAtWork == AtWork("source", <<wizardVars, scheduleVars, rowVars, queueVars>>)
RowsAtWork == AtWork("rows", <<wizardVars, scheduleVars, sourceVars, queueVars>>)
QueueAtWork == AtWork("queue", <<wizardVars, scheduleVars, sourceVars, rowVars>>)

Next ==
  \/ WizardAtWork /\ Wizard!Next
  \/ ScheduleAtWork /\ Schedule!Next
  \/ SourceAtWork /\ Source!Next
  \/ RowsAtWork /\ PolicyTable!Next
  \/ QueueAtWork /\ Queue!Next

Spec == Init /\ [][Next]_vars

-----------------------------------------------------------------------------

\* The types of the variables of the part at work; those of the others are as they begin.
TypeOK ==
  /\ part \in Parts
  /\ part = "wizard" => Wizard!TypeOK
  /\ part = "source" => Source!TypeOK
  /\ part = "rows" => PolicyTable!TypeOK
  /\ part = "queue" => Queue!TypeOK

\* See OneStepActive of PolicyWizard.
OneStepActive == part = "wizard" => Wizard!OneStepActive

\* See SubmitsSaved of PolicyWizard.
SubmitsSaved == part = "wizard" => Wizard!SubmitsSaved

\* What is chosen for a policy fits: NoCloudToCloud and CredentialsForCloud of
\* PolicyWizard, DatabaseListed and SnapshotBySuperUser of SourceCluster, QueueOfCluster
\* of QueueChoice.  Exempt are a wizard with a preselected cluster, an answer about the
\* super user that an earlier choice had, and a cluster whose queues were refused.
EndsFit ==
  /\ part = "wizard" => Wizard!NoCloudToCloud /\ Wizard!CredentialsForCloud
  /\ part = "source" => Source!DatabaseListed /\ Source!SnapshotBySuperUser
  /\ part = "queue" => Queue!QueueOfCluster

\* See ChosenDay of ScheduleForm.
ChosenDay == part = "schedule" => Schedule!ChosenDay

\* What is shown is what there is, and all of it can be reached: TagsTell, LinkShows and
\* PagesReach of PolicyRows, BrowsesDefined and SpinsForSource of SourceCluster.
ShowsStore ==
  /\ part = "rows" => PolicyTable!TagsTell /\ PolicyTable!LinkShows /\ PolicyTable!PagesReach
  /\ part = "source" => Source!BrowsesDefined /\ Source!SpinsForSource

\* See EditsVoidValidation of PolicyWizard.
EditsVoidValidation == Wizard!EditsVoidValidation
=============================================================================
