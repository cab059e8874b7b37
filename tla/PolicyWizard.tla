----------------------------- MODULE PolicyWizard -----------------------------
(***************************************************************************)
(* The wizard that creates a policy: the modal, the wizard component and   *)
(* the forms of its steps (pages/policies/components), with the reducer    *)
(* (WizardSteps) and the effects that validate and create the policy.      *)
(*                                                                         *)
(* All five forms live as long as the wizard does; one step is shown.  The *)
(* user edits the form shown, presses Next, Back or a tab, and may close   *)
(* the wizard at any time.  Answers come whatever is shown by then: the    *)
(* check of the source's directory, the validation of the policy and its   *)
(* creation; the last two outlive the wizard.  The handlers of one event,  *)
(* with the subscriptions they set off, run to the end before the next.    *)
(*                                                                         *)
(* A dataset is a directory (HDFS) or a database (HIVE); account, bucket   *)
(* and encryption of a cloud end are one value.  The forms of the schedule *)
(* and the advanced step are there as being valid or not (see              *)
(* ScheduleForm).                                                          *)
(***************************************************************************)
EXTENDS WizardSteps, FiniteSets

CONSTANTS Clusters,   \* clusters with a Beacon
          Pairings,   \* sets of two clusters
          Is10,       \* those with Beacon 1.0, whose policies are not validated
          CloudFs,    \* those with replication_cloud_fs
          Tde,        \* those with replication_TDE
          HiveOnS3,   \* those whose Hive has its files on S3
          Datasets,   \* names of directories, databases, buckets
          Preselections, \* clusters in the address of the wizard, or ""
          MaxMoves    \* bound: Back, tabs, and wizards that are opened, of which
                      \* one with a preselection counts twice

WizardConstants ==
  /\ \A p \in Pairings : p \subseteq Clusters /\ Cardinality(p) = 2
  /\ Is10 \subseteq Clusters /\ CloudFs \subseteq Clusters
  /\ Tde \subseteq Clusters /\ HiveOnS3 \subseteq Clusters
  /\ "" \notin Clusters \cup Datasets /\ Preselections \subseteq Clusters \cup {""}
  /\ MaxMoves \in Nat

POLICY_TYPES == {"HDFS", "HIVE"}
SOURCE_TYPES == {"CLUSTER", "S3"}

VARIABLES steps,        \* store: the steps
          validation,   \* store: the last answer of a validation
          open,         \* the wizard is shown
          preselected,  \* the cluster in its address
          activeStepId, \* the step that is shown
          isFormValid,  \* Next is enabled, but for a request in progress
          forms,        \* the forms of the steps
          policyRequestInProgress,
          validationInProgress,
          checking,     \* a call validates a policy
          creating,     \* the policy that a call creates
          moves

vars == <<steps, validation, open, preselected, activeStepId, isFormValid, forms,
          policyRequestInProgress, validationInProgress, checking, creating, moves>>

NoCall == [clusterId |-> "none"]

-----------------------------------------------------------------------------
(* Forms. *)

Names == Datasets \cup {""}
GeneralValues == [type : POLICY_TYPES, ok : BOOLEAN]
SourceValues ==
  [type : SOURCE_TYPES \cup {""}, cluster : Clusters \cup {""}, data : Names,
   bucket : Names, checked : BOOLEAN]
DestinationValues ==
  [type : SOURCE_TYPES \cup {""}, cluster : Clusters \cup {""}, path : Names,
   bucket : Names, skipValidation : BOOLEAN, validationStatus : BOOLEAN,
   seen : BOOLEAN, strict : BOOLEAN]

InitialGeneral == [type |-> "HDFS", ok |-> FALSE]
\* checked: the directory has no error, and no check of it is pending.
InitialSource == [type |-> "", cluster |-> "", data |-> "", bucket |-> "", checked |-> TRUE]
\* seen: a value of the form was seen; strict: the group needs its validation.
InitialDestination ==
  [type |-> "", cluster |-> "", path |-> "", bucket |-> "", skipValidation |-> FALSE,
   validationStatus |-> FALSE, seen |-> FALSE, strict |-> FALSE]

InitialForms ==
  [general |-> InitialGeneral, source |-> InitialSource,
   destination |-> InitialDestination, schedule |-> FALSE, advanced |-> TRUE]

\* The saved values that other steps look at; undefined as "".
PolicyType(s) == IF s["general"].value.saved THEN s["general"].value.is.type ELSE ""
Source(s) == IF s["source"].value.saved THEN s["source"].value.is
             ELSE [type |-> "", cluster |-> "", data |-> "", bucket |-> "", of |-> ""]

\* The values of the form that are enabled.
SourceValue(f, policyType) ==
  [type |-> f.type,
   cluster |-> IF f.type = "S3" THEN "" ELSE f.cluster,
   data |-> IF f.type = "S3" THEN "" ELSE f.data,
   bucket |-> IF f.type = "S3" THEN f.bucket ELSE "",
   of |-> policyType]

SourceValid(f, policyType) ==
  \/ f.type = "S3" /\ f.bucket # ""
  \/ /\ f.type = "CLUSTER" /\ f.cluster # "" /\ f.data # ""
     /\ policyType = "HDFS" => f.checked

\* The fields of the destination that are enabled.
Enabled(d, policyType) ==
  CASE d.type = "S3" -> {"bucket"}
    [] d.type = "CLUSTER" /\ policyType = "HIVE" /\ d.cluster \in HiveOnS3
         -> {"cluster", "path", "bucket"}
    [] d.type = "CLUSTER" -> {"cluster", "path"}
    [] OTHER -> {"cluster", "path", "bucket"}

\* The fields whose change voids a validation.
NoClusterFields(d, policyType) == [f \in Enabled(d, policyType) \ {"cluster", "path"} |-> d[f]]
PolicyFields(d, policyType) == [f \in Enabled(d, policyType) |-> d[f]]

IsDestination10(d) == d.cluster = "" \/ d.cluster \in Is10

DestinationFilled(d, policyType) ==
  /\ d.type # ""
  /\ \A f \in Enabled(d, policyType) : d[f] # ""

\* validationStatusValidator, where it is set.
GroupValid(d) == d.strict => d.skipValidation \/ d.validationStatus

DestinationValid(d, policyType) ==
  /\ DestinationFilled(d, policyType) /\ GroupValid(d)
  /\ d.skipValidation \/ (IsDestination10(d) /\ d.type # "S3") \/ d.validationStatus

\* isFormValid of a step.
Valid(f, s, id) ==
  CASE id = "general" -> f.general.ok
    [] id = "source" -> SourceValid(f.source, PolicyType(s))
    [] id = "destination" -> DestinationValid(f.destination, PolicyType(s))
    [] id = "schedule" -> f.schedule
    [] id = "advanced" -> f.advanced

\* A change of the destination's form, and the subscription to its changes.
Voided(d, new, policyType) ==
  IF d.seen /\ PolicyFields(new, policyType) = PolicyFields(d, policyType)
  THEN new
  ELSE [new EXCEPT !.validationStatus = FALSE, !.seen = TRUE]

\* adjustFormValue: the destination follows the steps before it, s before and t
\* after an action of the store.
SourcePath(t) == IF Source(t).of = PolicyType(t) THEN Source(t).data ELSE ""

KeepsValue(d) == d
WithInitialValue(d) == [InitialDestination EXCEPT !.seen = d.seen, !.strict = d.strict]

Adjusted(d, s, t) ==
  LET both == s["source"].value.saved /\ t["source"].value.saved
      typeChanged == Source(s).type # Source(t).type \/ PolicyType(s) # PolicyType(t)
      d1 == IF both /\ typeChanged THEN WithInitialValue(d) ELSE d
      pristine == both /\ Source(s) = Source(t)
      fromCluster == Source(t).type = "CLUSTER"
      kept == /\ pristine /\ d1.path # ""
              /\ fromCluster => d1.path # SourcePath(t)
      path == IF fromCluster THEN SourcePath(t) ELSE ""
  IN Voided(d, IF kept THEN d1 ELSE [d1 EXCEPT !.path = path], PolicyType(t))

-----------------------------------------------------------------------------
(* What is offered. *)

PairedWith(c) == (UNION {p \in Pairings : c \in p}) \ {c}

SourceClusters(policyType) ==
  IF policyType = "HDFS" THEN (UNION Pairings) \cup Tde
  ELSE {c \in Clusters \ HiveOnS3 : PairedWith(c) # {}}

SourceTypes(policyType) ==
  IF policyType = "HIVE" \/ CloudFs = {} THEN {"CLUSTER"} ELSE SOURCE_TYPES

DestinationTypes(s) ==
  IF PolicyType(s) = "HIVE" \/ Source(s).type = "S3" \/ Source(s).cluster \notin CloudFs
  THEN {"CLUSTER"} ELSE SOURCE_TYPES

DestinationClusters(s) ==
  IF Source(s).type = "CLUSTER" THEN PairedWith(Source(s).cluster) ELSE Tde \cap CloudFs

PathReadonly(s, d) ==
  /\ Source(s).type = "CLUSTER" /\ Source(s).cluster \notin CloudFs
  /\ ~(PolicyType(s) = "HIVE" /\ d.cluster \in HiveOnS3)

-----------------------------------------------------------------------------

Init ==
  /\ steps = InitialSteps /\ validation = "none"
  /\ open = FALSE /\ preselected = "" /\ activeStepId = "general" /\ isFormValid = FALSE
  /\ forms = InitialForms
  /\ policyRequestInProgress = FALSE /\ validationInProgress = FALSE
  /\ checking = FALSE /\ creating = NoCall
  /\ moves = 0

Editing(id) == open /\ activeStepId = id

\* A step tells the wizard when its validity changes, whichever step is shown.
Emitted(id, f) == IF Valid(f, steps, id) # Valid(forms, steps, id)
                  THEN Valid(f, steps, id) ELSE isFormValid

Edited(id, f) ==
  /\ forms' = f
  /\ isFormValid' = Emitted(id, f)
  /\ UNCHANGED <<validation, open, preselected, activeStepId, policyRequestInProgress,
                 validationInProgress, checking, creating, moves>>

\* The modal shows a new wizard, perhaps with a cluster preselected; an answer of
\* a validation that is still in the store is applied to its form.
Open(c) ==
  /\ ~open /\ moves' = moves + (IF c = "" THEN 1 ELSE 2) /\ moves' <= MaxMoves
  /\ open' = TRUE /\ preselected' = c
  /\ activeStepId' = ActiveStepId(steps, "general")
  /\ isFormValid' = FALSE
  /\ forms' = [InitialForms EXCEPT
       !.destination.validationStatus = (validation = "success"),
       !.source.type = IF c = "" THEN "" ELSE "CLUSTER",
       !.source.cluster = c]
  /\ policyRequestInProgress' = FALSE /\ validationInProgress' = FALSE
  /\ UNCHANGED <<steps, validation, checking, creating>>

EditGeneral(type, ok) ==
  /\ Editing("general")
  /\ Edited("general", [forms EXCEPT !.general = [type |-> type, ok |-> ok]])
  /\ UNCHANGED steps

\* A new type of the source resets the destination in the store.
EditSourceType(type) ==
  /\ Editing("source") /\ type \in SourceTypes(PolicyType(steps))
  /\ type # forms.source.type
  /\ steps' = ResetStep(steps, "destination")
  /\ Edited("source", [forms EXCEPT !.source.type = type,
                         !.destination = Adjusted(@, steps, steps')])

EditSource(f) ==
  /\ Editing("source") /\ f.type = forms.source.type
  /\ \/ /\ f.type = "CLUSTER" /\ f.bucket = forms.source.bucket
        /\ f.cluster \in SourceClusters(PolicyType(steps)) \cup {forms.source.cluster}
        /\ f.data = forms.source.data => f.checked = forms.source.checked
        /\ f.data # forms.source.data => f.checked
     \/ f.type = "S3" /\ f = [forms.source EXCEPT !.bucket = f.bucket]
  /\ Edited("source", [forms EXCEPT !.source = f])
  /\ UNCHANGED steps

\* The directory is marked as pending, or found good or bad, also when another
\* step is shown by then.
SourceRechecked ==
  /\ open /\ forms.source.type = "CLUSTER" /\ PolicyType(steps) = "HDFS"
  /\ Edited("source", [forms EXCEPT !.source.checked = ~@])
  /\ UNCHANGED steps

EditDestination(d) ==
  /\ Editing("destination")
  /\ Edited("destination",
       [forms EXCEPT !.destination = Voided(@, d, PolicyType(steps))])
  /\ UNCHANGED steps

EditDestinationType(type) ==
  /\ type \in DestinationTypes(steps)
  /\ EditDestination([forms.destination EXCEPT !.type = type])

\* For HDFS the version of the Beacon decides on the validator of the group; the
\* configuration of a Hive on S3 gives the bucket.
EditDestinationCluster(c) ==
  /\ forms.destination.type = "CLUSTER" /\ c \in DestinationClusters(steps)
  /\ c # forms.destination.cluster
  /\ LET d == [forms.destination EXCEPT !.cluster = c]
     IN IF PolicyType(steps) = "HDFS"
        THEN EditDestination([d EXCEPT
               !.strict = c \notin Is10,
               !.validationStatus = @ /\ c \in Is10])
        ELSE EditDestination(d)

EditDestinationField(f, v) ==
  /\ f \in Enabled(forms.destination, PolicyType(steps)) \ {"cluster"}
  /\ f = "path" => ~PathReadonly(steps, forms.destination)
  /\ EditDestination([forms.destination EXCEPT ![f] = v])

ValidationShown ==
  /\ DestinationFilled(forms.destination, PolicyType(steps))
  /\ forms.destination.type = "S3" \/ ~IsDestination10(forms.destination)

SkipValidation ==
  /\ ValidationShown /\ ~validationInProgress
  /\ EditDestination([forms.destination EXCEPT !.skipValidation = ~@])

EditOther(id) ==
  /\ id \in {"schedule", "advanced"} /\ Editing(id)
  /\ Edited(id, [forms EXCEPT ![id] = ~@])
  /\ UNCHANGED steps

-----------------------------------------------------------------------------
(* Moving between steps. *)

\* The source is reset when it becomes active after the type of policies changed,
\* else its values are set again, which takes back the errors of the directory.
Activated(f, s, t) ==
  IF PolicyType(s) # PolicyType(t) THEN InitialSource ELSE [f EXCEPT !.checked = TRUE]

\* validatePreselectedCluster: with a preselection, a source that is not a cluster
\* offered for the type of policies is taken back.
Preselected(f, policyType) ==
  LET offered == SourceClusters(policyType)
  IN IF /\ preselected # "" /\ offered # {}
        /\ SourceValue(f, policyType).cluster \notin offered
     THEN [f EXCEPT !.type = "", !.cluster = ""] ELSE f

\* The forms after the steps s became t, with the source as given.
Shown(f, source, s, t) ==
  [f EXCEPT !.destination = Adjusted(@, s, t), !.source = source]

\* The tab of a step that becomes active selects it: Next then depends on its form.
Show(source, t) ==
  LET g == Shown(forms, source, steps, t)
      u == IF source.type # forms.source.type THEN ResetStep(t, "destination") ELSE t
      id == ActiveStepId(u, activeStepId)
  IN /\ forms' = g /\ steps' = u
     /\ activeStepId' = id
     /\ isFormValid' = IF id = activeStepId THEN isFormValid ELSE Valid(g, u, id)

Value(id) ==
  CASE id = "general" -> [type |-> forms.general.type]
    [] id = "source" -> SourceValue(forms.source, PolicyType(steps))
    [] id = "destination" ->
         [f \in {"type"} \cup Enabled(forms.destination, PolicyType(steps))
            |-> forms.destination[f]]
    [] OTHER -> id

AnyCredentials ==
  [clusterId |-> Source(steps).cluster, sourceCluster |-> Source(steps).cluster,
   sourceDataset |-> Source(steps).data, targetCluster |-> forms.destination.cluster,
   targetDataset |-> forms.destination.path, cloudCred |-> forms.destination.bucket]

\* submitPolicy: the policy made of the saved steps; "" is left out of the request.
Policy ==
  LET type == PolicyType(steps)
      source == Source(steps)
      destination == steps["destination"].value.is
      toCluster == destination.type = "CLUSTER"
      isHiveCloud == type = "HIVE" /\ toCluster /\ destination.cluster \in HiveOnS3
      fromS3 == source.type = "S3"
  IN [clusterId     |-> IF toCluster /\ ~isHiveCloud THEN destination.cluster
                        ELSE source.cluster,
      sourceCluster |-> source.cluster,
      sourceDataset |-> IF fromS3 THEN source.bucket ELSE source.data,
      targetCluster |-> IF toCluster THEN destination.cluster ELSE "",
      targetDataset |-> IF toCluster THEN destination.path
                        ELSE IF destination.type = "S3" THEN destination.bucket ELSE "",
      cloudCred     |-> IF fromS3 THEN source.bucket
                        ELSE IF isHiveCloud \/ destination.type = "S3"
                        THEN destination.bucket ELSE ""]

\* Saves the step that is shown; on the last step the policy is submitted, and
\* switchMap cancels an older submission.
NextButton ==
  /\ open /\ isFormValid /\ ~policyRequestInProgress
  /\ LET t == SaveStep(steps, activeStepId, Value(activeStepId))
     IN Show(IF activeStepId = "general"
             THEN Preselected(Activated(forms.source, steps, t), PolicyType(t))
             ELSE forms.source, t)
  /\ policyRequestInProgress' = (activeStepId = "advanced")
  /\ creating' = IF activeStepId = "advanced" THEN Policy ELSE creating
  /\ UNCHANGED <<validation, open, preselected, validationInProgress, checking, moves>>

MoveTo(id) ==
  /\ moves < MaxMoves /\ moves' = moves + 1
  /\ LET t == MoveToStep(steps, id)
     IN Show(IF id = "source" THEN Activated(forms.source, steps, t) ELSE forms.source, t)
  /\ UNCHANGED <<validation, open, preselected, policyRequestInProgress, validationInProgress,
                 checking, creating>>

IsBackButtonDisabled == policyRequestInProgress \/ ~HasPrevious(activeStepId)

BackButton ==
  /\ open /\ ~IsBackButtonDisabled
  /\ MoveTo(PreviousStepId(activeStepId))

SelectAnyTab(id) == open /\ id # activeStepId /\ MoveTo(id)

SelectTab(id) ==
  /\ open /\ id # activeStepId /\ steps[id].state # "disabled"
  /\ MoveTo(id)

\* Cancel, the cross or Escape; only Cancel waits for a request in progress.
Close ==
  /\ open /\ open' = FALSE /\ preselected' = ""
  /\ steps' = InitialSteps /\ validation' = "none"
  /\ forms' = InitialForms /\ activeStepId' = "general" /\ isFormValid' = FALSE
  /\ policyRequestInProgress' = FALSE /\ validationInProgress' = FALSE
  /\ UNCHANGED <<checking, creating, moves>>

-----------------------------------------------------------------------------
(* Requests. *)

ValidateButton ==
  /\ Editing("destination") /\ ValidationShown
  /\ ~forms.destination.skipValidation /\ ~validationInProgress
  /\ validationInProgress' = TRUE /\ checking' = TRUE
  /\ UNCHANGED <<steps, validation, open, preselected, activeStepId, isFormValid, forms,
                 policyRequestInProgress, creating, moves>>

\* The answer goes to the form of the wizard that is open now, as it is now.
Validated(answer) ==
  /\ checking /\ checking' = FALSE
  /\ validation' = answer
  /\ validationInProgress' = FALSE
  /\ LET d == [forms.destination EXCEPT !.validationStatus = (answer = "success")]
         f == [forms EXCEPT !.destination = Voided(@, d, PolicyType(steps))]
     IN IF open THEN forms' = f /\ isFormValid' = Emitted("destination", f)
        ELSE UNCHANGED <<forms, isFormValid>>
  /\ UNCHANGED <<steps, open, preselected, activeStepId, policyRequestInProgress, creating, moves>>

\* createPolicySuccess, the route /policies, wizardResetAllSteps.
Created ==
  /\ creating # NoCall /\ creating' = NoCall
  /\ open' = FALSE /\ preselected' = ""
  /\ steps' = InitialSteps /\ validation' = "none"
  /\ forms' = InitialForms /\ activeStepId' = "general" /\ isFormValid' = FALSE
  /\ policyRequestInProgress' = FALSE /\ validationInProgress' = FALSE
  /\ UNCHANGED <<checking, moves>>

CreationFailed ==
  /\ creating # NoCall /\ creating' = NoCall
  /\ policyRequestInProgress' = FALSE
  /\ UNCHANGED <<steps, validation, open, preselected, activeStepId, isFormValid, forms,
                 validationInProgress, checking, moves>>

-----------------------------------------------------------------------------

EditSteps ==
  \/ \E type \in POLICY_TYPES, ok \in BOOLEAN : EditGeneral(type, ok)
  \/ \E type \in SOURCE_TYPES : EditSourceType(type) \/ EditDestinationType(type)
  \/ \E c \in Clusters, v \in Datasets :
       EditSource([forms.source EXCEPT !.cluster = c, !.data = v,
                     !.checked = @ \/ v # forms.source.data])
  \/ \E v \in Datasets : EditSource([forms.source EXCEPT !.bucket = v])
  \/ \E c \in Clusters : EditDestinationCluster(c)
  \/ \E v \in Datasets \cup {""} : EditDestinationField("path", v)
  \/ \E v \in Datasets : EditDestinationField("bucket", v)
  \/ Editing("destination") /\ SkipValidation
  \/ \E id \in StepIds : EditOther(id)

Next ==
  \/ \E c \in Preselections : Open(c)
  \/ EditSteps
  \/ SourceRechecked
  \/ NextButton \/ BackButton \/ Close
  \/ \E id \in StepIds : SelectTab(id)
  \/ ValidateButton
  \/ \E answer \in {"success", "failed"} : Validated(answer)
  \/ Created \/ CreationFailed

Spec == Init /\ [][Next]_vars

-----------------------------------------------------------------------------
(* Properties. *)

TypeOK ==
  /\ DOMAIN steps = StepIds
  /\ \A id \in StepIds :
       steps[id].state \in WIZARD_STATE /\ steps[id].value.saved \in BOOLEAN
  /\ validation \in {"none", "success", "failed"}
  /\ preselected \in Preselections \cup {""} /\ activeStepId \in StepIds
  /\ forms.general \in GeneralValues /\ forms.source \in SourceValues
  /\ forms.destination \in DestinationValues
  /\ {open, isFormValid, forms.schedule, forms.advanced, policyRequestInProgress,
      validationInProgress, checking} \subseteq BOOLEAN
  /\ moves \in 0..MaxMoves

\* Whatever is saved, reset and moved to, one step is active, and it is the one
\* shown; the steps before it are completed, those after it disabled.
OneStepActive == InOrder(steps) /\ steps[activeStepId].state = "active"

\* The steps before the active one are saved: submitPolicy takes them apart.
SubmitsSaved == SavedBefore(steps)

\* A destination in a bucket is saved only for a policy of HDFS that is not from a bucket
\* itself: going back and changing a type, or a late answer, leaves no other.
NoCloudToCloud ==
  LET d == steps["destination"].value
  IN d.saved /\ d.is.type = "S3"
       => PolicyType(steps) = "HDFS" /\ Source(steps).type # "S3"

ForOneEnd(policy) ==
  policy.cloudCred # ""
    => \/ policy.sourceCluster = "" /\ policy.targetCluster # ""
       \/ policy.sourceCluster # "" /\ policy.targetCluster \in HiveOnS3 \cup {""}

\* A policy that is submitted names credentials for one end in the cloud, or none, in a
\* wizard opened without a cluster.  (With one, it may be taken back after its bucket
\* was validated, and Next is enabled by the answer.)
CredentialsForCloud == policyRequestInProgress /\ preselected = "" => ForOneEnd(creating)

\* A change of what a validation is about takes the validation back, be it made
\* by the user, by the source followed or by a change of types.
EditsVoidValidation ==
  [][LET fields(f, s) ==
           [x \in Enabled(f.destination, PolicyType(s)) |-> f.destination[x]]
     IN open /\ open' /\ fields(forms, steps) # fields(forms', steps')
          => ~forms'.destination.validationStatus]_vars
=============================================================================
