--------------------------- MODULE PolicyPagesProofs ---------------------------
(***************************************************************************)
(* Proofs about PolicyPages, for any clusters, pairs, preselections,       *)
(* databases, dates, policies, queues and bounds.                          *)
(*                                                                         *)
(* The wizard: its steps stay in order (Ordered); its forms have their     *)
(* types (WizardTypes) and what they and the steps hold fits (WizardFits), *)
(* so that a policy has one end in the cloud at most; what was validated   *)
(* is what is saved, so that it has credentials for that end               *)
(* (CredentialsFit); and edits void a validation.  Then the cluster and    *)
(* the database of the source, the queue, the dates of the schedule and    *)
(* the rows of the table.                                                  *)
(***************************************************************************)
EXTENDS PolicyPages, FiniteSetTheorems, TLAPS

\* A step of the pages is one of the part at work.
LEMMA PartSteps ==
  ASSUME [Next]_vars
  PROVE  /\ part' = part
         /\ part = "wizard" => [Wizard!Next]_wizardVars
         /\ part = "schedule" => [Schedule!Next]_scheduleVars
         /\ part = "source" => [Source!Next]_sourceVars
         /\ part = "rows" => [PolicyTable!Next]_rowVars
         /\ part = "queue" => [Queue!Next]_queueVars
  BY DEF Next, vars, AtWork, WizardAtWork, ScheduleAtWork, SourceAtWork, RowsAtWork, QueueAtWork

-----------------------------------------------------------------------------
(* The steps of the wizard in the store. *)

\* The steps, in their order.
LEMMA StepIdsAre ==
  /\ Wizard!StepIds = {"general", "source", "destination", "schedule", "advanced"}
  /\ Wizard!Index("general") = 1 /\ Wizard!Index("source") = 2 /\ Wizard!Index("destination") = 3
  /\ Wizard!Index("schedule") = 4 /\ Wizard!Index("advanced") = 5
  BY DEF Wizard!StepIds, Wizard!Index, Wizard!WIZARD_STEP_ID

\* The step after another, and the one before.
LEMMA NeighboursAre ==
  ASSUME NEW id \in Wizard!StepIds
  PROVE  /\ Wizard!Index(id) \in 1..5
         /\ Wizard!HasNext(id) => /\ Wizard!NextStepId(id) \in Wizard!StepIds
                                  /\ Wizard!Index(Wizard!NextStepId(id)) = Wizard!Index(id) + 1
         /\ Wizard!HasNext(id) <=> id # "advanced"
         /\ Wizard!HasPrevious(id) => /\ Wizard!PreviousStepId(id) \in Wizard!StepIds
                                      /\ Wizard!Index(Wizard!PreviousStepId(id)) < Wizard!Index(id)
         /\ \A s \in Wizard!StepIds : Wizard!Index(s) = Wizard!Index(id) => s = id
  BY StepIdsAre DEF Wizard!HasNext, Wizard!NextStepId, Wizard!HasPrevious, Wizard!PreviousStepId,
     Wizard!WIZARD_STEP_ID

\* The step after each.
LEMMA NextStepsAre ==
  /\ Wizard!HasNext("general") /\ Wizard!NextStepId("general") = "source"
  /\ Wizard!HasNext("source") /\ Wizard!NextStepId("source") = "destination"
  /\ Wizard!HasNext("destination") /\ Wizard!NextStepId("destination") = "schedule"
  /\ Wizard!HasNext("schedule") /\ Wizard!NextStepId("schedule") = "advanced"
  /\ ~Wizard!HasNext("advanced")
  BY StepIdsAre DEF Wizard!HasNext, Wizard!NextStepId, Wizard!WIZARD_STEP_ID

IsStep(x) == x = [state |-> x.state, value |-> x.value]

\* Step a is active, those before it are completed and saved, those after it disabled.
Ordered(st, a) ==
  /\ a \in Wizard!StepIds /\ DOMAIN st = Wizard!StepIds
  /\ \A s \in Wizard!StepIds :
       /\ IsStep(st[s])
       /\ s = a => st[s].state = "active"
       /\ Wizard!Index(s) < Wizard!Index(a) => st[s].state = "completed" /\ st[s].value.saved
       /\ Wizard!Index(a) < Wizard!Index(s) => st[s].state = "disabled"

\* The initial steps are in order.
LEMMA InitialOrdered == Ordered(Wizard!InitialSteps, "general")
  BY StepIdsAre DEF Ordered, IsStep, Wizard!InitialSteps, Wizard!Unsaved

\* A step that is saved makes way for the next.
LEMMA SaveOrdered ==
  ASSUME NEW st, NEW a, Ordered(st, a), NEW v
  PROVE  Ordered(Wizard!SaveStep(st, a, v),
                 IF Wizard!HasNext(a) THEN Wizard!NextStepId(a) ELSE a)
<1>. DEFINE t == Wizard!SaveStep(st, a, v)
            b == IF Wizard!HasNext(a) THEN Wizard!NextStepId(a) ELSE a
<1>1. a \in Wizard!StepIds /\ b \in Wizard!StepIds
  BY NeighboursAre DEF Ordered
<1>2. DOMAIN t = Wizard!StepIds
  BY DEF Wizard!SaveStep
<1>3. ASSUME NEW s \in Wizard!StepIds
      PROVE  /\ s = a => t[s] = [state |-> IF Wizard!HasNext(a) THEN "completed" ELSE "active",
                                 value |-> [saved |-> TRUE, is |-> v]]
             /\ s # a /\ s = b => t[s] = [st[s] EXCEPT !.state = "active"]
             /\ s # a /\ s # b => t[s] = st[s]
  <2>1. t[s] = CASE s = a -> [state |-> IF Wizard!HasNext(a) THEN "completed" ELSE "active",
                              value |-> Wizard!Saved(v)]
                 [] Wizard!HasNext(a) /\ s = Wizard!NextStepId(a) -> [st[s] EXCEPT !.state = "active"]
                 [] OTHER -> st[s]
    BY DEF Wizard!SaveStep
  <2>2. Wizard!HasNext(a) => Wizard!NextStepId(a) # a
    BY <1>1, NeighboursAre
  <2>3. s # a => (s = b <=> Wizard!HasNext(a) /\ s = Wizard!NextStepId(a))
    OBVIOUS
  <2>. HIDE DEF t, b
  <2>. QED  BY <2>1, <2>2, <2>3 DEF Wizard!Saved
<1>4. ASSUME NEW s \in Wizard!StepIds
      PROVE  /\ IsStep(t[s])
             /\ s = b => t[s].state = "active"
             /\ Wizard!Index(s) < Wizard!Index(b) => t[s].state = "completed" /\ t[s].value.saved
             /\ Wizard!Index(b) < Wizard!Index(s) => t[s].state = "disabled"
  <2>. HIDE DEF t
  <2>1. CASE s = a
    BY <1>1, <1>3, <2>1, StepIdsAre, NeighboursAre DEF IsStep
  <2>2. CASE s # a /\ s = b
    <3>1. IsStep(st[s]) /\ t[s] = [st[s] EXCEPT !.state = "active"]
      BY <1>3, <2>2 DEF Ordered
    <3>2. t[s] = [state |-> "active", value |-> st[s].value]
      BY <3>1 DEF IsStep
    <3>. QED  BY <2>2, <3>2, NeighboursAre DEF IsStep
  <2>3. CASE s # a /\ s # b
    <3>1. /\ t[s] = st[s] /\ Wizard!Index(s) # Wizard!Index(a) /\ Wizard!Index(s) # Wizard!Index(b)
          /\ Wizard!Index(b) \in {Wizard!Index(a), Wizard!Index(a) + 1}
      BY <1>1, <1>3, <2>3, NeighboursAre
    <3>. QED  BY <1>1, <3>1, NeighboursAre DEF Ordered
  <2>. QED  BY <2>1, <2>2, <2>3
<1>. QED  BY <1>1, <1>2, <1>4 DEF Ordered

\* Going back disables what comes after.
LEMMA MoveOrdered ==
  ASSUME NEW st, NEW a, Ordered(st, a),
         NEW id \in Wizard!StepIds, Wizard!Index(id) < Wizard!Index(a)
  PROVE  Ordered(Wizard!MoveToStep(st, id), id)
  BY StepIdsAre, NeighboursAre DEF Ordered, IsStep, Wizard!MoveToStep

\* A step after the active one may be reset.
LEMMA ResetOrdered ==
  ASSUME NEW st, NEW a, Ordered(st, a),
         NEW id \in Wizard!StepIds, Wizard!Index(a) < Wizard!Index(id)
  PROVE  Ordered(Wizard!ResetStep(st, id), a)
  BY StepIdsAre, NeighboursAre DEF Ordered, IsStep, Wizard!ResetStep, Wizard!Unsaved

\* The active step is the one shown.
LEMMA ActiveIs ==
  ASSUME NEW st, NEW a, Ordered(st, a), NEW shown
  PROVE  Wizard!ActiveStepId(st, shown) = a
  BY StepIdsAre, NeighboursAre DEF Ordered, Wizard!ActiveStepId

\* The steps and the forms after a change of the store.
LEMMA ShowOrdered ==
  ASSUME NEW t, NEW b, Ordered(t, b), NEW shown, Wizard!Show(shown, t),
         shown.type # forms.source.type => Wizard!Index(b) < 3
  PROVE  Ordered(steps', activeStepId') /\ activeStepId' = b
<1>. DEFINE u == IF shown.type # forms.source.type THEN Wizard!ResetStep(t, "destination") ELSE t
<1>1. Ordered(u, b)
  BY ResetOrdered, StepIdsAre
<1>2. steps' = u /\ activeStepId' = Wizard!ActiveStepId(u, activeStepId)
  BY DEF Wizard!Show
<1>. HIDE DEF u
<1>. QED  BY <1>1, <1>2, ActiveIs

\* The steps stay in order, and the active one is shown.
LEMMA WizardKeepsOrder ==
  ASSUME Ordered(steps, activeStepId), Wizard!Next
  PROVE  Ordered(steps', activeStepId')
<1>1. ASSUME NEW c, Wizard!Open(c)
      PROVE  Ordered(steps', activeStepId')
  BY <1>1, ActiveIs DEF Wizard!Open
<1>2. CASE Wizard!EditSteps
  <2>1. ASSUME NEW type, Wizard!EditSourceType(type)
        PROVE  Ordered(steps', activeStepId')
    <3>1. activeStepId = "source" /\ steps' = Wizard!ResetStep(steps, "destination")
          /\ activeStepId' = activeStepId
      BY <2>1 DEF Wizard!EditSourceType, Wizard!Editing, Wizard!Edited
    <3>. QED  BY <3>1, ResetOrdered, StepIdsAre
  <2>2. CASE UNCHANGED <<steps, activeStepId>>
    BY <2>2
  <2>. QED
    BY <1>2, <2>1, <2>2 DEF Wizard!EditSteps, Wizard!EditGeneral, Wizard!EditSource,
       Wizard!EditDestinationType, Wizard!EditDestinationCluster, Wizard!EditDestinationField,
       Wizard!EditDestination, Wizard!SkipValidation, Wizard!EditOther, Wizard!Edited
<1>3. CASE Wizard!NextButton
  <2>. DEFINE t == Wizard!SaveStep(steps, activeStepId, Wizard!Value(activeStepId))
              b == IF Wizard!HasNext(activeStepId) THEN Wizard!NextStepId(activeStepId)
                   ELSE activeStepId
              shown == IF activeStepId = "general"
                       THEN Wizard!Preselected(Wizard!Activated(forms.source, steps, t),
                                               Wizard!PolicyType(t))
                       ELSE forms.source
  <2>1. Ordered(t, b)
    BY SaveOrdered
  <2>2. Wizard!Show(shown, t)
    BY <1>3 DEF Wizard!NextButton
  <2>3. shown.type # forms.source.type => Wizard!Index(b) < 3
    BY StepIdsAre, NeighboursAre
  <2>. HIDE DEF t, b, shown
  <2>. QED  BY <2>1, <2>2, <2>3, ShowOrdered
<1>4. ASSUME NEW id \in Wizard!StepIds, Wizard!Index(id) < Wizard!Index(activeStepId),
             Wizard!MoveTo(id)
      PROVE  Ordered(steps', activeStepId')
  <2>. DEFINE t == Wizard!MoveToStep(steps, id)
              shown == IF id = "source" THEN Wizard!Activated(forms.source, steps, t)
                       ELSE forms.source
  <2>1. Ordered(t, id)
    BY <1>4, MoveOrdered
  <2>2. Wizard!Show(shown, t)
    BY <1>4 DEF Wizard!MoveTo
  <2>3. shown.type # forms.source.type => Wizard!Index(id) < 3
    BY StepIdsAre
  <2>. HIDE DEF t, shown
  <2>. QED  BY <2>1, <2>2, <2>3, ShowOrdered
<1>5. CASE Wizard!BackButton
  <2>1. activeStepId \in Wizard!StepIds
    BY DEF Ordered
  <2>. QED  BY <1>4, <1>5, <2>1, NeighboursAre DEF Wizard!BackButton, Wizard!IsBackButtonDisabled
<1>6. ASSUME NEW id \in Wizard!StepIds, Wizard!SelectTab(id)
      PROVE  Ordered(steps', activeStepId')
  <2>1. id # activeStepId /\ steps[id].state # "disabled" /\ Wizard!MoveTo(id)
    BY <1>6 DEF Wizard!SelectTab
  <2>2. Wizard!Index(id) < Wizard!Index(activeStepId)
    BY <2>1, NeighboursAre DEF Ordered
  <2>. QED  BY <1>4, <2>1, <2>2
<1>7. CASE Wizard!Close \/ Wizard!Created
  BY <1>7, InitialOrdered DEF Wizard!Close, Wizard!Created
<1>8. CASE \/ Wizard!SourceRechecked \/ Wizard!ValidateButton \/ Wizard!CreationFailed
           \/ \E answer \in {"success", "failed"} : Wizard!Validated(answer)
  BY <1>8 DEF Wizard!SourceRechecked, Wizard!ValidateButton, Wizard!CreationFailed,
     Wizard!Validated, Wizard!Edited
<1>. QED  BY <1>1, <1>2, <1>3, <1>5, <1>6, <1>7, <1>8 DEF Wizard!Next

WizardInOrder == part = "wizard" => Ordered(steps, activeStepId)

\* The pages keep the steps of the wizard in order.
LEMMA StaysInOrder == Spec => []WizardInOrder
<1>1. Init => WizardInOrder
  BY InitialOrdered DEF Init, Wizard!Init, WizardInOrder
<1>2. WizardInOrder /\ [Next]_vars => WizardInOrder'
  <2>. SUFFICES ASSUME WizardInOrder, [Next]_vars, part' = "wizard"
                PROVE  Ordered(steps', activeStepId')
    BY DEF WizardInOrder
  <2>. QED  BY PartSteps, WizardKeepsOrder DEF WizardInOrder, wizardVars
<1>. QED  BY <1>1, <1>2, PTL DEF Spec

\* Whatever is saved, reset and moved to in the wizard (create-policy.reducer.ts), one step
\* is active, the one shown; those before it are completed, those after it disabled.
THEOREM OneStepIsActive == Spec => []OneStepActive
<1>1. WizardInOrder => OneStepActive
  BY StepIdsAre, NeighboursAre
     DEF WizardInOrder, Ordered, OneStepActive, Wizard!OneStepActive, Wizard!InOrder
<1>. QED  BY <1>1, StaysInOrder, PTL

\* The steps before the active one are saved, so that a policy can be made of them
\* (submitPolicy of create-policy-wizard.component.ts).
THEOREM SubmitsWhatIsSaved == Spec => []SubmitsSaved
<1>1. WizardInOrder => SubmitsSaved
  BY NeighboursAre DEF WizardInOrder, Ordered, SubmitsSaved, Wizard!SubmitsSaved, Wizard!SavedBefore
<1>. QED  BY <1>1, StaysInOrder, PTL

-----------------------------------------------------------------------------
(* The forms of the wizard. *)

SavedSources ==
  [type : Wizard!SOURCE_TYPES \cup {""}, cluster : Clusters \cup {""}, data : Wizard!Names,
   bucket : Wizard!Names, of : Wizard!POLICY_TYPES \cup {""}]
FormValues ==
  [general : Wizard!GeneralValues, source : Wizard!SourceValues,
   destination : Wizard!DestinationValues, schedule : BOOLEAN, advanced : BOOLEAN]

\* The forms a wizard starts with.
LEMMA InitialFormsAre ==
  /\ Wizard!InitialForms \in FormValues
  /\ Wizard!InitialForms.source.type = "" /\ Wizard!InitialForms.source.cluster = ""
  /\ Wizard!InitialForms.destination.type = "" /\ Wizard!InitialForms.destination.cluster = ""
  /\ Wizard!InitialSource \in Wizard!SourceValues
  /\ Wizard!InitialSource.type = "" /\ Wizard!InitialSource.cluster = ""
  BY DEF Wizard!InitialForms, FormValues, Wizard!InitialGeneral, Wizard!InitialSource,
     Wizard!InitialDestination, Wizard!GeneralValues, Wizard!SourceValues,
     Wizard!DestinationValues, Wizard!Names, Wizard!POLICY_TYPES, Wizard!SOURCE_TYPES

\* What other steps look at is in the values that are saved.
LEMMA SavedValues ==
  ASSUME NEW s, NEW t, \A id \in {"general", "source"} : t[id].value = s[id].value
  PROVE  Wizard!PolicyType(t) = Wizard!PolicyType(s) /\ Wizard!Source(t) = Wizard!Source(s)
  BY DEF Wizard!PolicyType, Wizard!Source

\* Moving and resetting keep the values, but for the one that is reset.
LEMMA MoveKeepsValues ==
  ASSUME NEW st, NEW a, Ordered(st, a), NEW id \in Wizard!StepIds
  PROVE  /\ \A s \in Wizard!StepIds : Wizard!MoveToStep(st, id)[s].value = st[s].value
         /\ Wizard!PolicyType(Wizard!MoveToStep(st, id)) = Wizard!PolicyType(st)
         /\ Wizard!Source(Wizard!MoveToStep(st, id)) = Wizard!Source(st)
<1>1. \A s \in Wizard!StepIds : Wizard!MoveToStep(st, id)[s].value = st[s].value
  BY DEF Ordered, IsStep, Wizard!MoveToStep
<1>. QED  BY <1>1, SavedValues, StepIdsAre

\* A new value of the destination changes nothing for the steps before it.
LEMMA ResetKeepsValues ==
  ASSUME NEW st, NEW a, Ordered(st, a)
  PROVE  LET t == Wizard!ResetStep(st, "destination")
         IN /\ t["destination"].value = Wizard!Unsaved
            /\ \A s \in Wizard!StepIds \ {"destination"} : t[s].value = st[s].value
            /\ Wizard!PolicyType(t) = Wizard!PolicyType(st) /\ Wizard!Source(t) = Wizard!Source(st)
<1>. DEFINE t == Wizard!ResetStep(st, "destination")
<1>1. /\ t["destination"].value = Wizard!Unsaved
      /\ \A s \in Wizard!StepIds \ {"destination"} : t[s].value = st[s].value
  BY StepIdsAre DEF Ordered, Wizard!ResetStep
<1>. HIDE DEF t
<1>2. Wizard!PolicyType(t) = Wizard!PolicyType(st) /\ Wizard!Source(t) = Wizard!Source(st)
  BY <1>1, SavedValues, StepIdsAre
<1>. QED  BY <1>1, <1>2 DEF t

\* Saving a step changes its value only.
LEMMA SaveKeepsValues ==
  ASSUME NEW st, NEW a, Ordered(st, a), NEW v
  PROVE  LET t == Wizard!SaveStep(st, a, v)
         IN /\ t[a].value = Wizard!Saved(v)
            /\ \A s \in Wizard!StepIds \ {a} : t[s].value = st[s].value
            /\ a # "general" => Wizard!PolicyType(t) = Wizard!PolicyType(st)
            /\ a # "source" => Wizard!Source(t) = Wizard!Source(st)
            /\ a = "general" => Wizard!PolicyType(t) = v.type
            /\ a = "source" => Wizard!Source(t) = v
<1>. DEFINE t == Wizard!SaveStep(st, a, v)
<1>0. ASSUME NEW s \in Wizard!StepIds
      PROVE  /\ s = a => t[s].value = Wizard!Saved(v)
             /\ s # a => t[s].value = st[s].value
  <2>1. t[s] = CASE s = a -> [state |-> IF Wizard!HasNext(a) THEN "completed" ELSE "active",
                              value |-> Wizard!Saved(v)]
                 [] Wizard!HasNext(a) /\ s = Wizard!NextStepId(a) -> [st[s] EXCEPT !.state = "active"]
                 [] OTHER -> st[s]
    BY DEF Wizard!SaveStep
  <2>2. IsStep(st[s]) /\ (Wizard!HasNext(a) => Wizard!NextStepId(a) # a)
    BY NeighboursAre DEF Ordered
  <2>. HIDE DEF t
  <2>3. s # a => t[s].value = st[s].value
    BY <2>1, <2>2 DEF IsStep
  <2>4. s = a => t[s] = [state |-> IF Wizard!HasNext(a) THEN "completed" ELSE "active",
                         value |-> Wizard!Saved(v)]
    BY <2>1, <2>2
  <2>. QED  BY <2>3, <2>4
<1>. HIDE DEF t
<1>1. t[a].value = Wizard!Saved(v)
  BY <1>0 DEF Ordered
<1>2. ASSUME NEW s \in Wizard!StepIds \ {a}
      PROVE  t[s].value = st[s].value
  BY <1>0
<1>3. a # "general" => Wizard!PolicyType(t) = Wizard!PolicyType(st)
  BY <1>2, StepIdsAre DEF Wizard!PolicyType
<1>4. a # "source" => Wizard!Source(t) = Wizard!Source(st)
  BY <1>2, StepIdsAre DEF Wizard!Source
<1>5. /\ a = "general" => Wizard!PolicyType(t) = v.type
      /\ a = "source" => Wizard!Source(t) = v
  <2>1. t[a].value.saved = TRUE /\ t[a].value.is = v
    BY <1>1 DEF Wizard!Saved
  <2>2. a = "general" => Wizard!PolicyType(t) = v.type
    BY <2>1, Zenon DEF Wizard!PolicyType
  <2>3. a = "source" => Wizard!Source(t) = v
    BY <2>1, Zenon DEF Wizard!Source
  <2>. QED  BY <2>2, <2>3
<1>. QED  BY <1>1, <1>2, <1>3, <1>4, <1>5 DEF t

Ends(d) == <<d.type, d.cluster, d.bucket>>

\* A change that may void a validation, and does nothing else.
LEMMA VoidedIs ==
  ASSUME NEW d \in Wizard!DestinationValues, NEW new \in Wizard!DestinationValues, NEW policyTypeIs
  PROVE  LET e == Wizard!Voided(d, new, policyTypeIs)
         IN /\ e \in Wizard!DestinationValues
            /\ Ends(e) = Ends(new) /\ e.path = new.path
            /\ e.validationStatus
                 => /\ new.validationStatus /\ e = new
                    /\ Wizard!PolicyFields(new, policyTypeIs) = Wizard!PolicyFields(d, policyTypeIs)
  BY DEF Wizard!Voided, Wizard!DestinationValues, Ends

TypesChanged(s, t) ==
  /\ s["source"].value.saved /\ t["source"].value.saved
  /\ \/ Wizard!Source(s).type # Wizard!Source(t).type
     \/ Wizard!PolicyType(s) # Wizard!PolicyType(t)

\* The destination starts anew after a change of types, and else follows the path only.
LEMMA AdjustedIs ==
  ASSUME NEW d \in Wizard!DestinationValues, NEW s, NEW t, Wizard!Source(t) \in SavedSources
  PROVE  LET e == Wizard!Adjusted(d, s, t)
         IN /\ e \in Wizard!DestinationValues
            /\ TypesChanged(s, t)
                 => /\ Ends(e) = <<"", "", "">> /\ ~e.validationStatus
            /\ ~TypesChanged(s, t)
                 => /\ Ends(e) = Ends(d)
                    /\ e.validationStatus
                         => Wizard!PolicyFields(e, Wizard!PolicyType(t))
                              = Wizard!PolicyFields(d, Wizard!PolicyType(t))
<1>. DEFINE d1 == IF TypesChanged(s, t) THEN Wizard!WithInitialValue(d) ELSE d
            path == IF Wizard!Source(t).type = "CLUSTER" THEN Wizard!SourcePath(t) ELSE ""
            e == Wizard!Adjusted(d, s, t)
<1>1. PICK new \in {d1, [d1 EXCEPT !.path = path]} : e = Wizard!Voided(d, new, Wizard!PolicyType(t))
  BY DEF Wizard!Adjusted, TypesChanged
<1>2. path \in Wizard!Names
  BY DEF Wizard!SourcePath, SavedSources, Wizard!Names
<1>3. /\ d1 \in Wizard!DestinationValues
      /\ TypesChanged(s, t) => Ends(d1) = <<"", "", "">> /\ ~d1.validationStatus
      /\ ~TypesChanged(s, t) => d1 = d
  BY ZenonT(30) DEF Wizard!WithInitialValue, Wizard!InitialDestination, Wizard!DestinationValues, Ends, Wizard!Names
<1>. HIDE DEF d1, path, e
<1>4. /\ new \in Wizard!DestinationValues /\ Ends(new) = Ends(d1)
      /\ new.validationStatus = d1.validationStatus
  BY <1>1, <1>2, <1>3 DEF Wizard!DestinationValues, Ends
<1>5. /\ e \in Wizard!DestinationValues /\ Ends(e) = Ends(new) /\ e.path = new.path
      /\ e.validationStatus => new.validationStatus
      /\ e.validationStatus
           => Wizard!PolicyFields(new, Wizard!PolicyType(t)) = Wizard!PolicyFields(d, Wizard!PolicyType(t))
  BY SMTT(20), <1>1, <1>4, VoidedIs
<1>6. Wizard!PolicyFields(e, Wizard!PolicyType(t)) = Wizard!PolicyFields(new, Wizard!PolicyType(t))
  <2>1. e.type = new.type /\ e.cluster = new.cluster /\ e.bucket = new.bucket /\ e.path = new.path
    BY <1>5 DEF Ends
  <2>2. e["cluster"] = new["cluster"] /\ e["bucket"] = new["bucket"] /\ e["path"] = new["path"]
    BY <2>1
  <2>3. /\ Wizard!Enabled(e, Wizard!PolicyType(t)) = Wizard!Enabled(new, Wizard!PolicyType(t))
        /\ Wizard!Enabled(new, Wizard!PolicyType(t)) \subseteq {"cluster", "path", "bucket"}
    BY <2>1 DEF Wizard!Enabled
  <2>. QED  BY <2>2, <2>3, Zenon DEF Wizard!PolicyFields
<1>. QED  BY <1>3, <1>4, <1>5, <1>6 DEF e

\* Whether a form is valid is told by the form of the step.
LEMMA ValidIs ==
  ASSUME NEW f \in FormValues, NEW s, NEW id \in Wizard!StepIds
  PROVE  /\ Wizard!Valid(f, s, id) \in BOOLEAN
         /\ id = "source" => Wizard!Valid(f, s, id) = Wizard!SourceValid(f.source, Wizard!PolicyType(s))
         /\ id = "destination"
              => Wizard!Valid(f, s, id) = Wizard!DestinationValid(f.destination, Wizard!PolicyType(s))
<1>1. CASE id = "general"
  BY <1>1 DEF FormValues, Wizard!Valid, Wizard!GeneralValues
<1>2. CASE id = "source"
  BY <1>2 DEF Wizard!Valid, Wizard!SourceValid
<1>3. CASE id = "destination"
  BY <1>3 DEF Wizard!Valid, Wizard!DestinationValid
<1>4. CASE id \in {"schedule", "advanced"}
  BY <1>4 DEF FormValues, Wizard!Valid
<1>. QED  BY <1>1, <1>2, <1>3, <1>4, StepIdsAre

\* What a step tells the wizard.
LEMMA EmittedIs ==
  ASSUME NEW f \in FormValues, forms \in FormValues, NEW id \in Wizard!StepIds, isFormValid \in BOOLEAN
  PROVE  /\ Wizard!Emitted(id, f) \in BOOLEAN
         /\ Wizard!Emitted(id, f) /\ ~Wizard!Valid(f, steps, id)
              => isFormValid /\ ~Wizard!Valid(forms, steps, id)
         /\ Wizard!Valid(f, steps, id) = Wizard!Valid(forms, steps, id)
              => Wizard!Emitted(id, f) = isFormValid
<1>1. Wizard!Valid(f, steps, id) \in BOOLEAN /\ Wizard!Valid(forms, steps, id) \in BOOLEAN
  BY ValidIs
<1>. QED  BY <1>1 DEF Wizard!Emitted

\* The forms and the steps after a change of the store.
LEMMA ShowIs ==
  ASSUME forms \in FormValues, NEW t, NEW b, Ordered(t, b), Wizard!Source(t) \in SavedSources,
         NEW shown \in Wizard!SourceValues, Wizard!Show(shown, t)
  PROVE  /\ forms' \in FormValues
         /\ forms'.general = forms.general /\ forms'.source = shown
         /\ forms'.destination = Wizard!Adjusted(forms.destination, steps, t)
         /\ Wizard!PolicyType(steps') = Wizard!PolicyType(t) /\ Wizard!Source(steps') = Wizard!Source(t)
         /\ \A s \in Wizard!StepIds \ {"destination"} : steps'[s].value = t[s].value
         /\ steps'["destination"].value = IF shown.type # forms.source.type THEN Wizard!Unsaved
                                          ELSE t["destination"].value
         /\ isFormValid' = IF activeStepId' = activeStepId THEN isFormValid
                           ELSE Wizard!Valid(forms', steps', activeStepId')
<1>. DEFINE u == IF shown.type # forms.source.type THEN Wizard!ResetStep(t, "destination") ELSE t
<1>1. /\ forms' = Wizard!Shown(forms, shown, steps, t) /\ steps' = u
      /\ activeStepId' = Wizard!ActiveStepId(u, activeStepId)
      /\ isFormValid' = IF activeStepId' = activeStepId THEN isFormValid
                        ELSE Wizard!Valid(forms', steps', activeStepId')
  BY DEF Wizard!Show
<1>2. /\ forms' \in FormValues
      /\ forms'.general = forms.general /\ forms'.source = shown
      /\ forms'.destination = Wizard!Adjusted(forms.destination, steps, t)
  <2>1. forms.destination \in Wizard!DestinationValues
    BY DEF FormValues
  <2>2. Wizard!Adjusted(forms.destination, steps, t) \in Wizard!DestinationValues
    BY <2>1, AdjustedIs
  <2>. QED  BY <1>1, <2>2 DEF Wizard!Shown, FormValues
<1>3. /\ Wizard!PolicyType(u) = Wizard!PolicyType(t) /\ Wizard!Source(u) = Wizard!Source(t)
      /\ \A s \in Wizard!StepIds \ {"destination"} : u[s].value = t[s].value
      /\ u["destination"].value = IF shown.type # forms.source.type THEN Wizard!Unsaved
                                  ELSE t["destination"].value
  BY ResetKeepsValues
<1>. HIDE DEF u
<1>. QED  BY <1>1, <1>2, <1>3

-----------------------------------------------------------------------------
(* The types of the wizard. *)

WizardTypes ==
  /\ forms \in FormValues
  /\ validation \in {"none", "success", "failed"}
  /\ preselected \in Preselections \cup {""}
  /\ isFormValid \in BOOLEAN /\ open \in BOOLEAN /\ checking \in BOOLEAN
  /\ policyRequestInProgress \in BOOLEAN /\ validationInProgress \in BOOLEAN
  /\ moves \in 0..MaxMoves
  /\ \A id \in Wizard!StepIds : steps[id].value.saved \in BOOLEAN
  /\ steps["general"].value.saved => Wizard!PolicyType(steps) \in Wizard!POLICY_TYPES
  /\ ~steps["general"].value.saved => Wizard!PolicyType(steps) = ""
  /\ Wizard!Source(steps) \in SavedSources

\* A step that is reset is not saved.
LEMMA UnsavedIs == Wizard!Unsaved.saved = FALSE
  BY DEF Wizard!Unsaved

\* The initial steps, of which nothing is saved.
LEMMA InitialStepsAre ==
  /\ \A id \in Wizard!StepIds : ~Wizard!InitialSteps[id].value.saved
                                /\ Wizard!InitialSteps[id].value.saved \in BOOLEAN
  /\ Wizard!PolicyType(Wizard!InitialSteps) = ""
  /\ Wizard!Source(Wizard!InitialSteps) \in SavedSources
  /\ Wizard!Source(Wizard!InitialSteps).type = "" /\ Wizard!Source(Wizard!InitialSteps).cluster = ""
<1>1. \A id \in Wizard!StepIds : Wizard!InitialSteps[id].value.saved = FALSE
  BY DEF Wizard!InitialSteps, Wizard!Unsaved
<1>2. "general" \in Wizard!StepIds /\ "source" \in Wizard!StepIds
  BY StepIdsAre
<1>3. Wizard!PolicyType(Wizard!InitialSteps) = ""
  BY <1>1, <1>2 DEF Wizard!PolicyType
<1>4. Wizard!Source(Wizard!InitialSteps)
        = [type |-> "", cluster |-> "", data |-> "", bucket |-> "", of |-> ""]
  BY <1>1, <1>2 DEF Wizard!Source
<1>5. [type |-> "", cluster |-> "", data |-> "", bucket |-> "", of |-> ""] \in SavedSources
  BY DEF SavedSources, Wizard!Names
<1>6. \A id \in Wizard!StepIds : ~Wizard!InitialSteps[id].value.saved
                                  /\ Wizard!InitialSteps[id].value.saved \in BOOLEAN
  BY <1>1, Zenon
<1>7. Wizard!Source(Wizard!InitialSteps).type = "" /\ Wizard!Source(Wizard!InitialSteps).cluster = ""
  <2>. DEFINE r == [type |-> "", cluster |-> "", data |-> "", bucket |-> "", of |-> ""]
  <2>1. r.type = "" /\ r.cluster = ""
    OBVIOUS
  <2>. HIDE DEF r
  <2>. QED  BY <1>4, <2>1, Zenon DEF r
<1>. QED  BY <1>3, <1>4, <1>5, <1>6, <1>7, Zenon

\* The source that becomes active keeps its ends, or starts anew with the type of policies.
LEMMA ActivatedIs ==
  ASSUME NEW f \in Wizard!SourceValues, NEW s, NEW t
  PROVE  LET g == Wizard!Activated(f, s, t)
         IN /\ g \in Wizard!SourceValues
            /\ Wizard!PolicyType(s) = Wizard!PolicyType(t)
                 => g.type = f.type /\ g.cluster = f.cluster
            /\ Wizard!PolicyType(s) # Wizard!PolicyType(t) => g = Wizard!InitialSource
  BY DEF Wizard!Activated, Wizard!InitialSource, Wizard!SourceValues, Wizard!Names

\* With a preselection it may lose them as well.
LEMMA PreselectedIs ==
  ASSUME NEW f \in Wizard!SourceValues, NEW policyTypeIs
  PROVE  LET h == Wizard!Preselected(f, policyTypeIs)
         IN /\ h \in Wizard!SourceValues
            /\ preselected = "" => h = f
            /\ h # f => h.type = "" /\ h.cluster = ""
  BY DEF Wizard!Preselected, Wizard!SourceValues, Wizard!Names, Wizard!SourceValue

\* The source that is saved.
LEMMA SourceValueIs ==
  ASSUME NEW f \in Wizard!SourceValues, NEW policyTypeIs \in Wizard!POLICY_TYPES \cup {""}
  PROVE  LET S == Wizard!SourceValue(f, policyTypeIs)
         IN /\ S \in SavedSources
            /\ S.type = f.type /\ S.cluster = (IF f.type = "S3" THEN "" ELSE f.cluster)
  BY DEF Wizard!SourceValue, Wizard!SourceValues, SavedSources, Wizard!Names

\* The destination keeps its ends, and a validation only if nothing of it changes.
SameEnds(policyTypeIs) ==
  /\ Ends(forms'.destination) = Ends(forms.destination)
  /\ forms'.destination.validationStatus
       => Wizard!PolicyFields(forms'.destination, policyTypeIs)
            = Wizard!PolicyFields(forms.destination, policyTypeIs)

\* What Next does to the steps and the forms.
LEMMA NextIs ==
  ASSUME WizardTypes, Ordered(steps, activeStepId), Wizard!NextButton
  PROVE  /\ Ordered(steps', activeStepId')
         /\ activeStepId' = IF Wizard!HasNext(activeStepId) THEN Wizard!NextStepId(activeStepId)
                            ELSE activeStepId
         /\ forms' \in FormValues /\ forms'.general = forms.general
         /\ TypesChanged(steps, steps')
              => Ends(forms'.destination) = <<"", "", "">> /\ ~forms'.destination.validationStatus
         /\ ~TypesChanged(steps, steps') => SameEnds(Wizard!PolicyType(steps'))
         /\ activeStepId # "general" =>
              /\ forms'.source = forms.source
              /\ Wizard!PolicyType(steps') = Wizard!PolicyType(steps)
         /\ activeStepId = "general" =>
              /\ forms'.source
                   = Wizard!Preselected(Wizard!Activated(forms.source, steps, steps'),
                                        Wizard!PolicyType(steps'))
              /\ Wizard!PolicyType(steps') = forms.general.type
         /\ Wizard!Source(steps') = IF activeStepId = "source"
                                    THEN Wizard!SourceValue(forms.source, Wizard!PolicyType(steps))
                                    ELSE Wizard!Source(steps)
         /\ steps'["destination"].value
              = IF forms'.source.type # forms.source.type THEN Wizard!Unsaved
                ELSE IF activeStepId = "destination" THEN Wizard!Saved(Wizard!Value("destination"))
                ELSE steps["destination"].value
         /\ \A s \in Wizard!StepIds \ {"destination"} :
              steps'[s].value = IF s = activeStepId THEN Wizard!Saved(Wizard!Value(s))
                                ELSE steps[s].value
         /\ isFormValid' = IF activeStepId' = activeStepId THEN isFormValid
                           ELSE Wizard!Valid(forms', steps', activeStepId')
<1>. DEFINE a == activeStepId
            v == Wizard!Value(a)
            t == Wizard!SaveStep(steps, a, v)
            b == IF Wizard!HasNext(a) THEN Wizard!NextStepId(a) ELSE a
            shown == IF a = "general"
                     THEN Wizard!Preselected(Wizard!Activated(forms.source, steps, t),
                                             Wizard!PolicyType(t))
                     ELSE forms.source
<1>1. a \in Wizard!StepIds /\ forms.source \in Wizard!SourceValues
  BY DEF Ordered, WizardTypes, FormValues
<1>2. Ordered(t, b)
  BY SaveOrdered
<1>3. Wizard!Show(shown, t)
  BY DEF Wizard!NextButton
<1>4. /\ t[a].value = Wizard!Saved(v)
      /\ \A s \in Wizard!StepIds \ {a} : t[s].value = steps[s].value
      /\ a # "general" => Wizard!PolicyType(t) = Wizard!PolicyType(steps)
      /\ a # "source" => Wizard!Source(t) = Wizard!Source(steps)
      /\ a = "general" => Wizard!PolicyType(t) = v.type
      /\ a = "source" => Wizard!Source(t) = v
  BY SaveKeepsValues
<1>5. /\ a = "general" => v.type = forms.general.type
      /\ a = "source" => v = Wizard!SourceValue(forms.source, Wizard!PolicyType(steps))
  BY DEF Wizard!Value
<1>6. shown \in Wizard!SourceValues
  BY <1>1, ActivatedIs, PreselectedIs
<1>7. Wizard!Source(t) \in SavedSources
  <2>1. Wizard!PolicyType(steps) \in Wizard!POLICY_TYPES \cup {""} /\ Wizard!Source(steps) \in SavedSources
    BY DEF WizardTypes
  <2>2. Wizard!SourceValue(forms.source, Wizard!PolicyType(steps)) \in SavedSources
    BY <1>1, <2>1, SourceValueIs
  <2>. HIDE DEF t, v
  <2>. QED  BY <1>4, <1>5, <2>1, <2>2
<1>8. shown.type # forms.source.type => Wizard!Index(b) < 3
  BY StepIdsAre, NeighboursAre
<1>. HIDE DEF t, v, b, shown
<1>9. Ordered(steps', activeStepId') /\ activeStepId' = b
  BY <1>2, <1>3, <1>8, ShowOrdered
<1>10. /\ forms' \in FormValues
       /\ forms'.general = forms.general /\ forms'.source = shown
       /\ forms'.destination = Wizard!Adjusted(forms.destination, steps, t)
       /\ Wizard!PolicyType(steps') = Wizard!PolicyType(t) /\ Wizard!Source(steps') = Wizard!Source(t)
       /\ \A s \in Wizard!StepIds \ {"destination"} : steps'[s].value = t[s].value
       /\ steps'["destination"].value = IF shown.type # forms.source.type THEN Wizard!Unsaved
                                        ELSE t["destination"].value
       /\ isFormValid' = IF activeStepId' = activeStepId THEN isFormValid
                         ELSE Wizard!Valid(forms', steps', activeStepId')
  BY <1>2, <1>3, <1>6, <1>7, ShowIs DEF WizardTypes
<1>11. TypesChanged(steps, t) <=> TypesChanged(steps, steps')
  BY <1>10, StepIdsAre DEF TypesChanged
<1>12. a = "general" => shown = Wizard!Preselected(Wizard!Activated(forms.source, steps, steps'),
                                                    Wizard!PolicyType(steps'))
  BY <1>10 DEF shown, Wizard!Activated
<1>13. a # "general" => shown = forms.source
  BY DEF shown
<1>14. steps'["destination"].value
         = IF forms'.source.type # forms.source.type THEN Wizard!Unsaved
           ELSE IF activeStepId = "destination" THEN Wizard!Saved(Wizard!Value("destination"))
           ELSE steps["destination"].value
  BY <1>4, <1>10, StepIdsAre DEF v
<1>15. \A s \in Wizard!StepIds \ {"destination"} :
         steps'[s].value = IF s = activeStepId THEN Wizard!Saved(Wizard!Value(s))
                           ELSE steps[s].value
  BY <1>4, <1>10 DEF v
<1>16. /\ TypesChanged(steps, steps')
            => Ends(forms'.destination) = <<"", "", "">> /\ ~forms'.destination.validationStatus
       /\ ~TypesChanged(steps, steps') => SameEnds(Wizard!PolicyType(steps'))
  <2>1. forms.destination \in Wizard!DestinationValues
    BY DEF WizardTypes, FormValues
  <2>. DEFINE e == Wizard!Adjusted(forms.destination, steps, t)
  <2>2. /\ TypesChanged(steps, t) => Ends(e) = <<"", "", "">> /\ ~e.validationStatus
        /\ ~TypesChanged(steps, t)
             => /\ Ends(e) = Ends(forms.destination)
                /\ e.validationStatus
                     => Wizard!PolicyFields(e, Wizard!PolicyType(t))
                          = Wizard!PolicyFields(forms.destination, Wizard!PolicyType(t))
    BY <1>7, <2>1, AdjustedIs
  <2>3. forms'.destination = e
    BY <1>10
  <2>. HIDE DEF e
  <2>. QED  BY <1>10, <1>11, <2>2, <2>3 DEF SameEnds
<1>. QED
  BY <1>4, <1>5, <1>9, <1>10, <1>12, <1>13, <1>14, <1>15, <1>16 DEF b

\* What going back to a step does.
LEMMA MoveIs ==
  ASSUME WizardTypes, Ordered(steps, activeStepId),
         NEW id \in Wizard!StepIds, Wizard!Index(id) < Wizard!Index(activeStepId), Wizard!MoveTo(id)
  PROVE  /\ Ordered(steps', activeStepId') /\ activeStepId' = id
         /\ forms' \in FormValues /\ forms'.general = forms.general
         /\ SameEnds(Wizard!PolicyType(steps'))
         /\ forms'.source.type = forms.source.type /\ forms'.source.cluster = forms.source.cluster
         /\ id # "source" => forms'.source = forms.source
         /\ Wizard!PolicyType(steps') = Wizard!PolicyType(steps)
         /\ Wizard!Source(steps') = Wizard!Source(steps)
         /\ \A s \in Wizard!StepIds : steps'[s].value = steps[s].value
         /\ isFormValid' = Wizard!Valid(forms', steps', activeStepId')
<1>. DEFINE t == Wizard!MoveToStep(steps, id)
            shown == IF id = "source" THEN Wizard!Activated(forms.source, steps, t)
                     ELSE forms.source
<1>1. /\ forms.source \in Wizard!SourceValues /\ forms.destination \in Wizard!DestinationValues
      /\ Wizard!Source(steps) \in SavedSources
  BY DEF WizardTypes, FormValues
<1>2. Ordered(t, id)
  BY MoveOrdered
<1>3. Wizard!Show(shown, t)
  BY DEF Wizard!MoveTo
<1>4. /\ \A s \in Wizard!StepIds : t[s].value = steps[s].value
      /\ Wizard!PolicyType(t) = Wizard!PolicyType(steps) /\ Wizard!Source(t) = Wizard!Source(steps)
  BY MoveKeepsValues
<1>. HIDE DEF t
<1>5. /\ shown \in Wizard!SourceValues
      /\ shown.type = forms.source.type /\ shown.cluster = forms.source.cluster
      /\ id # "source" => shown = forms.source
  <2>. DEFINE g == Wizard!Activated(forms.source, steps, t)
  <2>1. /\ g \in Wizard!SourceValues
        /\ Wizard!PolicyType(steps) = Wizard!PolicyType(t)
             => g.type = forms.source.type /\ g.cluster = forms.source.cluster
    BY <1>1, ActivatedIs
  <2>. HIDE DEF g
  <2>2. shown = IF id = "source" THEN g ELSE forms.source
    BY DEF g
  <2>. HIDE DEF shown
  <2>. QED  BY <1>1, <1>4, <2>1, <2>2
<1>. HIDE DEF shown
<1>6. Ordered(steps', activeStepId') /\ activeStepId' = id
  BY <1>2, <1>3, <1>5, ShowOrdered
<1>7. /\ forms' \in FormValues
      /\ forms'.general = forms.general /\ forms'.source = shown
      /\ forms'.destination = Wizard!Adjusted(forms.destination, steps, t)
      /\ Wizard!PolicyType(steps') = Wizard!PolicyType(t) /\ Wizard!Source(steps') = Wizard!Source(t)
      /\ \A s \in Wizard!StepIds \ {"destination"} : steps'[s].value = t[s].value
      /\ steps'["destination"].value = IF shown.type # forms.source.type THEN Wizard!Unsaved
                                       ELSE t["destination"].value
      /\ isFormValid' = IF activeStepId' = activeStepId THEN isFormValid
                        ELSE Wizard!Valid(forms', steps', activeStepId')
  BY <1>1, <1>2, <1>3, <1>4, <1>5, ShowIs DEF WizardTypes
<1>8. SameEnds(Wizard!PolicyType(steps'))
  <2>1. ~TypesChanged(steps, t)
    BY <1>4 DEF TypesChanged
  <2>. DEFINE e == Wizard!Adjusted(forms.destination, steps, t)
  <2>2. /\ Ends(e) = Ends(forms.destination)
        /\ e.validationStatus
             => Wizard!PolicyFields(e, Wizard!PolicyType(t))
                  = Wizard!PolicyFields(forms.destination, Wizard!PolicyType(t))
    BY <1>1, <1>4, <2>1, AdjustedIs
  <2>3. forms'.destination = e
    BY <1>7
  <2>. HIDE DEF e
  <2>. QED  BY <1>7, <2>2, <2>3 DEF SameEnds
<1>9. id # activeStepId
  BY NeighboursAre
<1>10. \A s \in Wizard!StepIds : steps'[s].value = steps[s].value
  BY <1>4, <1>5, <1>7
<1>. QED  BY <1>4, <1>5, <1>6, <1>7, <1>8, <1>9, <1>10

\* What is offered as the other end of a pair is a cluster.
LEMMA OffersAre ==
  ASSUME Wizard!WizardConstants
  PROVE  /\ Wizard!DestinationClusters(steps) \subseteq Clusters
         /\ "" \notin Clusters /\ "" \notin CloudFs
         /\ Wizard!PairedWith("") = {}
  BY DEF Wizard!WizardConstants, Wizard!DestinationClusters, Wizard!PairedWith

\* An edit of the destination changes its type, or its cluster, or neither.
IsDestinationEdit(d) ==
  /\ Wizard!Editing("destination") /\ Wizard!EditDestination(d)
  /\ d \in Wizard!DestinationValues
  /\ d.validationStatus => forms.destination.validationStatus
  /\ \/ d.type = forms.destination.type /\ d.cluster = forms.destination.cluster
     \/ /\ d.type \in Wizard!DestinationTypes(steps) \cap Wizard!SOURCE_TYPES
        /\ d.cluster = forms.destination.cluster
     \/ /\ d.type = "CLUSTER" /\ forms.destination.type = "CLUSTER"
        /\ d.cluster \in Wizard!DestinationClusters(steps)

\* An edit of the source leaves its type alone and takes no cluster back.
IsSourceEdit(f) ==
  /\ Wizard!Editing("source") /\ Wizard!Edited("source", [forms EXCEPT !.source = f])
  /\ UNCHANGED steps
  /\ f \in Wizard!SourceValues /\ f.type = forms.source.type /\ f.type # ""
  /\ f.cluster # "" \/ f.cluster = forms.source.cluster

\* The edits of the wizard, by what they change.
LEMMA EditsAre ==
  ASSUME Wizard!WizardConstants, WizardTypes, Wizard!EditSteps
  PROVE  \/ \E type \in Wizard!POLICY_TYPES, ok \in BOOLEAN : Wizard!EditGeneral(type, ok)
         \/ \E type \in Wizard!SOURCE_TYPES : Wizard!EditSourceType(type)
         \/ \E f \in Wizard!SourceValues : IsSourceEdit(f)
         \/ \E d \in Wizard!DestinationValues : IsDestinationEdit(d)
         \/ \E id \in Wizard!StepIds : Wizard!EditOther(id)
<1>. DEFINE SourceEdited == \E f \in Wizard!SourceValues : IsSourceEdit(f)
            DestinationEdited == \E d \in Wizard!DestinationValues : IsDestinationEdit(d)
<1>1. forms.source \in Wizard!SourceValues /\ forms.destination \in Wizard!DestinationValues
  BY DEF WizardTypes, FormValues
<1>2. ASSUME NEW c \in Clusters, NEW w \in Datasets,
             Wizard!EditSource([forms.source EXCEPT !.cluster = c, !.data = w,
                                  !.checked = @ \/ w # forms.source.data])
      PROVE  SourceEdited
  <2>. DEFINE f == [forms.source EXCEPT !.cluster = c, !.data = w,
                      !.checked = @ \/ w # forms.source.data]
  <2>1. f \in Wizard!SourceValues /\ f.cluster # ""
    BY <1>1, OffersAre DEF Wizard!SourceValues, Wizard!Names
  <2>2. Wizard!EditSource(f)
    BY <1>2
  <2>. HIDE DEF f
  <2>3. IsSourceEdit(f)
    BY <2>1, <2>2 DEF Wizard!EditSource, IsSourceEdit
  <2>. QED  BY <2>1, <2>3
<1>3. ASSUME NEW w \in Datasets, Wizard!EditSource([forms.source EXCEPT !.bucket = w])
      PROVE  SourceEdited
  <2>. DEFINE f == [forms.source EXCEPT !.bucket = w]
  <2>1. f \in Wizard!SourceValues /\ f.cluster = forms.source.cluster
    BY <1>1 DEF Wizard!SourceValues, Wizard!Names
  <2>2. Wizard!EditSource(f)
    BY <1>3
  <2>. HIDE DEF f
  <2>3. IsSourceEdit(f)
    BY <2>1, <2>2 DEF Wizard!EditSource, IsSourceEdit
  <2>. QED  BY <2>1, <2>3
<1>4. ASSUME NEW type \in Wizard!SOURCE_TYPES, Wizard!EditDestinationType(type)
      PROVE  DestinationEdited
  <2>. DEFINE d == [forms.destination EXCEPT !.type = type]
  <2>1. /\ d \in Wizard!DestinationValues /\ d.type = type
        /\ d.cluster = forms.destination.cluster
        /\ d.validationStatus = forms.destination.validationStatus
    BY <1>1 DEF Wizard!DestinationValues
  <2>2. type \in Wizard!DestinationTypes(steps) /\ Wizard!EditDestination(d)
    BY <1>4 DEF Wizard!EditDestinationType
  <2>. HIDE DEF d
  <2>3. IsDestinationEdit(d)
    BY <2>1, <2>2 DEF Wizard!EditDestination, IsDestinationEdit
  <2>. QED  BY <2>1, <2>3
<1>5. ASSUME NEW c \in Clusters, Wizard!EditDestinationCluster(c)
      PROVE  DestinationEdited
  <2>. DEFINE e == [forms.destination EXCEPT !.cluster = c]
              g == [e EXCEPT !.strict = c \notin Is10, !.validationStatus = @ /\ c \in Is10]
  <2>1. PICK d \in {e, g} : Wizard!EditDestination(d)
    BY <1>5 DEF Wizard!EditDestinationCluster
  <2>2. forms.destination.type = "CLUSTER" /\ c \in Wizard!DestinationClusters(steps)
    BY <1>5 DEF Wizard!EditDestinationCluster
  <2>3. e \in Wizard!DestinationValues /\ e.type = forms.destination.type /\ e.cluster = c
        /\ e.validationStatus = forms.destination.validationStatus
    BY <1>1 DEF Wizard!DestinationValues
  <2>. HIDE DEF e
  <2>4. /\ g \in Wizard!DestinationValues /\ g.type = e.type /\ g.cluster = e.cluster
        /\ g.validationStatus => e.validationStatus
    BY <2>3 DEF Wizard!DestinationValues
  <2>. HIDE DEF g
  <2>5. IsDestinationEdit(d)
    BY <2>1, <2>2, <2>3, <2>4 DEF Wizard!EditDestination, IsDestinationEdit
  <2>. QED  BY <2>5 DEF IsDestinationEdit
<1>6. ASSUME NEW field \in {"path", "bucket"}, NEW w \in Datasets \cup {""},
             Wizard!EditDestinationField(field, w)
      PROVE  DestinationEdited
  <2>. DEFINE d == [forms.destination EXCEPT ![field] = w]
  <2>1. /\ d \in Wizard!DestinationValues /\ d.type = forms.destination.type
        /\ d.cluster = forms.destination.cluster
        /\ d.validationStatus = forms.destination.validationStatus
    BY <1>1 DEF Wizard!DestinationValues, Wizard!Names
  <2>2. Wizard!EditDestination(d)
    BY <1>6 DEF Wizard!EditDestinationField
  <2>. HIDE DEF d
  <2>3. IsDestinationEdit(d)
    BY <2>1, <2>2 DEF Wizard!EditDestination, IsDestinationEdit
  <2>. QED  BY <2>1, <2>3
<1>7. ASSUME Wizard!SkipValidation
      PROVE  DestinationEdited
  <2>. DEFINE d == [forms.destination EXCEPT !.skipValidation = ~@]
  <2>1. /\ d \in Wizard!DestinationValues /\ d.type = forms.destination.type
        /\ d.cluster = forms.destination.cluster
        /\ d.validationStatus = forms.destination.validationStatus
    BY <1>1 DEF Wizard!DestinationValues
  <2>2. Wizard!EditDestination(d)
    BY <1>7 DEF Wizard!SkipValidation
  <2>. HIDE DEF d
  <2>3. IsDestinationEdit(d)
    BY <2>1, <2>2 DEF Wizard!EditDestination, IsDestinationEdit
  <2>. QED  BY <2>1, <2>3
<1>. QED
  BY <1>2, <1>3, <1>4, <1>5, <1>6, <1>7 DEF Wizard!EditSteps

\* What an edit of the destination does.
LEMMA DestinationEditIs ==
  ASSUME WizardTypes, Ordered(steps, activeStepId),
         NEW d \in Wizard!DestinationValues, IsDestinationEdit(d)
  PROVE  /\ open /\ activeStepId = "destination" /\ UNCHANGED <<steps, activeStepId>>
         /\ forms' \in FormValues /\ forms'.general = forms.general /\ forms'.source = forms.source
         /\ Ends(forms'.destination) = Ends(d)
         /\ forms'.destination.validationStatus
              => Wizard!PolicyFields(forms'.destination, Wizard!PolicyType(steps))
                   = Wizard!PolicyFields(forms.destination, Wizard!PolicyType(steps))
         /\ isFormValid' = Wizard!Emitted("destination", forms')
         /\ UNCHANGED <<validation, open, preselected, policyRequestInProgress,
                        validationInProgress, checking, creating, moves>>
<1>. DEFINE e == Wizard!Voided(forms.destination, d, Wizard!PolicyType(steps))
<1>1. forms.destination \in Wizard!DestinationValues
  BY DEF WizardTypes, FormValues
<1>2. /\ open /\ activeStepId = "destination" /\ UNCHANGED <<steps, activeStepId>>
      /\ forms' = [forms EXCEPT !.destination = e]
      /\ isFormValid' = Wizard!Emitted("destination", forms')
      /\ UNCHANGED <<validation, open, preselected, policyRequestInProgress,
                     validationInProgress, checking, creating, moves>>
  BY DEF IsDestinationEdit, Wizard!Editing, Wizard!EditDestination, Wizard!Edited
<1>3. /\ e \in Wizard!DestinationValues /\ Ends(e) = Ends(d)
      /\ e.validationStatus
           => Wizard!PolicyFields(e, Wizard!PolicyType(steps))
                = Wizard!PolicyFields(forms.destination, Wizard!PolicyType(steps))
  <2>. DEFINE p == Wizard!PolicyType(steps)
  <2>1. LET g == Wizard!Voided(forms.destination, d, p)
        IN /\ g \in Wizard!DestinationValues /\ Ends(g) = Ends(d)
           /\ g.validationStatus
                => /\ Wizard!PolicyFields(d, p) = Wizard!PolicyFields(forms.destination, p)
                   /\ g = d
    BY <1>1, VoidedIs
  <2>. QED  BY <2>1
<1>. HIDE DEF e
<1>4. /\ forms' \in FormValues /\ forms'.general = forms.general /\ forms'.source = forms.source
      /\ forms'.destination = e
  BY <1>2, <1>3 DEF WizardTypes, FormValues
<1>. QED  BY <1>2, <1>3, <1>4

\* What a new type of the source does.
LEMMA SourceTypeIs ==
  ASSUME WizardTypes, Ordered(steps, activeStepId),
         NEW type \in Wizard!SOURCE_TYPES, Wizard!EditSourceType(type)
  PROVE  /\ open /\ activeStepId = "source" /\ UNCHANGED activeStepId
         /\ forms' \in FormValues /\ forms'.general = forms.general
         /\ forms'.source.type = type /\ forms'.source.cluster = forms.source.cluster
         /\ SameEnds(Wizard!PolicyType(steps'))
         /\ Wizard!PolicyType(steps') = Wizard!PolicyType(steps)
         /\ Wizard!Source(steps') = Wizard!Source(steps)
         /\ steps'["destination"].value = Wizard!Unsaved
         /\ \A s \in Wizard!StepIds \ {"destination"} : steps'[s].value = steps[s].value
         /\ isFormValid' = Wizard!Emitted("source", forms')
         /\ UNCHANGED <<validation, open, preselected, policyRequestInProgress,
                        validationInProgress, checking, creating, moves>>
<1>. DEFINE e == Wizard!Adjusted(forms.destination, steps, steps')
<1>1. /\ forms.destination \in Wizard!DestinationValues /\ forms.source \in Wizard!SourceValues
      /\ Wizard!Source(steps) \in SavedSources
  BY DEF WizardTypes, FormValues
<1>2. /\ open /\ activeStepId = "source" /\ UNCHANGED activeStepId
      /\ steps' = Wizard!ResetStep(steps, "destination")
      /\ forms' = [forms EXCEPT !.source.type = type, !.destination = e]
      /\ isFormValid' = Wizard!Emitted("source", forms')
      /\ UNCHANGED <<validation, open, preselected, policyRequestInProgress,
                     validationInProgress, checking, creating, moves>>
  BY DEF Wizard!EditSourceType, Wizard!Editing, Wizard!Edited
<1>3. /\ steps'["destination"].value = Wizard!Unsaved
      /\ \A s \in Wizard!StepIds \ {"destination"} : steps'[s].value = steps[s].value
      /\ Wizard!PolicyType(steps') = Wizard!PolicyType(steps)
      /\ Wizard!Source(steps') = Wizard!Source(steps)
  BY <1>2, ResetKeepsValues
<1>4. ~TypesChanged(steps, steps')
  BY <1>3 DEF TypesChanged
<1>5. /\ e \in Wizard!DestinationValues /\ Ends(e) = Ends(forms.destination)
      /\ e.validationStatus
           => Wizard!PolicyFields(e, Wizard!PolicyType(steps'))
                = Wizard!PolicyFields(forms.destination, Wizard!PolicyType(steps'))
  <2>. DEFINE t == steps'
  <2>1. Wizard!Source(t) \in SavedSources /\ ~TypesChanged(steps, t)
    BY <1>1, <1>3, <1>4
  <2>. HIDE DEF t
  <2>2. LET g == Wizard!Adjusted(forms.destination, steps, t)
        IN /\ g \in Wizard!DestinationValues /\ Ends(g) = Ends(forms.destination)
           /\ g.validationStatus
                => Wizard!PolicyFields(g, Wizard!PolicyType(t))
                     = Wizard!PolicyFields(forms.destination, Wizard!PolicyType(t))
    BY <1>1, <2>1, AdjustedIs
  <2>. QED  BY <2>2 DEF t
<1>. HIDE DEF e
<1>6. /\ forms' \in FormValues /\ forms'.general = forms.general
      /\ forms'.source.type = type /\ forms'.source.cluster = forms.source.cluster
      /\ forms'.destination = e
  BY <1>1, <1>2, <1>5 DEF WizardTypes, FormValues, Wizard!SourceValues
<1>7. SameEnds(Wizard!PolicyType(steps'))
  BY <1>5, <1>6 DEF SameEnds
<1>. QED  BY <1>2, <1>3, <1>6, <1>7

\* What the answer of a validation does.
LEMMA ValidatedIs ==
  ASSUME WizardTypes, Ordered(steps, activeStepId),
         NEW answer \in {"success", "failed"}, Wizard!Validated(answer)
  PROVE  /\ UNCHANGED <<steps, open, preselected, activeStepId, policyRequestInProgress, creating, moves>>
         /\ validation' = answer /\ checking' = FALSE /\ validationInProgress' = FALSE
         /\ forms' \in FormValues /\ forms'.general = forms.general /\ forms'.source = forms.source
         /\ SameEnds(Wizard!PolicyType(steps))
         /\ open => isFormValid' = Wizard!Emitted("destination", forms')
         /\ ~open => UNCHANGED <<forms, isFormValid>>
<1>. DEFINE p == Wizard!PolicyType(steps)
            d == [forms.destination EXCEPT !.validationStatus = (answer = "success")]
            e == Wizard!Voided(forms.destination, d, p)
<1>1. forms.destination \in Wizard!DestinationValues
  BY DEF WizardTypes, FormValues
<1>2. /\ UNCHANGED <<steps, open, preselected, activeStepId, policyRequestInProgress, creating, moves>>
      /\ validation' = answer /\ checking' = FALSE /\ validationInProgress' = FALSE
      /\ open => /\ forms' = [forms EXCEPT !.destination = e]
                 /\ isFormValid' = Wizard!Emitted("destination", forms')
      /\ ~open => UNCHANGED <<forms, isFormValid>>
  BY DEF Wizard!Validated
<1>3. d \in Wizard!DestinationValues /\ Ends(d) = Ends(forms.destination)
  BY <1>1 DEF Wizard!DestinationValues, Ends
<1>. HIDE DEF d, p
<1>4. /\ e \in Wizard!DestinationValues /\ Ends(e) = Ends(d)
      /\ e.validationStatus
           => /\ d.validationStatus /\ e = d
              /\ Wizard!PolicyFields(d, p) = Wizard!PolicyFields(forms.destination, p)
  BY <1>1, <1>3, VoidedIs
<1>. HIDE DEF e
<1>5. CASE open
  <2>1. /\ forms' \in FormValues /\ forms'.general = forms.general /\ forms'.source = forms.source
        /\ forms'.destination = e
    BY <1>2, <1>4, <1>5 DEF WizardTypes, FormValues
  <2>. QED  BY <1>2, <1>3, <1>4, <1>5, <2>1 DEF SameEnds, p
<1>6. CASE ~open
  <2>1. forms' = forms
    BY <1>2, <1>6
  <2>. QED  BY <1>2, <1>6, <2>1 DEF WizardTypes, SameEnds
<1>. QED  BY <1>2, <1>5, <1>6

\* The forms of a wizard that opens, the only ones there are when it is closed.
LEMMA OpenIs ==
  ASSUME Wizard!WizardConstants, NEW c \in Preselections, Wizard!Open(c)
  PROVE  /\ forms' \in FormValues
         /\ Ends(forms'.destination) = <<"", "", "">>
         /\ forms'.source.type = (IF c = "" THEN "" ELSE "CLUSTER") /\ forms'.source.cluster = c
<1>1. c \in Clusters \cup {""}
  BY DEF Wizard!WizardConstants
<1>. QED
  BY <1>1 DEF Wizard!Open, Wizard!InitialForms, FormValues, Wizard!InitialGeneral, Ends,
     Wizard!InitialSource, Wizard!InitialDestination, Wizard!GeneralValues, Wizard!SourceValues,
     Wizard!DestinationValues, Wizard!Names, Wizard!POLICY_TYPES, Wizard!SOURCE_TYPES

\* The types of the wizard are kept.
LEMMA WizardKeepsTypes ==
  ASSUME Wizard!WizardConstants, Ordered(steps, activeStepId), WizardTypes, Wizard!Next
  PROVE  WizardTypes'
<1>0. /\ activeStepId \in Wizard!StepIds /\ MaxMoves \in Nat
      /\ forms \in FormValues /\ isFormValid \in BOOLEAN
      /\ {"general", "source", "destination"} \subseteq Wizard!StepIds
  BY StepIdsAre DEF Ordered, WizardTypes, Wizard!WizardConstants
<1>1. ASSUME NEW c \in Preselections, Wizard!Open(c)
      PROVE  WizardTypes'
  <2>1. /\ moves' = moves + (IF c = "" THEN 1 ELSE 2) /\ moves' <= MaxMoves
        /\ open' = TRUE /\ preselected' = c /\ isFormValid' = FALSE
        /\ policyRequestInProgress' = FALSE /\ validationInProgress' = FALSE
        /\ UNCHANGED <<steps, validation, checking, creating>>
    BY <1>1 DEF Wizard!Open
  <2>2. moves' \in 0..MaxMoves
    <3>1. moves \in 0..MaxMoves /\ (moves' = moves + 1 \/ moves' = moves + 2) /\ moves' <= MaxMoves
      BY <2>1 DEF WizardTypes
    <3>. QED  BY <1>0, <3>1
  <2>3. forms' \in FormValues
    BY <1>1, OpenIs
  <2>. QED  BY <2>1, <2>2, <2>3 DEF WizardTypes
<1>2. ASSUME forms' \in FormValues, isFormValid' \in BOOLEAN, UNCHANGED steps,
             UNCHANGED <<validation, open, preselected, policyRequestInProgress,
                         validationInProgress, checking, moves>>
      PROVE  WizardTypes'
  BY <1>2 DEF WizardTypes
<1>3. CASE Wizard!EditSteps
  <2>1. ASSUME NEW type \in Wizard!POLICY_TYPES, NEW ok \in BOOLEAN, Wizard!EditGeneral(type, ok)
        PROVE  WizardTypes'
    <3>1. forms' \in FormValues
      BY <1>0, <2>1 DEF Wizard!EditGeneral, Wizard!Edited, FormValues, Wizard!GeneralValues
    <3>2. isFormValid' \in BOOLEAN
      BY <1>0, <2>1, <3>1, EmittedIs DEF Wizard!EditGeneral, Wizard!Edited
    <3>. QED  BY <1>2, <2>1, <3>1, <3>2 DEF Wizard!EditGeneral, Wizard!Edited
  <2>2. ASSUME NEW type \in Wizard!SOURCE_TYPES, Wizard!EditSourceType(type)
        PROVE  WizardTypes'
    <3>1. /\ forms' \in FormValues
          /\ Wizard!PolicyType(steps') = Wizard!PolicyType(steps)
          /\ Wizard!Source(steps') = Wizard!Source(steps)
          /\ steps'["destination"].value = Wizard!Unsaved
          /\ \A s \in Wizard!StepIds \ {"destination"} : steps'[s].value = steps[s].value
          /\ isFormValid' = Wizard!Emitted("source", forms')
          /\ UNCHANGED <<validation, open, preselected, policyRequestInProgress,
                         validationInProgress, checking, creating, moves>>
      BY <2>2, SourceTypeIs
    <3>2. isFormValid' \in BOOLEAN
      BY <1>0, <3>1, EmittedIs
    <3>3. \A id \in Wizard!StepIds : steps'[id].value.saved \in BOOLEAN
      BY <1>0, <3>1, UnsavedIs DEF WizardTypes
    <3>. QED  BY <1>0, <3>1, <3>2, <3>3 DEF WizardTypes
  <2>3. ASSUME NEW f \in Wizard!SourceValues, IsSourceEdit(f)
        PROVE  WizardTypes'
    <3>1. forms' \in FormValues
      BY <1>0, <2>3 DEF IsSourceEdit, Wizard!Edited, FormValues
    <3>2. isFormValid' \in BOOLEAN
      BY <1>0, <2>3, <3>1, EmittedIs DEF IsSourceEdit, Wizard!Edited
    <3>. QED  BY <1>2, <2>3, <3>1, <3>2 DEF IsSourceEdit, Wizard!Edited
  <2>4. ASSUME NEW d \in Wizard!DestinationValues, IsDestinationEdit(d)
        PROVE  WizardTypes'
    BY <1>0, <1>2, <2>4, DestinationEditIs, EmittedIs
  <2>5. ASSUME NEW id \in Wizard!StepIds, Wizard!EditOther(id)
        PROVE  WizardTypes'
    <3>1. forms' \in FormValues
      BY <1>0, <2>5 DEF Wizard!EditOther, Wizard!Edited, FormValues
    <3>2. isFormValid' \in BOOLEAN
      BY <1>0, <2>5, <3>1, EmittedIs DEF Wizard!EditOther, Wizard!Edited
    <3>. QED  BY <1>2, <2>5, <3>1, <3>2 DEF Wizard!EditOther, Wizard!Edited
  <2>. QED  BY <1>3, <2>1, <2>2, <2>3, <2>4, <2>5, EditsAre
<1>4. CASE Wizard!SourceRechecked
  <2>1. forms' \in FormValues
    BY <1>0, <1>4 DEF Wizard!SourceRechecked, Wizard!Edited, FormValues, Wizard!SourceValues
  <2>2. isFormValid' \in BOOLEAN
    BY <1>0, <1>4, <2>1, EmittedIs DEF Wizard!SourceRechecked, Wizard!Edited
  <2>. QED  BY <1>2, <1>4, <2>1, <2>2 DEF Wizard!SourceRechecked, Wizard!Edited
<1>5. CASE Wizard!NextButton
  <2>1. /\ forms' \in FormValues /\ activeStepId' \in Wizard!StepIds
        /\ activeStepId # "general" => Wizard!PolicyType(steps') = Wizard!PolicyType(steps)
        /\ activeStepId = "general" => Wizard!PolicyType(steps') = forms.general.type
        /\ Wizard!Source(steps') = IF activeStepId = "source"
                                   THEN Wizard!SourceValue(forms.source, Wizard!PolicyType(steps))
                                   ELSE Wizard!Source(steps)
        /\ steps'["destination"].value
             \in {Wizard!Unsaved, Wizard!Saved(Wizard!Value("destination")), steps["destination"].value}
        /\ \A s \in Wizard!StepIds \ {"destination"} :
             steps'[s].value = IF s = activeStepId THEN Wizard!Saved(Wizard!Value(s))
                               ELSE steps[s].value
        /\ isFormValid' = IF activeStepId' = activeStepId THEN isFormValid
                          ELSE Wizard!Valid(forms', steps', activeStepId')
    BY <1>5, NextIs DEF Ordered
  <2>2. isFormValid' \in BOOLEAN
    BY <1>0, <2>1, ValidIs
  <2>3. \A x : Wizard!Saved(x).saved = TRUE
    BY DEF Wizard!Saved
  <2>4. \A id \in Wizard!StepIds : steps'[id].value.saved \in BOOLEAN
    <3>1. \A id \in Wizard!StepIds :
            \/ steps'[id].value = steps[id].value \/ steps'[id].value = Wizard!Unsaved
            \/ \E x : steps'[id].value = Wizard!Saved(x)
      BY <2>1, Zenon
    <3>. QED  BY <2>3, <3>1, UnsavedIs DEF WizardTypes
  <2>5. /\ steps'["general"].value.saved => Wizard!PolicyType(steps') \in Wizard!POLICY_TYPES
        /\ ~steps'["general"].value.saved => Wizard!PolicyType(steps') = ""
    <3>1. CASE activeStepId = "general"
      BY <1>0, <2>1, <2>3, <3>1 DEF FormValues, Wizard!GeneralValues
    <3>2. CASE activeStepId # "general"
      BY <1>0, <2>1, <3>2 DEF WizardTypes
    <3>. QED  BY <3>1, <3>2
  <2>6. Wizard!Source(steps') \in SavedSources
    <3>1. /\ forms.source \in Wizard!SourceValues /\ Wizard!Source(steps) \in SavedSources
          /\ Wizard!PolicyType(steps) \in Wizard!POLICY_TYPES \cup {""}
      BY <1>0 DEF WizardTypes, FormValues
    <3>. QED  BY <2>1, <3>1, SourceValueIs
  <2>. QED  BY <1>5, <2>1, <2>2, <2>4, <2>5, <2>6 DEF WizardTypes, Wizard!NextButton
<1>6. ASSUME NEW id \in Wizard!StepIds, Wizard!Index(id) < Wizard!Index(activeStepId),
             Wizard!MoveTo(id)
      PROVE  WizardTypes'
  <2>1. /\ forms' \in FormValues /\ activeStepId' \in Wizard!StepIds
        /\ Wizard!PolicyType(steps') = Wizard!PolicyType(steps)
        /\ Wizard!Source(steps') = Wizard!Source(steps)
        /\ \A s \in Wizard!StepIds : steps'[s].value = steps[s].value
        /\ isFormValid' = Wizard!Valid(forms', steps', activeStepId')
    BY <1>6, MoveIs DEF Ordered
  <2>2. isFormValid' \in BOOLEAN
    BY <2>1, ValidIs
  <2>3. moves' \in 0..MaxMoves
    <3>1. moves < MaxMoves /\ moves' = moves + 1 /\ moves \in 0..MaxMoves
      BY <1>6 DEF Wizard!MoveTo, WizardTypes
    <3>. QED  BY <1>0, <3>1
  <2>. QED  BY <1>0, <1>6, <2>1, <2>2, <2>3 DEF WizardTypes, Wizard!MoveTo
<1>7. CASE Wizard!BackButton
  BY <1>0, <1>6, <1>7, NeighboursAre DEF Wizard!BackButton, Wizard!IsBackButtonDisabled
<1>8. ASSUME NEW id \in Wizard!StepIds, Wizard!SelectTab(id)
      PROVE  WizardTypes'
  <2>1. id # activeStepId /\ steps[id].state # "disabled" /\ Wizard!MoveTo(id)
    BY <1>8 DEF Wizard!SelectTab
  <2>2. Wizard!Index(id) < Wizard!Index(activeStepId)
    BY <2>1, NeighboursAre DEF Ordered
  <2>. QED  BY <1>6, <2>1, <2>2
<1>9. CASE Wizard!Close \/ Wizard!Created
  <2>1. /\ forms' = Wizard!InitialForms /\ steps' = Wizard!InitialSteps /\ preselected' = ""
        /\ validation' = "none" /\ open' = FALSE /\ isFormValid' = FALSE
        /\ policyRequestInProgress' = FALSE /\ validationInProgress' = FALSE
        /\ UNCHANGED <<checking, moves>>
    BY <1>9 DEF Wizard!Close, Wizard!Created
  <2>. QED  BY <1>0, <2>1, InitialFormsAre, InitialStepsAre DEF WizardTypes
<1>10. CASE Wizard!ValidateButton \/ Wizard!CreationFailed
  BY <1>10 DEF WizardTypes, Wizard!ValidateButton, Wizard!CreationFailed
<1>11. ASSUME NEW answer \in {"success", "failed"}, Wizard!Validated(answer)
       PROVE  WizardTypes'
  BY <1>0, <1>11, ValidatedIs, EmittedIs DEF WizardTypes
<1>. QED
  BY <1>1, <1>3, <1>4, <1>5, <1>7, <1>8, <1>9, <1>10, <1>11 DEF Wizard!Next

-----------------------------------------------------------------------------
(* What is saved, and what the forms say of it. *)

WizardFits ==
  /\ ~open => steps = Wizard!InitialSteps /\ forms = Wizard!InitialForms
  /\ forms.destination.type = "" => forms.destination.cluster = ""
  /\ ~steps["source"].value.saved => forms.destination.type = ""
  /\ forms.source.type = "" => forms.source.cluster = ""
  /\ Wizard!Source(steps).type # "CLUSTER" => Wizard!Source(steps).cluster = ""
  /\ Wizard!Index(activeStepId) >= 3
       => /\ Wizard!Source(steps).type = forms.source.type
          /\ forms.source.type # "S3" => Wizard!Source(steps).cluster = forms.source.cluster
  /\ forms.destination.type = "S3"
       => Wizard!PolicyType(steps) = "HDFS" /\ Wizard!Source(steps).type = "CLUSTER"
  /\ steps["destination"].value.saved
       => /\ steps["source"].value.saved /\ steps["general"].value.saved
          /\ forms.source.type = Wizard!Source(steps).type
          /\ steps["destination"].value.is.type = "S3"
               => Wizard!PolicyType(steps) = "HDFS" /\ Wizard!Source(steps).type = "CLUSTER"

\* The steps before the active one are saved.
LEMMA SavedBeforeIs ==
  ASSUME Ordered(steps, activeStepId)
  PROVE  /\ activeStepId \in Wizard!StepIds
         /\ activeStepId # "general" => steps["general"].value.saved
         /\ activeStepId \notin {"general", "source"} => steps["source"].value.saved
         /\ activeStepId \in {"schedule", "advanced"} => steps["destination"].value.saved
  BY StepIdsAre DEF Ordered

\* The ends of the destination are the same when the triples are.
LEMMA EndsAre ==
  ASSUME NEW d, NEW e
  PROVE  /\ Ends(d) = Ends(e) => d.type = e.type /\ d.cluster = e.cluster /\ d.bucket = e.bucket
         /\ Ends(d) = <<"", "", "">> => d.type = "" /\ d.cluster = "" /\ d.bucket = ""
  BY DEF Ends

\* A wizard that opens or closes.
LEMMA OpenFits ==
  ASSUME Wizard!WizardConstants, Ordered(steps, activeStepId), WizardTypes, WizardFits,
         (\E c \in Preselections : Wizard!Open(c)) \/ Wizard!Close \/ Wizard!Created
  PROVE  WizardFits'
<1>1. ASSUME NEW c \in Preselections, Wizard!Open(c)
      PROVE  WizardFits'
  <2>1. /\ open' = TRUE /\ steps' = Wizard!InitialSteps /\ activeStepId' = activeStepId
        /\ activeStepId = "general"
    <3>1. ~open /\ open' = TRUE /\ UNCHANGED steps
          /\ activeStepId' = Wizard!ActiveStepId(steps, "general")
      BY <1>1 DEF Wizard!Open
    <3>2. steps = Wizard!InitialSteps
      BY <3>1 DEF WizardFits
    <3>3. /\ Wizard!ActiveStepId(steps, "general") = activeStepId
          /\ Wizard!ActiveStepId(steps, "general") = "general"
      BY <3>2, ActiveIs, InitialOrdered
    <3>. QED  BY <3>1, <3>2, <3>3
  <2>2. /\ Ends(forms'.destination) = <<"", "", "">>
        /\ forms'.source.type = (IF c = "" THEN "" ELSE "CLUSTER") /\ forms'.source.cluster = c
    BY <1>1, OpenIs
  <2>3. forms'.destination.type = "" /\ forms'.destination.cluster = ""
    BY <2>2, EndsAre
  <2>4. ~(Wizard!Index(activeStepId') >= 3)
    BY <2>1, StepIdsAre
  <2>5. /\ ~steps'["destination"].value.saved
        /\ Wizard!Source(steps').type = "" /\ Wizard!Source(steps').cluster = ""
    BY <2>1, InitialStepsAre, StepIdsAre
  <2>. QED  BY <2>1, <2>2, <2>3, <2>4, <2>5 DEF WizardFits
<1>2. CASE Wizard!Close \/ Wizard!Created
  <2>1. /\ steps' = Wizard!InitialSteps /\ forms' = Wizard!InitialForms
        /\ activeStepId' = "general" /\ open' = FALSE
    BY <1>2 DEF Wizard!Close, Wizard!Created
  <2>. QED  BY <2>1, InitialStepsAre, InitialFormsAre, StepIdsAre DEF WizardFits
<1>. QED  BY <1>1, <1>2

\* Edits of the source, and the answers about it.
LEMMA SourceEditFits ==
  ASSUME Wizard!WizardConstants, Ordered(steps, activeStepId), WizardTypes, WizardFits,
         \/ \E type \in Wizard!SOURCE_TYPES : Wizard!EditSourceType(type)
         \/ \E f \in Wizard!SourceValues : IsSourceEdit(f)
         \/ Wizard!SourceRechecked
  PROVE  WizardFits'
<1>1. ASSUME NEW type \in Wizard!SOURCE_TYPES, Wizard!EditSourceType(type)
      PROVE  WizardFits'
  <2>1. /\ open' = TRUE /\ activeStepId' = "source" /\ activeStepId = "source"
        /\ forms'.source.type = type
        /\ Ends(forms'.destination) = Ends(forms.destination)
        /\ Wizard!PolicyType(steps') = Wizard!PolicyType(steps)
        /\ Wizard!Source(steps') = Wizard!Source(steps)
        /\ steps'["destination"].value = Wizard!Unsaved
        /\ \A s \in Wizard!StepIds \ {"destination"} : steps'[s].value = steps[s].value
    BY <1>1, SourceTypeIs DEF SameEnds, WizardTypes
  <2>2. steps'["source"].value = steps["source"].value
    BY <2>1, StepIdsAre
  <2>3. ~steps'["destination"].value.saved
    BY <2>1, UnsavedIs
  <2>4. type # ""
    BY DEF Wizard!SOURCE_TYPES
  <2>5. /\ forms'.destination.type = forms.destination.type
        /\ forms'.destination.cluster = forms.destination.cluster
    BY <2>1, EndsAre
  <2>6. ~(Wizard!Index(activeStepId') >= 3)
    BY <2>1, StepIdsAre
  <2>. QED  BY <2>1, <2>2, <2>3, <2>4, <2>5, <2>6 DEF WizardFits
<1>2. ASSUME NEW f \in Wizard!SourceValues, IsSourceEdit(f)
      PROVE  WizardFits'
  <2>1. /\ open /\ activeStepId = "source" /\ UNCHANGED <<steps, open, activeStepId>>
        /\ forms' = [forms EXCEPT !.source = f]
        /\ f.type = forms.source.type /\ f.type # ""
    BY <1>2 DEF IsSourceEdit, Wizard!Editing, Wizard!Edited
  <2>2. forms'.source.type = forms.source.type /\ forms'.destination = forms.destination
    BY <2>1 DEF WizardTypes, FormValues
  <2>3. activeStepId' = "source"
    BY <2>1
  <2>4. ~(Wizard!Index(activeStepId') >= 3)
    BY <2>3, StepIdsAre
  <2>. QED  BY <2>1, <2>2, <2>4 DEF WizardFits
<1>3. CASE Wizard!SourceRechecked
  <2>1. /\ open /\ UNCHANGED <<steps, open, activeStepId>>
        /\ forms' = [forms EXCEPT !.source.checked = ~@]
    BY <1>3 DEF Wizard!SourceRechecked, Wizard!Edited
  <2>2. forms'.source.type = forms.source.type /\ forms'.source.cluster = forms.source.cluster
        /\ forms'.destination = forms.destination
    BY <2>1 DEF WizardTypes, FormValues, Wizard!SourceValues
  <2>. QED  BY <2>1, <2>2 DEF WizardFits
<1>. QED  BY <1>1, <1>2, <1>3

\* Edits of the destination, and the answers about it.
LEMMA DestinationEditFits ==
  ASSUME Wizard!WizardConstants, Ordered(steps, activeStepId), WizardTypes, WizardFits,
         \/ \E d \in Wizard!DestinationValues : IsDestinationEdit(d)
         \/ \E answer \in {"success", "failed"} : Wizard!Validated(answer)
  PROVE  WizardFits'
<1>1. ASSUME NEW d \in Wizard!DestinationValues, IsDestinationEdit(d)
      PROVE  WizardFits'
  <2>1. /\ open /\ activeStepId = "destination" /\ UNCHANGED <<steps, open, activeStepId>>
        /\ forms'.source = forms.source
        /\ forms'.destination.type = d.type /\ forms'.destination.cluster = d.cluster
    BY <1>1, DestinationEditIs, EndsAre
  <2>2. /\ steps["general"].value.saved /\ steps["source"].value.saved
        /\ Wizard!PolicyType(steps) \in Wizard!POLICY_TYPES
    BY <2>1, SavedBeforeIs DEF WizardTypes
  <2>3. d.type = "S3" /\ d.type # forms.destination.type
          => Wizard!PolicyType(steps) = "HDFS" /\ Wizard!Source(steps).type = "CLUSTER"
    <3>1. d.type = "S3" /\ d.type # forms.destination.type
            => "S3" \in Wizard!DestinationTypes(steps)
      BY <1>1 DEF IsDestinationEdit
    <3>2. "S3" \in Wizard!DestinationTypes(steps)
            => Wizard!PolicyType(steps) # "HIVE" /\ Wizard!Source(steps).cluster \in CloudFs
      BY DEF Wizard!DestinationTypes
    <3>. QED  BY <2>2, <3>1, <3>2, OffersAre DEF WizardFits, Wizard!POLICY_TYPES
  <2>4. d.type = "" => d.cluster = ""
    BY <1>1 DEF IsDestinationEdit, WizardFits, Wizard!SOURCE_TYPES
  <2>. QED  BY <2>1, <2>2, <2>3, <2>4 DEF WizardFits
<1>2. ASSUME NEW answer \in {"success", "failed"}, Wizard!Validated(answer)
      PROVE  WizardFits'
  <2>1. /\ UNCHANGED <<steps, open, activeStepId>> /\ forms'.source = forms.source
        /\ forms'.destination.type = forms.destination.type
        /\ forms'.destination.cluster = forms.destination.cluster
        /\ ~open => UNCHANGED forms
    BY <1>2, ValidatedIs, EndsAre DEF SameEnds
  <2>. QED  BY <2>1 DEF WizardFits
<1>. QED  BY <1>1, <1>2

\* Going back to a step.
LEMMA MoveFits ==
  ASSUME Wizard!WizardConstants, Ordered(steps, activeStepId), WizardTypes, WizardFits, open,
         NEW id \in Wizard!StepIds, Wizard!Index(id) < Wizard!Index(activeStepId), Wizard!MoveTo(id)
  PROVE  WizardFits'
<1>1. /\ activeStepId' = id /\ open' = open
      /\ forms'.source.type = forms.source.type /\ forms'.source.cluster = forms.source.cluster
      /\ forms'.destination.type = forms.destination.type
      /\ forms'.destination.cluster = forms.destination.cluster
      /\ Wizard!PolicyType(steps') = Wizard!PolicyType(steps)
      /\ Wizard!Source(steps') = Wizard!Source(steps)
      /\ \A s \in Wizard!StepIds : steps'[s].value = steps[s].value
  BY MoveIs, EndsAre DEF SameEnds, Wizard!MoveTo
<1>2. /\ steps'["general"].value = steps["general"].value
      /\ steps'["source"].value = steps["source"].value
      /\ steps'["destination"].value = steps["destination"].value
  BY <1>1, StepIdsAre
<1>3. Wizard!Index(activeStepId') >= 3 => Wizard!Index(activeStepId) >= 3
  <2>1. Wizard!Index(id) \in 1..5 /\ Wizard!Index(activeStepId) \in 1..5
    BY NeighboursAre DEF Ordered
  <2>. QED  BY <1>1, <2>1
<1>. QED  BY <1>1, <1>2, <1>3 DEF WizardFits

\* Saving a step.
LEMMA NextFits ==
  ASSUME Wizard!WizardConstants, Ordered(steps, activeStepId), WizardTypes, WizardFits,
         Wizard!NextButton
  PROVE  WizardFits'
<1>. DEFINE a == activeStepId
            D == steps'["destination"].value
<1>1. /\ open' = TRUE /\ open
      /\ activeStepId' = IF Wizard!HasNext(a) THEN Wizard!NextStepId(a) ELSE a
      /\ TypesChanged(steps, steps') => Ends(forms'.destination) = <<"", "", "">>
      /\ ~TypesChanged(steps, steps') => Ends(forms'.destination) = Ends(forms.destination)
      /\ a # "general" => /\ forms'.source = forms.source
                          /\ Wizard!PolicyType(steps') = Wizard!PolicyType(steps)
      /\ a = "general" =>
              forms'.source
                = Wizard!Preselected(Wizard!Activated(forms.source, steps, steps'),
                                     Wizard!PolicyType(steps'))
      /\ Wizard!Source(steps') = IF a = "source"
                                 THEN Wizard!SourceValue(forms.source, Wizard!PolicyType(steps))
                                 ELSE Wizard!Source(steps)
      /\ D = IF forms'.source.type # forms.source.type THEN Wizard!Unsaved
             ELSE IF a = "destination" THEN Wizard!Saved(Wizard!Value("destination"))
             ELSE steps["destination"].value
      /\ \A s \in Wizard!StepIds \ {"destination"} :
           steps'[s].value = IF s = a THEN Wizard!Saved(Wizard!Value(s)) ELSE steps[s].value
  BY NextIs DEF Wizard!NextButton, SameEnds, WizardTypes
<1>2. /\ forms.source \in Wizard!SourceValues
      /\ Wizard!PolicyType(steps) \in Wizard!POLICY_TYPES \cup {""}
  BY DEF WizardTypes, FormValues
<1>3. /\ \/ /\ Wizard!PolicyType(steps) = Wizard!PolicyType(steps')
            /\ forms'.source.type = forms.source.type /\ forms'.source.cluster = forms.source.cluster
         \/ a = "general" /\ forms'.source.type = "" /\ forms'.source.cluster = ""
      /\ forms'.source.type = "" => forms'.source.cluster = ""
  <2>. DEFINE h == Wizard!Preselected(Wizard!Activated(forms.source, steps, steps'),
                                      Wizard!PolicyType(steps'))
  <2>1. \/ /\ Wizard!PolicyType(steps) = Wizard!PolicyType(steps')
           /\ h.type = forms.source.type /\ h.cluster = forms.source.cluster
        \/ h.type = "" /\ h.cluster = ""
    <3>. DEFINE g == Wizard!Activated(forms.source, steps, steps')
    <3>1. /\ g \in Wizard!SourceValues
          /\ Wizard!PolicyType(steps) = Wizard!PolicyType(steps')
               => g.type = forms.source.type /\ g.cluster = forms.source.cluster
          /\ Wizard!PolicyType(steps) # Wizard!PolicyType(steps') => g = Wizard!InitialSource
      BY <1>2, ActivatedIs
    <3>. HIDE DEF g
    <3>2. h # g => h.type = "" /\ h.cluster = ""
      BY <3>1, PreselectedIs DEF g
    <3>. HIDE DEF h
    <3>3. g = Wizard!InitialSource => g.type = "" /\ g.cluster = ""
      BY InitialFormsAre, Zenon
    <3>. QED  BY <3>1, <3>2, <3>3
  <2>. HIDE DEF h
  <2>2. CASE a = "general"
    <3>1. forms'.source = h
      BY <1>1, <2>2 DEF h
    <3>. QED  BY <2>1, <2>2, <3>1 DEF WizardFits
  <2>3. CASE a # "general"
    <3>1. forms'.source = forms.source /\ Wizard!PolicyType(steps') = Wizard!PolicyType(steps)
      BY <1>1, <2>3
    <3>. QED  BY <3>1 DEF WizardFits
  <2>. QED  BY <2>2, <2>3
<1>4. a = "source" =>
        /\ Wizard!Source(steps').type = forms.source.type
        /\ Wizard!Source(steps').cluster = (IF forms.source.type = "S3" THEN ""
                                            ELSE forms.source.cluster)
  BY ZenonT(30), <1>1, <1>2, SourceValueIs
<1>5. Wizard!Source(steps').type # "CLUSTER" => Wizard!Source(steps').cluster = ""
  <2>1. CASE a = "source"
    <3>1. forms.source.type \in {"CLUSTER", "S3", ""}
      BY <1>2 DEF Wizard!SourceValues, Wizard!SOURCE_TYPES
    <3>. QED  BY <1>4, <2>1, <3>1 DEF WizardFits
  <2>2. CASE a # "source"
    <3>1. Wizard!Source(steps') = Wizard!Source(steps)
      BY <1>1, <2>2
    <3>. QED  BY <3>1 DEF WizardFits
  <2>. QED  BY <2>1, <2>2
<1>6. /\ steps'["general"].value.saved <=> a = "general" \/ steps["general"].value.saved
      /\ steps'["source"].value.saved <=> a = "source" \/ steps["source"].value.saved
  <2>1. \A x : Wizard!Saved(x).saved = TRUE
    BY DEF Wizard!Saved
  <2>. QED  BY <1>1, <2>1, StepIdsAre
<1>7. /\ a \in Wizard!StepIds
      /\ a # "general" => steps["general"].value.saved
      /\ a \notin {"general", "source"} => steps["source"].value.saved
  BY SavedBeforeIs
<1>8. /\ \/ forms'.destination.type = "" /\ forms'.destination.cluster = ""
         \/ /\ ~TypesChanged(steps, steps')
            /\ forms'.destination.type = forms.destination.type
            /\ forms'.destination.cluster = forms.destination.cluster
  BY <1>1, EndsAre
<1>9. forms'.destination.type = "S3"
        => Wizard!PolicyType(steps') = "HDFS" /\ Wizard!Source(steps').type = "CLUSTER"
  BY <1>6, <1>8 DEF TypesChanged, WizardFits
<1>10. Wizard!Index(activeStepId') >= 3
         => /\ Wizard!Source(steps').type = forms'.source.type
            /\ forms'.source.type # "S3" => Wizard!Source(steps').cluster = forms'.source.cluster
  <2>1. CASE a = "general"
    <3>1. activeStepId' = "source"
      BY <1>1, <2>1, NextStepsAre
    <3>. QED  BY <3>1, StepIdsAre
  <2>2. CASE a = "source"
    BY <1>1, <1>4, <2>2
  <2>3. CASE a \notin {"general", "source"}
    <3>1. Wizard!Index(a) >= 3
      BY <1>7, <2>3, StepIdsAre
    <3>. QED  BY <1>1, <2>3, <3>1 DEF WizardFits
  <2>. QED  BY <2>1, <2>2, <2>3
<1>11. D.saved
         => /\ steps'["source"].value.saved /\ steps'["general"].value.saved
            /\ forms'.source.type = Wizard!Source(steps').type
            /\ D.is.type = "S3"
                 => Wizard!PolicyType(steps') = "HDFS" /\ Wizard!Source(steps').type = "CLUSTER"
  <2>. SUFFICES ASSUME D.saved PROVE
            /\ steps'["source"].value.saved /\ steps'["general"].value.saved
            /\ forms'.source.type = Wizard!Source(steps').type
            /\ D.is.type = "S3"
                 => Wizard!PolicyType(steps') = "HDFS" /\ Wizard!Source(steps').type = "CLUSTER"
    OBVIOUS
  <2>1. forms'.source.type = forms.source.type
    <3>1. D = Wizard!Unsaved => ~D.saved
      BY UnsavedIs
    <3>. QED  BY <1>1, <3>1
  <2>2. CASE a = "destination"
    <3>1. D = Wizard!Saved(Wizard!Value("destination"))
      BY <1>1, <2>1, <2>2
    <3>2. D.is = Wizard!Value("destination")
      BY <3>1 DEF Wizard!Saved
    <3>3. D.is.type = forms.destination.type
      BY <3>2 DEF Wizard!Value
    <3>4. Wizard!Index(a) >= 3
      BY <2>2, StepIdsAre
    <3>. QED  BY <1>1, <1>6, <1>7, <2>1, <2>2, <3>3, <3>4 DEF WizardFits
  <2>3. CASE a # "destination"
    <3>1. D = steps["destination"].value
      BY <1>1, <2>1, <2>3
    <3>2. /\ steps["source"].value.saved /\ steps["general"].value.saved
          /\ forms.source.type = Wizard!Source(steps).type
          /\ D.is.type = "S3"
               => Wizard!PolicyType(steps) = "HDFS" /\ Wizard!Source(steps).type = "CLUSTER"
      BY <3>1 DEF WizardFits
    <3>3. forms'.source.type = Wizard!Source(steps').type
      BY <1>1, <1>4, <2>1, <3>2
    <3>4. D.is.type = "S3"
            => Wizard!PolicyType(steps') = "HDFS" /\ Wizard!Source(steps').type = "CLUSTER"
      BY <1>3, <2>1, <3>2, <3>3
    <3>. QED  BY <1>6, <3>2, <3>3, <3>4
  <2>. QED  BY <2>2, <2>3
<1>12. ~steps'["source"].value.saved => forms'.destination.type = ""
  BY <1>6, <1>8 DEF WizardFits
<1>13. forms'.destination.type = "" => forms'.destination.cluster = ""
  BY <1>8 DEF WizardFits
<1>. QED  BY <1>1, <1>3, <1>5, <1>9, <1>10, <1>11, <1>12, <1>13 DEF WizardFits

\* The moves of the wizard go back.
LEMMA MovesGoBack ==
  ASSUME Ordered(steps, activeStepId),
         Wizard!BackButton \/ \E id \in Wizard!StepIds : Wizard!SelectTab(id)
  PROVE  /\ open
         /\ \E id \in Wizard!StepIds : Wizard!Index(id) < Wizard!Index(activeStepId) /\ Wizard!MoveTo(id)
<1>1. CASE Wizard!BackButton
  <2>1. activeStepId \in Wizard!StepIds
    BY DEF Ordered
  <2>. QED  BY <1>1, <2>1, NeighboursAre DEF Wizard!BackButton, Wizard!IsBackButtonDisabled
<1>2. ASSUME NEW id \in Wizard!StepIds, Wizard!SelectTab(id)
      PROVE  open /\ Wizard!Index(id) < Wizard!Index(activeStepId) /\ Wizard!MoveTo(id)
  <2>1. open /\ id # activeStepId /\ steps[id].state # "disabled" /\ Wizard!MoveTo(id)
    BY <1>2 DEF Wizard!SelectTab
  <2>2. Wizard!Index(id) < Wizard!Index(activeStepId)
    BY <2>1, NeighboursAre DEF Ordered
  <2>. QED  BY <2>1, <2>2
<1>. QED  BY <1>1, <1>2

\* What changes neither steps nor forms.
Elsewhere ==
  \/ \E type \in Wizard!POLICY_TYPES, ok \in BOOLEAN : Wizard!EditGeneral(type, ok)
  \/ \E id \in Wizard!StepIds : Wizard!EditOther(id)
  \/ Wizard!ValidateButton \/ Wizard!CreationFailed

\* The steps of the wizard, by what they change.
LEMMA WizardStepsAre ==
  ASSUME Wizard!WizardConstants, Ordered(steps, activeStepId), WizardTypes, Wizard!Next
  PROVE  \/ (\E c \in Preselections : Wizard!Open(c)) \/ Wizard!Close \/ Wizard!Created
         \/ \/ \E type \in Wizard!SOURCE_TYPES : Wizard!EditSourceType(type)
            \/ \E f \in Wizard!SourceValues : IsSourceEdit(f)
            \/ Wizard!SourceRechecked
         \/ \/ \E d \in Wizard!DestinationValues : IsDestinationEdit(d)
            \/ \E answer \in {"success", "failed"} : Wizard!Validated(answer)
         \/ /\ open
            /\ \E id \in Wizard!StepIds : Wizard!Index(id) < Wizard!Index(activeStepId)
                                          /\ Wizard!MoveTo(id)
         \/ Wizard!NextButton
         \/ Elsewhere
  BY EditsAre, MovesGoBack DEF Wizard!Next, Elsewhere

\* These leave the ends alone.
LEMMA ElsewhereIs ==
  ASSUME WizardTypes, Elsewhere
  PROVE  /\ UNCHANGED <<steps, open, activeStepId, preselected>>
         /\ forms'.source = forms.source /\ forms'.destination = forms.destination
         /\ ~open => UNCHANGED forms
         /\ activeStepId \in {"source", "destination"} => UNCHANGED isFormValid
         /\ policyRequestInProgress' => UNCHANGED <<policyRequestInProgress, creating>>
  BY DEF Elsewhere, Wizard!EditGeneral, Wizard!EditOther, Wizard!Edited, Wizard!Editing,
     Wizard!ValidateButton, Wizard!CreationFailed, WizardTypes, FormValues

\* What is saved keeps fitting the forms.
LEMMA WizardKeepsFits ==
  ASSUME Wizard!WizardConstants, Ordered(steps, activeStepId), WizardTypes, WizardFits, Wizard!Next
  PROVE  WizardFits'
<1>1. CASE Elsewhere
  <2>1. /\ steps' = steps /\ open' = open /\ activeStepId' = activeStepId
        /\ forms'.source = forms.source /\ forms'.destination = forms.destination
        /\ ~open => forms' = forms
    BY <1>1, ElsewhereIs
  <2>. QED  BY <2>1 DEF WizardFits
<1>2. CASE (\E c \in Preselections : Wizard!Open(c)) \/ Wizard!Close \/ Wizard!Created
  BY <1>2, OpenFits
<1>3. CASE \/ \E type \in Wizard!SOURCE_TYPES : Wizard!EditSourceType(type)
           \/ \E f \in Wizard!SourceValues : IsSourceEdit(f)
           \/ Wizard!SourceRechecked
  BY <1>3, SourceEditFits
<1>4. CASE \/ \E d \in Wizard!DestinationValues : IsDestinationEdit(d)
           \/ \E answer \in {"success", "failed"} : Wizard!Validated(answer)
  BY <1>4, DestinationEditFits
<1>5. ASSUME open, NEW id \in Wizard!StepIds, Wizard!Index(id) < Wizard!Index(activeStepId),
             Wizard!MoveTo(id)
      PROVE  WizardFits'
  BY <1>5, MoveFits
<1>6. CASE Wizard!NextButton
  BY <1>6, NextFits
<1>. QED
  BY <1>1, <1>2, <1>3, <1>4, <1>5, <1>6, WizardStepsAre

WizardInv == part = "wizard" => Ordered(steps, activeStepId) /\ WizardTypes /\ WizardFits

\* The invariant of the wizard.
LEMMA WizardInvHolds == Spec => []WizardInv
<1>0. Wizard!WizardConstants
  BY PolicyPagesConstants
<1>1. Init => WizardInv
  <2>. SUFFICES ASSUME Wizard!Init
                PROVE  Ordered(steps, activeStepId) /\ WizardTypes /\ WizardFits
    BY DEF Init, WizardInv
  <2>1. Ordered(steps, activeStepId)
    BY InitialOrdered DEF Wizard!Init
  <2>2. WizardTypes
    <3>1. /\ steps = Wizard!InitialSteps /\ forms = Wizard!InitialForms
          /\ validation = "none" /\ preselected = "" /\ isFormValid = FALSE /\ open = FALSE
          /\ checking = FALSE /\ policyRequestInProgress = FALSE /\ validationInProgress = FALSE
          /\ moves = 0
      BY DEF Wizard!Init
    <3>2. moves \in 0..MaxMoves
      <4>1. MaxMoves \in Nat
        BY <1>0 DEF Wizard!WizardConstants
      <4>2. moves = 0
        BY <3>1
      <4>. QED  BY <4>1, <4>2
    <3>3. {"general", "source", "destination"} \subseteq Wizard!StepIds
      BY StepIdsAre
    <3>. QED  BY <3>1, <3>2, <3>3, InitialFormsAre, InitialStepsAre DEF WizardTypes
  <2>3. WizardFits
    BY InitialFormsAre, InitialStepsAre, StepIdsAre DEF Wizard!Init, WizardFits
  <2>. QED  BY <2>1, <2>2, <2>3
<1>2. WizardInv /\ [Next]_vars => WizardInv'
  <2>. SUFFICES ASSUME WizardInv, [Next]_vars, part' = "wizard"
                PROVE  (Ordered(steps, activeStepId) /\ WizardTypes /\ WizardFits)'
    BY DEF WizardInv
  <2>1. /\ Ordered(steps, activeStepId) /\ WizardTypes /\ WizardFits
        /\ [Wizard!Next]_wizardVars
    BY PartSteps DEF WizardInv
  <2>2. CASE Wizard!Next
    BY <1>0, <2>1, <2>2, WizardKeepsOrder, WizardKeepsTypes, WizardKeepsFits
  <2>3. CASE UNCHANGED wizardVars
    <3>1. Ordered(steps, activeStepId)'
      BY <2>1, <2>3 DEF wizardVars
    <3>2. WizardTypes'
      BY <2>1, <2>3 DEF wizardVars, WizardTypes
    <3>3. WizardFits'
      <4>1. steps' = steps /\ open' = open /\ activeStepId' = activeStepId /\ forms' = forms
        BY <2>3 DEF wizardVars
      <4>. QED  BY <2>1, <4>1 DEF WizardFits
    <3>. QED  BY <3>1, <3>2, <3>3
  <2>. QED  BY <2>1, <2>2, <2>3
<1>. QED  BY <1>1, <1>2, PTL DEF Spec

\* No policy from one bucket to another, and none of HIVE to a bucket, is ever saved:
\* neither by going back and changing a type, nor by a late answer of a validation.
THEOREM CloudHasOneEnd == Spec => [](part = "wizard" => Wizard!NoCloudToCloud)
<1>1. WizardInv => (part = "wizard" => Wizard!NoCloudToCloud)
  BY DEF WizardInv, WizardFits, Wizard!NoCloudToCloud
<1>. QED  BY <1>1, WizardInvHolds, PTL

\* The fields of the destination that a validation is about.
Fields(f, s) ==
  [x \in Wizard!Enabled(f.destination, Wizard!PolicyType(s)) |-> f.destination[x]]

Voids == open /\ open' /\ Fields(forms, steps) # Fields(forms', steps')
           => ~forms'.destination.validationStatus

\* They are what the wizard compares.
LEMMA FieldsAre ==
  ASSUME NEW f, NEW s
  PROVE  Fields(f, s) = Wizard!PolicyFields(f.destination, Wizard!PolicyType(s))
  BY DEF Fields, Wizard!PolicyFields

\* Without a type of the destination, all fields are enabled.
LEMMA UntypedFields ==
  ASSUME NEW d, d.type = "", NEW p, NEW q
  PROVE  Wizard!PolicyFields(d, p) = Wizard!PolicyFields(d, q)
<1>1. Wizard!Enabled(d, p) = {"cluster", "path", "bucket"}
  BY DEF Wizard!Enabled
<1>2. Wizard!Enabled(d, q) = {"cluster", "path", "bucket"}
  BY DEF Wizard!Enabled
<1>. QED  BY <1>1, <1>2, Zenon DEF Wizard!PolicyFields

\* A step of the wizard that changes what a validation is about takes it back.
LEMMA WizardVoids ==
  ASSUME Wizard!WizardConstants, Ordered(steps, activeStepId), WizardTypes, WizardFits, Wizard!Next
  PROVE  Voids
<1>. DEFINE Same == Wizard!PolicyFields(forms'.destination, Wizard!PolicyType(steps'))
                      = Wizard!PolicyFields(forms.destination, Wizard!PolicyType(steps))
<1>1. (forms'.destination.validationStatus => Same) => Voids
  BY FieldsAre DEF Voids
<1>. HIDE DEF Same
<1>2. CASE Elsewhere
  <2>1. steps' = steps /\ forms'.destination = forms.destination
    BY <1>2, ElsewhereIs
  <2>. QED  BY <1>1, <2>1 DEF Same
<1>3. CASE (\E c \in Preselections : Wizard!Open(c)) \/ Wizard!Close \/ Wizard!Created
  <2>1. ~(open /\ open')
    BY <1>3 DEF Wizard!Open, Wizard!Close, Wizard!Created
  <2>. QED  BY <2>1 DEF Voids
<1>4. ASSUME NEW type \in Wizard!SOURCE_TYPES, Wizard!EditSourceType(type)
      PROVE  Voids
  <2>1. /\ SameEnds(Wizard!PolicyType(steps'))
        /\ Wizard!PolicyType(steps') = Wizard!PolicyType(steps)
    BY <1>4, SourceTypeIs
  <2>. QED  BY <1>1, <2>1 DEF Same, SameEnds
<1>5. CASE (\E f \in Wizard!SourceValues : IsSourceEdit(f)) \/ Wizard!SourceRechecked
  <2>1. steps' = steps /\ forms'.destination = forms.destination
    BY <1>5 DEF IsSourceEdit, Wizard!SourceRechecked, Wizard!Edited, WizardTypes, FormValues
  <2>. QED  BY <1>1, <2>1 DEF Same
<1>6. ASSUME NEW d \in Wizard!DestinationValues, IsDestinationEdit(d)
      PROVE  Voids
  <2>1. /\ steps' = steps
        /\ forms'.destination.validationStatus
             => Wizard!PolicyFields(forms'.destination, Wizard!PolicyType(steps))
                  = Wizard!PolicyFields(forms.destination, Wizard!PolicyType(steps))
    BY <1>6, DestinationEditIs
  <2>. QED  BY <1>1, <2>1 DEF Same
<1>7. ASSUME NEW answer \in {"success", "failed"}, Wizard!Validated(answer)
      PROVE  Voids
  <2>1. steps' = steps /\ SameEnds(Wizard!PolicyType(steps))
    BY <1>7, ValidatedIs
  <2>. QED  BY <1>1, <2>1 DEF Same, SameEnds
<1>8. ASSUME NEW id \in Wizard!StepIds, Wizard!Index(id) < Wizard!Index(activeStepId),
             Wizard!MoveTo(id)
      PROVE  Voids
  <2>1. /\ SameEnds(Wizard!PolicyType(steps'))
        /\ Wizard!PolicyType(steps') = Wizard!PolicyType(steps)
    BY <1>8, MoveIs
  <2>. QED  BY <1>1, <2>1 DEF Same, SameEnds
<1>9. CASE Wizard!NextButton
  <2>1. /\ TypesChanged(steps, steps') => ~forms'.destination.validationStatus
        /\ ~TypesChanged(steps, steps') => SameEnds(Wizard!PolicyType(steps'))
        /\ activeStepId # "general" => Wizard!PolicyType(steps') = Wizard!PolicyType(steps)
        /\ \A s \in Wizard!StepIds \ {"destination"} :
             steps'[s].value = IF s = activeStepId THEN Wizard!Saved(Wizard!Value(s))
                               ELSE steps[s].value
    BY <1>9, NextIs
  <2>2. CASE TypesChanged(steps, steps')
    BY <1>1, <2>1, <2>2
  <2>3. CASE Wizard!PolicyType(steps') = Wizard!PolicyType(steps) /\ ~TypesChanged(steps, steps')
    BY <1>1, <2>1, <2>3 DEF Same, SameEnds
  <2>4. CASE Wizard!PolicyType(steps') # Wizard!PolicyType(steps) /\ ~TypesChanged(steps, steps')
    <3>1. activeStepId = "general" /\ steps'["source"].value = steps["source"].value
      BY <2>1, <2>4, StepIdsAre
    <3>2. ~steps["source"].value.saved
      BY <2>4, <3>1 DEF TypesChanged
    <3>3. forms.destination.type = ""
      BY <3>2 DEF WizardFits
    <3>4. Wizard!PolicyFields(forms.destination, Wizard!PolicyType(steps'))
            = Wizard!PolicyFields(forms.destination, Wizard!PolicyType(steps))
      BY <3>3, UntypedFields
    <3>. QED  BY <1>1, <2>1, <2>4, <3>4 DEF Same, SameEnds
  <2>. QED  BY <2>2, <2>3, <2>4
<1>. QED
  BY <1>2, <1>3, <1>4, <1>5, <1>6, <1>7, <1>8, <1>9, WizardStepsAre

\* A change of what a validation is about takes the validation back, be it made by the
\* user, by the source followed or by a change of types (step-destination.component.ts).
THEOREM EditsVoid == Spec => EditsVoidValidation
<1>1. WizardInv /\ [Next]_vars => [Voids]_(Wizard!vars)
  <2>. SUFFICES ASSUME WizardInv, [Next]_vars, Wizard!vars' # Wizard!vars
                PROVE  Voids
    OBVIOUS
  <2>1. part = "wizard" /\ Wizard!Next
    BY PartSteps DEF wizardVars, Wizard!vars, Next, vars, AtWork, ScheduleAtWork, SourceAtWork,
       RowsAtWork, QueueAtWork, WizardAtWork
  <2>2. Wizard!WizardConstants
    BY PolicyPagesConstants
  <2>. QED  BY <2>1, <2>2, WizardVoids DEF WizardInv
<1>2. Voids => (LET fields(f, s) ==
                      [x \in Wizard!Enabled(f.destination, Wizard!PolicyType(s)) |-> f.destination[x]]
                IN open /\ open' /\ fields(forms, steps) # fields(forms', steps')
                     => ~forms'.destination.validationStatus)
  BY DEF Voids, Fields
<1>. QED  BY <1>1, <1>2, WizardInvHolds, PTL DEF Spec, EditsVoidValidation, Wizard!EditsVoidValidation

-----------------------------------------------------------------------------
(* The credentials of a policy. *)

\* In a wizard opened without a cluster: a source is saved with a type, and without a
\* cluster only together with a destination that cannot be filled in.
ForgoneClusters ==
  /\ steps["source"].value.saved => Wizard!Source(steps).type # ""
  /\ forms.source.type = "" => forms.destination.type = ""
  /\ activeStepId = "source" /\ forms.source.type = "" => isFormValid = FALSE
  /\ forms.source.cluster = "" /\ Wizard!Source(steps).type = "CLUSTER"
       => forms.destination.type = "" \/ Wizard!Source(steps).cluster = ""
  /\ Wizard!Source(steps).type = "CLUSTER" /\ Wizard!Source(steps).cluster = ""
       => forms.destination.cluster = "" /\ forms.destination.type # "S3"

\* Next leaves such a destination alone, and one of a source in the cloud unless it is valid.
ValidDestinations ==
  activeStepId = "destination" /\ Wizard!Source(steps).cluster = "" /\ isFormValid = TRUE
    => Wizard!DestinationValid(forms.destination, Wizard!PolicyType(steps))

\* After it the policy has a cluster for one end.
SavedClusters ==
  activeStepId \in {"schedule", "advanced"}
    => \/ Wizard!Source(steps).cluster # ""
       \/ /\ Wizard!Source(steps).type = "S3"
          /\ steps["destination"].value.is.type = "CLUSTER"
          /\ steps["destination"].value.is.cluster # ""

CredentialsFit ==
  preselected = "" =>
    /\ ForgoneClusters /\ ValidDestinations /\ SavedClusters
    /\ policyRequestInProgress = TRUE => Wizard!ForOneEnd(creating)

\* A destination that is valid has a type, and a cluster unless it is in the cloud.
LEMMA ValidHasCluster ==
  ASSUME NEW d \in Wizard!DestinationValues, NEW p, Wizard!DestinationValid(d, p)
  PROVE  d.type \in {"CLUSTER", "S3"} /\ (d.type = "CLUSTER" => d.cluster # "")
<1>1. d.type # "" /\ \A f \in Wizard!Enabled(d, p) : d[f] # ""
  BY DEF Wizard!DestinationValid, Wizard!DestinationFilled
<1>2. d.type \in {"CLUSTER", "S3", ""}
  BY DEF Wizard!DestinationValues, Wizard!SOURCE_TYPES
<1>3. d.type = "CLUSTER" => "cluster" \in Wizard!Enabled(d, p)
  BY DEF Wizard!Enabled
<1>4. d.type = "CLUSTER" => d["cluster"] # ""
  BY <1>1, <1>3
<1>. QED  BY <1>1, <1>2, <1>4

\* A wizard that opens, closes, or is edited elsewhere.
LEMMA OpenCredentials ==
  ASSUME Wizard!WizardConstants, Ordered(steps, activeStepId), WizardTypes, WizardFits,
         CredentialsFit,
         \/ (\E c \in Preselections : Wizard!Open(c)) \/ Wizard!Close \/ Wizard!Created
         \/ Elsewhere
  PROVE  CredentialsFit'
<1>1. ASSUME NEW c \in Preselections, Wizard!Open(c)
      PROVE  CredentialsFit'
  <2>1. /\ steps' = Wizard!InitialSteps /\ activeStepId' = "general"
        /\ policyRequestInProgress' = FALSE
    <3>1. ~open /\ UNCHANGED steps /\ activeStepId' = Wizard!ActiveStepId(steps, "general")
          /\ policyRequestInProgress' = FALSE
      BY <1>1 DEF Wizard!Open
    <3>2. steps = Wizard!InitialSteps
      BY <3>1 DEF WizardFits
    <3>3. Wizard!ActiveStepId(steps, "general") = "general"
      BY <3>2, ActiveIs, InitialOrdered
    <3>. QED  BY <3>1, <3>2, <3>3
  <2>2. forms'.destination.type = "" /\ forms'.destination.cluster = ""
    BY <1>1, OpenIs, EndsAre
  <2>3. /\ steps'["source"].value.saved = FALSE
        /\ Wizard!Source(steps').type = ""
    BY <2>1, InitialStepsAre, StepIdsAre
  <2>. QED
    BY <2>1, <2>2, <2>3
       DEF CredentialsFit, ForgoneClusters, ValidDestinations, SavedClusters
<1>2. CASE Wizard!Close \/ Wizard!Created
  <2>1. /\ steps' = Wizard!InitialSteps /\ forms' = Wizard!InitialForms
        /\ activeStepId' = "general" /\ policyRequestInProgress' = FALSE
    BY <1>2 DEF Wizard!Close, Wizard!Created
  <2>2. forms'.destination.type = "" /\ forms'.destination.cluster = ""
    BY <2>1, InitialFormsAre
  <2>3. /\ steps'["source"].value.saved = FALSE
        /\ Wizard!Source(steps').type = ""
    BY <2>1, InitialStepsAre, StepIdsAre
  <2>. QED
    BY <2>1, <2>2, <2>3
       DEF CredentialsFit, ForgoneClusters, ValidDestinations, SavedClusters
<1>3. CASE Elsewhere
  <2>1. /\ steps' = steps /\ activeStepId' = activeStepId /\ preselected' = preselected
        /\ forms'.source = forms.source /\ forms'.destination = forms.destination
        /\ activeStepId \in {"source", "destination"} => isFormValid' = isFormValid
        /\ policyRequestInProgress' = TRUE
             => policyRequestInProgress = TRUE /\ creating' = creating
    BY <1>3, ElsewhereIs
  <2>2. ForgoneClusters => ForgoneClusters'
    BY <2>1 DEF ForgoneClusters
  <2>3. ValidDestinations => ValidDestinations'
    BY <2>1 DEF ValidDestinations
  <2>4. SavedClusters => SavedClusters'
    BY <2>1 DEF SavedClusters
  <2>. QED  BY <2>1, <2>2, <2>3, <2>4 DEF CredentialsFit
<1>. QED  BY <1>1, <1>2, <1>3

\* Edits of the source, and the answers about it.
LEMMA SourceEditCredentials ==
  ASSUME Wizard!WizardConstants, Ordered(steps, activeStepId), WizardTypes, WizardFits,
         CredentialsFit,
         \/ \E type \in Wizard!SOURCE_TYPES : Wizard!EditSourceType(type)
         \/ \E f \in Wizard!SourceValues : IsSourceEdit(f)
         \/ Wizard!SourceRechecked
  PROVE  CredentialsFit'
<1>1. ASSUME NEW type \in Wizard!SOURCE_TYPES, Wizard!EditSourceType(type)
      PROVE  CredentialsFit'
  <2>1. /\ activeStepId' = "source" /\ preselected' = preselected
        /\ policyRequestInProgress' = policyRequestInProgress /\ creating' = creating
        /\ forms'.source.type = type /\ forms'.source.cluster = forms.source.cluster
        /\ Wizard!Source(steps') = Wizard!Source(steps)
    BY <1>1, SourceTypeIs
  <2>2. /\ forms'.destination.type = forms.destination.type
        /\ forms'.destination.cluster = forms.destination.cluster
    BY <1>1, SourceTypeIs, EndsAre DEF SameEnds
  <2>3. steps'["source"].value = steps["source"].value
    BY <1>1, SourceTypeIs, StepIdsAre
  <2>4. type # ""
    BY DEF Wizard!SOURCE_TYPES
  <2>5. ForgoneClusters => ForgoneClusters'
    BY <2>1, <2>2, <2>3, <2>4 DEF ForgoneClusters
  <2>6. ValidDestinations' /\ SavedClusters'
    BY <2>1 DEF ValidDestinations, SavedClusters
  <2>. QED  BY <2>1, <2>5, <2>6 DEF CredentialsFit
<1>2. ASSUME NEW f \in Wizard!SourceValues, IsSourceEdit(f)
      PROVE  CredentialsFit'
  <2>1. /\ activeStepId' = "source" /\ preselected' = preselected
        /\ policyRequestInProgress' = policyRequestInProgress /\ creating' = creating
        /\ steps' = steps /\ forms' = [forms EXCEPT !.source = f]
        /\ f.type = forms.source.type /\ f.type # ""
        /\ f.cluster # "" \/ f.cluster = forms.source.cluster
    BY <1>2 DEF IsSourceEdit, Wizard!Editing, Wizard!Edited
  <2>2. forms'.source = f /\ forms'.destination = forms.destination
    BY <2>1 DEF WizardTypes, FormValues
  <2>4. ForgoneClusters => ForgoneClusters'
    BY <2>1, <2>2 DEF ForgoneClusters
  <2>5. ValidDestinations' /\ SavedClusters'
    BY <2>1 DEF ValidDestinations, SavedClusters
  <2>. QED  BY <2>1, <2>4, <2>5 DEF CredentialsFit
<1>3. CASE Wizard!SourceRechecked
  <2>1. /\ open /\ steps' = steps /\ activeStepId' = activeStepId /\ preselected' = preselected
        /\ policyRequestInProgress' = policyRequestInProgress /\ creating' = creating
        /\ forms.source.type = "CLUSTER"
        /\ forms' = [forms EXCEPT !.source.checked = ~@]
        /\ isFormValid' = Wizard!Emitted("source", forms')
    BY <1>3 DEF Wizard!SourceRechecked, Wizard!Edited
  <2>2. /\ forms'.source.type = forms.source.type /\ forms'.source.cluster = forms.source.cluster
        /\ forms'.destination = forms.destination /\ forms' \in FormValues
    BY <2>1 DEF WizardTypes, FormValues, Wizard!SourceValues
  <2>3. forms.source.cluster = "" => isFormValid' = isFormValid
    <3>. SUFFICES ASSUME forms.source.cluster = ""
                  PROVE  isFormValid' = isFormValid
      OBVIOUS
    <3>1. \A f, p : f.type = "CLUSTER" /\ f.cluster = "" => Wizard!SourceValid(f, p) = FALSE
      BY DEF Wizard!SourceValid
    <3>2. forms \in FormValues /\ isFormValid \in BOOLEAN /\ "source" \in Wizard!StepIds
      BY StepIdsAre DEF WizardTypes
    <3>3. /\ Wizard!Valid(forms, steps, "source")
               = Wizard!SourceValid(forms.source, Wizard!PolicyType(steps))
          /\ Wizard!Valid(forms', steps, "source")
               = Wizard!SourceValid(forms'.source, Wizard!PolicyType(steps))
      BY <2>2, <3>2, ValidIs
    <3>4. Wizard!Valid(forms', steps, "source") = Wizard!Valid(forms, steps, "source")
      BY <2>1, <2>2, <3>1, <3>3
    <3>. QED  BY <2>1, <2>2, <3>2, <3>4, EmittedIs
  <2>4. ForgoneClusters => ForgoneClusters'
    BY <2>1, <2>2 DEF ForgoneClusters
  <2>5. ValidDestinations => ValidDestinations'
    <3>1. activeStepId = "destination" /\ Wizard!Source(steps).cluster = ""
            => forms.source.cluster = ""
      <4>1. Wizard!Index("destination") >= 3
        BY StepIdsAre
      <4>. QED  BY <2>1, <4>1 DEF WizardFits
    <3>. QED  BY <2>1, <2>2, <2>3, <3>1 DEF ValidDestinations
  <2>6. SavedClusters => SavedClusters'
    BY <2>1 DEF SavedClusters
  <2>. QED  BY <2>1, <2>4, <2>5, <2>6 DEF CredentialsFit
<1>. QED  BY <1>1, <1>2, <1>3

\* A destination without a type is not valid, nor is such a source.
LEMMA UntypedInvalid ==
  ASSUME NEW f \in FormValues, NEW s
  PROVE  /\ f.destination.type = "" => Wizard!Valid(f, s, "destination") = FALSE
         /\ f.source.type = "" => Wizard!Valid(f, s, "source") = FALSE
<1>1. {"destination", "source"} \subseteq Wizard!StepIds
  BY StepIdsAre
<1>2. Wizard!Valid(f, s, "source") = Wizard!SourceValid(f.source, Wizard!PolicyType(s))
  BY <1>1, ValidIs
<1>3. Wizard!Valid(f, s, "destination")
        = Wizard!DestinationValid(f.destination, Wizard!PolicyType(s))
  BY <1>1, ValidIs
<1>4. f.source.type = "" => Wizard!SourceValid(f.source, Wizard!PolicyType(s)) = FALSE
  BY DEF Wizard!SourceValid
<1>5. f.destination.type = ""
        => Wizard!DestinationValid(f.destination, Wizard!PolicyType(s)) = FALSE
  BY DEF Wizard!DestinationValid, Wizard!DestinationFilled
<1>. QED  BY <1>2, <1>3, <1>4, <1>5

\* A destination that was valid when Next became enabled is so as long as it is.
LEMMA EmitsValidDestination ==
  ASSUME WizardTypes, ValidDestinations, NEW f \in FormValues,
         activeStepId = "destination", Wizard!Source(steps).cluster = "",
         Wizard!Emitted("destination", f) = TRUE
  PROVE  Wizard!DestinationValid(f.destination, Wizard!PolicyType(steps))
<1>1. "destination" \in Wizard!StepIds /\ forms \in FormValues /\ isFormValid \in BOOLEAN
  BY StepIdsAre DEF WizardTypes
<1>2. /\ Wizard!Valid(f, steps, "destination")
           = Wizard!DestinationValid(f.destination, Wizard!PolicyType(steps))
      /\ Wizard!Valid(forms, steps, "destination")
           = Wizard!DestinationValid(forms.destination, Wizard!PolicyType(steps))
  BY <1>1, ValidIs
<1>3. ~Wizard!Valid(f, steps, "destination")
        => isFormValid = TRUE /\ ~Wizard!Valid(forms, steps, "destination")
  BY <1>1, EmittedIs
<1>. QED  BY <1>2, <1>3 DEF ValidDestinations

\* Edits of the destination, and the answers about it.
LEMMA DestinationEditCredentials ==
  ASSUME Wizard!WizardConstants, Ordered(steps, activeStepId), WizardTypes, WizardFits,
         CredentialsFit,
         \/ \E d \in Wizard!DestinationValues : IsDestinationEdit(d)
         \/ \E answer \in {"success", "failed"} : Wizard!Validated(answer)
  PROVE  CredentialsFit'
<1>1. ASSUME NEW d \in Wizard!DestinationValues, IsDestinationEdit(d), preselected = ""
      PROVE  CredentialsFit'
  <2>1. /\ activeStepId = "destination" /\ activeStepId' = "destination"
        /\ steps' = steps /\ preselected' = preselected
        /\ policyRequestInProgress' = policyRequestInProgress /\ creating' = creating
        /\ forms'.source = forms.source
        /\ forms'.destination.type = d.type /\ forms'.destination.cluster = d.cluster
        /\ forms' \in FormValues
        /\ isFormValid' = Wizard!Emitted("destination", forms')
    BY <1>1, DestinationEditIs, EndsAre
  <2>2. ForgoneClusters /\ ValidDestinations
    BY <1>1 DEF CredentialsFit
  <2>3. Wizard!Index(activeStepId) >= 3 /\ steps["source"].value.saved
    BY <2>1, StepIdsAre, SavedBeforeIs
  <2>4. /\ Wizard!Source(steps).type = forms.source.type /\ forms.source.type # ""
        /\ forms.source.type # "S3" => Wizard!Source(steps).cluster = forms.source.cluster
    BY <2>2, <2>3 DEF ForgoneClusters, WizardFits
  <2>5. Wizard!Source(steps).type = "CLUSTER" /\ Wizard!Source(steps).cluster = ""
          => d.cluster = "" /\ d.type # "S3"
    <3>. SUFFICES ASSUME Wizard!Source(steps).type = "CLUSTER", Wizard!Source(steps).cluster = ""
                  PROVE  d.cluster = "" /\ d.type # "S3"
      OBVIOUS
    <3>1. forms.destination.cluster = "" /\ forms.destination.type # "S3"
      BY <2>2 DEF ForgoneClusters
    <3>2. Wizard!DestinationTypes(steps) = {"CLUSTER"}
      BY OffersAre DEF Wizard!DestinationTypes
    <3>3. Wizard!DestinationClusters(steps) = {}
      BY OffersAre DEF Wizard!DestinationClusters
    <3>. QED  BY <1>1, <3>1, <3>2, <3>3 DEF IsDestinationEdit
  <2>6. ForgoneClusters'
    BY <2>1, <2>2, <2>4, <2>5 DEF ForgoneClusters
  <2>7. ValidDestinations'
    BY <2>1, <2>2, EmitsValidDestination DEF ValidDestinations
  <2>8. SavedClusters'
    BY <2>1 DEF SavedClusters
  <2>. QED  BY <2>1, <2>6, <2>7, <2>8 DEF CredentialsFit
<1>2. ASSUME NEW answer \in {"success", "failed"}, Wizard!Validated(answer), preselected = ""
      PROVE  CredentialsFit'
  <2>1. /\ steps' = steps /\ activeStepId' = activeStepId /\ preselected' = preselected
        /\ policyRequestInProgress' = policyRequestInProgress /\ creating' = creating
        /\ forms'.source = forms.source /\ forms' \in FormValues
        /\ forms'.destination.type = forms.destination.type
        /\ forms'.destination.cluster = forms.destination.cluster
        /\ \/ isFormValid' = Wizard!Emitted("destination", forms')
           \/ isFormValid' = isFormValid /\ forms' = forms
    BY <1>2, ValidatedIs, EndsAre DEF SameEnds, WizardTypes
  <2>2. ForgoneClusters /\ ValidDestinations /\ SavedClusters
    BY <1>2 DEF CredentialsFit
  <2>3. forms.destination.type = "" => isFormValid' = isFormValid
    <3>1. forms \in FormValues /\ isFormValid \in BOOLEAN /\ "destination" \in Wizard!StepIds
      BY StepIdsAre DEF WizardTypes
    <3>2. forms.destination.type = "" => /\ Wizard!Valid(forms, steps, "destination") = FALSE
                                         /\ Wizard!Valid(forms', steps, "destination") = FALSE
      BY <2>1, <3>1, UntypedInvalid
    <3>. QED  BY <2>1, <3>1, <3>2, EmittedIs
  <2>4. ForgoneClusters'
    BY <2>1, <2>2, <2>3 DEF ForgoneClusters
  <2>5. ValidDestinations'
    BY <2>1, <2>2, EmitsValidDestination DEF ValidDestinations
  <2>6. SavedClusters'
    BY <2>1, <2>2 DEF SavedClusters
  <2>. QED  BY <1>2, <2>1, <2>4, <2>5, <2>6 DEF CredentialsFit
<1>3. preselected # "" => CredentialsFit'
  <2>1. preselected' = preselected
    BY DestinationEditIs, ValidatedIs
  <2>. QED  BY <2>1 DEF CredentialsFit
<1>. QED  BY <1>1, <1>2, <1>3

\* Going back to a step.
LEMMA MoveCredentials ==
  ASSUME Wizard!WizardConstants, Ordered(steps, activeStepId), WizardTypes, WizardFits,
         CredentialsFit, open,
         NEW id \in Wizard!StepIds, Wizard!Index(id) < Wizard!Index(activeStepId), Wizard!MoveTo(id)
  PROVE  CredentialsFit'
<1>1. /\ activeStepId' = id /\ preselected' = preselected
      /\ policyRequestInProgress' = policyRequestInProgress /\ creating' = creating
      /\ forms' \in FormValues
      /\ forms'.source.type = forms.source.type /\ forms'.source.cluster = forms.source.cluster
      /\ forms'.destination.type = forms.destination.type
      /\ forms'.destination.cluster = forms.destination.cluster
      /\ Wizard!PolicyType(steps') = Wizard!PolicyType(steps)
      /\ Wizard!Source(steps') = Wizard!Source(steps)
      /\ \A s \in Wizard!StepIds : steps'[s].value = steps[s].value
      /\ isFormValid' = Wizard!Valid(forms', steps', id)
  BY MoveIs, EndsAre DEF SameEnds, Wizard!MoveTo
<1>2. /\ steps'["source"].value = steps["source"].value
      /\ steps'["destination"].value = steps["destination"].value
  BY <1>1, StepIdsAre
<1>3. id \in {"schedule", "advanced"} => activeStepId \in {"schedule", "advanced"}
  <2>1. activeStepId \in {"general", "source", "destination", "schedule", "advanced"}
    BY StepIdsAre DEF Ordered
  <2>. QED  BY <2>1, StepIdsAre
<1>4. forms'.source.type = "" /\ id = "source" => isFormValid' = FALSE
  BY <1>1, UntypedInvalid
<1>5. id = "destination" /\ isFormValid' = TRUE
        => Wizard!DestinationValid(forms'.destination, Wizard!PolicyType(steps'))
  BY <1>1, ValidIs
<1>6. ForgoneClusters => ForgoneClusters'
  BY <1>1, <1>2, <1>4 DEF ForgoneClusters
<1>7. ValidDestinations'
  BY <1>1, <1>5 DEF ValidDestinations
<1>8. SavedClusters => SavedClusters'
  BY <1>1, <1>2, <1>3 DEF SavedClusters
<1>. QED  BY <1>1, <1>6, <1>7, <1>8 DEF CredentialsFit

\* The policy that is submitted is made of what is saved.
LEMMA PolicyForOneEnd ==
  ASSUME WizardFits, SavedClusters, activeStepId = "advanced",
         Wizard!Source(steps) \in SavedSources
  PROVE  Wizard!ForOneEnd(Wizard!Policy)
<1>. DEFINE D == steps["destination"].value.is
            S == Wizard!Source(steps)
            toHiveCloud == /\ Wizard!PolicyType(steps) = "HIVE" /\ D.type = "CLUSTER"
                           /\ D.cluster \in HiveOnS3
<1>1. /\ S.cluster # "" \/ (S.type = "S3" /\ D.type = "CLUSTER" /\ D.cluster # "")
      /\ S.type = "S3" => S.cluster = ""
  BY DEF SavedClusters, WizardFits
<1>. HIDE DEF S, D
<1>2. /\ Wizard!Policy.sourceCluster = S.cluster
      /\ Wizard!Policy.targetCluster = (IF D.type = "CLUSTER" THEN D.cluster ELSE "")
      /\ Wizard!Policy.cloudCred = IF S.type = "S3" THEN S.bucket
                                   ELSE IF toHiveCloud \/ D.type = "S3" THEN D.bucket ELSE ""
  BY DEF Wizard!Policy, S, D
<1>. QED  BY <1>1, <1>2 DEF Wizard!ForOneEnd

\* Saving a step.
LEMMA NextCredentials ==
  ASSUME Wizard!WizardConstants, Ordered(steps, activeStepId), WizardTypes, WizardFits,
         CredentialsFit, Wizard!NextButton
  PROVE  CredentialsFit'
<1>. DEFINE a == activeStepId
            D == steps'["destination"].value
<1>1. /\ isFormValid = TRUE /\ preselected' = preselected
      /\ policyRequestInProgress' = (a = "advanced")
      /\ creating' = IF a = "advanced" THEN Wizard!Policy ELSE creating
      /\ forms' \in FormValues
      /\ activeStepId' = IF Wizard!HasNext(a) THEN Wizard!NextStepId(a) ELSE a
      /\ TypesChanged(steps, steps') => Ends(forms'.destination) = <<"", "", "">>
      /\ ~TypesChanged(steps, steps') => Ends(forms'.destination) = Ends(forms.destination)
      /\ a # "general" => /\ forms'.source = forms.source
                          /\ Wizard!PolicyType(steps') = Wizard!PolicyType(steps)
      /\ a = "general" =>
              forms'.source
                = Wizard!Preselected(Wizard!Activated(forms.source, steps, steps'),
                                     Wizard!PolicyType(steps'))
      /\ Wizard!Source(steps') = IF a = "source"
                                 THEN Wizard!SourceValue(forms.source, Wizard!PolicyType(steps))
                                 ELSE Wizard!Source(steps)
      /\ D = IF forms'.source.type # forms.source.type THEN Wizard!Unsaved
             ELSE IF a = "destination" THEN Wizard!Saved(Wizard!Value("destination"))
             ELSE steps["destination"].value
      /\ \A s \in Wizard!StepIds \ {"destination"} :
           steps'[s].value = IF s = a THEN Wizard!Saved(Wizard!Value(s)) ELSE steps[s].value
      /\ isFormValid' = IF activeStepId' = activeStepId THEN isFormValid
                        ELSE Wizard!Valid(forms', steps', activeStepId')
  BY NextIs DEF Wizard!NextButton, SameEnds, WizardTypes
<1>. SUFFICES ASSUME preselected = ""
              PROVE  CredentialsFit'
  BY <1>1 DEF CredentialsFit
<1>2. /\ ForgoneClusters /\ ValidDestinations /\ SavedClusters
      /\ forms.source \in Wizard!SourceValues /\ forms.destination \in Wizard!DestinationValues
      /\ Wizard!PolicyType(steps) \in Wizard!POLICY_TYPES \cup {""}
      /\ Wizard!Source(steps) \in SavedSources
  BY DEF CredentialsFit, WizardTypes, FormValues
<1>3. /\ a \in {"general", "source", "destination", "schedule", "advanced"}
      /\ a \notin {"general", "source"} => steps["source"].value.saved
  BY SavedBeforeIs, StepIdsAre
<1>4. /\ a = "general" => activeStepId' = "source"
      /\ a = "source" => activeStepId' = "destination"
      /\ a = "destination" => activeStepId' = "schedule"
      /\ a \in {"schedule", "advanced"} => activeStepId' = "advanced"
  BY <1>1, NextStepsAre
<1>5. \/ forms'.destination.type = "" /\ forms'.destination.cluster = ""
      \/ /\ ~TypesChanged(steps, steps')
         /\ forms'.destination.type = forms.destination.type
         /\ forms'.destination.cluster = forms.destination.cluster
  BY <1>1, EndsAre
<1>6. CASE a = "general"
  <2>1. /\ activeStepId' = "source" /\ policyRequestInProgress' = FALSE
        /\ Wizard!Source(steps') = Wizard!Source(steps)
        /\ isFormValid' = Wizard!Valid(forms', steps', "source")
    BY <1>1, <1>4, <1>6
  <2>2. steps'["source"].value = steps["source"].value
    BY <1>1, <1>6, StepIdsAre
  <2>3. \/ /\ Wizard!PolicyType(steps') = Wizard!PolicyType(steps)
           /\ forms'.source.type = forms.source.type /\ forms'.source.cluster = forms.source.cluster
        \/ /\ Wizard!PolicyType(steps') # Wizard!PolicyType(steps)
           /\ forms'.source.type = "" /\ forms'.source.cluster = ""
    <3>. DEFINE g == Wizard!Activated(forms.source, steps, steps')
    <3>1. /\ g \in Wizard!SourceValues
          /\ Wizard!PolicyType(steps) = Wizard!PolicyType(steps')
               => g.type = forms.source.type /\ g.cluster = forms.source.cluster
          /\ Wizard!PolicyType(steps) # Wizard!PolicyType(steps') => g = Wizard!InitialSource
      BY <1>2, ActivatedIs
    <3>. HIDE DEF g
    <3>2. forms'.source = g
      BY <1>1, <1>6, <3>1, PreselectedIs DEF g
    <3>3. g = Wizard!InitialSource => g.type = "" /\ g.cluster = ""
      BY InitialFormsAre, Zenon
    <3>. QED  BY <3>1, <3>2, <3>3
  <2>4. \/ /\ forms'.source.type = forms.source.type
           /\ forms'.source.cluster = forms.source.cluster
        \/ forms'.destination.type = ""
    <3>1. CASE steps["source"].value.saved
      BY <1>5, <2>2, <2>3, <3>1 DEF TypesChanged
    <3>2. CASE ~steps["source"].value.saved
      BY <1>5, <3>2 DEF WizardFits
    <3>. QED  BY <3>1, <3>2
  <2>5. forms'.source.type = "" => isFormValid' = FALSE
    BY <1>1, <2>1, UntypedInvalid
  <2>6. forms'.source.type = "" => forms'.destination.type = ""
    BY <1>2, <1>5, <2>4 DEF ForgoneClusters
  <2>7. forms'.source.cluster = "" /\ Wizard!Source(steps').type = "CLUSTER"
          => forms'.destination.type = "" \/ Wizard!Source(steps').cluster = ""
    BY <1>2, <1>5, <2>1, <2>4 DEF ForgoneClusters
  <2>8. Wizard!Source(steps').type = "CLUSTER" /\ Wizard!Source(steps').cluster = ""
          => forms'.destination.cluster = "" /\ forms'.destination.type # "S3"
    BY <1>2, <1>5, <2>1 DEF ForgoneClusters
  <2>9. steps'["source"].value.saved => Wizard!Source(steps').type # ""
    BY <1>2, <2>1, <2>2 DEF ForgoneClusters
  <2>10. ForgoneClusters'
    BY <2>5, <2>6, <2>7, <2>8, <2>9 DEF ForgoneClusters
  <2>11. ValidDestinations' /\ SavedClusters'
    BY <2>1 DEF ValidDestinations, SavedClusters
  <2>. QED  BY <2>1, <2>10, <2>11 DEF CredentialsFit
<1>7. CASE a = "source"
  <2>1. /\ activeStepId' = "destination" /\ policyRequestInProgress' = FALSE
        /\ forms'.source = forms.source
        /\ Wizard!PolicyType(steps') = Wizard!PolicyType(steps)
        /\ Wizard!Source(steps') = Wizard!SourceValue(forms.source, Wizard!PolicyType(steps))
        /\ isFormValid' = Wizard!Valid(forms', steps', "destination")
    BY <1>1, <1>4, <1>7
  <2>2. /\ Wizard!Source(steps').type = forms.source.type
        /\ Wizard!Source(steps').cluster = (IF forms.source.type = "S3" THEN ""
                                            ELSE forms.source.cluster)
    BY <1>2, <2>1, SourceValueIs
  <2>3. forms.source.type # ""
    BY <1>1, <1>2, <1>7 DEF ForgoneClusters
  <2>4. steps'["source"].value.saved = TRUE
    <3>1. \A x : Wizard!Saved(x).saved = TRUE
      BY DEF Wizard!Saved
    <3>. QED  BY <1>1, <1>7, <3>1, StepIdsAre
  <2>5. Wizard!Source(steps').type = "CLUSTER" /\ Wizard!Source(steps').cluster = ""
          => forms'.destination.cluster = "" /\ forms'.destination.type # "S3"
    <3>. SUFFICES ASSUME forms.source.type = "CLUSTER", forms.source.cluster = ""
                  PROVE  forms'.destination.cluster = "" /\ forms'.destination.type # "S3"
      BY <2>2
    <3>1. CASE forms'.destination.type = "" /\ forms'.destination.cluster = ""
      BY <3>1
    <3>2. CASE ~steps["source"].value.saved
      BY <1>5, <3>2 DEF WizardFits
    <3>3. CASE steps["source"].value.saved /\ ~TypesChanged(steps, steps')
      <4>1. Wizard!Source(steps).type = "CLUSTER"
        BY <2>2, <2>4, <3>3 DEF TypesChanged
      <4>. QED  BY <1>2, <1>5, <4>1 DEF ForgoneClusters, WizardFits
    <3>. QED  BY <1>5, <3>1, <3>2, <3>3
  <2>6. ForgoneClusters'
    BY <2>1, <2>2, <2>3, <2>5 DEF ForgoneClusters
  <2>7. isFormValid' = TRUE
          => Wizard!DestinationValid(forms'.destination, Wizard!PolicyType(steps'))
    <3>1. "destination" \in Wizard!StepIds
      BY StepIdsAre
    <3>. QED  BY <1>1, <2>1, <3>1, ValidIs
  <2>8. ValidDestinations' /\ SavedClusters'
    BY <2>1, <2>7 DEF ValidDestinations, SavedClusters
  <2>. QED  BY <2>1, <2>6, <2>8 DEF CredentialsFit
<1>8. a \notin {"general", "source"} => ForgoneClusters'
  <2>. SUFFICES ASSUME a \notin {"general", "source"}
                PROVE  ForgoneClusters'
    OBVIOUS
  <2>1. /\ forms'.source = forms.source /\ Wizard!Source(steps') = Wizard!Source(steps)
        /\ activeStepId' # "source"
    BY <1>1, <1>3, <1>4
  <2>2. steps'["source"].value = steps["source"].value
    BY <1>1, StepIdsAre
  <2>. QED  BY <1>2, <1>5, <2>1, <2>2 DEF ForgoneClusters
<1>9. CASE a = "destination"
  <2>1. /\ activeStepId' = "schedule" /\ policyRequestInProgress' = FALSE
        /\ Wizard!Source(steps') = Wizard!Source(steps)
        /\ D = Wizard!Saved(Wizard!Value("destination"))
    BY <1>1, <1>4, <1>9
  <2>2. SavedClusters'
    <3>. SUFFICES ASSUME Wizard!Source(steps).cluster = ""
                  PROVE  /\ Wizard!Source(steps).type = "S3"
                         /\ D.is.type = "CLUSTER" /\ D.is.cluster # ""
      BY <2>1 DEF SavedClusters
    <3>1. Wizard!DestinationValid(forms.destination, Wizard!PolicyType(steps))
      BY <1>1, <1>2, <1>9 DEF ValidDestinations
    <3>2. /\ forms.destination.type \in {"CLUSTER", "S3"}
          /\ forms.destination.type = "CLUSTER" => forms.destination.cluster # ""
      BY <1>2, <3>1, ValidHasCluster
    <3>3. Wizard!Source(steps).type # ""
      BY <1>2, <1>3, <1>9 DEF ForgoneClusters
    <3>4. Wizard!Source(steps).type # "CLUSTER"
      BY <1>2, <3>2 DEF ForgoneClusters
    <3>5. Wizard!Source(steps).type = "S3"
      BY <1>2, <3>3, <3>4 DEF SavedSources, Wizard!SOURCE_TYPES
    <3>6. forms.destination.type = "CLUSTER"
      BY <3>2, <3>4 DEF WizardFits
    <3>7. D.is = Wizard!Value("destination")
      <4>1. \A x : Wizard!Saved(x).is = x
        BY DEF Wizard!Saved
      <4>. QED  BY <2>1, <4>1
    <3>8. "cluster" \in Wizard!Enabled(forms.destination, Wizard!PolicyType(steps))
      BY <3>6 DEF Wizard!Enabled
    <3>9. D.is.type = forms.destination.type /\ D.is.cluster = forms.destination.cluster
      BY <3>7, <3>8 DEF Wizard!Value
    <3>. QED  BY <3>2, <3>5, <3>6, <3>9
  <2>3. ValidDestinations'
    BY <2>1 DEF ValidDestinations
  <2>. QED  BY <1>8, <1>9, <2>1, <2>2, <2>3 DEF CredentialsFit
<1>10. CASE a \in {"schedule", "advanced"}
  <2>1. /\ activeStepId' = "advanced" /\ Wizard!Source(steps') = Wizard!Source(steps)
        /\ D = steps["destination"].value
    BY <1>1, <1>4, <1>10
  <2>2. ValidDestinations' /\ SavedClusters'
    BY <1>2, <1>10, <2>1 DEF ValidDestinations, SavedClusters
  <2>3. policyRequestInProgress' = TRUE => Wizard!ForOneEnd(creating')
    <3>. SUFFICES ASSUME a = "advanced"
                  PROVE  Wizard!ForOneEnd(creating')
      BY <1>1
    <3>1. Wizard!ForOneEnd(Wizard!Policy)
      BY <1>2, PolicyForOneEnd
    <3>2. creating' = Wizard!Policy
      BY <1>1
    <3>. QED  BY <3>1, <3>2
  <2>. QED  BY <1>8, <1>10, <2>2, <2>3 DEF CredentialsFit
<1>. QED  BY <1>3, <1>6, <1>7, <1>9, <1>10

\* The credentials keep fitting.
LEMMA WizardKeepsCredentials ==
  ASSUME Wizard!WizardConstants, Ordered(steps, activeStepId), WizardTypes, WizardFits,
         CredentialsFit, Wizard!Next
  PROVE  CredentialsFit'
<1>1. CASE \/ (\E c \in Preselections : Wizard!Open(c)) \/ Wizard!Close \/ Wizard!Created
           \/ Elsewhere
  BY <1>1, OpenCredentials
<1>2. CASE \/ \E type \in Wizard!SOURCE_TYPES : Wizard!EditSourceType(type)
           \/ \E f \in Wizard!SourceValues : IsSourceEdit(f)
           \/ Wizard!SourceRechecked
  BY <1>2, SourceEditCredentials
<1>3. CASE \/ \E d \in Wizard!DestinationValues : IsDestinationEdit(d)
           \/ \E answer \in {"success", "failed"} : Wizard!Validated(answer)
  BY <1>3, DestinationEditCredentials
<1>4. ASSUME open, NEW id \in Wizard!StepIds, Wizard!Index(id) < Wizard!Index(activeStepId),
             Wizard!MoveTo(id)
      PROVE  CredentialsFit'
  BY <1>4, MoveCredentials
<1>5. CASE Wizard!NextButton
  BY <1>5, NextCredentials
<1>. QED  BY <1>1, <1>2, <1>3, <1>4, <1>5, WizardStepsAre

CredentialsInv == part = "wizard" => CredentialsFit

\* They fit from the start.
LEMMA CredentialsInvHolds == Spec => []CredentialsInv
<1>0. Wizard!WizardConstants
  BY PolicyPagesConstants
<1>1. Init => CredentialsInv
  <2>. SUFFICES ASSUME Wizard!Init
                PROVE  CredentialsFit
    BY DEF Init, CredentialsInv
  <2>1. /\ steps = Wizard!InitialSteps /\ forms = Wizard!InitialForms
        /\ activeStepId = "general" /\ policyRequestInProgress = FALSE
    BY DEF Wizard!Init
  <2>2. forms.destination.type = "" /\ forms.destination.cluster = ""
    BY <2>1, InitialFormsAre
  <2>3. steps["source"].value.saved = FALSE /\ Wizard!Source(steps).type = ""
    BY <2>1, InitialStepsAre, StepIdsAre
  <2>. QED
    BY <2>1, <2>2, <2>3
       DEF CredentialsFit, ForgoneClusters, ValidDestinations, SavedClusters
<1>2. WizardInv /\ CredentialsInv /\ [Next]_vars => CredentialsInv'
  <2>. SUFFICES ASSUME WizardInv, CredentialsInv, [Next]_vars, part' = "wizard"
                PROVE  CredentialsFit'
    BY DEF CredentialsInv
  <2>1. /\ Ordered(steps, activeStepId) /\ WizardTypes /\ WizardFits /\ CredentialsFit
        /\ [Wizard!Next]_wizardVars
    BY PartSteps DEF WizardInv, CredentialsInv
  <2>2. CASE Wizard!Next
    BY <1>0, <2>1, <2>2, WizardKeepsCredentials
  <2>3. CASE UNCHANGED wizardVars
    <3>1. /\ steps' = steps /\ activeStepId' = activeStepId /\ forms' = forms
          /\ preselected' = preselected /\ isFormValid' = isFormValid
          /\ policyRequestInProgress' = policyRequestInProgress /\ creating' = creating
      BY <2>3 DEF wizardVars
    <3>. QED
      BY <2>1, <3>1 DEF CredentialsFit, ForgoneClusters, ValidDestinations, SavedClusters
  <2>. QED  BY <2>1, <2>2, <2>3
<1>. QED  BY <1>1, <1>2, WizardInvHolds, PTL DEF Spec

-----------------------------------------------------------------------------
(* The cluster of the source. *)

\* The databases of the Hives.
LEMMA HivesAre ==
  ASSUME Source!SourceClusterConstants
  PROVE  /\ \A e \in HiveDatabases : e.of \in Sources /\ e.name \in Source!Names
         /\ Source!NoEntity \notin HiveDatabases
         /\ "" \notin Sources
  BY DEF HiveDatabases, Source!SourceClusterConstants, Source!Names, Source!NoEntity,
     Source!Entity, Source!None

\* Names of databases that are listed are names of databases.
LEMMA ListedNames ==
  ASSUME NEW dbs, dbs \subseteq HiveDatabases, NEW c
  PROVE  Source!NamesOf(dbs, c) \subseteq Source!Names
  BY DEF Source!NamesOf, Source!Names

\* Types, with the bound of the choices.
SourceTypes == Source!TypeOK /\ picks \in 0..MaxPicks

\* Of HIVE, the database is one of those that are listed, whichever cluster they are of:
\* a cluster that is offered is in a pairing, so that its databases replace the others
\* at once.
DatabaseOfListed(p, c, db, s, dbs) ==
  p = "HIVE" /\ c # Source!None
    => Source!NamesOf(dbs, s) = {} \/ db \in Source!NamesOf(dbs, s)

\* Calls about the super user that are made or will be.
Unanswered == submissions \cup userCalls

\* Of the cluster that is chosen a call is under way, or the last choice was answered; then
\* the form knows of its user, if no answer of an earlier choice came after.
UserKnown ==
  /\ setSnapshottable => isSuperUser /\ sourceCluster # Source!None
  /\ told <= newest /\ newest <= picks
  /\ \A call \in Unanswered :
       call.pick <= picks /\ (call.pick = picks /\ sourceCluster # Source!None => call.of = sourceCluster)
  /\ sourceCluster # Source!None =>
       \/ \E call \in Unanswered : call.pick = picks
       \/ newest = picks /\ (told = picks /\ isSuperUser => sourceCluster \in SuperUsers)

\* With all calls answered, and the last one that of the last choice, this is of the cluster
\* that is chosen.
LEMMA KnownUser ==
  ASSUME UserKnown
  PROVE  Source!SnapshotBySuperUser
<1>. SUFFICES ASSUME setSnapshottable, submissions = {}, userCalls = {}, told = newest
              PROVE  sourceCluster \in SuperUsers
  BY DEF Source!SnapshotBySuperUser
<1>1. Unanswered = {}
  BY DEF Unanswered
<1>. QED  BY <1>1 DEF UserKnown

\* Numbers of choices.
LEMMA ChoicesAre ==
  ASSUME SourceTypes, Source!SourceClusterConstants
  PROVE  /\ picks \in Nat /\ told \in Nat /\ newest \in Nat /\ MaxPicks \in Nat
         /\ \A call \in Unanswered : call.pick \in Nat
  BY DEF SourceTypes, Source!TypeOK, Source!SourceClusterConstants, Unanswered

\* A new choice, of which a call is under way.
LEMMA ChosenKnown ==
  ASSUME Source!SourceClusterConstants, SourceTypes, UserKnown, NEW c \in Sources,
         picks' = picks + 1, sourceCluster' = c,
         UNCHANGED <<isSuperUser, setSnapshottable, told, newest>>,
         Unanswered' = Unanswered \cup {[of |-> c, pick |-> picks']}
  PROVE  UserKnown'
<1>1. c # Source!None
  BY DEF Source!SourceClusterConstants
<1>2. picks \in Nat /\ told \in Nat /\ newest \in Nat /\ \A call \in Unanswered : call.pick \in Nat
  BY ChoicesAre
<1>0. PICK new : new = [of |-> c, pick |-> picks']
  OBVIOUS
<1>3. new = [of |-> c, pick |-> picks'] /\ new.of = c /\ new.pick = picks'
  BY <1>0
<1>4. ASSUME NEW call \in Unanswered'
      PROVE  call.pick <= picks' /\ (call.pick = picks' => call.of = c)
  <2>1. CASE call = new
    BY <1>2, <1>3, <2>1
  <2>2. CASE call \in Unanswered
    BY <1>2, <2>2 DEF UserKnown
  <2>. QED  BY <1>3, <1>4, <2>1, <2>2
<1>5. new \in Unanswered'
  BY <1>3
<1>6. told' <= newest' /\ newest' <= picks'
  BY <1>2 DEF UserKnown
<1>7. setSnapshottable' => isSuperUser' /\ sourceCluster' # Source!None
  BY <1>1 DEF UserKnown
<1>. QED  BY <1>3, <1>4, <1>5, <1>6, <1>7 DEF UserKnown

\* An answer, of the last choice or of an earlier one.
LEMMA AnswerKnown ==
  ASSUME Source!SourceClusterConstants, SourceTypes, UserKnown, NEW call \in Unanswered,
         Unanswered' = Unanswered \ {call} \/ Unanswered' = Unanswered,
         isSuperUser' => call.of \in SuperUsers,
         setSnapshottable' => setSnapshottable /\ isSuperUser',
         told' = call.pick, newest' = IF call.pick > newest THEN call.pick ELSE newest,
         UNCHANGED <<sourceCluster, picks>>
  PROVE  UserKnown'
<1>1. picks \in Nat /\ told \in Nat /\ newest \in Nat /\ \A d \in Unanswered : d.pick \in Nat
  BY ChoicesAre
<1>2. /\ call.pick \in Nat /\ call.pick <= picks
      /\ call.pick = picks /\ sourceCluster # Source!None => call.of = sourceCluster
      /\ newest <= picks
  BY <1>1 DEF UserKnown
<1>3. told' <= newest' /\ newest' <= picks'
  BY <1>1, <1>2
<1>4. \A d \in Unanswered' :
        d.pick <= picks' /\ (d.pick = picks' /\ sourceCluster' # Source!None => d.of = sourceCluster')
  BY DEF UserKnown
<1>5. setSnapshottable' => isSuperUser' /\ sourceCluster' # Source!None
  BY DEF UserKnown
<1>6. ASSUME sourceCluster # Source!None
      PROVE  \/ \E d \in Unanswered' : d.pick = picks
             \/ newest' = picks /\ (told' = picks /\ isSuperUser' => sourceCluster \in SuperUsers)
  <2>1. CASE call.pick = picks
    <3>1. call.of = sourceCluster /\ newest' = picks
      BY <1>1, <1>2, <1>6, <2>1
    <3>. QED  BY <3>1
  <2>2. CASE call.pick # picks
    <3>1. CASE \E d \in Unanswered : d.pick = picks
      BY <2>2, <3>1
    <3>2. CASE newest = picks
      BY <1>1, <1>2, <2>2, <3>2
    <3>. QED  BY <1>6, <3>1, <3>2 DEF UserKnown
  <2>. QED  BY <2>1, <2>2
<1>. QED  BY <1>3, <1>4, <1>5, <1>6 DEF UserKnown

SourceInv ==
  /\ SourceTypes
  /\ DatabaseOfListed(policyType, sourceCluster, database, selectedSource, databases)
  /\ UserKnown /\ Source!BrowsesDefined /\ Source!SpinsForSource

\* A database that is selected is one of those listed.
LEMMA SelectIs ==
  ASSUME database \in Source!Names \cup {Source!None},
         NEW s, NEW dbs, dbs \subseteq HiveDatabases, NEW c, Source!SelectDatabase(s, dbs, c)
  PROVE  /\ database' \in Source!Names \cup {Source!None}
         /\ DatabaseOfListed(policyType, c, database', s, dbs)
  BY ListedNames DEF Source!SelectDatabase, DatabaseOfListed

\* Choosing a cluster.
LEMMA ChooseKeeps ==
  ASSUME Source!SourceClusterConstants, SourceInv, NEW c \in Sources, Source!ChooseCluster(c)
  PROVE  SourceInv'
<1>. DEFINE call == [of |-> c, pick |-> picks']
            before == IF sourceCluster = Source!None THEN c ELSE sourceCluster
<1>1. /\ picks < MaxPicks /\ picks' = picks + 1
      /\ policyType = "HIVE" => c \in Paired
      /\ sourceCluster' = c
      /\ UNCHANGED <<policyType, isSuperUser, setSnapshottable, told, newest, defined,
                     tables, tablesLoading, tablesCall>>
      /\ databases' = databases
  BY DEF Source!ChooseCluster, Source!Proceed, Source!snapshotVars, Source!tableVars,
     Source!databaseVars
<1>2. picks' \in 0..MaxPicks /\ call \in [of : Sources, pick : 1..MaxPicks]
  <2>1. MaxPicks \in Nat /\ picks \in 0..MaxPicks
    BY DEF SourceInv, SourceTypes, Source!SourceClusterConstants
  <2>2. picks' \in 0..MaxPicks /\ picks' \in 1..MaxPicks
    BY <1>1, <2>1
  <2>. QED  BY <2>2
<1>3. /\ database \in Source!Names \cup {Source!None} /\ databases \subseteq HiveDatabases
      /\ "" \notin Sources /\ c # Source!None
  BY HivesAre DEF SourceInv, SourceTypes, Source!TypeOK, Source!None
<1>4. CASE c \in Paired \cup submittedClusters
  <2>1. /\ submittedClusters' = submittedClusters \cup {c} /\ submissions' = submissions
        /\ clusterSubmitted' = TRUE /\ selectedSource' = c /\ databasesCall' = c
        /\ userCalls' = userCalls \cup {call}
        /\ Source!SelectDatabase(c, databases, before)
    BY <1>4 DEF Source!ChooseCluster, Source!Proceed
  <2>2. /\ database' \in Source!Names \cup {Source!None}
        /\ DatabaseOfListed(policyType, before, database', c, databases)
    BY <1>3, <2>1, SelectIs
  <2>3. DatabaseOfListed(policyType, c, database', c, databases)
    BY <1>3, <2>2 DEF DatabaseOfListed
  <2>4. SourceTypes'
    BY <1>1, <1>2, <1>3, <2>1, <2>2 DEF SourceInv, SourceTypes, Source!TypeOK
  <2>5. Source!BrowsesDefined'
    BY <1>1, <1>4, <2>1 DEF SourceInv, Source!BrowsesDefined
  <2>6. UserKnown'
    <3>1. Unanswered' = Unanswered \cup {call}
      BY <2>1 DEF Unanswered
    <3>. QED  BY <1>1, <3>1, ChosenKnown DEF SourceInv
  <2>. QED
    BY <1>1, <2>1, <2>3, <2>4, <2>5, <2>6 DEF SourceInv, Source!SpinsForSource
<1>5. CASE c \notin Paired \cup submittedClusters
  <2>1. /\ submittedClusters' = submittedClusters /\ submissions' = submissions \cup {call}
        /\ clusterSubmitted' = FALSE
        /\ UNCHANGED <<database, selectedSource, databasesCall, userCalls>>
    BY <1>5 DEF Source!ChooseCluster, Source!databaseVars
  <2>2. policyType # "HIVE"
    BY <1>1, <1>5
  <2>3. SourceTypes'
    BY <1>1, <1>2, <2>1 DEF SourceInv, SourceTypes, Source!TypeOK
  <2>4. Source!SpinsForSource'
    <3>1. call \in submissions' /\ call.of = sourceCluster'
      BY <1>1, <2>1
    <3>. QED  BY <1>1, <3>1 DEF SourceInv, Source!SpinsForSource
  <2>5. UserKnown'
    <3>1. Unanswered' = Unanswered \cup {call}
      BY <2>1 DEF Unanswered
    <3>. QED  BY <1>1, <3>1, ChosenKnown DEF SourceInv
  <2>. QED
    BY <1>1, <2>1, <2>2, <2>3, <2>4, <2>5
       DEF SourceInv, DatabaseOfListed, Source!BrowsesDefined
<1>. QED  BY <1>4, <1>5

\* The answer to a submission.
LEMMA SubmitKeeps ==
  ASSUME Source!SourceClusterConstants, SourceInv,
         NEW call \in submissions, NEW ok \in BOOLEAN, Source!SubmitDone(call, ok)
  PROVE  SourceInv'
<1>1. /\ submissions' = submissions \ {call}
      /\ defined' = IF ok THEN defined \cup {call.of} ELSE defined
      /\ submittedClusters' = IF ok THEN submittedClusters \cup {call.of}
                              ELSE submittedClusters \ {call.of}
      /\ clusterSubmitted' = TRUE /\ selectedSource' = call.of /\ databasesCall' = call.of
      /\ userCalls' = userCalls \cup {call}
      /\ Source!SelectDatabase(call.of, databases, sourceCluster)
      /\ UNCHANGED <<policyType, sourceCluster, isSuperUser, setSnapshottable, told, newest, databases,
                     tables, tablesLoading, tablesCall, picks>>
  BY DEF Source!SubmitDone, Source!Marked, Source!Proceed, Source!formVars, Source!snapshotVars,
     Source!tableVars
<1>2. /\ database \in Source!Names \cup {Source!None} /\ databases \subseteq HiveDatabases
      /\ call \in [of : Sources, pick : 1..MaxPicks] /\ call.of \in Sources
  BY DEF SourceInv, SourceTypes, Source!TypeOK
<1>3. /\ database' \in Source!Names \cup {Source!None}
      /\ DatabaseOfListed(policyType, sourceCluster, database', call.of, databases)
  BY <1>1, <1>2, SelectIs
<1>4. SourceTypes'
  BY <1>1, <1>2, <1>3 DEF SourceInv, SourceTypes, Source!TypeOK
<1>5. Source!BrowsesDefined'
  BY <1>1 DEF SourceInv, Source!BrowsesDefined
<1>6. UserKnown'
  <2>1. Unanswered' = Unanswered
    BY <1>1 DEF Unanswered
  <2>. QED  BY <1>1, <2>1 DEF SourceInv, UserKnown
<1>. QED
  BY <1>1, <1>3, <1>4, <1>5, <1>6 DEF SourceInv, Source!SpinsForSource

\* The databases and the tables.
LEMMA DatabasesKeep ==
  ASSUME Source!SourceClusterConstants, SourceInv,
         \/ Source!LoadDatabasesSuccess \/ Source!LoadDatabasesFail
         \/ \E name \in Source!Names : Source!HandleSelectDatabase(name)
         \/ \E d \in databases : Source!OnDatabaseTablesCollapsed(d)
         \/ \E ok \in BOOLEAN : Source!LoadTablesDone(ok)
  PROVE  SourceInv'
<1>1. CASE Source!LoadDatabasesSuccess
  <2>1. /\ databasesCall' = Source!None
        /\ databases' = databases \cup {d \in HiveDatabases : d.of = databasesCall}
        /\ Source!SelectDatabase(selectedSource, databases', sourceCluster)
        /\ UNCHANGED <<policyType, sourceCluster, isSuperUser, setSnapshottable, told, newest, defined,
                       submittedClusters, clusterSubmitted, submissions, userCalls,
                       selectedSource, tables, tablesLoading, tablesCall, picks>>
    BY <1>1 DEF Source!LoadDatabasesSuccess, Source!formVars, Source!snapshotVars,
       Source!submitVars, Source!tableVars
  <2>2. database \in Source!Names \cup {Source!None} /\ databases' \subseteq HiveDatabases
    BY <2>1 DEF SourceInv, SourceTypes, Source!TypeOK
  <2>3. /\ database' \in Source!Names \cup {Source!None}
        /\ DatabaseOfListed(policyType, sourceCluster, database', selectedSource, databases')
    BY <2>1, <2>2, SelectIs
  <2>4. SourceTypes'
    BY <2>1, <2>2, <2>3 DEF SourceInv, SourceTypes, Source!TypeOK
  <2>. QED
    BY <2>1, <2>3, <2>4 DEF SourceInv, UserKnown, Unanswered, Source!BrowsesDefined,
       Source!SpinsForSource
<1>2. CASE Source!LoadDatabasesFail
  BY <1>2 DEF Source!LoadDatabasesFail, SourceInv, SourceTypes, Source!TypeOK, DatabaseOfListed,
     UserKnown, Unanswered, Source!BrowsesDefined, Source!SpinsForSource, Source!formVars,
     Source!snapshotVars, Source!submitVars, Source!tableVars
<1>3. ASSUME NEW name \in Source!Names, Source!HandleSelectDatabase(name)
      PROVE  SourceInv'
  <2>1. /\ name \in Source!NamesOf(databases, selectedSource) /\ database' = name
        /\ UNCHANGED <<policyType, sourceCluster, isSuperUser, setSnapshottable, told, newest, defined,
                       submittedClusters, clusterSubmitted, submissions, userCalls,
                       selectedSource, databases, databasesCall, tables, tablesLoading,
                       tablesCall, picks>>
    BY <1>3 DEF Source!HandleSelectDatabase, Source!formVars, Source!snapshotVars,
       Source!submitVars, Source!tableVars
  <2>2. SourceTypes'
    BY <2>1 DEF SourceInv, SourceTypes, Source!TypeOK
  <2>. QED
    BY <2>1, <2>2 DEF SourceInv, DatabaseOfListed, UserKnown, Unanswered,
       Source!BrowsesDefined, Source!SpinsForSource
<1>4. ASSUME NEW d \in databases, Source!OnDatabaseTablesCollapsed(d)
      PROVE  SourceInv'
  <2>1. /\ tablesLoading' = [e \in DOMAIN tablesLoading \cup {d} |->
                               IF e = d THEN TRUE ELSE tablesLoading[e]]
        /\ tablesCall' = d
        /\ UNCHANGED <<policyType, sourceCluster, database, isSuperUser, setSnapshottable, told, newest,
                       defined, submittedClusters, clusterSubmitted, submissions, userCalls,
                       selectedSource, databases, databasesCall, tables, picks>>
    BY <1>4 DEF Source!OnDatabaseTablesCollapsed, Source!formVars, Source!snapshotVars,
       Source!submitVars, Source!databaseVars
  <2>2. d \in HiveDatabases /\ d # Source!NoEntity
    BY <1>4, HivesAre DEF SourceInv, SourceTypes, Source!TypeOK
  <2>3. SourceTypes'
    BY <2>1, <2>2 DEF SourceInv, SourceTypes, Source!TypeOK
  <2>. QED
    BY <2>1, <2>2, <2>3 DEF SourceInv, DatabaseOfListed, UserKnown, Unanswered,
       Source!BrowsesDefined, Source!SpinsForSource
<1>5. ASSUME NEW ok \in BOOLEAN, Source!LoadTablesDone(ok)
      PROVE  SourceInv'
  <2>1. /\ tablesCall # Source!NoEntity /\ tablesCall' = Source!NoEntity
        /\ tablesLoading' = [d \in DOMAIN tablesLoading |-> FALSE]
        /\ tables' = IF ok THEN tables \cup {tablesCall} ELSE tables
        /\ \/ Source!SelectDatabase(selectedSource, databases, sourceCluster)
           \/ database' = database
        /\ UNCHANGED <<policyType, sourceCluster, isSuperUser, setSnapshottable, told, newest, defined,
                       submittedClusters, clusterSubmitted, submissions, userCalls,
                       selectedSource, databases, databasesCall, picks>>
    BY <1>5 DEF Source!LoadTablesDone, Source!AllLoaded, Source!formVars, Source!snapshotVars,
       Source!submitVars
  <2>2. database \in Source!Names \cup {Source!None} /\ databases \subseteq HiveDatabases
    BY DEF SourceInv, SourceTypes, Source!TypeOK
  <2>3. /\ database' \in Source!Names \cup {Source!None}
        /\ DatabaseOfListed(policyType, sourceCluster, database', selectedSource, databases)
    BY <2>1, <2>2, SelectIs DEF SourceInv
  <2>4. SourceTypes'
    BY <2>1, <2>3 DEF SourceInv, SourceTypes, Source!TypeOK
  <2>. QED
    BY <2>1, <2>3, <2>4 DEF SourceInv, UserKnown, Unanswered, Source!BrowsesDefined,
       Source!SpinsForSource
<1>. QED  BY <1>1, <1>2, <1>3, <1>4, <1>5

\* The super user, and the type of policies.
LEMMA UserKeeps ==
  ASSUME Source!SourceClusterConstants, SourceInv,
         \/ \E call \in userCalls, known \in BOOLEAN : Source!UserDone(call, known)
         \/ Source!HandleSnapshotable
         \/ \E type \in {"HDFS", "HIVE"} : Source!UpdateOnActivation(type)
  PROVE  SourceInv'
<1>1. ASSUME NEW call \in userCalls, NEW known \in BOOLEAN, Source!UserDone(call, known)
      PROVE  SourceInv'
  <2>1. /\ userCalls' = userCalls \ {call}
        /\ isSuperUser' = (known /\ call.of \in SuperUsers)
        /\ setSnapshottable' = (setSnapshottable /\ known /\ call.of \in SuperUsers)
        /\ told' = call.pick /\ newest' = IF call.pick > newest THEN call.pick ELSE newest
        /\ UNCHANGED <<policyType, sourceCluster, database, defined, submittedClusters,
                       clusterSubmitted, submissions, selectedSource, databases, databasesCall,
                       tables, tablesLoading, tablesCall, picks>>
    BY <1>1 DEF Source!UserDone, Source!UserStatus, Source!formVars, Source!submitVars,
       Source!databaseVars, Source!tableVars
  <2>2. isSuperUser' \in BOOLEAN /\ setSnapshottable' \in BOOLEAN
    BY <2>1
  <2>5. call.pick \in 0..MaxPicks /\ newest \in 0..MaxPicks
    BY DEF SourceInv, SourceTypes, Source!TypeOK, Source!SourceClusterConstants
  <2>3. SourceTypes'
    BY <2>1, <2>2, <2>5 DEF SourceInv, SourceTypes, Source!TypeOK
  <2>4. UserKnown'
    <3>1. call \in Unanswered /\ (Unanswered' = Unanswered \ {call} \/ Unanswered' = Unanswered)
      BY <2>1 DEF Unanswered
    <3>. QED  BY <2>1, <3>1, AnswerKnown DEF SourceInv
  <2>. QED
    BY <2>1, <2>3, <2>4 DEF SourceInv, DatabaseOfListed, Source!BrowsesDefined,
       Source!SpinsForSource
<1>2. CASE Source!HandleSnapshotable
  <2>1. /\ isSuperUser /\ setSnapshottable' = ~setSnapshottable /\ sourceCluster # Source!None
        /\ UNCHANGED <<policyType, sourceCluster, isSuperUser, told, newest, database, defined,
                       submittedClusters, clusterSubmitted, submissions, userCalls,
                       selectedSource, databases, databasesCall, tables, tablesLoading,
                       tablesCall, picks>>
    BY <1>2 DEF Source!HandleSnapshotable, Source!formVars, Source!submitVars,
       Source!databaseVars, Source!tableVars
  <2>2. SourceTypes'
    BY <2>1 DEF SourceInv, SourceTypes, Source!TypeOK
  <2>3. UserKnown'
    <3>1. Unanswered' = Unanswered
      BY <2>1 DEF Unanswered
    <3>. QED  BY <2>1, <3>1 DEF SourceInv, UserKnown
  <2>. QED
    BY <2>1, <2>2, <2>3 DEF SourceInv, DatabaseOfListed, Source!BrowsesDefined,
       Source!SpinsForSource
<1>3. ASSUME NEW type \in {"HDFS", "HIVE"}, Source!UpdateOnActivation(type)
      PROVE  SourceInv'
  <2>1. /\ picks < MaxPicks /\ picks' = picks + 1 /\ policyType' = type
        /\ sourceCluster' = Source!None /\ database' = Source!None
        /\ isSuperUser' = FALSE /\ setSnapshottable' = FALSE
        /\ UNCHANGED <<told, newest, defined, submittedClusters, clusterSubmitted, submissions, userCalls,
                       selectedSource, databases, databasesCall, tables, tablesLoading,
                       tablesCall>>
    BY <1>3 DEF Source!UpdateOnActivation, Source!submitVars, Source!tableVars
  <2>2. picks' \in 0..MaxPicks
    BY <2>1 DEF SourceInv, SourceTypes, Source!SourceClusterConstants
  <2>3. SourceTypes'
    BY <2>1, <2>2 DEF SourceInv, SourceTypes, Source!TypeOK
  <2>4. UserKnown'
    <3>1. Unanswered' = Unanswered
      BY <2>1 DEF Unanswered
    <3>2. picks \in Nat /\ told \in Nat /\ newest \in Nat /\ \A d \in Unanswered : d.pick \in Nat
      BY ChoicesAre DEF SourceInv
    <3>. QED  BY <2>1, <3>1, <3>2 DEF SourceInv, UserKnown
  <2>. QED
    BY <2>1, <2>3, <2>4 DEF SourceInv, DatabaseOfListed, Source!BrowsesDefined,
       Source!SpinsForSource
<1>. QED  BY <1>1, <1>2, <1>3

\* The invariant of the source.
LEMMA SourceInvHolds == Spec => [](part = "source" => SourceInv)
<1>0. Source!SourceClusterConstants
  BY PolicyPagesConstants
<1>1. Init => (part = "source" => SourceInv)
  <2>. SUFFICES ASSUME Source!Init
                PROVE  SourceInv
    BY DEF Init
  <2>1. picks \in 0..MaxPicks
    <3>1. MaxPicks \in Nat /\ picks = 0
      BY <1>0 DEF Source!SourceClusterConstants, Source!Init
    <3>. QED  BY <3>1
  <2>2. SourceTypes
    BY <1>0, <2>1 DEF Source!Init, SourceTypes, Source!TypeOK, Source!SourceClusterConstants
  <2>. QED
    BY <2>2 DEF Source!Init, SourceInv, DatabaseOfListed, UserKnown, Unanswered,
       Source!BrowsesDefined, Source!SpinsForSource
<1>2. (part = "source" => SourceInv) /\ [Next]_vars => (part = "source" => SourceInv)'
  <2>. SUFFICES ASSUME part = "source" => SourceInv, [Next]_vars, part' = "source"
                PROVE  SourceInv'
    OBVIOUS
  <2>1. SourceInv /\ [Source!Next]_sourceVars
    BY PartSteps
  <2>2. CASE Source!Next
    BY <1>0, <2>1, <2>2, ChooseKeeps, SubmitKeeps, DatabasesKeep, UserKeeps DEF Source!Next
  <2>3. CASE UNCHANGED sourceVars
    BY <2>1, <2>3 DEF sourceVars, SourceInv, SourceTypes, Source!TypeOK, DatabaseOfListed,
       UserKnown, Unanswered, Source!BrowsesDefined, Source!SpinsForSource
  <2>. QED  BY <2>1, <2>2, <2>3
<1>. QED  BY <1>1, <1>2, PTL DEF Spec

-----------------------------------------------------------------------------
(* The queue of a policy. *)

\* The queues of a cluster: a list with a first one.
LEMMA QueuesAre ==
  ASSUME NEW c \in QueueClusters
  PROVE  /\ QueuesOf[c] # <<>> /\ 1 \in DOMAIN QueuesOf[c]
  BY DEF QueuesOf

\* Types, with the domain of the queues.
QueueTypes ==
  /\ Queue!TypeOK
  /\ queues = [c \in QueueClusters |-> queues[c]]

QueueInv == QueueTypes /\ Queue!QueueOfCluster

\* Where the jobs run is one of the ends, with its cluster or none.
LEMMA RunsAtIs ==
  ASSUME NEW type, NEW s \in Queue!Ends, NEW d \in Queue!Ends
  PROVE  Queue!RunsAt(type, s, d).cluster \in QueueClusters \cup {Queue!None}
<1>1. Queue!RunsAt(type, s, d) \in {s, d, Queue!Unsaved}
  BY DEF Queue!RunsAt
<1>2. \A e \in Queue!Ends : e.cluster \in QueueClusters \cup {Queue!None}
  BY DEF Queue!Ends, Queue!Unsaved
<1>. QED  BY <1>1, <1>2 DEF Queue!Ends

\* The queues of a cluster, or none of them.
LEMMA ListedIs ==
  ASSUME QueueTypes, NEW c \in QueueClusters \cup {Queue!None}
  PROVE  /\ c # Queue!None => Queue!Listed(c) = queues[c]
         /\ c = Queue!None => Queue!Listed(c) = <<>>
         /\ Queue!Listed(c) # <<>> => Queue!Listed(c) = QueuesOf[c] /\ 1 \in DOMAIN Queue!Listed(c)
  BY QueuesAre DEF Queue!Listed, QueueTypes, Queue!TypeOK

Chosen(list, of, name) == list = of /\ \E i \in DOMAIN list : name = list[i]

\* The list of the form follows the queues it is told of.
LEMMA UpdateIs ==
  ASSUME NEW before, NEW after, Queue!UpdateQueueList(before, after),
         after # <<>>, 1 \in DOMAIN after,
         before = after => Chosen(yarnQueueList, after, queueName)
  PROVE  Chosen(yarnQueueList', after, queueName')
<1>1. CASE after = before
  BY <1>1 DEF Queue!UpdateQueueList, Chosen
<1>2. CASE after # before
  BY <1>2 DEF Queue!UpdateQueueList, Chosen
<1>. QED  BY <1>1, <1>2

\* Steps of the queue.
LEMMA QueueKeeps ==
  ASSUME QueueInv, Queue!Next
  PROVE  QueueInv'
<1>. DEFINE r == Queue!RunsOn
<1>0. /\ QueueTypes /\ general \in {"HDFS", "HIVE", Queue!None}
      /\ source \in Queue!Ends /\ destination \in Queue!Ends
      /\ queueCall \in QueueClusters \cup {Queue!None} /\ refused \subseteq QueueClusters
      /\ Queue!Unsaved \in Queue!Ends
  BY DEF QueueInv, QueueTypes, Queue!TypeOK, Queue!Ends
<1>1. r \in QueueClusters \cup {Queue!None}
  BY <1>0, RunsAtIs DEF Queue!RunsOn
<1>2. /\ r # Queue!None /\ queues[r] = <<>> => queueCall = r \/ r \in refused
      /\ r # Queue!None /\ queues[r] # <<>> => Chosen(yarnQueueList, queues[r], queueName)
  BY DEF QueueInv, Queue!QueueOfCluster, Chosen
<1>3. ASSUME NEW type \in {"HDFS", "HIVE", Queue!None}, NEW s \in Queue!Ends,
             NEW d \in Queue!Ends, Queue!Saved(type, s, d)
      PROVE  QueueInv'
  <2>. DEFINE c == Queue!RunsAt(type, s, d).cluster
  <2>1. /\ general' = type /\ source' = s /\ destination' = d /\ queues' = queues
        /\ Queue!RunsOn' = c
        /\ Queue!Ask(c) /\ Queue!UpdateQueueList(Queue!Listed(r), Queue!Listed(c))
    BY <1>3 DEF Queue!Saved, Queue!RunsOn
  <2>2. c \in QueueClusters \cup {Queue!None}
    BY RunsAtIs
  <2>. HIDE DEF c, r
  <2>3. QueueTypes'
    BY <1>0, <2>1, <2>2 DEF QueueTypes, Queue!TypeOK, Queue!Ask
  <2>4. CASE c # Queue!None /\ queues[c] # <<>>
    <3>1. Queue!Listed(c) = queues[c] /\ 1 \in DOMAIN queues[c]
      BY <1>0, <2>2, <2>4, ListedIs
    <3>2. Queue!Listed(r) = queues[c] => Chosen(yarnQueueList, queues[c], queueName)
      BY <1>0, <1>1, <1>2, <2>4, ListedIs
    <3>3. Chosen(yarnQueueList', queues[c], queueName')
      BY <2>1, <2>4, <3>1, <3>2, UpdateIs
    <3>. QED  BY <2>1, <2>3, <2>4, <3>3 DEF QueueInv, Queue!QueueOfCluster, Chosen
  <2>5. CASE c # Queue!None /\ queues[c] = <<>>
    <3>1. queueCall' = c
      BY <2>1, <2>5 DEF Queue!Ask
    <3>. QED  BY <2>1, <2>3, <2>5, <3>1 DEF QueueInv, Queue!QueueOfCluster
  <2>6. CASE c = Queue!None
    BY <2>1, <2>3, <2>6 DEF QueueInv, Queue!QueueOfCluster
  <2>. QED  BY <2>4, <2>5, <2>6
<1>4. CASE Queue!LoadYarnQueuesSuccess
  <2>. DEFINE q == queueCall
              after == IF r = q THEN QueuesOf[q] ELSE Queue!Listed(r)
  <2>1. /\ q # Queue!None /\ queueCall' = Queue!None
        /\ queues' = [queues EXCEPT ![q] = QueuesOf[q]]
        /\ Queue!UpdateQueueList(Queue!Listed(r), after)
        /\ UNCHANGED <<general, source, destination, refused>> /\ Queue!RunsOn' = r
    BY <1>4 DEF Queue!LoadYarnQueuesSuccess, Queue!RunsOn
  <2>. HIDE DEF r
  <2>2. QueueTypes'
    BY <1>0, <2>1 DEF QueueTypes, Queue!TypeOK
  <2>3. /\ q \in QueueClusters /\ queues'[q] = QueuesOf[q]
        /\ \A c \in QueueClusters : c # q => queues'[c] = queues[c]
    BY <1>0, <2>1 DEF QueueTypes
  <2>4. CASE r # Queue!None /\ queues'[r] # <<>>
    <3>1. after = queues'[r] /\ 1 \in DOMAIN after
      BY <1>0, <1>1, <2>3, <2>4, QueuesAre, ListedIs
    <3>2. Queue!Listed(r) = after => Chosen(yarnQueueList, after, queueName)
      <4>1. Queue!Listed(r) = queues[r]
        BY <1>0, <1>1, <2>4, ListedIs
      <4>. HIDE DEF after
      <4>. QED  BY <1>2, <2>4, <3>1, <4>1
    <3>. HIDE DEF after
    <3>3. Chosen(yarnQueueList', after, queueName')
      BY <2>1, <2>4, <3>1, <3>2, UpdateIs
    <3>. QED  BY <2>1, <2>2, <2>4, <3>1, <3>3 DEF QueueInv, Queue!QueueOfCluster, Chosen
  <2>5. CASE r # Queue!None /\ queues'[r] = <<>>
    <3>1. r # q
      BY <2>3, <2>5, QueuesAre
    <3>2. r \in refused'
      BY <1>1, <1>2, <2>1, <2>3, <2>5, <3>1
    <3>. QED  BY <2>1, <2>2, <2>5, <3>2 DEF QueueInv, Queue!QueueOfCluster
  <2>6. CASE r = Queue!None
    BY <2>1, <2>2, <2>6 DEF QueueInv, Queue!QueueOfCluster
  <2>. QED  BY <2>4, <2>5, <2>6
<1>5. CASE Queue!LoadYarnQueuesFailure
  <2>1. /\ queueCall # Queue!None /\ queueCall' = Queue!None
        /\ refused' = refused \cup {queueCall} /\ Queue!RunsOn' = r
        /\ UNCHANGED <<general, source, destination, queues, yarnQueueList, queueName>>
    BY <1>5 DEF Queue!LoadYarnQueuesFailure, Queue!RunsOn
  <2>2. QueueTypes'
    BY <1>0, <2>1 DEF QueueTypes, Queue!TypeOK
  <2>. HIDE DEF r
  <2>. QED  BY <1>2, <2>1, <2>2 DEF QueueInv, Queue!QueueOfCluster, Chosen
<1>6. ASSUME NEW i \in DOMAIN yarnQueueList, Queue!ChooseQueue(yarnQueueList[i])
      PROVE  QueueInv'
  <2>1. /\ queueName' = yarnQueueList[i] /\ Queue!RunsOn' = r
        /\ UNCHANGED <<general, source, destination, queues, queueCall, refused, yarnQueueList>>
    BY <1>6 DEF Queue!ChooseQueue, Queue!RunsOn
  <2>2. QueueTypes'
    BY <1>0, <2>1 DEF QueueTypes, Queue!TypeOK
  <2>. HIDE DEF r
  <2>. QED  BY <1>2, <2>1, <2>2 DEF QueueInv, Queue!QueueOfCluster, Chosen
<1>. HIDE DEF r
<1>. QED  BY <1>0, <1>3, <1>4, <1>5, <1>6 DEF Queue!Next

\* The invariant of the queue.
LEMMA QueueInvHolds == Spec => [](part = "queue" => QueueInv)
<1>1. Init => (part = "queue" => QueueInv)
  <2>. SUFFICES ASSUME Queue!Init
                PROVE  QueueInv
    BY DEF Init
  <2>1. QueueTypes
    BY DEF Queue!Init, QueueTypes, Queue!TypeOK, Queue!Ends
  <2>2. Queue!RunsOn = Queue!None
    BY DEF Queue!Init, Queue!RunsOn, Queue!RunsAt, Queue!Unsaved
  <2>. QED  BY <2>1, <2>2 DEF QueueInv, Queue!QueueOfCluster
<1>2. (part = "queue" => QueueInv) /\ [Next]_vars => (part = "queue" => QueueInv)'
  <2>. SUFFICES ASSUME part = "queue" => QueueInv, [Next]_vars, part' = "queue"
                PROVE  QueueInv'
    OBVIOUS
  <2>1. QueueInv /\ [Queue!Next]_queueVars
    BY PartSteps
  <2>2. CASE Queue!Next
    BY <2>1, <2>2, QueueKeeps
  <2>3. CASE UNCHANGED queueVars
    BY <2>1, <2>3 DEF queueVars, QueueInv, QueueTypes, Queue!TypeOK, Queue!QueueOfCluster,
       Queue!RunsOn
  <2>. QED  BY <2>1, <2>2, <2>3
<1>. QED  BY <1>1, <1>2, PTL DEF Spec

\* What is chosen for a policy fits, whatever was changed in between and whichever
\* answers came late: a policy has one end in the cloud at most, and credentials for one
\* end unless a cluster was preselected; the database is one of the cluster chosen; once
\* all calls are answered, snapshots are asked for by a super user of that cluster, unless
\* the last answer was an earlier choice's; and the queue is one of the cluster the jobs
\* run on, if its queues were not refused.
THEOREM ChoicesFit == Spec => []EndsFit
<1>1. WizardInv /\ CredentialsInv
        => (part = "wizard" => Wizard!NoCloudToCloud /\ Wizard!CredentialsForCloud)
  BY DEF WizardInv, WizardFits, CredentialsInv, CredentialsFit, Wizard!NoCloudToCloud,
     Wizard!CredentialsForCloud
<1>2. (part = "source" => SourceInv)
        => (part = "source" => Source!DatabaseListed /\ Source!SnapshotBySuperUser)
  BY KnownUser DEF SourceInv, DatabaseOfListed, Source!DatabaseListed
<1>3. (part = "queue" => QueueInv) => (part = "queue" => Queue!QueueOfCluster)
  BY DEF QueueInv
<1>. QED
  BY <1>1, <1>2, <1>3, WizardInvHolds, CredentialsInvHolds, SourceInvHolds, QueueInvHolds,
     PTL DEF EndsFit

-----------------------------------------------------------------------------
(* The days of a weekly policy. *)

\* Days of the week repeat.
LEMMA WeekDays ==
  ASSUME NEW n \in Int
  PROVE  /\ Schedule!WeekDay(n) \in 0..6 /\ Schedule!WeekDay(n + 7) = Schedule!WeekDay(n)
         /\ \A d \in 0..6 : /\ Schedule!WeekDay(n - Schedule!WeekDay(n) + d) = d
                            /\ Schedule!WeekDay(n - Schedule!WeekDay(n) + (d - 7)) = d
<1>1. n % 7 \in 0..6
  OBVIOUS
<1>2. (n + 7) % 7 = n % 7
  OBVIOUS
<1>3. ASSUME NEW d \in 0..6
      PROVE  (n - (n % 7) + d) % 7 = d /\ (n - (n % 7) + (d - 7)) % 7 = d
  <2>1. (n - (n % 7) + d) % 7 = d
    OBVIOUS
  <2>2. (n - (n % 7) + d - 7) % 7 = d
    OBVIOUS
  <2>3. n - (n % 7) + d - 7 = n - (n % 7) + (d - 7)
    BY <1>1
  <2>. QED  BY <2>1, <2>2, <2>3
<1>. QED  BY <1>1, <1>2, <1>3 DEF Schedule!WeekDay

\* The first day is that day of the week, within the seven days from the date on.
LEMMA FirstDayIs ==
  ASSUME NEW n \in Int, NEW d \in 0..6
  PROVE  LET first == Schedule!FirstDay(n, d)
         IN first \in Int /\ Schedule!WeekDay(first) = d /\ n <= first /\ first < n + 7
<1>. DEFINE w == Schedule!WeekDay(n)
<1>1. w \in 0..6 /\ Schedule!WeekDay(n + 7) = w
  BY WeekDays
<1>2. /\ Schedule!WeekDay(n - w + d) = d /\ Schedule!WeekDay(n - w + (d - 7)) = d
      /\ Schedule!WeekDay(n + 7 - w + d) = d /\ Schedule!WeekDay(n + 7 - w + (d - 7)) = d
  <2>1. n + 7 \in Int
    OBVIOUS
  <2>. QED  BY <1>1, <2>1, WeekDays
<1>. HIDE DEF w
<1>3. Schedule!IsoWeekDay(n) = IF w = 0 THEN 7 ELSE w
  BY DEF Schedule!IsoWeekDay, w
<1>4. /\ Schedule!SetIsoWeekDay(n, d) = n - w + (IF w # 0 THEN d ELSE d - 7)
      /\ Schedule!SetIsoWeekDay(n + 7, d) = n + 7 - w + (IF w # 0 THEN d ELSE d - 7)
  BY <1>1 DEF Schedule!SetIsoWeekDay, w
<1>5. Schedule!FirstDay(n, d) = IF Schedule!IsoWeekDay(n) <= d THEN Schedule!SetIsoWeekDay(n, d)
                                ELSE Schedule!SetIsoWeekDay(n + 7, d)
  BY DEF Schedule!FirstDay
<1>6. CASE w = 0
  <2>1. Schedule!FirstDay(n, d) = n + 7 - w + (d - 7)
    BY <1>3, <1>4, <1>5, <1>6
  <2>. QED  BY <1>2, <1>6, <2>1
<1>7. CASE w # 0 /\ w <= d
  <2>1. Schedule!FirstDay(n, d) = n - w + d
    BY <1>3, <1>4, <1>5, <1>7
  <2>. QED  BY <1>1, <1>2, <1>7, <2>1
<1>8. CASE w # 0 /\ d < w
  <2>1. Schedule!FirstDay(n, d) = n + 7 - w + d
    BY <1>1, <1>3, <1>4, <1>5, <1>8
  <2>. QED  BY <1>1, <1>2, <1>8, <2>1
<1>. QED  BY <1>1, <1>6, <1>7, <1>8

\* The values of the controls, and the date that is saved: never before the one shown.
ScheduleInv ==
  /\ job \in [start : Schedule!POLICY_START, frequency : Nat, day : 0..6,
              unit : Schedule!POLICY_TIME_UNITS, startDate : Int, endDate : Int, late : BOOLEAN]
  /\ startTime \in Int
  /\ startTime >= 0 => startTime >= job.startDate
  /\ Schedule!ChosenDay

\* An update of the group of the start takes the date that is shown.
LEMMA UpdateStartIs ==
  ASSUME ScheduleInv, NEW j, NEW req, NEW E, Schedule!UpdateStart(j, req, E),
         j \in [start : Schedule!POLICY_START, frequency : Nat, day : 0..6,
                unit : Schedule!POLICY_TIME_UNITS, startDate : Int, endDate : Int, late : BOOLEAN]
  PROVE  ScheduleInv'
  BY DEF ScheduleInv, Schedule!UpdateStart, Schedule!ChosenDay

\* Steps of the schedule.
LEMMA ScheduleKeeps ==
  ASSUME Schedule!ScheduleConstants, ScheduleInv, Schedule!Next
  PROVE  ScheduleInv'
<1>1. /\ Dates \cup EndDates \subseteq Int /\ Frequencies \subseteq Nat /\ Today \in Nat
      /\ Units \subseteq Schedule!POLICY_TIME_UNITS /\ Days \subseteq 0..6
      /\ Schedule!NoDate = -1 /\ Schedule!InvalidDate = -2
  BY DEF Schedule!ScheduleConstants, Schedule!POLICY_DAYS, Schedule!NoDate, Schedule!InvalidDate
<1>2. ASSUME NEW n \in Frequencies \cup {0}, Schedule!ChangeFrequency(n)
      PROVE  ScheduleInv'
  BY <1>1, <1>2 DEF ScheduleInv, Schedule!ChangeFrequency, Schedule!ChosenDay
<1>3. ASSUME NEW u \in Units, Schedule!ChangeUnit(u)
      PROVE  ScheduleInv'
  BY <1>1, <1>3, UpdateStartIs DEF ScheduleInv, Schedule!ChangeUnit
<1>4. ASSUME NEW s \in Schedule!POLICY_START, Schedule!ChangeStart(s)
      PROVE  ScheduleInv'
  <2>. DEFINE day == IF s = "START_NOW" THEN Schedule!WeekDay(Today) ELSE job.day
              j == [job EXCEPT !.start = s, !.late = FALSE, !.day = day]
  <2>1. day \in 0..6
    BY <1>1, WeekDays DEF ScheduleInv
  <2>2. Schedule!UpdateStart(j, Schedule!DateRequired(j), errors)
    BY <1>4 DEF Schedule!ChangeStart
  <2>. HIDE DEF day
  <2>. QED  BY <2>1, <2>2, UpdateStartIs DEF ScheduleInv
<1>5. ASSUME NEW d \in Days, Schedule!ChangeDay(d)
      PROVE  ScheduleInv'
  BY <1>1, <1>5 DEF ScheduleInv, Schedule!ChangeDay, Schedule!ChosenDay
<1>6. ASSUME NEW d \in Dates \cup {Schedule!NoDate}, Schedule!ChangeStartDate(d)
      PROVE  ScheduleInv'
  BY <1>1, <1>6, UpdateStartIs DEF ScheduleInv, Schedule!ChangeStartDate
<1>7. ASSUME NEW late \in BOOLEAN, Schedule!ChangeTime(late)
      PROVE  ScheduleInv'
  BY <1>7, UpdateStartIs DEF ScheduleInv, Schedule!ChangeTime
<1>8. ASSUME NEW d \in EndDates \cup {Schedule!NoDate}, Schedule!ChangeEndDate(d)
      PROVE  ScheduleInv'
  BY <1>1, <1>8 DEF ScheduleInv, Schedule!ChangeEndDate, Schedule!ChosenDay
<1>9. ASSUME NEW control, NEW empty, Schedule!TypeDate(control, empty)
      PROVE  ScheduleInv'
  BY <1>9 DEF ScheduleInv, Schedule!TypeDate, Schedule!ChosenDay
<1>10. CASE Schedule!Submit
  <2>1. /\ startTime' = IF job.start = "START_NOW" THEN Schedule!NoDate
                        ELSE IF job.unit # "WEEKS" THEN startTime
                        ELSE IF startTime < 0 THEN Schedule!InvalidDate
                        ELSE Schedule!FirstDay(startTime, job.day)
        /\ given' = [unit |-> job.unit, frequency |-> job.frequency, start |-> startTime',
                     again |-> startTime # job.startDate]
        /\ job' = job
    BY <1>10 DEF Schedule!Submit
  <2>2. /\ startTime \in Int /\ job.day \in 0..6 /\ job.startDate \in Int
        /\ startTime >= 0 => startTime >= job.startDate
    BY DEF ScheduleInv
  <2>. DEFINE first == Schedule!FirstDay(startTime, job.day)
  <2>3. /\ first \in Int /\ Schedule!WeekDay(first) = job.day
        /\ startTime <= first /\ first < startTime + 7
    BY <2>2, FirstDayIs
  <2>. HIDE DEF first
  <2>4. startTime' \in {Schedule!NoDate, Schedule!InvalidDate, startTime, first}
    BY <2>1 DEF first
  <2>5. startTime' \in Int /\ (startTime' >= 0 => startTime' >= job.startDate)
    <3>1. CASE startTime' \in {Schedule!NoDate, Schedule!InvalidDate}
      BY <1>1, <3>1
    <3>2. CASE startTime' = startTime
      BY <2>2, <3>2
    <3>3. CASE startTime' = first /\ startTime' # startTime
      <4>1. startTime >= 0 \/ startTime' = -1 \/ startTime' = -2
        BY <1>1, <2>1, <2>2, <3>3
      <4>. QED  BY <2>2, <2>3, <3>3, <4>1
    <3>. QED  BY <2>4, <3>1, <3>2, <3>3
  <2>6. job.unit = "WEEKS" /\ startTime' >= 0
          => /\ Schedule!WeekDay(startTime') = job.day
             /\ startTime' >= job.startDate
             /\ startTime # job.startDate \/ startTime' < job.startDate + 7
    <3>. SUFFICES ASSUME job.unit = "WEEKS", startTime' >= 0
                  PROVE  /\ Schedule!WeekDay(startTime') = job.day
                         /\ startTime' >= job.startDate
                         /\ startTime # job.startDate \/ startTime' < job.startDate + 7
      OBVIOUS
    <3>1. startTime' = first /\ startTime >= 0
      BY <1>1, <2>1, <2>2 DEF first
    <3>. QED  BY <2>2, <2>3, <3>1
  <2>7. /\ given'.unit = job.unit /\ given'.start = startTime'
        /\ given'.again = (startTime # job.startDate)
    BY <2>1
  <2>8. Schedule!ChosenDay'
    BY <2>1, <2>6, <2>7 DEF Schedule!ChosenDay
  <2>. QED  BY <2>1, <2>5, <2>8 DEF ScheduleInv
<1>. QED
  BY <1>2, <1>3, <1>4, <1>5, <1>6, <1>7, <1>8, <1>9, <1>10 DEF Schedule!Next

\* A weekly policy starts on the chosen day of the week, not before the date that is
\* shown, and within a week of it the first time its step is saved: whatever is picked
\* and typed, for every date.
THEOREM StartsOnChosenDay == Spec => []ChosenDay
<1>0. Schedule!ScheduleConstants
  BY PolicyPagesConstants
<1>1. Init => (part = "schedule" => ScheduleInv)
  <2>. SUFFICES ASSUME Schedule!Init
                PROVE  ScheduleInv
    BY DEF Init
  <2>1. Schedule!NoDate \in Int /\ ~(Schedule!NoDate >= 0)
    BY DEF Schedule!NoDate
  <2>2. "ON_SCHEDULE" \in Schedule!POLICY_START /\ "DAYS" \in Schedule!POLICY_TIME_UNITS
    BY DEF Schedule!POLICY_START, Schedule!POLICY_TIME_UNITS
  <2>. QED  BY <2>1, <2>2 DEF Schedule!Init, ScheduleInv, Schedule!ChosenDay
<1>2. (part = "schedule" => ScheduleInv) /\ [Next]_vars => (part = "schedule" => ScheduleInv)'
  <2>. SUFFICES ASSUME part = "schedule" => ScheduleInv, [Next]_vars, part' = "schedule"
                PROVE  ScheduleInv'
    OBVIOUS
  <2>1. ScheduleInv /\ [Schedule!Next]_scheduleVars
    BY PartSteps
  <2>2. CASE Schedule!Next
    BY <1>0, <2>1, <2>2, ScheduleKeeps
  <2>3. CASE UNCHANGED scheduleVars
    BY <2>1, <2>3 DEF scheduleVars, ScheduleInv, Schedule!ChosenDay
  <2>. QED  BY <2>1, <2>2, <2>3
<1>3. (part = "schedule" => ScheduleInv) => ChosenDay
  BY DEF ScheduleInv, ChosenDay
<1>. QED  BY <1>1, <1>2, <1>3, PTL DEF Spec

-----------------------------------------------------------------------------
(* The rows of the page of policies. *)

Ids == DOMAIN TypeOf
FilterValues == [names : SUBSET Ids, target : PolicyTable!Targets \cup {PolicyTable!None}]
OptionValues == [names : SUBSET Ids, targets : SUBSET PolicyTable!Targets]

\* The names of policies.
LEMMA IdsAre ==
  /\ IsFiniteSet(Ids) /\ PolicyTable!None \notin Ids
  /\ \A p \in Ids : TargetOf[p] \in PolicyTable!Targets /\ TypeOf[p] \in PolicyTable!Services
<1>1. Ids = {"p", "q", "r"}
  BY DEF Ids, TypeOf
<1>2. IsFiniteSet({"p", "q", "r"})
  <2>1. {"p", "q", "r"} = ({"p"} \cup {"q"}) \cup {"r"}
    OBVIOUS
  <2>2. IsFiniteSet({"p"})
    BY FS_Singleton
  <2>3. IsFiniteSet({"p"} \cup {"q"})
    BY <2>2, FS_AddElement
  <2>4. IsFiniteSet(({"p"} \cup {"q"}) \cup {"r"})
    BY <2>3, FS_AddElement
  <2>. QED  BY <2>1, <2>4
<1>. QED
  BY <1>1, <1>2 DEF Ids, PolicyTable!None, PolicyTable!Targets, PolicyTable!Services

\* The sizes of the table are sizes of sets.
LEMMA SizesAre ==
  ASSUME NEW S
  PROVE  PolicyTable!Cardinality(S) = Cardinality(S)
  BY Zenon DEF PolicyTable!Cardinality, Cardinality

\* Rows are some of the policies.
LEMMA RowsAre ==
  ASSUME NEW ps \in SUBSET Ids, NEW f, NEW service
  PROVE  /\ PolicyTable!RowsOf(ps, f, service) \subseteq ps
         /\ Cardinality(PolicyTable!RowsOf(ps, f, service)) \in Nat
<1>1. PolicyTable!RowsOf(ps, f, service) \subseteq ps
  BY DEF PolicyTable!RowsOf, PolicyTable!FilterCollection
<1>2. IsFiniteSet(PolicyTable!RowsOf(ps, f, service))
  BY <1>1, IdsAre, FS_Subset
<1>. QED  BY <1>1, <1>2, FS_CardinalityType

\* Pages of a list: the last of them begins before its end, and it ends there.
LEMMA PagesAre ==
  ASSUME NEW count \in Nat, NEW size \in Nat \ {0}
  PROVE  LET pages == PolicyTable!PagesCount(count, size)
             last == PolicyTable!LastPage(count, size)
         IN /\ pages \in Nat /\ last \in Nat
            /\ count = 0 => pages = 0
            /\ count > 0 => last * size < count /\ pages > 0 /\ (pages - 1) * size < count
            /\ count <= pages * size
<1>. DEFINE d == count \div size
            e == (count - 1) \div size
<1>1. d \in Nat /\ d * size <= count
  <2>1. d \in Nat
    OBVIOUS
  <2>2. d * size <= count
    OBVIOUS
  <2>. QED  BY <2>1, <2>2
<1>2. count < (d + 1) * size
  OBVIOUS
<1>3. count % size = 0 => count = d * size
  OBVIOUS
<1>4. count % size # 0 => d * size # count
  OBVIOUS
<1>5. count > 0 => e \in Nat /\ e * size < count
  <2>1. count > 0 => e \in Nat
    OBVIOUS
  <2>2. count > 0 => e * size < count
    OBVIOUS
  <2>. QED  BY <2>1, <2>2
<1>6. count = 0 => d = 0 /\ count % size = 0
  OBVIOUS
<1>7. /\ PolicyTable!PagesCount(count, size) = IF count % size = 0 THEN d ELSE d + 1
      /\ PolicyTable!LastPage(count, size) = IF count = 0 THEN 0 ELSE e
  BY DEF PolicyTable!PagesCount, PolicyTable!LastPage
<1>. HIDE DEF d, e
<1>8. CASE count = 0
  BY <1>6, <1>7, <1>8
<1>9. CASE count > 0 /\ count % size = 0
  <2>1. /\ count = d * size /\ d \in Nat
        /\ PolicyTable!PagesCount(count, size) = d /\ PolicyTable!LastPage(count, size) = e
    BY <1>1, <1>3, <1>7, <1>9
  <2>2. d > 0 /\ (d - 1) * size < d * size
    BY <1>9, <2>1
  <2>. QED  BY <1>5, <1>9, <2>1, <2>2
<1>10. CASE count > 0 /\ count % size # 0
  <2>1. /\ d * size < count
        /\ PolicyTable!PagesCount(count, size) = d + 1 /\ PolicyTable!LastPage(count, size) = e
    <3>1. d * size # count /\ d * size <= count /\ d * size \in Nat
      BY <1>1, <1>4, <1>10
    <3>. QED  BY <1>7, <1>10, <3>1
  <2>2. (d + 1) - 1 = d /\ d + 1 > 0 /\ d + 1 \in Nat
    BY <1>1
  <2>3. count <= (d + 1) * size
    BY <1>1, <1>2
  <2>. QED  BY <1>5, <1>10, <2>1, <2>2, <2>3
<1>. QED  BY <1>8, <1>9, <1>10

\* Whichever page was asked for, the buttons of the footer fit the rows.
LEMMA FooterFits ==
  ASSUME PolicyTable!PolicyRowsConstants, PolicyTable!TypeOK
  PROVE  PolicyTable!Offset \in Nat /\ PolicyTable!PagesReach
<1>. DEFINE count == Cardinality(PolicyTable!Rows)
            pages == PolicyTable!PagesCount(count, limit)
            last == PolicyTable!LastPage(count, limit)
            at == IF offset < last THEN offset ELSE last
<1>1. count \in Nat
  BY RowsAre DEF PolicyTable!TypeOK, PolicyTable!Rows, Ids
<1>2. limit \in Nat \ {0} /\ offset \in Nat
  BY DEF PolicyTable!PolicyRowsConstants, PolicyTable!TypeOK
<1>. HIDE DEF count
<1>3. /\ pages \in Nat /\ last \in Nat
      /\ count = 0 => pages = 0
      /\ count > 0 => last * limit < count /\ pages > 0 /\ (pages - 1) * limit < count
      /\ count <= pages * limit
  BY <1>1, <1>2, PagesAre
<1>4. PolicyTable!Offset = at
  BY SizesAre DEF PolicyTable!Offset, count
<1>5. (PolicyTable!NextDisabled <=> at + 1 >= pages) /\ PolicyTable!CurPage = at + 1
      /\ (PolicyTable!PrevDisabled <=> at + 1 = 1)
  BY <1>4, SizesAre DEF PolicyTable!NextDisabled, PolicyTable!PrevDisabled, PolicyTable!CurPage, count
<1>. HIDE DEF pages, last
<1>6. at \in Nat /\ at <= last
  BY <1>2, <1>3
<1>. HIDE DEF at
<1>7. at * limit <= last * limit
  BY <1>2, <1>3, <1>6
<1>8. count > 0 => at * limit < count
  <2>1. at * limit \in Nat /\ last * limit \in Nat
    BY <1>2, <1>3, <1>6
  <2>. QED  BY <1>1, <1>3, <1>7, <2>1
<1>9. at + 1 >= pages <=> (at + 1) * limit >= count
  <2>1. CASE at + 1 >= pages
    <3>1. pages * limit <= (at + 1) * limit
      BY <1>2, <1>3, <1>6, <2>1
    <3>2. pages * limit \in Nat /\ (at + 1) * limit \in Nat
      BY <1>2, <1>3, <1>6
    <3>. QED  BY <1>1, <1>3, <2>1, <3>1, <3>2
  <2>2. CASE at + 1 < pages
    <3>1. at + 1 <= pages - 1 /\ pages - 1 \in Nat
      BY <1>3, <1>6, <2>2
    <3>2. (at + 1) * limit <= (pages - 1) * limit
      BY <1>2, <1>6, <3>1
    <3>3. (at + 1) * limit \in Nat /\ (pages - 1) * limit \in Nat
      BY <1>2, <1>6, <3>1
    <3>4. count > 0
      BY <1>1, <1>3, <1>6, <2>2
    <3>5. (at + 1) * limit < count
      BY <1>1, <1>3, <3>2, <3>3, <3>4
    <3>. QED  BY <1>1, <1>3, <1>6, <2>2, <3>3, <3>5
  <2>. QED  BY <1>3, <1>6, <2>1, <2>2
<1>10. at + 1 = 1 <=> at = 0
  BY <1>6
<1>. QED
  BY <1>4, <1>5, <1>6, <1>8, <1>9, <1>10, SizesAre DEF PolicyTable!PagesReach, count

\* What a link asked for is what the first list of policies is filtered by, and the
\* filters are kept until the user changes them.
LinkKept ==
  linked # PolicyTable!None
    => /\ linked \in initialNames
       /\ policies # {} => linked \in filters.names /\ filters.target = PolicyTable!None

RowsInv ==
  /\ PolicyTable!TypeOK /\ options \in OptionValues
  /\ PolicyTable!TagsTell /\ LinkKept

\* What offers the values of the rows.
LEMMA OptionsAre ==
  ASSUME NEW o \in OptionValues, NEW rows \in SUBSET Ids
  PROVE  LET w == PolicyTable!WithOptionsOf(o, rows)
         IN /\ w \in OptionValues
            /\ rows \subseteq w.names /\ {TargetOf[p] : p \in rows} \subseteq w.targets
            /\ o.names \subseteq w.names /\ o.targets \subseteq w.targets
  BY IdsAre DEF PolicyTable!WithOptionsOf, OptionValues

\* Filters that are applied are those of the tags, and what they let through is offered.
LEMMA FilteredIs ==
  ASSUME NEW ps \in SUBSET Ids, policies' = ps, NEW f \in FilterValues,
         NEW service \in PolicyTable!Services \cup {PolicyTable!None}, NEW o \in OptionValues,
         PolicyTable!Filtered(ps, f, service, o)
  PROVE  /\ applied' = f /\ filters' = f /\ filterByService' = service
         /\ options' \in OptionValues /\ PolicyTable!TagsTell'
<1>. DEFINE rows == PolicyTable!RowsOf(ps, f, service)
<1>1. /\ applied' = f /\ filters' = f /\ filterByService' = service
      /\ options' = PolicyTable!WithOptionsOf(o, rows)
  BY DEF PolicyTable!Filtered
<1>2. rows \in SUBSET Ids
  BY RowsAre
<1>3. PolicyTable!Rows' = rows
  BY <1>1 DEF PolicyTable!Rows
<1>. HIDE DEF rows
<1>4. /\ options' \in OptionValues
      /\ rows \subseteq options'.names /\ {TargetOf[p] : p \in rows} \subseteq options'.targets
  BY <1>1, <1>2, OptionsAre
<1>. QED  BY <1>1, <1>3, <1>4 DEF PolicyTable!TagsTell

\* Steps that change the filters.
LEMMA FiltersKeep ==
  ASSUME RowsInv,
         \/ \E p \in Ids : \/ PolicyTable!QueryParams(p) \/ PolicyTable!AddName(p)
                           \/ PolicyTable!RemoveName(p)
         \/ \E t \in PolicyTable!Targets : PolicyTable!AddTarget(t)
         \/ \E s \in PolicyTable!Services : PolicyTable!FilterPoliciesByService(s)
         \/ PolicyTable!RemoveTarget
  PROVE  RowsInv'
<1>0. /\ policies \in SUBSET Ids /\ initialNames \subseteq Ids
      /\ applied \in FilterValues /\ filters \in FilterValues /\ options \in OptionValues
      /\ filterByService \in PolicyTable!Services \cup {PolicyTable!None}
      /\ activeService \in PolicyTable!Services \cup {PolicyTable!None}
      /\ limit \in Limits /\ offset \in Nat /\ shared \in BOOLEAN
      /\ PolicyTable!NoFilters \in FilterValues /\ PolicyTable!NoFilters.target = PolicyTable!None
  BY DEF RowsInv, PolicyTable!TypeOK, FilterValues, PolicyTable!NoFilters, Ids
<1>1. ASSUME NEW p \in Ids, PolicyTable!QueryParams(p)
      PROVE  RowsInv'
  <2>. DEFINE f == [PolicyTable!NoFilters EXCEPT !.names = {p}]
  <2>1. /\ initialNames' = {p} /\ linked' = p
        /\ UNCHANGED <<policies, activeService, limit, offset>>
        /\ policies = {} => UNCHANGED <<applied, shared, filters, filterByService, options>>
        /\ policies # {} => /\ PolicyTable!Filtered(policies, f, filterByService, options)
                            /\ shared' = TRUE
    BY <1>1 DEF PolicyTable!QueryParams, PolicyTable!ApplyInitialFilters
  <2>2. CASE policies = {}
    BY <1>0, <2>1, <2>2 DEF RowsInv, PolicyTable!TypeOK, PolicyTable!TagsTell, LinkKept, Ids
  <2>3. CASE policies # {}
    <3>1. f \in FilterValues /\ f.names = {p} /\ f.target = PolicyTable!None
      BY <1>0 DEF FilterValues
    <3>. HIDE DEF f
    <3>2. /\ applied' = f /\ filters' = f /\ filterByService' = filterByService
          /\ options' \in OptionValues /\ PolicyTable!TagsTell'
      BY <1>0, <2>1, <2>3, <3>1, FilteredIs
    <3>3. PolicyTable!TypeOK'
      BY <1>0, <2>1, <2>3, <3>1, <3>2 DEF PolicyTable!TypeOK, FilterValues, OptionValues, Ids
    <3>. QED  BY <2>1, <3>1, <3>2, <3>3 DEF RowsInv, LinkKept
  <2>. QED  BY <2>2, <2>3
<1>2. ASSUME NEW f \in FilterValues,
             NEW service \in PolicyTable!Services \cup {PolicyTable!None},
             PolicyTable!Filtered(policies, f, service, options),
             linked' = PolicyTable!None, UNCHANGED <<policies, limit, offset>>,
             initialNames' \subseteq Ids, shared' \in BOOLEAN,
             activeService' \in PolicyTable!Services \cup {PolicyTable!None}
      PROVE  RowsInv'
  <2>1. /\ applied' = f /\ filters' = f /\ filterByService' = service
        /\ options' \in OptionValues /\ PolicyTable!TagsTell'
    BY <1>0, <1>2, FilteredIs
  <2>2. PolicyTable!TypeOK'
    BY <1>0, <1>2, <2>1 DEF PolicyTable!TypeOK, FilterValues, OptionValues, Ids
  <2>. QED  BY <1>2, <2>1, <2>2 DEF RowsInv, LinkKept
<1>3. ASSUME NEW p \in Ids, PolicyTable!AddName(p)
      PROVE  RowsInv'
  <2>. DEFINE f == [applied EXCEPT !.names = @ \cup {p}]
  <2>1. /\ PolicyTable!Filtered(policies, f, filterByService, options)
        /\ linked' = PolicyTable!None /\ UNCHANGED <<policies, shared, activeService, limit, offset>>
        /\ initialNames' = IF shared THEN initialNames \cup {p} ELSE initialNames
    BY <1>3 DEF PolicyTable!AddName, PolicyTable!ByUser
  <2>2. f \in FilterValues
    BY <1>0 DEF FilterValues
  <2>. HIDE DEF f
  <2>. QED  BY <1>0, <1>2, <2>1, <2>2
<1>4. ASSUME NEW t \in PolicyTable!Targets, PolicyTable!AddTarget(t)
      PROVE  RowsInv'
  <2>. DEFINE f == [applied EXCEPT !.target = t]
  <2>1. /\ PolicyTable!Filtered(policies, f, filterByService, options)
        /\ linked' = PolicyTable!None
        /\ UNCHANGED <<policies, initialNames, shared, activeService, limit, offset>>
    BY <1>4 DEF PolicyTable!AddTarget, PolicyTable!ByUser
  <2>2. f \in FilterValues
    BY <1>0 DEF FilterValues
  <2>. HIDE DEF f
  <2>. QED  BY <1>0, <1>2, <2>1, <2>2
<1>5. ASSUME NEW p \in Ids, PolicyTable!RemoveName(p)
      PROVE  RowsInv'
  <2>. DEFINE f == [applied EXCEPT !.names = @ \ {p}]
  <2>1. /\ PolicyTable!Filtered(policies, f, filterByService, options)
        /\ linked' = PolicyTable!None /\ shared' = FALSE
        /\ UNCHANGED <<policies, initialNames, activeService, limit, offset>>
    BY <1>5 DEF PolicyTable!RemoveName, PolicyTable!ByUser
  <2>2. f \in FilterValues
    BY <1>0 DEF FilterValues
  <2>. HIDE DEF f
  <2>. QED  BY <1>0, <1>2, <2>1, <2>2
<1>6. CASE PolicyTable!RemoveTarget
  <2>. DEFINE f == [applied EXCEPT !.target = PolicyTable!None]
  <2>1. /\ PolicyTable!Filtered(policies, f, filterByService, options)
        /\ linked' = PolicyTable!None
        /\ UNCHANGED <<policies, initialNames, shared, activeService, limit, offset>>
    BY <1>6 DEF PolicyTable!RemoveTarget, PolicyTable!ByUser
  <2>2. f \in FilterValues
    BY <1>0 DEF FilterValues
  <2>. HIDE DEF f
  <2>. QED  BY <1>0, <1>2, <2>1, <2>2
<1>7. ASSUME NEW s \in PolicyTable!Services, PolicyTable!FilterPoliciesByService(s)
      PROVE  RowsInv'
  <2>1. /\ activeService' = IF s = activeService THEN PolicyTable!None ELSE s
        /\ PolicyTable!Filtered(policies, applied, activeService', options)
        /\ linked' = PolicyTable!None
        /\ UNCHANGED <<policies, initialNames, shared, limit, offset>>
    BY <1>7 DEF PolicyTable!FilterPoliciesByService, PolicyTable!ByUser
  <2>2. activeService' \in PolicyTable!Services \cup {PolicyTable!None}
    BY <2>1
  <2>. QED  BY <1>0, <1>2, <2>1, <2>2
<1>. QED  BY <1>1, <1>3, <1>4, <1>5, <1>6, <1>7

\* A list of policies.
LEMMA ListKeeps ==
  ASSUME PolicyTable!PolicyRowsConstants, RowsInv, NEW ps \in SUBSET Ids,
         PolicyTable!LoadPoliciesSuccess(ps)
  PROVE  RowsInv'
<1>. DEFINE f == [PolicyTable!NoFilters EXCEPT !.names = initialNames]
            offered == PolicyTable!WithOptionsOf(options,
                         PolicyTable!RowsOf(ps, filters, filterByService))
<1>0. /\ initialNames \subseteq Ids /\ linked \in Ids \cup {PolicyTable!None}
      /\ applied \in FilterValues /\ filters \in FilterValues /\ options \in OptionValues
      /\ filterByService \in PolicyTable!Services \cup {PolicyTable!None}
      /\ activeService \in PolicyTable!Services \cup {PolicyTable!None}
      /\ limit \in Limits /\ FirstLimit \in Limits /\ offset \in Nat /\ shared \in BOOLEAN
  BY DEF RowsInv, PolicyTable!TypeOK, FilterValues, Ids, PolicyTable!PolicyRowsConstants
<1>1. /\ policies' = ps /\ UNCHANGED <<initialNames, linked>>
      /\ policies = {} => /\ PolicyTable!Filtered(ps, f, filterByService, offered)
                          /\ shared' = (initialNames # {})
                          /\ activeService' = PolicyTable!None
                          /\ limit' = FirstLimit /\ offset' = 0
      /\ policies # {} => /\ options' = IF ps = {} THEN options ELSE offered
                          /\ UNCHANGED <<applied, shared, filters, filterByService,
                                         activeService, limit, offset>>
  BY DEF PolicyTable!LoadPoliciesSuccess, PolicyTable!ApplyInitialFilters
<1>2. /\ offered \in OptionValues
      /\ PolicyTable!RowsOf(ps, filters, filterByService) \subseteq offered.names
      /\ {TargetOf[p] : p \in PolicyTable!RowsOf(ps, filters, filterByService)}
           \subseteq offered.targets
  BY <1>0, RowsAre, OptionsAre
<1>3. f \in FilterValues /\ f.names = initialNames /\ f.target = PolicyTable!None
  BY <1>0 DEF FilterValues, PolicyTable!NoFilters
<1>. HIDE DEF f, offered
<1>4. CASE policies = {}
  <2>1. /\ applied' = f /\ filters' = f /\ filterByService' = filterByService
        /\ options' \in OptionValues /\ PolicyTable!TagsTell'
    BY <1>0, <1>1, <1>2, <1>3, <1>4, FilteredIs
  <2>2. PolicyTable!TypeOK'
    BY <1>0, <1>1, <1>3, <1>4, <2>1 DEF PolicyTable!TypeOK, FilterValues, OptionValues, Ids
  <2>. QED  BY <1>1, <1>3, <2>1, <2>2 DEF RowsInv, LinkKept
<1>5. CASE policies # {}
  <2>1. options' \in OptionValues
    BY <1>0, <1>1, <1>2, <1>5
  <2>2. PolicyTable!TypeOK'
    BY <1>0, <1>1, <1>5, <2>1 DEF PolicyTable!TypeOK, FilterValues, OptionValues, Ids
  <2>3. PolicyTable!TagsTell'
    BY <1>1, <1>2, <1>5 DEF RowsInv, PolicyTable!TagsTell, PolicyTable!Rows
  <2>. QED  BY <1>1, <1>5, <2>1, <2>2, <2>3 DEF RowsInv, LinkKept
<1>. QED  BY <1>4, <1>5

\* The pages of the table.
LEMMA TurnKeeps ==
  ASSUME PolicyTable!PolicyRowsConstants, RowsInv,
         \/ PolicyTable!HandleGoToNext \/ PolicyTable!HandleGoToPrev
         \/ \E size \in Limits : PolicyTable!HandleChangeLimit(size)
  PROVE  RowsInv'
<1>1. /\ UNCHANGED <<policies, initialNames, applied, shared, filters, options, activeService,
                     filterByService, linked>>
      /\ limit' \in Limits /\ offset' \in Nat
  <2>1. PolicyTable!Offset \in Nat /\ PolicyTable!TypeOK
    BY FooterFits DEF RowsInv
  <2>2. limit \in Limits
    BY <2>1 DEF PolicyTable!TypeOK
  <2>3. CASE PolicyTable!HandleGoToNext
    BY <2>1, <2>2, <2>3 DEF PolicyTable!HandleGoToNext, PolicyTable!ChangePage,
       PolicyTable!CurPage
  <2>4. CASE PolicyTable!HandleGoToPrev
    BY <2>1, <2>2, <2>4 DEF PolicyTable!HandleGoToPrev, PolicyTable!ChangePage,
       PolicyTable!PrevDisabled, PolicyTable!CurPage
  <2>5. CASE \E size \in Limits : PolicyTable!HandleChangeLimit(size)
    BY <2>5 DEF PolicyTable!HandleChangeLimit
  <2>. QED  BY <2>3, <2>4, <2>5
<1>2. PolicyTable!TypeOK'
  BY <1>1 DEF RowsInv, PolicyTable!TypeOK
<1>. QED
  BY <1>1, <1>2 DEF RowsInv, PolicyTable!TagsTell, PolicyTable!Rows, LinkKept

\* The invariant of the rows.
LEMMA RowsInvHolds == Spec => [](part = "rows" => RowsInv)
<1>0. PolicyTable!PolicyRowsConstants
  BY PolicyPagesConstants
<1>1. Init => (part = "rows" => RowsInv)
  <2>. SUFFICES ASSUME PolicyTable!Init
                PROVE  RowsInv
    BY DEF Init
  <2>1. /\ policies = {} /\ applied = PolicyTable!NoFilters /\ filters = PolicyTable!NoFilters
        /\ options = PolicyTable!NoOptions /\ linked \in Ids \cup {PolicyTable!None}
        /\ initialNames = IF linked = PolicyTable!None THEN {} ELSE {linked}
        /\ activeService = PolicyTable!None /\ filterByService = PolicyTable!None
        /\ limit \in Limits /\ offset = 0 /\ shared = FALSE
    BY <1>0 DEF PolicyTable!Init, PolicyTable!PolicyRowsConstants, Ids
  <2>2. PolicyTable!NoFilters \in FilterValues /\ PolicyTable!NoOptions \in OptionValues
    BY DEF PolicyTable!NoFilters, PolicyTable!NoOptions, FilterValues, OptionValues
  <2>3. PolicyTable!TypeOK
    BY <2>1, <2>2 DEF PolicyTable!TypeOK, FilterValues, OptionValues, Ids
  <2>. QED  BY <2>1, <2>2, <2>3 DEF RowsInv, PolicyTable!TagsTell, LinkKept
<1>2. (part = "rows" => RowsInv) /\ [Next]_vars => (part = "rows" => RowsInv)'
  <2>. SUFFICES ASSUME part = "rows" => RowsInv, [Next]_vars, part' = "rows"
                PROVE  RowsInv'
    OBVIOUS
  <2>1. RowsInv /\ [PolicyTable!Next]_rowVars
    BY PartSteps
  <2>2. CASE PolicyTable!Next
    BY <1>0, <2>1, <2>2, FiltersKeep, ListKeeps, TurnKeeps DEF PolicyTable!Next, Ids
  <2>3. CASE UNCHANGED rowVars
    BY <2>1, <2>3 DEF rowVars, RowsInv, PolicyTable!TypeOK, PolicyTable!TagsTell,
       PolicyTable!Rows, LinkKept
  <2>. QED  BY <2>1, <2>2, <2>3
<1>. QED  BY <1>1, <1>2, PTL DEF Spec

\* What is shown is what there is, and all of it can be reached: the tags tell how the
\* rows are chosen, a link shows its policy, the footer leads to every page and to no
\* other; files are browsed of clusters their Beacon knows, and no spinner stays.
THEOREM ShowsWhatThereIs == Spec => []ShowsStore
<1>0. PolicyTable!PolicyRowsConstants
  BY PolicyPagesConstants
<1>1. (part = "rows" => RowsInv)
        => (part = "rows" => PolicyTable!TagsTell /\ PolicyTable!LinkShows
                             /\ PolicyTable!PagesReach)
  <2>. SUFFICES ASSUME RowsInv
                PROVE  PolicyTable!TagsTell /\ PolicyTable!LinkShows /\ PolicyTable!PagesReach
    OBVIOUS
  <2>1. PolicyTable!LinkShows
    BY IdsAre DEF RowsInv, PolicyTable!TypeOK, LinkKept, PolicyTable!LinkShows,
       PolicyTable!Rows, PolicyTable!RowsOf, PolicyTable!FilterCollection, Ids
  <2>. QED  BY <1>0, <2>1, FooterFits DEF RowsInv
<1>2. (part = "source" => SourceInv)
        => (part = "source" => Source!BrowsesDefined /\ Source!SpinsForSource)
  BY DEF SourceInv
<1>. QED  BY <1>1, <1>2, RowsInvHolds, SourceInvHolds, PTL DEF ShowsStore

\* The types of the part at work.
THEOREM TypeCorrect == Spec => []TypeOK
<1>1. Spec => [](part \in Parts)
  <2>1. Init => part \in Parts
    BY DEF Init
  <2>2. part \in Parts /\ [Next]_vars => (part \in Parts)'
    BY PartSteps
  <2>. QED  BY <2>1, <2>2, PTL DEF Spec
<1>2. WizardInv => (part = "wizard" => Wizard!TypeOK)
  <2>. SUFFICES ASSUME Ordered(steps, activeStepId), WizardTypes
                PROVE  Wizard!TypeOK
    BY DEF WizardInv
  <2>1. \A id \in Wizard!StepIds : steps[id].state \in Wizard!WIZARD_STATE
    <3>. SUFFICES ASSUME NEW id \in Wizard!StepIds
                  PROVE  steps[id].state \in {"active", "completed", "disabled"}
      BY DEF Wizard!WIZARD_STATE
    <3>1. activeStepId \in Wizard!StepIds
      BY DEF Ordered
    <3>2. /\ Wizard!Index(id) \in 1..5 /\ Wizard!Index(activeStepId) \in 1..5
          /\ Wizard!Index(id) = Wizard!Index(activeStepId) => id = activeStepId
      BY <3>1, NeighboursAre
    <3>3. \/ id = activeStepId \/ Wizard!Index(id) < Wizard!Index(activeStepId)
          \/ Wizard!Index(activeStepId) < Wizard!Index(id)
      BY <3>2
    <3>. QED  BY <3>3 DEF Ordered
  <2>2. /\ forms.general \in Wizard!GeneralValues /\ forms.source \in Wizard!SourceValues
        /\ forms.destination \in Wizard!DestinationValues
        /\ forms.schedule \in BOOLEAN /\ forms.advanced \in BOOLEAN
    BY DEF WizardTypes, FormValues
  <2>3. DOMAIN steps = Wizard!StepIds /\ activeStepId \in Wizard!StepIds
    BY DEF Ordered
  <2>. QED  BY <2>1, <2>2, <2>3 DEF WizardTypes, Wizard!TypeOK
<1>3. (part = "source" => SourceInv) => (part = "source" => Source!TypeOK)
  BY DEF SourceInv, SourceTypes
<1>4. (part = "rows" => RowsInv) => (part = "rows" => PolicyTable!TypeOK)
  BY DEF RowsInv
<1>5. (part = "queue" => QueueInv) => (part = "queue" => Queue!TypeOK)
  BY DEF QueueInv, QueueTypes
<1>. QED
  BY <1>1, <1>2, <1>3, <1>4, <1>5, WizardInvHolds, SourceInvHolds, RowsInvHolds, QueueInvHolds,
     PTL DEF TypeOK
=============================================================================
