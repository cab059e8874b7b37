----------------------------- MODULE WizardSteps -----------------------------
(***************************************************************************)
(* The steps of the policy wizard in the store of the web interface:       *)
(* reducers/create-policy.reducer.ts with its actions and selectors.  Each *)
(* action is an operator from the steps to the steps.                      *)
(***************************************************************************)
EXTENDS Naturals, Sequences

WIZARD_STEP_ID == <<"general", "source", "destination", "schedule", "advanced">>
WIZARD_STATE == {"active", "completed", "disabled"}

StepIds == {WIZARD_STEP_ID[i] : i \in DOMAIN WIZARD_STEP_ID}
Index(id) == CHOOSE i \in DOMAIN WIZARD_STEP_ID : WIZARD_STEP_ID[i] = id
HasNext(id) == Index(id) < Len(WIZARD_STEP_ID)
NextStepId(id) == WIZARD_STEP_ID[Index(id) + 1]
HasPrevious(id) == Index(id) > 1
PreviousStepId(id) == WIZARD_STEP_ID[Index(id) - 1]

\* The value {} of a step that was not saved, or was reset.
Unsaved == [saved |-> FALSE]
Saved(v) == [saved |-> TRUE, is |-> v]

InitialSteps ==
  [id \in StepIds |->
     [state |-> IF Index(id) = 1 THEN "active" ELSE "disabled", value |-> Unsaved]]

\* WIZARD_SAVE_STEP: the last step stays active, any other makes way for the next.
SaveStep(steps, id, v) ==
  [s \in StepIds |->
     CASE s = id -> [state |-> IF HasNext(id) THEN "completed" ELSE "active",
                     value |-> Saved(v)]
       [] HasNext(id) /\ s = NextStepId(id) -> [steps[s] EXCEPT !.state = "active"]
       [] OTHER -> steps[s]]

ResetStateless(steps, id) == [steps EXCEPT ![id] = [state |-> "", value |-> Unsaved]]

MoveKeepsLater(steps, id) ==
  [s \in StepIds |->
     [steps[s] EXCEPT !.state = IF s = id THEN "active"
                                ELSE IF Index(s) < Index(id) THEN "completed" ELSE @]]
\* WIZARD_MOVE_TO_STEP: the steps after it are disabled and keep their values.
MoveToStep(steps, id) ==
  [s \in StepIds |->
     [steps[s] EXCEPT !.state = IF s = id THEN "active"
                                ELSE IF Index(s) < Index(id) THEN "completed"
                                ELSE "disabled"]]

\* WIZARD_RESET_STEP.
ResetStep(steps, id) == [steps EXCEPT ![id] = [state |-> "disabled", value |-> Unsaved]]

\* The first active step, or the one shown so far if there is none.
ActiveStepId(steps, shown) ==
  LET active == {id \in StepIds : steps[id].state = "active"}
  IN IF active = {} THEN shown
     ELSE CHOOSE id \in active : \A other \in active : Index(id) <= Index(other)

-----------------------------------------------------------------------------

\* Exactly one step is active, those before it are completed, those after it are
\* disabled.
InOrder(steps) ==
  \E id \in StepIds : \A s \in StepIds :
    steps[s].state = CASE s = id -> "active"
                       [] Index(s) < Index(id) -> "completed"
                       [] Index(s) > Index(id) -> "disabled"

\* What comes before the active step is saved: a policy can be made of it.
SavedBefore(steps) ==
  \A id \in StepIds : steps[id].state = "completed" => steps[id].value.saved
=============================================================================
