-------------------------------- MODULE Toasts --------------------------------
(***************************************************************************)
(* What the user is told of requests that ended: notification.effect.ts,   *)
(* notification.service.ts, notifications-container.component.ts.  A       *)
(* request may come with a text for its success and one for its failure; a *)
(* failure is shown until the user closes it, with a link to a dialog that *)
(* has what the server said.                                               *)
(***************************************************************************)
EXTENDS Naturals, FiniteSets, SequencesExt

CONSTANTS MaxStack,  \* toasts on the screen at a time
          MaxToasts  \* bound: requests that end with a text for it

Contents == {"INLINE", "MODAL_LINK"}
Bodies == {"own", "server", "unreadable"}
Outcomes == [success : {TRUE}, body : {"own"}, content : {"INLINE"}]
              \cup [success : {FALSE}, body : Bodies, content : Contents]

ToastsConstants == MaxStack \in Nat \ {0} /\ MaxToasts \in Nat

VARIABLES ended,         \* the outcomes of requests, by their number
          toasts,        \* the numbers of those on the screen, the latest first
          errors,        \* what the dialog shows for each, state$.errors
          activeErrorId, \* of the dialog, or 0
          listening      \* showNotification$ is subscribed to the actions

toastVars == <<ended, toasts, errors, activeErrorId, listening>>

Init ==
  /\ ended = <<>> /\ toasts = <<>> /\ errors = [id \in {} |-> ""] /\ activeErrorId = 0
  /\ listening = TRUE

\* getErrorBody throws for an answer without a readable message; the effect ends with it.
Readable(outcome) == outcome.success \/ outcome.body # "unreadable"

\* A toast is put on top; beyond MaxStack the last one goes.
Stacked(id) ==
  <<id>> \o (IF Len(toasts) < MaxStack THEN toasts ELSE SubSeq(toasts, 1, MaxStack - 1))

\* showNotification$ and create.
ShowNotification(outcome) ==
  /\ Len(ended) < MaxToasts /\ ended' = Append(ended, outcome)
  /\ listening' = (listening /\ Readable(outcome))
  /\ LET id == Len(ended')
     IN /\ toasts' = IF listening' THEN Stacked(id) ELSE toasts
        /\ errors' = IF listening' /\ outcome.content = "MODAL_LINK"
                     THEN [e \in DOMAIN errors \cup {id} |->
                             IF e = id THEN outcome.body ELSE errors[e]]
                     ELSE errors
  /\ UNCHANGED activeErrorId

\* A click closes the toast; one on its link opens the dialog.  Successes close themselves.
Close(i) == toasts' = RemoveAt(toasts, i)

Click(i) ==
  /\ Close(i) /\ UNCHANGED <<ended, errors, activeErrorId, listening>>

ClickLink(i) ==
  /\ ended[toasts[i]].content = "MODAL_LINK"
  /\ Close(i) /\ activeErrorId' = toasts[i] /\ UNCHANGED <<ended, errors, listening>>

TimeOut(i) ==
  /\ ended[toasts[i]].success
  /\ Close(i) /\ UNCHANGED <<ended, errors, activeErrorId, listening>>

\* hideError: the error that is shown is forgotten.
NoErrors == [id \in {} |-> ""]
OtherErrors == [id \in DOMAIN errors \ {activeErrorId} |-> errors[id]]

HideError ==
  /\ activeErrorId # 0 /\ activeErrorId' = 0
  /\ errors' = OtherErrors
  /\ UNCHANGED <<ended, toasts, listening>>

Next ==
  \/ \E outcome \in Outcomes : ShowNotification(outcome)
  \/ \E i \in DOMAIN toasts : Click(i) \/ ClickLink(i) \/ TimeOut(i)
  \/ HideError

-----------------------------------------------------------------------------

TypeOK ==
  /\ \A i \in DOMAIN ended : ended[i] \in Outcomes
  /\ {toasts[i] : i \in DOMAIN toasts} \subseteq DOMAIN ended /\ Len(toasts) <= MaxStack
  /\ DOMAIN errors \subseteq DOMAIN ended /\ activeErrorId \in 0..MaxToasts
  /\ listening \in BOOLEAN

\* Each link on the screen leads to what the server said of its request, also after other
\* links were followed and their dialogs closed; and a dialog that is open has a text.
LinksLead ==
  /\ \A i \in DOMAIN toasts :
       LET id == toasts[i]
       IN ended[id].content = "MODAL_LINK" => id \in DOMAIN errors /\ errors[id] = ended[id].body
  /\ activeErrorId # 0 => activeErrorId \in DOMAIN errors
=============================================================================
