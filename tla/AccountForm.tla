------------------------------ MODULE AccountForm ------------------------------
(***************************************************************************)
(* The dialog that adds a cloud account or changes the credentials of one: *)
(* add-account-modal, add-cloud-form and the progress of                   *)
(* reducers/cloud-account.reducer.ts.  The store's progress outlives the   *)
(* form: the dialog can be closed by its cross while a validation or a     *)
(* save is made, and its answer comes to the form that is open then.       *)
(*                                                                         *)
(* Access keys are one value.  Credentials of an instance profile have no  *)
(* keys, and are not validated.                                            *)
(***************************************************************************)
EXTENDS Naturals

CONSTANTS AccessKeys,  \* pairs of access key and secret
          Names,     \* names that may be typed
          Accounts,  \* accounts there are; the form knows their names
          MaxShows   \* bound: dialogs that are opened

AccountFormConstants ==
  /\ AccessKeys \cap {"", "profile"} = {} /\ "" \notin Names \cup Accounts
  /\ MaxShows \in Nat

AuthTypes == {"AWS_ACCESSKEY", "AWS_INSTANCEPROFILE"}
PROGRESS_STATUS == {"init", "success", "failed"}

VARIABLES open,       \* the dialog is shown
          account,    \* the account that is edited, or ""
          form,       \* values and errors of the controls
          isValidationInProgress, isSaveInProgress,
          progress,   \* store: validateCredentials and addCloudStore
          validation, addition, update,   \* calls
          validated,  \* keys that the server found valid
          saved,      \* what was sent to be saved
          shows

flags == <<isValidationInProgress, isSaveInProgress>>
vars == <<open, account, form, flags, progress, validation, addition, update, validated,
          saved, shows>>

NoCall == [phase |-> "none", keys |-> ""]
Call(keys) == [phase |-> "sent", keys |-> keys]
\* Of update also whether the form that made it is still there.
NoUpdate == [phase |-> "none", here |-> FALSE]

InitialProgress == [validate |-> "init", keys |-> "", add |-> "init"]

isEditMode == account # ""
IsValidationSuccess == progress.validate = "success"

\* required and uniqValidator; the control is disabled when an account is edited.
NameInvalid(name) == ~isEditMode /\ name \in Accounts \cup {""}

FormFor(a) ==
  [name |-> a, auth |-> "AWS_ACCESSKEY", keys |-> "", nameError |-> a = "", wrong |-> FALSE]

Init ==
  /\ open = FALSE /\ account = "" /\ form = FormFor("")
  /\ isValidationInProgress = FALSE /\ isSaveInProgress = FALSE
  /\ progress = InitialProgress
  /\ validation = NoCall /\ addition = NoCall /\ update = NoUpdate
  /\ validated = {} /\ saved = {} /\ shows = 0

-----------------------------------------------------------------------------
(* The dialog. *)

\* initForm of a new form.
Show(a, auth) ==
  /\ ~open /\ shows < MaxShows /\ shows' = shows + 1
  /\ a = "" => auth = "AWS_ACCESSKEY"
  /\ open' = TRUE /\ account' = a /\ form' = [FormFor(a) EXCEPT !.auth = auth]
  /\ progress' = InitialProgress
  /\ UNCHANGED <<flags, validation, addition, update, validated, saved>>

\* The form goes with the dialog.
Closed ==
  /\ open' = FALSE
  /\ isValidationInProgress' = FALSE /\ isSaveInProgress' = FALSE

Left(u) == [u EXCEPT !.here = FALSE]

Hide ==
  /\ open /\ Closed /\ update' = Left(update)
  /\ UNCHANGED <<account, form, progress, validation, addition, validated, saved, shows>>

CancelButton ==
  /\ open /\ Closed /\ update' = Left(update)
  /\ account' = "" /\ progress' = InitialProgress
  /\ UNCHANGED <<form, validation, addition, validated, saved, shows>>

-----------------------------------------------------------------------------
(* The form. *)

\* trackFormInput: a change after wrong credentials clears the errors of all controls,
\* which are then validated again.
ErrorsReset(f) == [f EXCEPT !.wrong = FALSE, !.nameError = FALSE]
Tracked(f) == [f EXCEPT !.wrong = FALSE, !.nameError = NameInvalid(f.name)]

Edit(f) ==
  /\ form' = Tracked(f)
  /\ UNCHANGED <<open, account, flags, progress, validation, addition, update, validated,
                 saved, shows>>

EditName(name) == open /\ ~isEditMode /\ Edit([form EXCEPT !.name = name])

InputsDisabled == isValidationInProgress \/ IsValidationSuccess

EditKeys(keys) ==
  /\ open /\ ~InputsDisabled /\ form.auth = "AWS_ACCESSKEY"
  /\ Edit([form EXCEPT !.keys = keys])

EditAuth(auth) == open /\ ~InputsDisabled /\ Edit([form EXCEPT !.auth = auth])

FormValid == ~form.nameError /\ ~form.wrong /\ form.keys # ""

ValidateButton ==
  /\ open /\ form.auth = "AWS_ACCESSKEY" /\ ~InputsDisabled /\ FormValid
  /\ form' = ErrorsReset(form) /\ isValidationInProgress' = TRUE
  /\ validation' = Call(form.keys)
  /\ UNCHANGED <<open, account, isSaveInProgress, progress, addition, update, validated,
                 saved, shows>>

IsSaveButtonDisabled ==
  \/ isSaveInProgress \/ form.nameError
  \/ ~FormValid /\ form.auth # "AWS_INSTANCEPROFILE"

\* serializeValue: the keys are those of the validation's answer.
FormKeys == IF form.auth = "AWS_ACCESSKEY" THEN form.keys ELSE "profile"
SerializedKeys == IF form.auth = "AWS_ACCESSKEY" THEN progress.keys ELSE "profile"

SaveButton ==
  /\ open /\ ~IsSaveButtonDisabled
  /\ IsValidationSuccess \/ form.auth = "AWS_INSTANCEPROFILE"
  /\ form' = ErrorsReset(form) /\ isSaveInProgress' = TRUE
  /\ saved' = saved \cup {[name |-> form.name, keys |-> SerializedKeys, new |-> ~isEditMode]}
  /\ IF isEditMode THEN /\ update' = [phase |-> "sent", here |-> TRUE]
                        /\ UNCHANGED addition
     ELSE addition' = Call(SerializedKeys) /\ UNCHANGED update
  /\ UNCHANGED <<open, account, isValidationInProgress, progress, validation, validated, shows>>

-----------------------------------------------------------------------------
(* The answers, their reducers, and the form that is given the progress. *)

\* ngOnChanges.
Progressed(p) ==
  /\ progress' = p
  /\ IF ~open THEN UNCHANGED <<open, account, form, flags, update>>
     ELSE /\ form' = [form EXCEPT !.wrong = @ \/ p.validate = "failed"]
          /\ isValidationInProgress' = FALSE /\ isSaveInProgress' = FALSE
          /\ IF p.add = "success"
             THEN open' = FALSE /\ account' = "" /\ update' = Left(update)
             ELSE UNCHANGED <<open, account, update>>

\* A validation's answer holds the keys it is about, and puts the other progress back.
ValidateCredentialsSuccess ==
  /\ validation # NoCall /\ validation' = NoCall
  /\ validated' = validated \cup {validation.keys}
  /\ Progressed([validate |-> "success", keys |-> validation.keys, add |-> "init"])
  /\ UNCHANGED <<addition, saved, shows>>

ValidateCredentialsFail ==
  /\ validation # NoCall /\ validation' = NoCall
  /\ Progressed([validate |-> "failed", keys |-> "", add |-> "init"])
  /\ UNCHANGED <<addition, validated, saved, shows>>

AddCloudStoreSuccess ==
  /\ addition # NoCall /\ addition' = NoCall
  /\ Progressed([progress EXCEPT !.add = "success"])
  /\ UNCHANGED <<validation, validated, saved, shows>>

FailUnseen ==
  /\ addition # NoCall /\ addition' = NoCall
  /\ UNCHANGED <<open, account, form, flags, progress, update, validation, validated, saved, shows>>

\* The keys have to be validated again.
AddCloudStoreFail ==
  /\ addition # NoCall /\ addition' = NoCall
  /\ Progressed([validate |-> "init", keys |-> "", add |-> "failed"])
  /\ UNCHANGED <<validation, validated, saved, shows>>

\* updateAccount closes the dialog, whichever form is in it.
UpdateCloudStoreSuccess ==
  /\ update.phase = "sent" /\ update' = NoUpdate
  /\ Closed /\ account' = ""
  /\ UNCHANGED <<form, progress, validation, addition, validated, saved, shows>>

UpdateCloudStoreFail ==
  /\ update.phase = "sent" /\ update' = NoUpdate
  /\ isSaveInProgress' = IF update.here THEN FALSE ELSE isSaveInProgress
  /\ UNCHANGED <<open, account, form, isValidationInProgress, progress, validation, addition,
                 validated, saved, shows>>

Next ==
  \/ \E a \in Accounts \cup {""}, auth \in AuthTypes : Show(a, auth)
  \/ Hide \/ CancelButton
  \/ \E name \in Names \cup {""} : EditName(name)
  \/ \E keys \in AccessKeys \cup {""} : EditKeys(keys)
  \/ \E auth \in AuthTypes : EditAuth(auth)
  \/ ValidateButton \/ SaveButton
  \/ ValidateCredentialsSuccess \/ ValidateCredentialsFail
  \/ AddCloudStoreSuccess \/ AddCloudStoreFail
  \/ UpdateCloudStoreSuccess \/ UpdateCloudStoreFail

Spec == Init /\ [][Next]_vars

-----------------------------------------------------------------------------
(* Properties. *)

Forms == [name : Names \cup Accounts \cup {""}, auth : AuthTypes, keys : AccessKeys \cup {""},
          nameError : BOOLEAN, wrong : BOOLEAN]

TypeOK ==
  /\ open \in BOOLEAN /\ account \in Accounts \cup {""} /\ form \in Forms
  /\ isValidationInProgress \in BOOLEAN /\ isSaveInProgress \in BOOLEAN
  /\ progress \in [validate : PROGRESS_STATUS, keys : AccessKeys \cup {""}, add : PROGRESS_STATUS]
  /\ {validation.phase, addition.phase, update.phase} \subseteq {"none", "sent"}
  /\ validated \subseteq AccessKeys
  /\ saved \subseteq [name : Names \cup Accounts, keys : AccessKeys \cup {"profile"}, new : BOOLEAN]

\* AccessKeys that are sent to be saved were found valid, also when the answer is to keys
\* of a form that was closed and is not to those that stand in the form now.
SavedValidated == \A s \in saved : s.keys \in validated \cup {"profile"}

\* A new account does not get a name that the form knew to be taken, although the
\* errors of the name are cleared with those of the keys.
NewNamesFree == \A s \in saved : s.new => s.name \notin Accounts

\* A button that spins has a call behind it, whichever answers came to the form.
SpinsForCall ==
  /\ isValidationInProgress => validation # NoCall
  /\ isSaveInProgress => addition # NoCall \/ update.phase = "sent"
=============================================================================
