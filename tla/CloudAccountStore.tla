--------------------------- MODULE CloudAccountStore ---------------------------
(***************************************************************************)
(* What the DLM keystore promises to the rest of the backend: one set of   *)
(* cloud accounts, at most one for each account id, on which an add, an    *)
(* update or a delete acts in a single step, and whose content may be      *)
(* replaced as a whole when the keystore file is reloaded.  DlmKeyStore    *)
(* implements it when its writers do not overlap and its reads succeed;    *)
(* in general a step of it may be an Overwrite instead.                    *)
(***************************************************************************)
EXTENDS Naturals

CONSTANTS AccountIds,   \* the names users give to cloud accounts
          Secrets       \* what an account's credentials can be

VARIABLES accounts,     \* the cloud accounts DLM knows
          reloads       \* how often the keystore file was replaced under DLM

vars == <<accounts, reloads>>

Account == [id : AccountIds, version : Nat, secret : Secrets]

\* No two accounts of the set S have the same id.
UniqueIn(S) == \A a, b \in S : a.id = b.id => a = b

Others(S, i) == {a \in S : a.id # i}

WithId(S, i) == {a \in S : a.id = i}

Init == /\ accounts \subseteq Account /\ UniqueIn(accounts)
        /\ reloads = 0

\* T is what an add, an update or a delete makes of S.
Adds(S, T) == \E a \in T : a \in Account /\ WithId(S, a.id) = {} /\ T = S \cup {a}

\* The new credentials replace the old ones, one version later.
Updates(S, T) ==
  \E old \in S, s \in Secrets :
     T = Others(S, old.id) \cup {[id |-> old.id, version |-> old.version + 1, secret |-> s]}

Deletes(S, T) == \E old \in S : T = Others(S, old.id)

Changes(S, T) == Adds(S, T) \/ Updates(S, T) \/ Deletes(S, T)

Change == Changes(accounts, accounts') /\ UNCHANGED reloads

\* The keystore file was replaced under DLM and read again.
Replace == /\ accounts' \subseteq Account /\ UniqueIn(accounts')
           /\ reloads' = reloads + 1

Next == Change \/ Replace

\* A change is made to an earlier content S, from which the present one differs in
\* accounts of B only: what happened to these meanwhile is lost, and nothing else.
Overwrite(S, B) ==
  /\ B # {} /\ \A i \in AccountIds \ B : WithId(S, i) = WithId(accounts, i)
  /\ Changes(S, accounts') /\ UNCHANGED reloads

Spec == Init /\ [][Next]_vars
=============================================================================
