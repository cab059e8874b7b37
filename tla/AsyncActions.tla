----------------------------- MODULE AsyncActions -----------------------------
(***************************************************************************)
(* The requests of the web interface: services/async-actions.service.ts,   *)
(* reducers/progress.reducer.ts and the effects that call the backend.     *)
(* A component dispatches a START action.  The progress reducer notes under*)
(* the request's id that it is busy, and an effect calls the backend.  The *)
(* effects of nearly all types use switchMap: a newer request of the type  *)
(* cancels the call of the older one.  The SUCCESS or FAILURE action of a  *)
(* call completes every progress entity of its type, so the requests whose *)
(* calls were cancelled are completed as well.  An observer that dispatch  *)
(* returned is told once and then has the entity removed.                  *)
(*                                                                         *)
(* Actions pass one at a time through the queue of the store.  An action   *)
(* dispatched while one is reduced waits its turn; responses arrive when   *)
(* the queue is empty.                                                     *)
(***************************************************************************)
EXTENDS Naturals, Sequences

CONSTANTS MaxRequests,  \* bound: requests that are made
          Types,        \* types of requests, named by originalActionName
          Merged,       \* the types whose effects use mergeMap (events)
          Deletions     \* the types that may answer FAILURE and then SUCCESS

AsyncConstants ==
  MaxRequests \in Nat /\ Merged \subseteq Types /\ Deletions \subseteq Types

\* Requests are numbered in the order of their dispatch.
Requests == 1..MaxRequests

\* "dispatch": by AsyncActionsService.dispatch, with a new id and an observer;
\* "watch": by store.dispatch with an id whose entity a component shows, and
\* keeps; "plain": by store.dispatch without an id, so without an entity.
Hows == {"dispatch", "watch", "plain"}

VARIABLES made,      \* number of requests made so far
          kind,      \* the type of each
          how,       \* how it was dispatched
          queue,     \* actions waiting to be reduced
          entities,  \* progress of requests, by id
          calls,     \* requests whose call to the backend is in progress
          emits,     \* actions that an effect has still to emit for a response
          observer,  \* what became of the observer of each request
          told       \* the request whose outcome each observer was told

vars == <<made, kind, how, queue, entities, calls, emits, observer, told>>

Made == 1..made

Start(r) == [name |-> "start", of |-> r, ids |-> {r}]
Success(r) == [name |-> "success", of |-> r, ids |-> {r}]
Failure(r) == [name |-> "failure", of |-> r, ids |-> {r}]
\* One removal per observer; removals that follow one another are put together.
Removal(R) == [name |-> "remove", of |-> 0, ids |-> R]

Completes(a) == a.name \in {"success", "failure"}

Init ==
  /\ made = 0
  /\ kind = <<>> /\ how = <<>>
  /\ queue = <<>>
  /\ entities = <<>>
  /\ calls = {}
  /\ emits = <<>>
  /\ observer = <<>> /\ told = <<>>

-----------------------------------------------------------------------------
(* Components. *)

\* A component makes a request, on an event or while an action is reduced.
\* Events are requested without observers.
Dispatch(t, w) ==
  /\ made < MaxRequests
  /\ w = "dispatch" => t \notin Merged
  /\ made' = made + 1
  /\ kind' = Append(kind, t)
  /\ how' = Append(how, w)
  /\ queue' = Append(queue, Start(made + 1))
  /\ observer' = Append(observer, IF w = "dispatch" THEN "waiting" ELSE "none")
  /\ told' = Append(told, 0)
  /\ UNCHANGED <<entities, calls, emits>>

\* A component that is left unsubscribes.
Unsubscribe(r) ==
  /\ observer[r] = "waiting"
  /\ observer' = [observer EXCEPT ![r] = "gone"]
  /\ UNCHANGED <<made, kind, how, queue, entities, calls, emits, told>>

-----------------------------------------------------------------------------
(* The progress reducer. *)

Busy == [busy |-> TRUE, of |-> 0]
Done(r) == [busy |-> FALSE, of |-> r]

With(R, e) == [s \in DOMAIN entities \cup R |-> IF s \in R THEN e ELSE entities[s]]

\* The entities that a completed action completes: all those of its type.
OnlyOwn(r) == {s \in DOMAIN entities : s = r}
AllTypes(r) == DOMAIN entities
OfType(r) == {s \in DOMAIN entities : kind[s] = kind[r]}

HasId(r) == how[r] # "plain"

CompletedAny(r) == IF OfType(r) # {} THEN With(OfType(r), Done(r)) ELSE With({r}, Done(r))
Completed(r) ==
  IF OfType(r) # {} THEN With(OfType(r), Done(r))
  ELSE IF HasId(r) THEN With({r}, Done(r))
  ELSE entities

Reduced(a) ==
  CASE a.name = "start"  -> IF HasId(a.of) THEN With({a.of}, Busy) ELSE entities
    [] a.name = "remove" -> [s \in DOMAIN entities \ a.ids |-> entities[s]]
    [] Completes(a)      -> Completed(a.of)

-----------------------------------------------------------------------------
(* Effects. *)

\* The calls that a START action of r cancels.
NoneCancelled(r) == {}
AllCancelled(r) == Made
Cancelled(r) == IF kind[r] \in Merged THEN {} ELSE {s \in Made : kind[s] = kind[r]}

\* An effect sees an action after the reducer.  What it has still to emit is for one response.
Effects(a) ==
  IF a.name = "start"
  THEN /\ calls' = (calls \ Cancelled(a.of)) \cup {a.of}
       /\ emits' = IF \E i \in DOMAIN emits : emits[i].of \in Cancelled(a.of) THEN <<>> ELSE emits
  ELSE UNCHANGED <<calls, emits>>

\* onComplete, take(1): the observers that the reduced state completes, and
\* what they dispatch then.
Finished(r) == observer[r] = "waiting" /\ r \in DOMAIN entities' /\ ~entities'[r].busy

NoRemovals(R) == <<>>
Removals(R) == IF R = {} THEN <<>> ELSE <<Removal(R)>>

Reduce ==
  /\ queue # <<>>
  /\ LET a == Head(queue)
         R == {r \in Made : Finished(r)}
     IN /\ entities' = Reduced(a)
        /\ observer' = [r \in Made |-> IF r \in R THEN "told" ELSE observer[r]]
        /\ told' = [r \in Made |-> IF r \in R THEN entities'[r].of ELSE told[r]]
        /\ queue' = Tail(queue) \o Removals(R)
        /\ Effects(a)
  /\ UNCHANGED <<made, kind, how>>

Idle == queue = <<>> /\ emits = <<>>

\* A response arrives, and the effect emits its first action.
Respond(r) ==
  /\ Idle /\ r \in calls
  /\ calls' = calls \ {r}
  /\ \/ queue' = <<Success(r)>> /\ emits' = <<>>
     \/ queue' = <<Failure(r)>> /\ emits' = <<>>
     \/ kind[r] \in Deletions /\ queue' = <<Failure(r)>> /\ emits' = <<Success(r)>>
  /\ UNCHANGED <<made, kind, how, entities, observer, told>>

\* Once the first action is dealt with, the effect goes on.
Emit ==
  /\ queue = <<>> /\ emits # <<>>
  /\ queue' = <<Head(emits)>> /\ emits' = Tail(emits)
  /\ UNCHANGED <<made, kind, how, entities, calls, observer, told>>

-----------------------------------------------------------------------------

Next ==
  \/ \E t \in Types, w \in Hows : Dispatch(t, w)
  \/ \E r \in Made : Unsubscribe(r) \/ Respond(r)
  \/ Reduce
  \/ Emit

Spec == Init /\ [][Next]_vars

\* The browser works off its queue, and every call to the backend ends, with a
\* response or an error, unless it is cancelled.
Fairness ==
  /\ WF_vars(Reduce) /\ WF_vars(Emit)
  /\ \A r \in Requests : WF_vars(r \in Made /\ Respond(r))

FairSpec == Spec /\ Fairness

-----------------------------------------------------------------------------
(* Properties. *)

Actions ==
  [name : {"start", "success", "failure"}, of : Requests, ids : SUBSET Requests]
    \cup [name : {"remove"}, of : {0}, ids : SUBSET Requests]

TypeOK ==
  /\ made \in 0..MaxRequests
  /\ kind \in [Made -> Types] /\ how \in [Made -> Hows]
  /\ \A i \in DOMAIN queue : queue[i] \in Actions
  /\ \A i \in DOMAIN emits : emits[i] \in Actions
  /\ DOMAIN entities \subseteq {r \in Made : how[r] # "plain"}
  /\ \A r \in DOMAIN entities : entities[r] \in {Busy} \cup {Done(s) : s \in Made}
  /\ calls \subseteq Made
  /\ observer \in [Made -> {"none", "waiting", "told", "gone"}]
  /\ told \in [Made -> 0..made]

Queued(r) == \E i \in DOMAIN queue : queue[i].of = r /\ Completes(queue[i])

\* A progress that is shown as busy has a call of its type behind it, its own or
\* that of a newer request: nothing spins for ever.
BusyHasCall ==
  \A r \in DOMAIN entities : entities[r].busy
     => \E s \in Made : s >= r /\ kind[s] = kind[r] /\ (s \in calls \/ Queued(s))

\* While the call of a request is in progress its progress is shown as busy,
\* events aside: no other completion of the type takes it for finished.
CallKeepsBusy ==
  \A r \in calls : HasId(r) /\ kind[r] \notin Merged
     => r \in DOMAIN entities /\ entities[r].busy

\* An observer is told the outcome of its own request or of a newer one of the
\* same type, never that of a request made before its own.
FreshOutcome ==
  \A r \in Made : observer[r] = "told" => told[r] >= r /\ kind[told[r]] = kind[r]

\* When nothing is going on, the entities left are those that components keep,
\* those whose observers unsubscribed, and those of deletions that answered
\* twice: dispatch leaves none behind.
NothingLeft ==
  Idle /\ calls = {}
     => \A r \in DOMAIN entities :
          how[r] = "watch" \/ observer[r] = "gone" \/ kind[r] \in Deletions

\* No observer that stays waits to be told.
AllTold == \A r \in Made : observer[r] # "waiting"
=============================================================================
