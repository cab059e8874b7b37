------------------------------- MODULE EventFeed -------------------------------
(***************************************************************************)
(* The events in the store of the web interface: reducers/event.reducer.ts *)
(* with its effect, the request of the frame (dlm.component.ts), and those *)
(* of the overview and the page of notifications.  An event's id is the    *)
(* time it happened at.                                                    *)
(*                                                                         *)
(* The server asks every Beacon for its last events, and appends what they *)
(* answer in the order of the Beacons; those that do not answer are left   *)
(* out, and the call fails if none does.  mergeMap keeps every call, so    *)
(* that answers are reduced in any order.  The reducer puts what is newer  *)
(* than headId before the events it has, what is older than tailId after   *)
(* them, and drops the rest.                                               *)
(***************************************************************************)
EXTENDS Integers, Sequences, SequencesExt, SortedSeqs

CONSTANTS BeaconsCount,  \* the Beacons are numbered in the order the server asks them
          EventsBefore,  \* events that happened before the start
          MaxEvents,   \* bound: events that happen later
          PageSize,    \* what a Beacon answers when no number is asked for
          MaxPolls     \* bound: calls that wait for their answers

EventFeedConstants ==
  /\ {BeaconsCount, PageSize} \subseteq Nat \ {0}
  /\ {EventsBefore, MaxEvents, MaxPolls} \subseteq Nat

BeaconIds == 1..BeaconsCount

NumResults == 1000

VARIABLES happened,  \* the Beacon of each event, in the order of time
          entities, headId, tailId,  \* the store
          calls,     \* calls for events, in the order they were made
          asked      \* the page asked for all events

vars == <<happened, entities, headId, tailId, calls, asked>>

Call(n) == [numResults |-> n, phase |-> "sent", events |-> <<>>]

\* ngOnInit of the frame.
Init ==
  /\ happened \in [1..EventsBefore -> BeaconIds]
  /\ entities = <<>> /\ headId = 0 /\ tailId = 0
  /\ calls = <<Call(PageSize)>>
  /\ asked = FALSE

Happen(b) ==
  /\ Len(happened) < EventsBefore + MaxEvents
  /\ happened' = Append(happened, b)
  /\ UNCHANGED <<entities, headId, tailId, calls, asked>>

\* The page that shows events asks for all there are.
LoadAllEvents ==
  /\ ~asked /\ asked' = TRUE
  /\ calls' = Append(calls, Call(NumResults))
  /\ UNCHANGED <<happened, entities, headId, tailId>>

\* initPolling of the overview: the interval does not wait for answers.
Poll ==
  /\ asked /\ Len(calls) < MaxPolls
  /\ calls' = Append(calls, Call(PageSize))
  /\ UNCHANGED <<happened, entities, headId, tailId, asked>>

-----------------------------------------------------------------------------
(* The server. *)

\* The later events of the same Beacon.
After(i) == {j \in DOMAIN happened : happened[j] = happened[i] /\ j > i}

\* The last n events of each Beacon that answers, the newest first.
Answer(n, answering) ==
  LET told == {i \in DOMAIN happened : happened[i] \in answering /\ Cardinality(After(i)) < n}
  IN InOrder([i \in told |-> {j \in told : happened[j] < happened[i] \/ j \in After(i)}])

Serve(i, answering) ==
  /\ calls[i].phase = "sent"
  /\ calls' = [calls EXCEPT ![i].phase = "answered",
                            ![i].events = Answer(calls[i].numResults, answering)]
  /\ UNCHANGED <<happened, entities, headId, tailId, asked>>

Fail(i) ==
  /\ calls' = RemoveAt(calls, i)
  /\ UNCHANGED <<happened, entities, headId, tailId, asked>>

-----------------------------------------------------------------------------
(* loadEventsSuccess. *)

SinceHead(events) == Those(events, {id \in Nat : id >= headId})
NoneNewer(events) == <<>>
Newer(events) == Those(events, {id \in Nat : id > headId})
Older(events) == Those(events, {id \in Nat : id < tailId})

FirstId(events, id) == IF events = <<>> THEN id ELSE Head(events)
LastId(events, id) == IF events = <<>> THEN id ELSE Last(events)

LoadEventsSuccess(events) ==
  LET empty == headId = 0 /\ tailId = 0
      head == IF empty THEN events ELSE Newer(events)
      tail == IF empty THEN events ELSE Older(events)
  IN /\ entities' = IF empty THEN events ELSE head \o entities \o tail
     /\ headId' = FirstId(head, headId) /\ tailId' = LastId(tail, tailId)

Deliver(i) ==
  /\ calls[i].phase = "answered" /\ calls' = RemoveAt(calls, i)
  /\ LoadEventsSuccess(calls[i].events)
  /\ UNCHANGED <<happened, asked>>

-----------------------------------------------------------------------------

Next ==
  \/ \E b \in BeaconIds : Happen(b)
  \/ LoadAllEvents \/ Poll
  \/ \E i \in DOMAIN calls :
       Deliver(i) \/ Fail(i) \/ \E answering \in SUBSET BeaconIds \ {{}} : Serve(i, answering)

Spec == Init /\ [][Next]_vars

\* The interval runs on; of the calls made again and again some are answered by
\* every Beacon, and the answer reaches the page.
ServeAll == \E i \in DOMAIN calls : Serve(i, BeaconIds)
DeliverAny == \E i \in DOMAIN calls : Deliver(i)
Fairness == WF_vars(Poll) /\ SF_vars(ServeAll) /\ SF_vars(DeliverAny)

FairSpec == Spec /\ Fairness

-----------------------------------------------------------------------------
(* Properties. *)

TypeOK ==
  /\ happened \in Seq(BeaconIds) /\ Range(entities) \subseteq 1..Len(happened)
  /\ headId \in 0..Len(happened) /\ tailId \in 0..Len(happened)
  /\ \A i \in DOMAIN calls : calls[i].phase \in {"sent", "answered"}
  /\ asked \in BOOLEAN

\* With one Beacon every event stands in the list once, the newest first, as the
\* frame takes it (dlm.component.ts:134), however late or empty answers come.
NewestFirst ==
  BeaconsCount = 1 => \A i \in 1..Len(entities) - 1 : entities[i] > entities[i + 1]

\* The last event is shown.
LastShown == Len(happened) \in Range(entities)
=============================================================================
