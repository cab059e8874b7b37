-------------------------------- MODULE Relays --------------------------------
(***************************************************************************)
(* Requests that the backend passes on to one Beacon: those about a        *)
(* policy, its instances, logs, users, files, databases and credentials.   *)
(* Each has its method in services/BeaconService.scala, which looks the    *)
(* Beacon up and calls it once, and one in a client of Beacon, which makes *)
(* a result or an error with a code of what comes back (WebService.scala). *)
(*                                                                         *)
(* Beacon is not part of the source: it may do what it is asked and answer *)
(* otherwise, or not at all, and a server between may answer in its place, *)
(* with a body that is not JSON or none.                                   *)
(***************************************************************************)
EXTENDS Naturals

CONSTANTS Statuses   \* that come back, other than 200

RelaysConstants == Statuses \subseteq 300..599

\* part: a part of the body is read, which is an exception where there is none.
Route(name, part, changes) == [name |-> name, part |-> part, changes |-> changes]
PolicyRoutes == {Route("policy", TRUE, FALSE)}
InstanceRoutes ==
  {Route(n, FALSE, FALSE) : n \in {"instances of a policy", "instances"}}
    \cup {Route(n, FALSE, TRUE) : n \in {"abort", "rerun"}}
LogRoutes == {Route("logs", FALSE, FALSE)}
UserRoutes == {Route("user", FALSE, FALSE)}
BrowseRoutes == {Route(n, FALSE, FALSE) : n \in {"files", "databases", "tables"}}
CredRoutes == {Route("credential", FALSE, FALSE)}
Routes == PolicyRoutes \cup InstanceRoutes \cup LogRoutes \cup UserRoutes \cup BrowseRoutes \cup CredRoutes

\* What a body is: what is expected, the report of an error, another value, or not JSON.
Bodies == {"expected", "report", "other", "unreadable"}

VARIABLES route, came,    \* the request, and what came back from Beacon
          done,           \* how often Beacon did what it was asked
          given           \* the answer
relayVars == <<route, came, done, given>>

None == [name |-> "none", part |-> FALSE, changes |-> FALSE]
Nothing == [status |-> 0, body |-> "unreadable"]
Waiting == [phase |-> "waiting", code |-> 0, reported |-> FALSE]
Never == [phase |-> "never", code |-> 0, reported |-> FALSE]

Init == route = None /\ came = Nothing /\ done = 0 /\ given = Waiting

Request(r) == route = None /\ route' = r /\ UNCHANGED <<came, done, given>>

AtWork == route # None /\ given = Waiting

-----------------------------------------------------------------------------

Good == [phase |-> "ok", code |-> 200, reported |-> FALSE]
Bad(code, reported) == [phase |-> "error", code |-> code, reported |-> reported]

INTERNAL_SERVER_ERROR == 500
BAD_GATEWAY == 502
SERVICE_UNAVAILABLE == 503

\* recoverWith: whatever is thrown.
Unreached == Bad(SERVICE_UNAVAILABLE, TRUE)

\* Takes any JSON for an answer.
AcceptedUnread(part, body) == IF body = "unreadable" THEN Unreached ELSE Good

\* mapToBeaconHdfsFileResponse and its kind.
Accepted(part, body) ==
  CASE body = "expected" -> Good
    [] body = "unreadable" -> Unreached
    [] OTHER -> IF part THEN Unreached ELSE Bad(BAD_GATEWAY, TRUE)

\* extractError: the value made for an empty body is not used, and reading it throws.
Refused(status, body) == IF body = "unreadable" THEN Unreached ELSE Bad(status, body = "report")

Result(r, res) ==
  IF res.status = 200 THEN Accepted(r.part, res.body) ELSE Refused(res.status, res.body)

\* getBeaconService: a URL, an error, or an exception nobody handles.
LookupFails ==
  /\ AtWork /\ given' \in {Bad(INTERNAL_SERVER_ERROR, TRUE), Never}
  /\ UNCHANGED <<route, came, done>>

CallBeacon ==
  /\ AtWork /\ UNCHANGED route
  /\ done' \in IF route.changes THEN {0, 1} ELSE {0}
  /\ \/ \E res \in [status : Statuses \cup {200}, body : Bodies] :
          /\ (res.status = 200 /\ res.body = "expected" /\ route.changes) => done' = 1
          /\ came' = res /\ given' = Result(route, res)
     \/ came' = Nothing /\ given' = Unreached

Next == LookupFails \/ CallBeacon \/ \E r \in Routes : Request(r)

Spec == Init /\ [][Next]_relayVars

-----------------------------------------------------------------------------
(* Properties. *)

TypeOK ==
  /\ route \in Routes \cup {None} /\ came.status \in Statuses \cup {0, 200} /\ done \in 0..1
  /\ given.phase \in {"waiting", "ok", "error", "never"}

\* An answer is good only if Beacon said so, and then what was asked is done; the code of
\* an error is Beacon's own if it came with JSON, never 200, and tells a server that was
\* not reached from one that was not understood.
RelaysFit ==
  /\ given.phase = "ok" => came = [status |-> 200, body |-> "expected"] /\ (route.changes => done = 1)
  /\ given.phase = "error" /\ came.status \notin {0, 200} /\ came.body # "unreadable" =>
       given.code = came.status
  /\ given.phase = "error" => given.code \in Statuses \cup {500, 502, 503}
  /\ given.phase = "error" /\ given.code = BAD_GATEWAY /\ BAD_GATEWAY \notin Statuses =>
       came.status = 200 /\ came.body # "unreadable"
  /\ given.phase = "never" => came = Nothing /\ done = 0
=============================================================================
