----------------------------- MODULE PolicySubmit -----------------------------
(***************************************************************************)
(* services/BeaconService.scala, createPolicy, testPolicy and updatePolicy *)
(* with the controller and the client of Beacon below.  A policy that      *)
(* needs a cloud credential is checked, if it copies files, against the    *)
(* cloud policies of all Beacons; then the definition of its cluster and   *)
(* its credential are given to its Beacon, if this did not have them when  *)
(* it was asked, and the policy is submitted.  Requests interleave at      *)
(* every call, and each call may fail, possibly after it took effect; one  *)
(* that looks up where a Beacon is, or the services of a cluster, may also *)
(* never end.  Meanwhile a credential may be deleted.                      *)
(*                                                                         *)
(* Beacon servers are not part of the source.  They are taken to refuse a  *)
(* definition, a credential or the name of a policy that they have.  Of a  *)
(* path the names between its slashes count; the root of a cluster, which  *)
(* the check takes to lie above every cloud path, is left out.             *)
(***************************************************************************)
EXTENDS Naturals, Sequences, SequencesExt, FiniteSets, FiniteSetsExt

CONSTANTS Handlers,      \* requests the backend can be serving at a time
          Beacons, Paths, Creds,
          Aws,           \* credentials with an account of the one provider that is supported
          Requests,      \* what users request
          MaxRequests,   \* bound: requests that are made
          NumResults     \* policies that the check asks for

Kinds == {"files to cloud", "needs a credential", "other"}

Request == [op : {"create", "test", "delete"}, at : Beacons, name : STRING, kind : Kinds,
            target : Paths \cup {<<>>}, cred : Creds]

PolicySubmitConstants ==
  /\ Aws \subseteq Creds /\ \A r \in Requests : r \in Request
  /\ {MaxRequests, NumResults} \subseteq Nat

VARIABLES policies,   \* of all Beacons, with what is remembered of their submission
          creds, defs,  \* of each Beacon: credentials, and whether its own definition is there
          work,       \* what each handler is at
          answer,     \* the answers given in the last step
          received    \* number of requests made

stores == <<policies, creds, defs>>
vars == <<stores, work, answer, received>>

\* Between requests, or after one that never is answered.
Idle == [phase |-> "idle"]
Hung == [phase |-> "hung"]
Resting == {Idle, Hung}

\* hasCred: the Beacon had the credential; heard: policies it was told of, by all
\* Beacons but silent; blind: a policy may have been kept from it; disturbed: other
\* requests have changed something since it came; lapsed: one deleted its credential.
Start(r) ==
  [phase |-> IF r.op = "delete" THEN "update" ELSE IF r.kind = "other" THEN "submit" ELSE "lookup",
   req |-> r, hasCred |-> FALSE, heard |-> {}, asked |-> {}, silent |-> {}, blind |-> FALSE,
   failed |-> FALSE, disturbed |-> FALSE, lapsed |-> FALSE]

Init ==
  /\ policies = {} /\ creds = [b \in Beacons |-> {}] /\ defs = {}
  /\ work = [h \in Handlers |-> Idle] /\ answer = {} /\ received = 0

At(h, phase) == work[h].phase = phase

Receive(h, r) ==
  /\ work[h] \in Resting /\ received < MaxRequests /\ received' = received + 1
  /\ work' = [work EXCEPT ![h] = Start(r)] /\ answer' = {}
  /\ UNCHANGED stores

-----------------------------------------------------------------------------
(* Steps of a handler. *)

Go(h, w) == work' = [work EXCEPT ![h] = w] /\ answer' = {} /\ UNCHANGED <<stores, received>>

\* The other handlers at work, when a store is changed.
Others(h, w) ==
  [k \in Handlers |-> IF k = h THEN w
                      ELSE IF work[k] \in Resting THEN work[k]
                      ELSE [work[k] EXCEPT !.disturbed = TRUE]]

\* p.success
Answer(h, outcome, failed) ==
  answer' = {[req |-> work[h].req, outcome |-> outcome,
              failed |-> failed \/ work[h].failed, disturbed |-> work[h].disturbed]}

Refuse(h) == /\ work' = [work EXCEPT ![h] = Idle] /\ Answer(h, "error", FALSE)
             /\ UNCHANGED <<stores, received>>

\* Once Beacons are asked for their policies, each answers for itself.
Listing(h) == At(h, "list") /\ work[h].asked # Beacons

\* Whichever call it was.
Fail(h) ==
  /\ work[h] \notin Resting /\ ~At(h, "check") /\ ~Listing(h)
  /\ work' = [work EXCEPT ![h] = Idle] /\ Answer(h, "error", TRUE)
  /\ UNCHANGED <<stores, received>>

\* getBeaconService, which comes first and before a credential is created,
\* getBeaconClusters before Beacons list policies, and what createClusterDefinition
\* needs to know: nobody handles an exception in these.
NeverAnswered(h) ==
  /\ \/ work[h].phase \in {"lookup", "update", "submit definition", "push"}
     \/ At(h, "list") /\ ~Listing(h)
     \/ At(h, "submit") /\ work[h].req.kind = "other"
  /\ Go(h, Hung)

\* A call that changes a store succeeds, and w is next, or it fails nevertheless.
Changed(h, w) ==
  \/ work' = Others(h, w) /\ answer' = {}
  \/ work' = Others(h, Idle) /\ Answer(h, "error", TRUE)

\* getCloudCredByName
Lookup(h) ==
  /\ At(h, "lookup")
  /\ LET r == work[h].req IN
     Go(h, [work[h] EXCEPT !.phase = IF r.kind = "files to cloud" THEN "list" ELSE "define",
                           !.hasCred = r.cred \in creds[r.at],
                           !.asked = Beacons])

\* The policies of S that fit on a page.
PagesOf(S) == kSubset(IF Cardinality(S) < NumResults THEN Cardinality(S) ELSE NumResults, S)
Of(b) == {p \in policies : p.at = b}

\* getAllPolicies, of one Beacon; it goes on with what the others answer.
List(h) ==
  /\ At(h, "list")
  /\ \E b \in work[h].asked :
       LET w == [work[h] EXCEPT !.asked = @ \ {b},
                                !.phase = IF work[h].asked = {b} THEN "check" ELSE "list"]
       IN \/ \E page \in PagesOf(Of(b)) :
               Go(h, [w EXCEPT !.heard = @ \cup page, !.blind = @ \/ page # Of(b)])
          \/ Go(h, [w EXCEPT !.silent = @ \cup {b}, !.blind = TRUE])

\* One path is the other or lies below it.
Comparable(s, t) == IsPrefix(s, t) \/ IsPrefix(t, s)

SamePaths(r, S) == {p \in S : p.kind = "files to cloud" /\ p.target = r.target}
Conflicts(r, S) ==
  {p \in S : p.kind = "files to cloud" /\ Comparable(p.target, r.target)}

\* What all Beacons answered fits on one page again, or it is cut.
Checked(h) ==
  \E page \in PagesOf(work[h].heard) :
    IF Conflicts(work[h].req, page) # {} THEN Refuse(h)
    ELSE Go(h, [work[h] EXCEPT !.phase = "define", !.heard = page, !.silent = {},
                               !.blind = @ \/ page # work[h].heard])

CheckForgotten(h) == At(h, "check") /\ work[h].silent # Beacons /\ Checked(h)

\* validateAndSubmitCloudReplicationPolicy
Check(h) ==
  /\ At(h, "check")
  /\ IF work[h].silent # Beacons THEN Checked(h)
     ELSE /\ work' = [work EXCEPT ![h] = Idle] /\ Answer(h, "error", TRUE)
          /\ UNCHANGED <<stores, received>>

DefineAlways(h) == At(h, "define") /\ Go(h, [work[h] EXCEPT !.phase = "submit definition"])

\* isLocalClusterDefSubmitted
Define(h) ==
  /\ At(h, "define")
  /\ Go(h, [work[h] EXCEPT
              !.phase = IF work[h].req.at \in defs THEN "account" ELSE "submit definition"])

\* createClusterDefinition
SubmitDefinition(h) ==
  /\ At(h, "submit definition")
  /\ LET b == work[h].req.at IN
     IF b \in defs THEN Refuse(h)
     ELSE /\ defs' = defs \cup {b} /\ Changed(h, [work[h] EXCEPT !.phase = "account"])
          /\ UNCHANGED <<policies, creds, received>>

AccountForgotten(h) ==
  /\ At(h, "account")
  /\ IF work[h].hasCred \/ work[h].req.cred \in Aws THEN Go(h, [work[h] EXCEPT !.phase = "submit"])
     ELSE Refuse(h)

\* createReplicationPolicy, testReplicationPolicy: by what the lookup said.
Account(h) ==
  /\ At(h, "account")
  /\ IF work[h].hasCred THEN Go(h, [work[h] EXCEPT !.phase = "submit"])
     ELSE IF work[h].req.cred \in Aws THEN Go(h, [work[h] EXCEPT !.phase = "push"])
     ELSE Refuse(h)

\* createCloudCred
Push(h) ==
  /\ At(h, "push")
  /\ LET r == work[h].req IN
     IF r.cred \in creds[r.at] THEN Refuse(h)
     ELSE /\ creds' = [creds EXCEPT ![r.at] = @ \cup {r.cred}]
          /\ Changed(h, [work[h] EXCEPT !.phase = "submit"])
          /\ UNCHANGED <<policies, defs, received>>

Named(b, name) == {p \in policies : p.at = b /\ p.name = name}

Done(h) == /\ work' = Others(h, Idle) /\ Answer(h, "ok", FALSE) /\ UNCHANGED received
           /\ UNCHANGED <<creds, defs>>
DoneUnheard(h) == /\ work' = Others(h, Idle) /\ Answer(h, "error", TRUE) /\ UNCHANGED received
                  /\ UNCHANGED <<creds, defs>>

\* submitAndSchedulePolicy; a test submits nothing.
Submit(h) ==
  /\ At(h, "submit")
  /\ LET r == work[h].req
         p == [at |-> r.at, name |-> r.name, kind |-> r.kind, target |-> r.target, cred |-> r.cred,
               nth |-> received, sure |-> ~work[h].blind /\ ~work[h].disturbed,
               lapsed |-> work[h].lapsed, equipped |-> r.cred \in creds[r.at] /\ r.at \in defs]
     IN IF r.op = "test"
        THEN /\ work' = [work EXCEPT ![h] = Idle] /\ Answer(h, "ok", FALSE)
             /\ UNCHANGED <<stores, received>>
        ELSE IF Named(r.at, r.name) # {} THEN Refuse(h)
        ELSE policies' = policies \cup {p} /\ (Done(h) \/ DoneUnheard(h))

\* updatePolicy with DELETE; SUSPEND and RESUME change nothing that counts here.
Update(h) ==
  /\ At(h, "update")
  /\ LET r == work[h].req IN
     IF Named(r.at, r.name) = {} THEN Refuse(h)
     ELSE policies' = policies \ Named(r.at, r.name) /\ (Done(h) \/ DoneUnheard(h))

Step(h) ==
  \/ Lookup(h) \/ List(h) \/ Check(h) \/ Define(h) \/ SubmitDefinition(h) \/ Account(h)
  \/ Push(h) \/ Submit(h) \/ Update(h)

\* deleteCloudCred, for a request that deletes the credential, and is one of MaxRequests.
Withdraw(b, c) ==
  /\ received < MaxRequests /\ received' = received + 1
  /\ c \in creds[b] /\ creds' = [creds EXCEPT ![b] = @ \ {c}] /\ answer' = {}
  /\ work' = [k \in Handlers |->
                IF work[k] \in Resting THEN work[k]
                ELSE [work[k] EXCEPT !.disturbed = TRUE,
                                     !.lapsed = @ \/ (work[k].req.at = b /\ work[k].req.cred = c)]]
  /\ UNCHANGED <<policies, defs>>

Proceed == \E h \in Handlers : Step(h)

Next ==
  \/ Proceed
  \/ \E h \in Handlers : Fail(h) \/ NeverAnswered(h) \/ \E r \in Requests : Receive(h, r)
  \/ \E b \in Beacons, c \in Creds : Withdraw(b, c)

Spec == Init /\ [][Next]_vars /\ WF_vars(Proceed)

-----------------------------------------------------------------------------
(* Properties. *)

Policy == [at : Beacons, name : STRING, kind : Kinds, target : Paths \cup {<<>>}, cred : Creds,
           nth : 1..MaxRequests, sure : BOOLEAN, lapsed : BOOLEAN, equipped : BOOLEAN]

TypeOK ==
  /\ \A p \in policies : p \in Policy
  /\ creds \in [Beacons -> SUBSET Creds] /\ defs \subseteq Beacons
  /\ \A h \in Handlers : work[h] \notin Resting => work[h].req \in Request
  /\ received \in 0..MaxRequests

\* Two policies do not write below one another, unless the later one was submitted
\* while another request was at work, or its check did not see all policies: a Beacon
\* did not answer, or there are more than NumResults of all Beacons together.
TargetsApart ==
  \A p, q \in policies :
    p.kind = "files to cloud" /\ q.kind = "files to cloud" /\ p.nth < q.nth /\ q.sure
      => ~Comparable(p.target, q.target)

\* A policy that needs a credential had it on its Beacon when it was submitted, and the
\* definition of its cluster, whoever brought them there, unless the credential was
\* deleted after it had been found or brought.
PolicyEquipped == \A p \in policies : p.kind # "other" /\ ~p.lapsed => p.equipped

\* A request that is refused, without a failed call and without other requests
\* meanwhile, is one that should be.
RefusedForReason ==
  \A m \in answer : m.outcome = "error" /\ ~m.failed /\ ~m.disturbed =>
    \/ m.req.op = "delete" /\ Named(m.req.at, m.req.name) = {}
    \/ m.req.op = "create" /\ Named(m.req.at, m.req.name) # {}
    \/ m.req.kind = "files to cloud" /\ Conflicts(m.req, policies) # {}
    \/ m.req.kind # "other" /\ m.req.cred \notin Aws \cup creds[m.req.at]

\* Every request is answered, unless one of its lookups never ends.
RequestsEnd == \A h \in Handlers : (work[h] \notin Resting) ~> (work[h] \in Resting)
=============================================================================
