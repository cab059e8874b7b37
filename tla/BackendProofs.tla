----------------------------- MODULE BackendProofs -----------------------------
(***************************************************************************)
(* Proofs about Backend, for any handlers, Beacons, clusters, accounts and *)
(* bounds that satisfy BackendConstants; what is requested, the policies   *)
(* there may be and the configurations of clusters are those Backend gives.*)
(*                                                                         *)
(* Every part has an inductive invariant of its own, which holds whichever *)
(* part is at work:                                                        *)
(*   SubmitInv   while nothing else changed, what a request was told of the*)
(*               Beacons is so; what it needs is there when it submits, but*)
(*               for a credential deleted meanwhile; and the phases it goes*)
(*               through are those of its kind                             *)
(*   RelayInv    an answer fits what came back, or nothing came            *)
(*   StorageInv  while nothing goes wrong, an account that is waited for no*)
(*               more has a status exactly if it should                    *)
(*   LookupInv   the tables read are those there are, the configurations   *)
(*               read are the cluster's, if nothing changed meanwhile      *)
(*   ListTypes   the phases of the answers                                 *)
(*   ListInv     a Beacon answers from what is there, and the reply is made*)
(*               last; what it says is proved at that step                 *)
(*   FilesFound  the files found are those of the cloud of the one account *)
(*               that is asked about                                       *)
(* Lists are made by folds over sequences. Induction over their length is  *)
(* done on sets of numbers (UpTo of SortedSeqsProofs).                     *)
(***************************************************************************)
EXTENDS Backend, SortedSeqsProofs

\* A step of the backend is one of the part at work, and no other changes.
LEMMA PartSteps ==
  ASSUME [Next]_vars
  PROVE  /\ part' = part
         /\ [Submission!Next]_(Submission!vars)
         /\ [Lists!Next]_(Lists!vars)
         /\ [Lookups!Next]_lookupVars
         /\ [Storage!Next]_storageVars
         /\ [Relayed!Next]_relayVars
  BY DEF Next, vars, AtWork, SubmissionAtWork, ListsAtWork, LookupsAtWork, StorageAtWork,
     RelaysAtWork, submitVars, listingVars, lookupVars, storageVars, relayVars, Submission!vars,
     Submission!stores, Lists!vars, Lookups!lookupVars, Storage!storageVars, Relayed!relayVars

-----------------------------------------------------------------------------
(* Submission of policies: types. *)

\* What a handler is at.
Phases ==
  {"lookup", "list", "check", "define", "submit definition", "account", "push", "submit", "update"}

Work ==
  [phase : Phases, req : Requests, hasCred : BOOLEAN, heard : SUBSET Submission!Policy,
   asked : SUBSET Beacons, silent : SUBSET Beacons, blind : BOOLEAN, failed : BOOLEAN,
   disturbed : BOOLEAN, lapsed : BOOLEAN]

SubmitTypes ==
  /\ policies \subseteq Submission!Policy
  /\ creds \in [Beacons -> SUBSET Creds] /\ defs \subseteq Beacons
  /\ \A h \in Handlers : work[h] \in Submission!Resting \/ work[h] \in Work
  /\ DOMAIN work = Handlers
  /\ received \in 0..MaxRequests
  /\ (\E h \in Handlers : work[h] \in Work) => received > 0

\* What is requested is well formed.
LEMMA RequestsTyped ==
  /\ \A r \in Requests : r \in Submission!Request
  /\ MaxRequests \in Nat
  /\ \A r \in Requests : /\ r.at \in Beacons /\ r.cred \in Creds
                         /\ r.kind \in Submission!Kinds /\ r.op \in {"create", "test", "delete"}
                         /\ r.target \in Paths \cup {<<>>} /\ r.name \in STRING
<1>1. Submission!PolicySubmitConstants
  BY BackendConstants
<1>. QED  BY <1>1 DEF Submission!PolicySubmitConstants, Submission!Request

\* What each handler may be at.
WorkOK(work_) == /\ DOMAIN work_ = Handlers
                 /\ \A h \in Handlers : work_[h] \in Submission!Resting \/ work_[h] \in Work

\* Nothing is done while a handler rests.
LEMMA RestIsNoWork ==
  /\ \A x \in Submission!Resting : x.phase \in {"idle", "hung"} /\ x \notin Work
  /\ \A x \in Work : x.phase \in Phases /\ x \notin Submission!Resting
  /\ Submission!Idle \in Submission!Resting /\ Submission!Hung \in Submission!Resting
<1>1. \A x \in Work : x.phase \in Phases
  BY DEF Work
<1>2. \A x \in Submission!Resting : x.phase \in {"idle", "hung"}
  BY DEF Submission!Resting, Submission!Idle, Submission!Hung
<1>3. \A x \in Submission!Resting : x.phase \notin Phases
  BY <1>2 DEF Phases
<1>. QED  BY <1>1, <1>2, <1>3 DEF Submission!Resting

\* The types of submission.
LEMMA SubmissionTyped ==
  ASSUME SubmitTypes
  PROVE  Submission!TypeOK
<1>1. ASSUME NEW h \in Handlers, work[h] \notin Submission!Resting
      PROVE  work[h].req \in Submission!Request
  <2>1. work[h] \in Work
    BY <1>1 DEF SubmitTypes
  <2>. QED  BY <2>1, RequestsTyped DEF Work
<1>. QED  BY <1>1 DEF SubmitTypes, Submission!TypeOK

\* A handler that goes on leaves the others as they are.
LEMMA OneGoesOn ==
  ASSUME SubmitTypes, NEW h \in Handlers, NEW w, w \in Submission!Resting \/ w \in Work,
         work' = [work EXCEPT ![h] = w]
  PROVE  WorkOK(work')
  BY DEF SubmitTypes, WorkOK

\* A handler that changes a store goes on, and disturbs the others that are at work.
LEMMA OthersAre ==
  ASSUME SubmitTypes, NEW h \in Handlers, NEW w, w \in Submission!Resting \/ w \in Work,
         work' = Submission!Others(h, w)
  PROVE  /\ WorkOK(work')
         /\ work'[h] = w
         /\ \A k \in Handlers : k # h =>
              \/ work[k] \in Submission!Resting /\ work'[k] = work[k]
              \/ /\ work[k] \in Work /\ work'[k] \in Work
                 /\ work'[k] = [work[k] EXCEPT !.disturbed = TRUE]
<1>1. /\ DOMAIN work' = Handlers /\ work'[h] = w
      /\ \A k \in Handlers : k # h =>
           work'[k] = IF work[k] \in Submission!Resting THEN work[k]
                      ELSE [work[k] EXCEPT !.disturbed = TRUE]
  BY DEF Submission!Others
<1>3. \A x \in Work : [x EXCEPT !.disturbed = TRUE] \in Work
  BY DEF Work
<1>4. \A k \in Handlers : k # h =>
              \/ work[k] \in Submission!Resting /\ work'[k] = work[k]
              \/ /\ work[k] \in Work /\ work'[k] \in Work
                 /\ work'[k] = [work[k] EXCEPT !.disturbed = TRUE]
  BY <1>1, <1>3, RestIsNoWork DEF SubmitTypes
<1>. QED  BY <1>1, <1>4 DEF WorkOK

\* A handler at a phase of its work has work.
LEMMA Working ==
  ASSUME SubmitTypes, NEW h \in Handlers, work[h] \notin Submission!Resting
  PROVE  work[h] \in Work
  BY DEF SubmitTypes

\* A request starts with its work.
LEMMA StartsWork ==
  ASSUME NEW r \in Requests
  PROVE  /\ Submission!Start(r) \in Work
         /\ Submission!Start(r).req = r
         /\ Submission!Start(r).phase = IF r.op = "delete" THEN "update"
              ELSE IF r.kind = "other" THEN "submit" ELSE "lookup"
         /\ Submission!Start(r).heard = {} /\ ~Submission!Start(r).hasCred
         /\ ~Submission!Start(r).lapsed
  BY DEF Submission!Start, Work, Phases

\* Each of the steps that leave the stores alone keeps the types.
LEMMA GoTyped ==
  ASSUME SubmitTypes, NEW h \in Handlers, work[h] \in Work, NEW w \in Work, Submission!Go(h, w)
  PROVE  SubmitTypes'
<1>1. WorkOK(work')
  BY OneGoesOn DEF Submission!Go
<1>2. received > 0
  BY DEF SubmitTypes
<1>. QED  BY <1>1, <1>2 DEF SubmitTypes, WorkOK, Submission!Go, Submission!stores

\* A request that is refused, or never answered, goes and leaves everything typed.
LEMMA RestTyped ==
  ASSUME SubmitTypes, NEW h \in Handlers, UNCHANGED <<Submission!stores, received>>,
         NEW w \in Submission!Resting, work' = [work EXCEPT ![h] = w]
  PROVE  SubmitTypes'
<1>1. WorkOK(work')
  BY OneGoesOn
<1>2. (\E k \in Handlers : work'[k] \in Work) => \E k \in Handlers : work[k] \in Work
  BY RestIsNoWork DEF SubmitTypes
<1>. QED  BY <1>1, <1>2 DEF SubmitTypes, WorkOK, Submission!stores

\* One that is refused is idle.
LEMMA RefuseTyped ==
  ASSUME SubmitTypes, NEW h \in Handlers, UNCHANGED <<Submission!stores, received>>,
         work' = [work EXCEPT ![h] = Submission!Idle]
  PROVE  SubmitTypes'
  BY RestIsNoWork, RestTyped

\* A page has policies of what it is cut from.
LEMMA PagesArePart ==
  ASSUME NEW S, NEW page \in Submission!PagesOf(S)
  PROVE  page \subseteq S
  BY DEF Submission!PagesOf, Submission!kSubset

\* The pages of a Beacon are of its policies.
LEMMA PagesAreOf ==
  ASSUME NEW b, NEW page \in Submission!PagesOf(Submission!Of(b))
  PROVE  page \subseteq Submission!Of(b) /\ page \subseteq policies
  BY PagesArePart DEF Submission!Of

\* The policy a handler submits.
Submitted(h) ==
  [at |-> work[h].req.at, name |-> work[h].req.name, kind |-> work[h].req.kind,
   target |-> work[h].req.target, cred |-> work[h].req.cred, nth |-> received,
   sure |-> ~work[h].blind /\ ~work[h].disturbed, lapsed |-> work[h].lapsed,
   equipped |-> work[h].req.cred \in creds[work[h].req.at] /\ work[h].req.at \in defs]

\* It is a policy of the request, the newest, and sure of what was heard.
LEMMA SubmittedIs ==
  ASSUME SubmitTypes, NEW h \in Handlers, work[h] \in Work
  PROVE  /\ Submitted(h) \in Submission!Policy
         /\ Submitted(h).at = work[h].req.at /\ Submitted(h).kind = work[h].req.kind
         /\ Submitted(h).target = work[h].req.target /\ Submitted(h).cred = work[h].req.cred
         /\ Submitted(h).nth = received
         /\ Submitted(h).sure <=> ~work[h].blind /\ ~work[h].disturbed
         /\ Submitted(h).lapsed = work[h].lapsed
         /\ Submitted(h).equipped
              <=> work[h].req.cred \in creds[work[h].req.at] /\ work[h].req.at \in defs
<1>1. received \in 1..MaxRequests
  BY RequestsTyped DEF SubmitTypes
<1>2. work[h].req \in Requests
  BY DEF Work
<1>3. /\ (~work[h].blind /\ ~work[h].disturbed) \in BOOLEAN /\ work[h].lapsed \in BOOLEAN
      /\ (work[h].req.cred \in creds[work[h].req.at] /\ work[h].req.at \in defs) \in BOOLEAN
  BY DEF Work
<1>. QED  BY <1>1, <1>2, <1>3, RequestsTyped DEF Submitted, Submission!Policy

\* A step that changes a store keeps the types of what it leaves alone.
LEMMA ChangedTyped ==
  ASSUME SubmitTypes, NEW h \in Handlers, work[h] \in Work,
         NEW w, w \in Submission!Resting \/ w \in Work, work' = Submission!Others(h, w),
         policies' \subseteq Submission!Policy, creds' \in [Beacons -> SUBSET Creds],
         defs' \subseteq Beacons, received' = received
  PROVE  SubmitTypes'
<1>1. WorkOK(work')
  BY OthersAre
<1>2. received > 0
  BY DEF SubmitTypes
<1>. QED  BY <1>1, <1>2 DEF SubmitTypes, WorkOK

\* What a handler is at after each of its steps.
LEMMA NextWork ==
  ASSUME SubmitTypes, NEW h \in Handlers, work[h] \in Work
  PROVE  /\ \A p \in Phases : /\ [work[h] EXCEPT !.phase = p] \in Work
                             /\ [work[h] EXCEPT !.phase = p].phase = p
                             /\ \A had \in BOOLEAN :
                                  [work[h] EXCEPT !.phase = p, !.hasCred = had, !.asked = Beacons]
                                    \in Work
         /\ work[h].req \in Requests
  BY DEF Work, Phases

\* Only a handler with work goes on, and each step is that of a phase.
LEMMA StepsWork ==
  ASSUME NEW h \in Handlers, Submission!Step(h)
  PROVE  work[h] \notin Submission!Resting
<1>1. Submission!Lookup(h) => work[h].phase = "lookup"
  BY DEF Submission!Lookup, Submission!At
<1>2. Submission!List(h) => work[h].phase = "list"
  BY DEF Submission!List, Submission!At
<1>3. Submission!Check(h) => work[h].phase = "check"
  BY DEF Submission!Check, Submission!At
<1>4. Submission!Define(h) => work[h].phase = "define"
  BY DEF Submission!Define, Submission!At
<1>5. Submission!SubmitDefinition(h) => work[h].phase = "submit definition"
  BY DEF Submission!SubmitDefinition, Submission!At
<1>6. Submission!Account(h) => work[h].phase = "account"
  BY DEF Submission!Account, Submission!At
<1>7. Submission!Push(h) => work[h].phase = "push"
  BY DEF Submission!Push, Submission!At
<1>8. Submission!Submit(h) => work[h].phase = "submit"
  BY DEF Submission!Submit, Submission!At
<1>9. Submission!Update(h) => work[h].phase = "update"
  BY DEF Submission!Update, Submission!At
<1>10. work[h].phase \notin {"idle", "hung"}
  BY <1>1, <1>2, <1>3, <1>4, <1>5, <1>6, <1>7, <1>8, <1>9 DEF Submission!Step
<1>. QED  BY <1>10, RestIsNoWork

\* Who came no later did not come after.
LEMMA NotBefore ==
  ASSUME NEW i, NEW j, i \in Nat, j \in Nat, j <= i
  PROVE  ~(i < j)
  OBVIOUS

\* No handler is before itself.
LEMMA NotBeforeItself ==
  ASSUME NEW i, i \in Nat
  PROVE  ~(i < i)
  OBVIOUS

\* What a silent Beacon makes of the work of a list.
LEMMA SilentIs ==
  ASSUME NEW y \in Work, NEW b \in Beacons
  PROVE  \E w \in Work :
           /\ w = [y EXCEPT !.silent = @ \cup {b}, !.blind = TRUE]
           /\ w.phase = y.phase /\ w.req = y.req /\ w.hasCred = y.hasCred
           /\ w.disturbed = y.disturbed
           /\ w.lapsed = y.lapsed /\ w.asked = y.asked /\ w.heard = y.heard
           /\ w.blind = TRUE
<1>. DEFINE w == [y EXCEPT !.silent = @ \cup {b}, !.blind = TRUE]
<1>1. /\ w \in Work /\ w.phase = y.phase /\ w.req = y.req /\ w.hasCred = y.hasCred
      /\ w.disturbed = y.disturbed
      /\ w.lapsed = y.lapsed /\ w.asked = y.asked /\ w.heard = y.heard
      /\ w.blind = TRUE
  BY DEF Work
<1>2. w = [y EXCEPT !.silent = @ \cup {b}, !.blind = TRUE]
  OBVIOUS
<1>. HIDE DEF w
<1>. QED  BY <1>1, <1>2

\* A step of a list, and what it leaves alone.
LEMMA ListsOne ==
  ASSUME SubmitTypes, NEW h \in Handlers, work[h] \in Work, Submission!List(h)
  PROVE  \E b \in work[h].asked, w \in Work, page \in SUBSET policies :
           /\ Submission!Go(h, w) /\ page \subseteq Submission!Of(b)
           /\ w.phase = IF work[h].asked = {b} THEN "check" ELSE "list"
           /\ w.req = work[h].req /\ w.hasCred = work[h].hasCred
           /\ w.disturbed = work[h].disturbed
           /\ w.lapsed = work[h].lapsed /\ w.asked = work[h].asked \ {b}
           /\ w.heard = work[h].heard \cup page
           /\ ~w.blind => ~work[h].blind /\ page = Submission!Of(b)
<1>1. PICK b \in work[h].asked :
        LET w == [work[h] EXCEPT !.asked = @ \ {b},
                                 !.phase = IF work[h].asked = {b} THEN "check" ELSE "list"]
        IN \/ \E page \in Submission!PagesOf(Submission!Of(b)) :
                Submission!Go(h, [w EXCEPT !.heard = @ \cup page,
                                           !.blind = @ \/ page # Submission!Of(b)])
           \/ Submission!Go(h, [w EXCEPT !.silent = @ \cup {b}, !.blind = TRUE])
  BY DEF Submission!List
<1>. DEFINE p == IF work[h].asked = {b} THEN "check" ELSE "list"
            w == [work[h] EXCEPT !.asked = @ \ {b}, !.phase = p]
<1>2. p \in Phases /\ p = IF work[h].asked = {b} THEN "check" ELSE "list"
  BY DEF Phases
<1>3. \/ \E page \in Submission!PagesOf(Submission!Of(b)) :
            Submission!Go(h, [w EXCEPT !.heard = @ \cup page, !.blind = @ \/ page # Submission!Of(b)])
      \/ Submission!Go(h, [w EXCEPT !.silent = @ \cup {b}, !.blind = TRUE])
  BY <1>1
<1>4. /\ w \in Work /\ w.phase = p /\ w.req = work[h].req /\ w.hasCred = work[h].hasCred
      /\ w.disturbed = work[h].disturbed
      /\ w.lapsed = work[h].lapsed /\ w.asked = work[h].asked \ {b}
      /\ w.heard = work[h].heard /\ w.blind = work[h].blind /\ b \in Beacons
  <2>. HIDE DEF p
  <2>. QED  BY <1>2 DEF Work
<1>. HIDE DEF w, p
<1>5. ASSUME NEW page \in Submission!PagesOf(Submission!Of(b)),
             Submission!Go(h, [w EXCEPT !.heard = @ \cup page, !.blind = @ \/ page # Submission!Of(b)])
      PROVE  \E v \in Work :
                  /\ Submission!Go(h, v) /\ page \in SUBSET policies /\ page \subseteq Submission!Of(b)
                  /\ v.phase = p /\ v.req = work[h].req /\ v.hasCred = work[h].hasCred
                  /\ v.disturbed = work[h].disturbed
                  /\ v.lapsed = work[h].lapsed /\ v.asked = work[h].asked \ {b}
                  /\ v.heard = work[h].heard \cup page
                  /\ ~v.blind => ~work[h].blind /\ page = Submission!Of(b)
  <2>1. page \subseteq policies /\ page \subseteq Submission!Of(b)
    BY PagesAreOf
  <2>2. page \subseteq Submission!Policy
    BY <2>1 DEF SubmitTypes
  <2>. DEFINE blind == w.blind \/ page # Submission!Of(b)
              v == [w EXCEPT !.heard = @ \cup page, !.blind = blind]
  <2>3. blind \in BOOLEAN /\ (~blind => ~w.blind /\ page = Submission!Of(b))
    OBVIOUS
  <2>4. /\ v \in Work /\ v.phase = w.phase /\ v.req = w.req /\ v.hasCred = w.hasCred
        /\ v.disturbed = w.disturbed
        /\ v.lapsed = w.lapsed /\ v.asked = w.asked /\ v.heard = w.heard \cup page
        /\ v.blind = blind
    <3>. HIDE DEF blind
    <3>. QED  BY <1>4, <2>2, <2>3 DEF Work
  <2>5. Submission!Go(h, v)
    BY <1>5
  <2>. HIDE DEF v, blind
  <2>. QED  BY <1>4, <2>1, <2>3, <2>4, <2>5
<1>6. ASSUME Submission!Go(h, [w EXCEPT !.silent = @ \cup {b}, !.blind = TRUE])
      PROVE  \E v \in Work :
                  /\ Submission!Go(h, v)
                  /\ v.phase = p /\ v.req = work[h].req /\ v.hasCred = work[h].hasCred
                  /\ v.disturbed = work[h].disturbed
                  /\ v.lapsed = work[h].lapsed /\ v.asked = work[h].asked \ {b}
                  /\ v.heard = work[h].heard \cup {} /\ v.blind = TRUE
  <2>1. PICK v \in Work :
           /\ v = [w EXCEPT !.silent = @ \cup {b}, !.blind = TRUE]
           /\ v.phase = w.phase /\ v.req = w.req /\ v.hasCred = w.hasCred
           /\ v.disturbed = w.disturbed
           /\ v.lapsed = w.lapsed /\ v.asked = w.asked /\ v.heard = w.heard
           /\ v.blind = TRUE
    BY <1>4, SilentIs
  <2>2. Submission!Go(h, v)
    BY <1>6, <2>1
  <2>3. v.heard = work[h].heard \cup {}
    BY <1>4, <2>1
  <2>. QED  BY <1>4, <2>1, <2>2, <2>3
<1>7. {} \in SUBSET policies /\ {} \subseteq Submission!Of(b)
  OBVIOUS
<1>8. CASE Submission!Go(h, [w EXCEPT !.silent = @ \cup {b}, !.blind = TRUE])
  <2>1. PICK v \in Work :
            /\ Submission!Go(h, v)
            /\ v.phase = p /\ v.req = work[h].req /\ v.hasCred = work[h].hasCred
            /\ v.disturbed = work[h].disturbed
            /\ v.lapsed = work[h].lapsed /\ v.asked = work[h].asked \ {b}
            /\ v.heard = work[h].heard \cup {} /\ v.blind = TRUE
    BY <1>6, <1>8
  <2>2. {} \in SUBSET policies
    BY <1>7
  <2>. WITNESS b \in work[h].asked, v \in Work, {} \in SUBSET policies
  <2>. QED  BY <1>2, <1>7, <2>1
<1>9. CASE ~Submission!Go(h, [w EXCEPT !.silent = @ \cup {b}, !.blind = TRUE])
  <2>1. PICK page \in Submission!PagesOf(Submission!Of(b)) :
          Submission!Go(h, [w EXCEPT !.heard = @ \cup page, !.blind = @ \/ page # Submission!Of(b)])
    BY <1>3, <1>9
  <2>2. PICK v \in Work :
            /\ Submission!Go(h, v) /\ page \in SUBSET policies /\ page \subseteq Submission!Of(b)
            /\ v.phase = p /\ v.req = work[h].req /\ v.hasCred = work[h].hasCred
            /\ v.disturbed = work[h].disturbed
            /\ v.lapsed = work[h].lapsed /\ v.asked = work[h].asked \ {b}
            /\ v.heard = work[h].heard \cup page
            /\ ~v.blind => ~work[h].blind /\ page = Submission!Of(b)
    BY <1>5, <2>1
  <2>3. page \in SUBSET policies
    BY <2>2
  <2>. WITNESS b \in work[h].asked, v \in Work, page \in SUBSET policies
  <2>. QED  BY <1>2, <2>2
<1>. QED  BY <1>8, <1>9

\* A check that passes, and what it leaves alone.
LEMMA ChecksOne ==
  ASSUME SubmitTypes, NEW h \in Handlers, work[h] \in Work, Submission!Checked(h),
         ~Submission!Refuse(h)
  PROVE  \E page \in SUBSET work[h].heard, w \in Work :
           /\ Submission!Go(h, w) /\ Submission!Conflicts(work[h].req, page) = {}
           /\ w.phase = "define" /\ w.req = work[h].req /\ w.hasCred = work[h].hasCred
           /\ w.disturbed = work[h].disturbed /\ w.lapsed = work[h].lapsed /\ w.heard = page
           /\ ~w.blind => ~work[h].blind /\ page = work[h].heard
<1>1. PICK page \in Submission!PagesOf(work[h].heard) :
        /\ Submission!Conflicts(work[h].req, page) = {}
        /\ Submission!Go(h, [work[h] EXCEPT !.phase = "define", !.heard = page, !.silent = {},
                                           !.blind = @ \/ page # work[h].heard])
  BY DEF Submission!Checked
<1>. DEFINE blind == work[h].blind \/ page # work[h].heard
            w == [work[h] EXCEPT !.phase = "define", !.heard = page, !.silent = {}, !.blind = blind]
<1>2. page \in SUBSET work[h].heard
  BY PagesArePart
<1>3. blind \in BOOLEAN /\ (~blind => ~work[h].blind /\ page = work[h].heard)
  OBVIOUS
<1>4. Submission!Go(h, w)
  BY <1>1
<1>5. /\ w \in Work /\ w.phase = "define" /\ w.req = work[h].req /\ w.hasCred = work[h].hasCred
      /\ w.disturbed = work[h].disturbed /\ w.lapsed = work[h].lapsed /\ w.heard = page
      /\ w.blind = blind
  <2>. HIDE DEF blind
  <2>. QED  BY <1>2, <1>3 DEF Work, Phases
<1>. HIDE DEF w, blind
<1>6. PICK v \in Work : v = w
  BY <1>5
<1>. WITNESS page \in SUBSET work[h].heard, v \in Work
<1>. QED  BY <1>1, <1>3, <1>4, <1>5, <1>6

\* What handlers are at after a credential was deleted.
LEMMA WithdrawnWork ==
  ASSUME SubmitTypes, NEW b \in Beacons, NEW c \in Creds, Submission!Withdraw(b, c)
  PROVE  /\ DOMAIN work' = Handlers
         /\ \A k \in Handlers :
              \/ work[k] \in Submission!Resting /\ work'[k] = work[k]
              \/ /\ work[k] \in Work /\ work'[k] \in Work /\ work'[k].disturbed
                 /\ work'[k].phase = work[k].phase /\ work'[k].req = work[k].req
                 /\ work'[k].hasCred = work[k].hasCred /\ work'[k].asked = work[k].asked
                 /\ ~work'[k].lapsed =>
                      ~work[k].lapsed /\ ~(work[k].req.at = b /\ work[k].req.cred = c)
<1>1. /\ DOMAIN work' = Handlers
      /\ \A k \in Handlers : work'[k] =
           IF work[k] \in Submission!Resting THEN work[k]
           ELSE [work[k] EXCEPT !.disturbed = TRUE,
                                !.lapsed = @ \/ (work[k].req.at = b /\ work[k].req.cred = c)]
  BY DEF Submission!Withdraw
<1>3. ASSUME NEW k \in Handlers, work[k] \in Work
      PROVE  /\ work'[k] \in Work /\ work'[k].disturbed
             /\ work'[k].phase = work[k].phase /\ work'[k].req = work[k].req
             /\ work'[k].hasCred = work[k].hasCred /\ work'[k].asked = work[k].asked
             /\ ~work'[k].lapsed =>
                  ~work[k].lapsed /\ ~(work[k].req.at = b /\ work[k].req.cred = c)
  <2>. DEFINE l == work[k].lapsed \/ (work[k].req.at = b /\ work[k].req.cred = c)
  <2>1. work'[k] = [work[k] EXCEPT !.disturbed = TRUE, !.lapsed = l]
    BY <1>1, <1>3, RestIsNoWork
  <2>2. l \in BOOLEAN
    BY <1>3 DEF Work
  <2>3. ~l => ~work[k].lapsed /\ ~(work[k].req.at = b /\ work[k].req.cred = c)
    OBVIOUS
  <2>. HIDE DEF l
  <2>4. /\ work'[k] \in Work /\ work'[k].disturbed
        /\ work'[k].phase = work[k].phase /\ work'[k].req = work[k].req
        /\ work'[k].hasCred = work[k].hasCred /\ work'[k].asked = work[k].asked
        /\ work'[k].lapsed = l
    <3>1. PICK x, y : x = work[k] /\ y = work'[k]
      OBVIOUS
    <3>2. y = [x EXCEPT !.disturbed = TRUE, !.lapsed = l] /\ x \in Work
      BY <1>3, <2>1, <3>1
    <3>3. /\ y \in Work /\ y.disturbed /\ y.phase = x.phase /\ y.req = x.req
          /\ y.hasCred = x.hasCred /\ y.asked = x.asked /\ y.lapsed = l
      BY <2>2, <3>2 DEF Work
    <3>. QED  BY <3>1, <3>3
  <2>. QED  BY <2>3, <2>4
<1>. QED  BY <1>1, <1>3 DEF SubmitTypes

\* Typing is kept by every step.
LEMMA SubmitTypesStep ==
  ASSUME SubmitTypes, [Submission!Next]_(Submission!vars)
  PROVE  SubmitTypes'
<1>1. CASE UNCHANGED Submission!vars
  BY <1>1 DEF Submission!vars, Submission!stores, SubmitTypes
<1>2. ASSUME NEW h \in Handlers, NEW r \in Requests, Submission!Receive(h, r)
      PROVE  SubmitTypes'
  <2>1. received' \in 1..MaxRequests
    BY <1>2, RequestsTyped DEF Submission!Receive, SubmitTypes
  <2>2. Submission!Start(r) \in Work /\ work' = [work EXCEPT ![h] = Submission!Start(r)]
    BY <1>2, StartsWork DEF Submission!Receive
  <2>3. WorkOK(work')
    BY <2>2, OneGoesOn
  <2>. QED  BY <1>2, <2>1, <2>3 DEF SubmitTypes, WorkOK, Submission!Receive, Submission!stores
<1>3. ASSUME NEW h \in Handlers, Submission!Fail(h)
      PROVE  SubmitTypes'
  BY <1>3, RefuseTyped DEF Submission!Fail
<1>5. ASSUME NEW h \in Handlers, Submission!NeverAnswered(h)
      PROVE  SubmitTypes'
  BY <1>5, RestTyped, RestIsNoWork DEF Submission!NeverAnswered, Submission!Go
<1>6. ASSUME NEW b \in Beacons, NEW c \in Creds, Submission!Withdraw(b, c)
      PROVE  SubmitTypes'
  <2>1. /\ received' = received + 1 /\ received < MaxRequests /\ UNCHANGED <<policies, defs>>
        /\ creds' = [creds EXCEPT ![b] = @ \ {c}]
    BY <1>6 DEF Submission!Withdraw
  <2>2. received' \in 1..MaxRequests
    BY <2>1, RequestsTyped DEF SubmitTypes
  <2>3. WorkOK(work')
    BY <1>6, WithdrawnWork DEF WorkOK
  <2>. QED  BY <2>1, <2>2, <2>3 DEF SubmitTypes, WorkOK
<1>4. ASSUME NEW h \in Handlers, Submission!Step(h)
      PROVE  SubmitTypes'
  <2>0. work[h] \in Work
    BY <1>4, StepsWork, Working
  <2>r. work[h].req \in Requests /\ work[h].req.at \in Beacons /\ work[h].req.cred \in Creds
    BY <2>0, NextWork, RequestsTyped
  <2>1. CASE Submission!Lookup(h)
    <3>. DEFINE p == IF work[h].req.kind = "files to cloud" THEN "list" ELSE "define"
                had == work[h].req.cred \in creds[work[h].req.at]
    <3>1. p \in Phases /\ had \in BOOLEAN
      BY DEF Phases
    <3>2. Submission!Go(h, [work[h] EXCEPT !.phase = p, !.hasCred = had, !.asked = Beacons])
      BY <2>1 DEF Submission!Lookup
    <3>. HIDE DEF p, had
    <3>. QED  BY <2>0, <3>1, <3>2, NextWork, GoTyped
  <2>2. CASE Submission!List(h)
    <3>1. PICK w \in Work : Submission!Go(h, w)
      BY <2>0, <2>2, ListsOne
    <3>. QED  BY <2>0, <3>1, GoTyped
  <2>3. CASE Submission!Check(h)
    <3>1. CASE work' = [work EXCEPT ![h] = Submission!Idle] /\ UNCHANGED <<Submission!stores, received>>
      BY <3>1, RefuseTyped
    <3>2. CASE Submission!Checked(h) /\ ~Submission!Refuse(h)
      <4>1. PICK w \in Work : Submission!Go(h, w)
        BY <2>0, <3>2, ChecksOne
      <4>. QED  BY <2>0, <4>1, GoTyped
    <3>. QED  BY <2>3, <3>1, <3>2 DEF Submission!Check, Submission!Refuse
  <2>4. CASE Submission!Define(h)
    <3>1. "account" \in Phases /\ "submit definition" \in Phases
      BY DEF Phases
    <3>. QED  BY <2>0, <2>4, <3>1, NextWork, GoTyped DEF Submission!Define
  <2>5. CASE Submission!SubmitDefinition(h)
    <3>1. "account" \in Phases
      BY DEF Phases
    <3>2. CASE Submission!Refuse(h)
      BY <3>2, RefuseTyped DEF Submission!Refuse
    <3>3. CASE ~Submission!Refuse(h)
      <4>1. /\ defs' = defs \cup {work[h].req.at} /\ UNCHANGED <<policies, creds, received>>
            /\ Submission!Changed(h, [work[h] EXCEPT !.phase = "account"])
        BY <2>5, <3>3 DEF Submission!SubmitDefinition
      <4>2. PICK w \in Work \cup Submission!Resting : work' = Submission!Others(h, w)
        BY <2>0, <3>1, <4>1, NextWork, RestIsNoWork DEF Submission!Changed
      <4>. QED  BY <2>0, <2>r, <4>1, <4>2, ChangedTyped, RestIsNoWork DEF SubmitTypes
    <3>. QED  BY <3>2, <3>3
  <2>6. CASE Submission!Account(h)
    <3>1. "submit" \in Phases /\ "push" \in Phases
      BY DEF Phases
    <3>. QED
      BY <2>0, <2>6, <3>1, NextWork, GoTyped, RefuseTyped DEF Submission!Account, Submission!Refuse
  <2>7. CASE Submission!Push(h)
    <3>1. "submit" \in Phases
      BY DEF Phases
    <3>2. CASE Submission!Refuse(h)
      BY <3>2, RefuseTyped DEF Submission!Refuse
    <3>3. CASE ~Submission!Refuse(h)
      <4>1. /\ creds' = [creds EXCEPT ![work[h].req.at] = @ \cup {work[h].req.cred}]
            /\ UNCHANGED <<policies, defs, received>>
            /\ Submission!Changed(h, [work[h] EXCEPT !.phase = "submit"])
        BY <2>7, <3>3 DEF Submission!Push
      <4>2. PICK w \in Work \cup Submission!Resting : work' = Submission!Others(h, w)
        BY <2>0, <3>1, <4>1, NextWork, RestIsNoWork DEF Submission!Changed
      <4>. QED  BY <2>0, <2>r, <4>1, <4>2, ChangedTyped, RestIsNoWork DEF SubmitTypes
    <3>. QED  BY <3>2, <3>3
  <2>8. CASE Submission!Submit(h)
    <3>1. CASE work' = [work EXCEPT ![h] = Submission!Idle] /\ UNCHANGED <<Submission!stores, received>>
      BY <3>1, RefuseTyped
    <3>2. CASE /\ policies' = policies \cup {Submitted(h)}
               /\ work' = Submission!Others(h, Submission!Idle) /\ UNCHANGED <<creds, defs, received>>
      BY <2>0, <3>2, ChangedTyped, SubmittedIs, RestIsNoWork DEF SubmitTypes
    <3>. QED
      BY <2>8, <3>1, <3>2 DEF Submission!Submit, Submission!Refuse, Submission!Done,
         Submission!DoneUnheard, Submitted
  <2>9. CASE Submission!Update(h)
    <3>1. CASE Submission!Refuse(h)
      BY <3>1, RefuseTyped DEF Submission!Refuse
    <3>2. CASE /\ policies' \subseteq policies
               /\ work' = Submission!Others(h, Submission!Idle) /\ UNCHANGED <<creds, defs, received>>
      BY <2>0, <3>2, ChangedTyped, RestIsNoWork DEF SubmitTypes
    <3>. QED
      BY <2>9, <3>1, <3>2 DEF Submission!Update, Submission!Done, Submission!DoneUnheard
  <2>. QED
    BY <1>4, <2>1, <2>2, <2>3, <2>4, <2>5, <2>6, <2>7, <2>8, <2>9 DEF Submission!Step
<1>. QED
  BY <1>1, <1>2, <1>3, <1>4, <1>5, <1>6 DEF Submission!Next, Submission!Proceed

-----------------------------------------------------------------------------
(* Submission of policies: what a request knows, and what its Beacon has. *)

ChecksFiles == {"list", "check"}
Prepares == {"define", "submit definition", "account", "push"}

\* While no other request has changed anything, what a request was told is so.
Knows(w) ==
  ~w.disturbed =>
    /\ w.heard \subseteq policies
    /\ w.phase \in ChecksFiles /\ ~w.blind => \A p \in policies : p.at \in w.asked \/ p \in w.heard
    /\ w.phase \in Prepares \cup {"submit"} /\ w.req.kind = "files to cloud" /\ ~w.blind
         => Submission!Conflicts(w.req, policies) = {}
    /\ w.phase = "submit definition" => w.req.at \notin defs
    /\ w.phase \in ChecksFiles \cup Prepares => (w.hasCred <=> w.req.cred \in creds[w.req.at])

\* What was given to a Beacon stays there, unless it was deleted.
Equipped(w) ==
  /\ w.phase \in {"account", "push", "submit"} /\ w.req.kind # "other" => w.req.at \in defs
  /\ ~w.lapsed => /\ w.phase = "submit" /\ w.req.kind # "other" => w.req.cred \in creds[w.req.at]
                  /\ w.hasCred => w.req.cred \in creds[w.req.at]

\* The phases a request goes through are those of its kind.
Phased(w) ==
  /\ w.phase = "push" => ~w.hasCred
  /\ w.phase = "check" => w.asked = {}
  /\ w.phase = "update" <=> w.req.op = "delete"
  /\ w.phase \in ChecksFiles => w.req.kind = "files to cloud"
  /\ w.req.kind = "other" => w.phase \in {"submit", "update"}

Fine(w) == Knows(w) /\ Equipped(w) /\ Phased(w)
AllFine == \A h \in Handlers : work[h] \in Work => Fine(work[h])

SubmitInv ==
  /\ SubmitTypes
  /\ AllFine
  /\ \A p \in policies : p.nth <= received
  /\ SubmitsFit

\* A step that leaves the stores alone.
LEMMA GoKeeps ==
  ASSUME SubmitInv, NEW h \in Handlers, work[h] \in Work, NEW w \in Work, Submission!Go(h, w),
         Fine(w)
  PROVE  SubmitInv'
<1>1. SubmitTypes'
  BY GoTyped DEF SubmitInv
<1>2. UNCHANGED <<policies, creds, defs, received>> /\ answer' = {}
  BY DEF Submission!Go, Submission!stores
<1>3. AllFine'
  <2>. SUFFICES ASSUME NEW k \in Handlers, work'[k] \in Work
                PROVE  Fine(work[k])'
    BY DEF AllFine
  <2>1. PICK x : x = work'[k] /\ Fine(x)
    BY DEF Submission!Go, SubmitInv, SubmitTypes, AllFine
  <2>. QED  BY <1>2, <2>1 DEF Fine, Knows, Equipped, Phased, Submission!Conflicts
<1>4. SubmitsFit'
  BY <1>2 DEF SubmitInv, SubmitsFit, Submission!TargetsApart, Submission!PolicyEquipped,
     Submission!RefusedForReason
<1>. QED  BY <1>1, <1>2, <1>3, <1>4 DEF SubmitInv

\* An error for a reason, or no answer at all, which leaves the stores alone.
LEMMA RestKeeps ==
  ASSUME SubmitInv, NEW h \in Handlers, NEW w \in Submission!Resting,
         work' = [work EXCEPT ![h] = w],
         UNCHANGED <<Submission!stores, received>>, Submission!RefusedForReason'
  PROVE  SubmitInv'
<1>1. SubmitTypes'
  BY RestTyped DEF SubmitInv
<1>2. UNCHANGED <<policies, creds, defs, received>>
  BY DEF Submission!stores
<1>3. AllFine'
  <2>. SUFFICES ASSUME NEW k \in Handlers, work'[k] \in Work
                PROVE  Fine(work[k])'
    BY DEF AllFine
  <2>1. work'[k] = work[k] /\ work[k] \in Work
    BY RestIsNoWork DEF SubmitInv, SubmitTypes
  <2>2. PICK x : x = work'[k] /\ Fine(x)
    BY <2>1 DEF SubmitInv, AllFine
  <2>. QED  BY <1>2, <2>2 DEF Fine, Knows, Equipped, Phased, Submission!Conflicts
<1>4. SubmitsFit'
  BY <1>2 DEF SubmitInv, SubmitsFit, Submission!TargetsApart, Submission!PolicyEquipped
<1>. QED  BY <1>1, <1>2, <1>3, <1>4 DEF SubmitInv

\* An error for a reason, which leaves the stores alone.
LEMMA RefuseKeeps ==
  ASSUME SubmitInv, NEW h \in Handlers, work' = [work EXCEPT ![h] = Submission!Idle],
         UNCHANGED <<Submission!stores, received>>, Submission!RefusedForReason'
  PROVE  SubmitInv'
  BY RestKeeps, RestIsNoWork

\* A step that changes a store: what Beacons have grows, and all others are disturbed.
LEMMA ChangeKeeps ==
  ASSUME SubmitInv, SubmitTypes', NEW h \in Handlers, NEW w, w \in Submission!Resting \/ w \in Work,
         work' = Submission!Others(h, w), w \in Work => Fine(w)',
         \A b \in Beacons : creds[b] \subseteq creds'[b], defs \subseteq defs'
  PROVE  AllFine'
<1>. SUFFICES ASSUME NEW k \in Handlers, work'[k] \in Work
              PROVE  Fine(work[k])'
  BY DEF AllFine
<1>1. CASE k = h
  BY <1>1, OthersAre DEF SubmitInv, Fine, Knows, Equipped, Phased, Submission!Conflicts
<1>2. CASE k # h
  <2>1. work[k] \in Work /\ work'[k] = [work[k] EXCEPT !.disturbed = TRUE]
    BY <1>2, OthersAre, RestIsNoWork DEF SubmitInv
  <2>2. /\ work'[k].disturbed /\ work'[k].phase = work[k].phase /\ work'[k].req = work[k].req
        /\ work'[k].hasCred = work[k].hasCred /\ work'[k].asked = work[k].asked
        /\ work'[k].lapsed = work[k].lapsed
    BY <2>1 DEF Work
  <2>3. Equipped(work[k]) /\ Phased(work[k])
    BY <2>1 DEF SubmitInv, AllFine, Fine
  <2>4. work[k].req.at \in Beacons
    BY <2>1, NextWork, RequestsTyped DEF SubmitInv
  <2>. QED  BY <2>2, <2>3, <2>4 DEF Fine, Knows, Equipped, Phased
<1>. QED  BY <1>1, <1>2

\* The invariants of a handler with work.
LEMMA FineWork ==
  ASSUME SubmitInv, NEW h \in Handlers, Submission!Step(h)
  PROVE  /\ SubmitTypes /\ work[h] \in Work
         /\ Knows(work[h]) /\ Equipped(work[h]) /\ Phased(work[h])
         /\ work[h].req \in Requests /\ work[h].req.at \in Beacons
         /\ work[h].req.kind \in Submission!Kinds
         /\ work[h].req.op \in {"create", "test", "delete"}
         /\ \A p \in policies : p.at \in Beacons
<1>1. SubmitTypes /\ work[h] \in Work
  BY StepsWork, Working DEF SubmitInv
<1>2. Knows(work[h]) /\ Equipped(work[h]) /\ Phased(work[h])
  BY <1>1 DEF SubmitInv, AllFine, Fine
<1>3. work[h].req \in Requests
  BY <1>1, NextWork
<1>4. \A p \in policies : p.at \in Beacons
  BY <1>1 DEF SubmitTypes, Submission!Policy
<1>. QED  BY <1>1, <1>2, <1>3, <1>4, RequestsTyped

\* A change of the phase is no other.
LEMMA Moved ==
  ASSUME NEW x \in Work, NEW p \in Phases
  PROVE  LET w == [x EXCEPT !.phase = p]
         IN /\ w \in Work /\ w.phase = p /\ w.req = x.req /\ w.hasCred = x.hasCred
            /\ w.heard = x.heard /\ w.asked = x.asked /\ w.blind = x.blind
            /\ w.disturbed = x.disturbed /\ w.lapsed = x.lapsed
  BY DEF Work

\* What the lookup of a credential keeps.
LEMMA LookupKeeps ==
  ASSUME SubmitInv, NEW h \in Handlers, Submission!Lookup(h)
  PROVE  SubmitInv'
<1>0. Submission!Step(h)
  BY DEF Submission!Step
<1>. DEFINE p == IF work[h].req.kind = "files to cloud" THEN "list" ELSE "define"
            had == work[h].req.cred \in creds[work[h].req.at]
            w == [work[h] EXCEPT !.phase = p, !.hasCred = had, !.asked = Beacons]
<1>1. p \in Phases /\ had \in BOOLEAN
  BY DEF Phases
<1>2. Submission!Go(h, w) /\ work[h].phase = "lookup"
  BY DEF Submission!Lookup, Submission!At
<1>3. /\ w \in Work /\ w.phase = p /\ w.req = work[h].req /\ w.hasCred = had
      /\ w.heard = work[h].heard /\ w.asked = Beacons /\ w.disturbed = work[h].disturbed
      /\ w.lapsed = work[h].lapsed
  <2>. HIDE DEF p, had
  <2>. QED  BY <1>0, <1>1, FineWork DEF Work
<1>4. \/ p = "list" /\ work[h].req.kind = "files to cloud"
      \/ p = "define" /\ work[h].req.kind # "files to cloud"
  OBVIOUS
<1>. HIDE DEF p, w
<1>5. Knows(w)
  BY <1>0, <1>2, <1>3, <1>4, FineWork DEF Knows, had, ChecksFiles, Prepares
<1>6. Equipped(w) /\ Phased(w)
  BY <1>0, <1>2, <1>3, <1>4, FineWork DEF Equipped, Phased, had, ChecksFiles
<1>. QED  BY <1>0, <1>2, <1>3, <1>5, <1>6, FineWork, GoKeeps DEF Fine

\* What an answer to a list of policies keeps.
LEMMA ListKeeps ==
  ASSUME SubmitInv, NEW h \in Handlers, Submission!List(h)
  PROVE  SubmitInv'
<1>0. Submission!Step(h)
  BY DEF Submission!Step
<1>1. work[h].phase = "list"
  BY DEF Submission!List, Submission!At
<1>2. PICK b \in work[h].asked, w \in Work, page \in SUBSET policies :
        /\ Submission!Go(h, w) /\ page \subseteq Submission!Of(b)
        /\ w.phase = IF work[h].asked = {b} THEN "check" ELSE "list"
        /\ w.req = work[h].req /\ w.hasCred = work[h].hasCred
        /\ w.disturbed = work[h].disturbed
        /\ w.lapsed = work[h].lapsed /\ w.asked = work[h].asked \ {b}
        /\ w.heard = work[h].heard \cup page
        /\ ~w.blind => ~work[h].blind /\ page = Submission!Of(b)
  BY <1>0, FineWork, ListsOne
<1>3. Knows(w)
  BY <1>0, <1>1, <1>2, FineWork DEF Knows, ChecksFiles, Prepares, Submission!Of
<1>4. Equipped(w) /\ Phased(w)
  BY <1>0, <1>1, <1>2, FineWork DEF Equipped, Phased, ChecksFiles
<1>. QED  BY <1>0, <1>2, <1>3, <1>4, FineWork, GoKeeps DEF Fine

\* What an answer says.
LEMMA AnswerIs ==
  ASSUME NEW h \in Handlers, NEW o, NEW failed, Submission!Answer(h, o, failed)
  PROVE  \A m \in answer' : /\ m.req = work[h].req /\ m.disturbed = work[h].disturbed
                            /\ m.outcome = o
                            /\ failed = TRUE => m.failed
<1>. DEFINE any == failed \/ work[h].failed
            m0 == [req |-> work[h].req, outcome |-> o, failed |-> any,
                   disturbed |-> work[h].disturbed]
<1>1. answer' = {m0}
  BY DEF Submission!Answer
<1>2. failed = TRUE => any
  OBVIOUS
<1>3. /\ m0.req = work[h].req /\ m0.disturbed = work[h].disturbed /\ m0.outcome = o
      /\ m0.failed = any
  <2>. HIDE DEF any
  <2>. QED  OBVIOUS
<1>. HIDE DEF m0, any
<1>. QED  BY <1>1, <1>2, <1>3

\* An answer after a failed call needs no other reason, and one without error none.
LEMMA ExcusedAnswers ==
  ASSUME NEW h \in Handlers,
         Submission!Answer(h, "ok", FALSE) \/ Submission!Answer(h, "error", TRUE)
  PROVE  Submission!RefusedForReason'
<1>1. CASE Submission!Answer(h, "ok", FALSE)
  <2>1. \A m \in answer' : m.outcome = "ok"
    BY <1>1, AnswerIs
  <2>. QED  BY <2>1 DEF Submission!RefusedForReason
<1>2. CASE Submission!Answer(h, "error", TRUE)
  <2>1. \A m \in answer' : m.failed
    BY <1>2, AnswerIs
  <2>. QED  BY <2>1 DEF Submission!RefusedForReason
<1>. QED  BY <1>1, <1>2

\* An answer that needs a reason, when the stores are left alone.
LEMMA ReasonedAnswers ==
  ASSUME NEW h \in Handlers, Submission!Answer(h, "error", FALSE),
         UNCHANGED <<Submission!stores, received>>, NEW r, r = work[h].req,
         ~work[h].disturbed =>
            \/ r.op = "delete" /\ Submission!Named(r.at, r.name) = {}
            \/ r.op = "create" /\ Submission!Named(r.at, r.name) # {}
            \/ r.kind = "files to cloud" /\ Submission!Conflicts(r, policies) # {}
            \/ r.kind # "other" /\ r.cred \notin Aws \cup creds[r.at]
  PROVE  Submission!RefusedForReason'
<1>2. \A m \in answer' : m.req = work[h].req /\ m.disturbed = work[h].disturbed
  BY AnswerIs
<1>3. UNCHANGED <<policies, creds>>
  BY DEF Submission!stores
<1>. QED
  BY <1>2, <1>3, ZenonT(30) DEF Submission!RefusedForReason, Submission!Named, Submission!Conflicts

\* What the check of a target, when all have answered, keeps.
LEMMA CheckKeeps ==
  ASSUME SubmitInv, NEW h \in Handlers, Submission!Check(h)
  PROVE  SubmitInv'
<1>0. Submission!Step(h)
  BY DEF Submission!Step
<1>1. work[h].phase = "check"
  BY DEF Submission!Check, Submission!At
<1>2. CASE work[h].silent = Beacons
  <2>1. Submission!Answer(h, "error", TRUE) /\ UNCHANGED <<Submission!stores, received>>
        /\ work' = [work EXCEPT ![h] = Submission!Idle]
    BY <1>2 DEF Submission!Check
  <2>. QED  BY <2>1, ExcusedAnswers, RefuseKeeps
<1>3. CASE work[h].silent # Beacons /\ Submission!Refuse(h) /\ Submission!Checked(h)
  <2>1. \/ ~work[h].disturbed => Submission!Conflicts(work[h].req, policies) # {}
        \/ \E w : Submission!Go(h, w)
    BY <1>0, <1>3, FineWork, PagesArePart
       DEF Submission!Checked, Knows, Submission!Conflicts
  <2>2. work[h].req.kind = "files to cloud"
    BY <1>0, <1>1, FineWork DEF Phased, ChecksFiles
  <2>3. Submission!Answer(h, "error", FALSE)
    BY <1>3 DEF Submission!Refuse
  <2>4. answer' # {}
    BY <2>3 DEF Submission!Answer
  <2>5. ~work[h].disturbed => Submission!Conflicts(work[h].req, policies) # {}
    BY <2>1, <2>4 DEF Submission!Go
  <2>6. Submission!RefusedForReason'
    BY <1>3, <2>2, <2>5, ReasonedAnswers DEF Submission!Refuse
  <2>. QED  BY <1>3, <2>6, RefuseKeeps DEF Submission!Refuse
<1>4. CASE work[h].silent # Beacons /\ ~Submission!Refuse(h) /\ Submission!Checked(h)
  <2>1. PICK page \in SUBSET work[h].heard, w \in Work :
           /\ Submission!Go(h, w) /\ Submission!Conflicts(work[h].req, page) = {}
           /\ w.phase = "define" /\ w.req = work[h].req /\ w.hasCred = work[h].hasCred
           /\ w.disturbed = work[h].disturbed /\ w.lapsed = work[h].lapsed /\ w.heard = page
           /\ ~w.blind => ~work[h].blind /\ page = work[h].heard
    BY <1>0, <1>4, FineWork, ChecksOne
  <2>2. ~w.disturbed /\ ~w.blind => Submission!Conflicts(w.req, policies) = {}
    BY <1>0, <1>1, <2>1, FineWork DEF Knows, Phased, ChecksFiles, Submission!Conflicts
  <2>3. Knows(w)
    BY <1>0, <1>1, <2>1, <2>2, FineWork DEF Knows, ChecksFiles, Prepares
  <2>4. Equipped(w) /\ Phased(w)
    BY <1>0, <1>1, <2>1, FineWork DEF Equipped, Phased, ChecksFiles
  <2>. QED  BY <1>0, <2>1, <2>3, <2>4, FineWork, GoKeeps DEF Fine
<1>. QED  BY <1>2, <1>3, <1>4 DEF Submission!Check

\* What the look at a local definition keeps.
LEMMA DefineKeeps ==
  ASSUME SubmitInv, NEW h \in Handlers, Submission!Define(h)
  PROVE  SubmitInv'
<1>0. Submission!Step(h)
  BY DEF Submission!Step
<1>. DEFINE p == IF work[h].req.at \in defs THEN "account" ELSE "submit definition"
            w == [work[h] EXCEPT !.phase = p]
<1>1. work[h].phase = "define" /\ Submission!Go(h, w)
  BY DEF Submission!Define, Submission!At
<1>2. /\ p \in Phases
      /\ \/ p = "account" /\ work[h].req.at \in defs
         \/ p = "submit definition" /\ work[h].req.at \notin defs
  BY DEF Phases
<1>3. /\ w \in Work /\ w.phase = p /\ w.req = work[h].req /\ w.hasCred = work[h].hasCred
      /\ w.heard = work[h].heard /\ w.blind = work[h].blind /\ w.disturbed = work[h].disturbed
      /\ w.lapsed = work[h].lapsed
  <2>. HIDE DEF p
  <2>. QED  BY <1>0, <1>2, FineWork, Moved
<1>. HIDE DEF p, w
<1>4. Knows(w)
  BY <1>0, <1>1, <1>2, <1>3, FineWork DEF Knows, ChecksFiles, Prepares
<1>5. Equipped(w) /\ Phased(w)
  BY <1>0, <1>1, <1>2, <1>3, FineWork DEF Equipped, Phased, ChecksFiles
<1>. QED  BY <1>0, <1>1, <1>3, <1>4, <1>5, FineWork, GoKeeps DEF Fine

\* What the read of an account keeps.
LEMMA AccountKeeps ==
  ASSUME SubmitInv, NEW h \in Handlers, Submission!Account(h)
  PROVE  SubmitInv'
<1>0. Submission!Step(h)
  BY DEF Submission!Step
<1>1. work[h].phase = "account"
  BY DEF Submission!Account, Submission!At
<1>2. ASSUME NEW p \in {"submit", "push"}, Submission!Go(h, [work[h] EXCEPT !.phase = p]),
             p = "submit" <=> work[h].hasCred
      PROVE  SubmitInv'
  <2>. DEFINE w == [work[h] EXCEPT !.phase = p]
  <2>0. p \in Phases
    BY DEF Phases
  <2>1. /\ w \in Work /\ w.phase = p /\ w.req = work[h].req /\ w.hasCred = work[h].hasCred
        /\ w.heard = work[h].heard /\ w.blind = work[h].blind /\ w.disturbed = work[h].disturbed
        /\ w.lapsed = work[h].lapsed
    BY <1>0, <2>0, FineWork, Moved
  <2>2. Submission!Go(h, w)
    BY <1>2
  <2>. HIDE DEF w
  <2>3. Knows(w)
    BY <1>0, <1>1, <1>2, <2>1, FineWork DEF Knows, ChecksFiles, Prepares
  <2>4. Equipped(w) /\ Phased(w)
    BY <1>0, <1>1, <1>2, <2>1, FineWork DEF Equipped, Phased, ChecksFiles
  <2>. QED  BY <1>0, <2>1, <2>2, <2>3, <2>4, FineWork, GoKeeps DEF Fine
<1>3. CASE ~work[h].hasCred /\ work[h].req.cred \notin Aws
  <2>1. Submission!Refuse(h)
    BY <1>3 DEF Submission!Account
  <2>2. work[h].req.kind # "other"
    BY <1>0, <1>1, FineWork DEF Phased
  <2>3. ~work[h].disturbed => work[h].req.cred \notin Aws \cup creds[work[h].req.at]
    BY <1>0, <1>1, <1>3, FineWork DEF Knows, Prepares
  <2>4. Submission!RefusedForReason'
    BY <2>1, <2>2, <2>3, ReasonedAnswers DEF Submission!Refuse
  <2>. QED  BY <2>1, <2>4, RefuseKeeps DEF Submission!Refuse
<1>. QED  BY <1>2, <1>3 DEF Submission!Account

\* A step that gives a Beacon something leaves the policies alone.
LEMMA GivenKeeps ==
  ASSUME SubmitInv, UNCHANGED <<policies, received>>
  PROVE  /\ Submission!TargetsApart' /\ Submission!PolicyEquipped'
         /\ \A p \in policies' : p.nth <= received'
  BY DEF SubmitInv, SubmitsFit, Submission!TargetsApart, Submission!PolicyEquipped

\* What a new definition of a cluster keeps.
LEMMA SubmitDefinitionKeeps ==
  ASSUME SubmitInv, NEW h \in Handlers, Submission!SubmitDefinition(h)
  PROVE  SubmitInv'
<1>0. Submission!Step(h)
  BY DEF Submission!Step
<1>1. work[h].phase = "submit definition"
  BY DEF Submission!SubmitDefinition, Submission!At
<1>2. CASE Submission!Refuse(h)
  <2>1. CASE work[h].disturbed
    BY <1>2, <2>1, ReasonedAnswers, RefuseKeeps DEF Submission!Refuse
  <2>2. CASE ~work[h].disturbed
    <3>1. work[h].req.at \notin defs
      BY <1>0, <1>1, <2>2, FineWork DEF Knows
    <3>2. work[h].req.at \in defs' /\ defs' = defs
      BY <1>2, <3>1 DEF Submission!SubmitDefinition, Submission!Refuse, Submission!stores
    <3>. QED  BY <3>1, <3>2
  <2>. QED  BY <2>1, <2>2
<1>3. CASE ~Submission!Refuse(h)
  <2>0. PICK w : w = [work[h] EXCEPT !.phase = "account"]
    OBVIOUS
  <2>1. /\ defs' = defs \cup {work[h].req.at} /\ UNCHANGED <<policies, creds, received>>
        /\ Submission!Changed(h, w)
    BY <1>3, <2>0 DEF Submission!SubmitDefinition
  <2>2. /\ w \in Work /\ w.phase = "account" /\ w.req = work[h].req /\ w.hasCred = work[h].hasCred
        /\ w.heard = work[h].heard /\ w.blind = work[h].blind /\ w.disturbed = work[h].disturbed
        /\ w.lapsed = work[h].lapsed
    <3>1. work[h] \in Work
      BY <1>0, FineWork
    <3>2. "account" \in Phases
      BY DEF Phases
    <3>. QED  BY <2>0, <3>1, <3>2, Moved
  <2>3. Fine(w)'
    BY <1>0, <1>1, <2>1, <2>2, FineWork, ZenonT(30)
       DEF Fine, Knows, Equipped, Phased, ChecksFiles, Prepares, Submission!Conflicts
  <2>4. PICK v \in {w, Submission!Idle} : work' = Submission!Others(h, v)
    BY <2>1 DEF Submission!Changed
  <2>5. Submission!RefusedForReason'
    <3>1. CASE answer' = {}
      BY <3>1 DEF Submission!RefusedForReason
    <3>2. CASE Submission!Answer(h, "error", TRUE)
      BY <3>2, ExcusedAnswers
    <3>. QED  BY <2>1, <3>1, <3>2 DEF Submission!Changed
  <2>6. SubmitTypes'
    BY <1>0, <2>1, <2>2, <2>4, FineWork, ChangedTyped, RestIsNoWork DEF SubmitTypes
  <2>7. AllFine'
    BY <2>1, <2>2, <2>3, <2>4, <2>6, ChangeKeeps, RestIsNoWork
  <2>. QED  BY <2>1, <2>5, <2>6, <2>7, GivenKeeps DEF SubmitInv, SubmitsFit
<1>. QED  BY <1>2, <1>3

\* What a credential that goes to a Beacon keeps.
LEMMA PushKeeps ==
  ASSUME SubmitInv, NEW h \in Handlers, Submission!Push(h)
  PROVE  SubmitInv'
<1>0. Submission!Step(h)
  BY DEF Submission!Step
<1>1. work[h].phase = "push"
  BY DEF Submission!Push, Submission!At
<1>2. CASE Submission!Refuse(h)
  <2>1. CASE work[h].disturbed
    BY <1>2, <2>1, ReasonedAnswers, RefuseKeeps DEF Submission!Refuse
  <2>2. CASE ~work[h].disturbed
    <3>1. work[h].req.cred \notin creds[work[h].req.at]
      BY <1>0, <1>1, <2>2, FineWork DEF Knows, Phased, Prepares
    <3>2. UNCHANGED creds
      BY <1>2 DEF Submission!Refuse, Submission!stores
    <3>3. creds' = [creds EXCEPT ![work[h].req.at] = @ \cup {work[h].req.cred}]
      BY <3>1 DEF Submission!Push
    <3>. QED  BY <1>0, <3>1, <3>2, <3>3, FineWork DEF SubmitTypes
  <2>. QED  BY <2>1, <2>2
<1>3. CASE ~Submission!Refuse(h)
  <2>0. PICK w : w = [work[h] EXCEPT !.phase = "submit"]
    OBVIOUS
  <2>1. /\ creds' = [creds EXCEPT ![work[h].req.at] = @ \cup {work[h].req.cred}]
        /\ UNCHANGED <<policies, defs, received>> /\ Submission!Changed(h, w)
    BY <1>3, <2>0 DEF Submission!Push
  <2>2. /\ w \in Work /\ w.phase = "submit" /\ w.req = work[h].req /\ w.hasCred = work[h].hasCred
        /\ w.heard = work[h].heard /\ w.blind = work[h].blind /\ w.disturbed = work[h].disturbed
        /\ w.lapsed = work[h].lapsed
    <3>1. work[h] \in Work
      BY <1>0, FineWork
    <3>2. "submit" \in Phases
      BY DEF Phases
    <3>. QED  BY <2>0, <3>1, <3>2, Moved
  <2>3. /\ \A b \in Beacons : creds[b] \subseteq creds'[b]
        /\ work[h].req.cred \in creds'[work[h].req.at]
        /\ work[h].req.cred \in Creds
    BY <1>0, <2>1, FineWork, RequestsTyped DEF SubmitTypes
  <2>4. Fine(w)'
    BY <1>0, <1>1, <2>1, <2>2, <2>3, FineWork
       DEF Fine, Knows, Equipped, Phased, ChecksFiles, Prepares, Submission!Conflicts
  <2>5. PICK v \in {w, Submission!Idle} : work' = Submission!Others(h, v)
    BY <2>1 DEF Submission!Changed
  <2>6. Submission!RefusedForReason'
    <3>1. CASE answer' = {}
      BY <3>1 DEF Submission!RefusedForReason
    <3>2. CASE Submission!Answer(h, "error", TRUE)
      BY <3>2, ExcusedAnswers
    <3>. QED  BY <2>1, <3>1, <3>2 DEF Submission!Changed
  <2>7. SubmitTypes'
    BY <1>0, <2>1, <2>2, <2>3, <2>5, FineWork, ChangedTyped, RestIsNoWork DEF SubmitTypes
  <2>8. AllFine'
    BY <2>1, <2>2, <2>3, <2>4, <2>5, <2>7, ChangeKeeps, RestIsNoWork
  <2>. QED  BY <2>1, <2>3, <2>6, <2>7, <2>8, GivenKeeps DEF SubmitInv, SubmitsFit
<1>. QED  BY <1>2, <1>3

\* What a policy that is submitted keeps.
LEMMA SubmitKeeps ==
  ASSUME SubmitInv, NEW h \in Handlers, Submission!Submit(h)
  PROVE  SubmitInv'
<1>0. Submission!Step(h)
  BY DEF Submission!Step
<1>1. work[h].phase = "submit"
  BY DEF Submission!Submit, Submission!At
<1>. DEFINE r == work[h].req
<1>2. CASE r.op = "test"
  <2>1. /\ work' = [work EXCEPT ![h] = Submission!Idle] /\ Submission!Answer(h, "ok", FALSE)
        /\ UNCHANGED <<Submission!stores, received>>
    BY <1>2 DEF Submission!Submit
  <2>2. Submission!RefusedForReason'
    BY <2>1, ExcusedAnswers
  <2>. QED  BY <2>1, <2>2, RefuseKeeps
<1>3. CASE r.op # "test" /\ Submission!Named(r.at, r.name) # {}
  <2>1. Submission!Refuse(h)
    BY <1>3 DEF Submission!Submit
  <2>2. r.op = "create"
    BY <1>0, <1>1, <1>3, FineWork DEF Phased
  <2>3. Submission!RefusedForReason'
    BY <1>3, <2>1, <2>2, ReasonedAnswers DEF Submission!Refuse
  <2>. QED  BY <2>1, <2>3, RefuseKeeps DEF Submission!Refuse
<1>4. CASE r.op # "test" /\ Submission!Named(r.at, r.name) = {}
  <2>0. PICK q : q = Submitted(h)
    OBVIOUS
  <2>1. policies' = policies \cup {q} /\ (Submission!Done(h) \/ Submission!DoneUnheard(h))
    BY <1>4, <2>0 DEF Submission!Submit, Submitted
  <2>2. /\ work' = Submission!Others(h, Submission!Idle) /\ UNCHANGED <<creds, defs, received>>
    BY <2>1 DEF Submission!Done, Submission!DoneUnheard
  <2>3. /\ q \in Submission!Policy /\ q.at = r.at /\ q.kind = r.kind /\ q.target = r.target
        /\ q.cred = r.cred /\ q.nth = received
        /\ q.sure <=> ~work[h].blind /\ ~work[h].disturbed
        /\ q.lapsed = work[h].lapsed
        /\ q.equipped <=> r.cred \in creds[r.at] /\ r.at \in defs
    BY <1>0, <2>0, FineWork, SubmittedIs
  <2>4. Submission!RefusedForReason'
    BY <2>1, ExcusedAnswers DEF Submission!Done, Submission!DoneUnheard
  <2>5. SubmitTypes'
    BY <1>0, <2>1, <2>2, <2>3, FineWork, ChangedTyped, RestIsNoWork DEF SubmitTypes
  <2>6. AllFine'
    BY <2>2, <2>5, ChangeKeeps, RestIsNoWork
  <2>7. received \in Nat /\ \A p \in policies : p.nth \in Nat /\ p.nth <= received
    BY <1>0, FineWork, RequestsTyped DEF SubmitInv, SubmitTypes, Submission!Policy
  <2>8. q.kind = "files to cloud" /\ q.sure
          => \A p \in policies : p.kind = "files to cloud" => ~Submission!Comparable(p.target, q.target)
    BY <1>0, <1>1, <2>3, FineWork DEF Knows, Submission!Conflicts
  <2>9. Submission!TargetsApart'
    <3>. SUFFICES ASSUME NEW p \in policies', NEW s \in policies',
                         p.kind = "files to cloud", s.kind = "files to cloud", p.nth < s.nth, s.sure
                  PROVE  ~Submission!Comparable(p.target, s.target)
      BY DEF Submission!TargetsApart
    <3>1. CASE s \in policies
      <4>1. p # q
        <5>. SUFFICES ASSUME p = q
                      PROVE  FALSE
          OBVIOUS
        <5>1. p.nth = received /\ received \in Nat /\ s.nth \in Nat /\ s.nth <= received
          BY <2>3, <2>7, <3>1
        <5>. QED  BY <5>1, NotBefore
      <4>2. p \in policies
        BY <2>1, <4>1
      <4>. QED  BY <3>1, <4>2 DEF SubmitInv, SubmitsFit, Submission!TargetsApart
    <3>2. CASE s = q
      <4>1. p # q
        <5>. SUFFICES ASSUME p = q
                      PROVE  FALSE
          OBVIOUS
        <5>1. received \in Nat
          BY <2>7
        <5>2. p.nth = received /\ s.nth = received
          BY <2>3, <3>2
        <5>3. ~(received < received)
          BY <5>1, NotBeforeItself
        <5>. QED  BY <5>2, <5>3
      <4>2. p \in policies
        BY <2>1, <4>1
      <4>. QED  BY <2>8, <3>2, <4>2
    <3>. QED  BY <2>1, <3>1, <3>2
  <2>10. Submission!PolicyEquipped'
    BY <1>0, <1>1, <2>1, <2>2, <2>3, FineWork
       DEF Equipped, SubmitInv, SubmitsFit, Submission!PolicyEquipped
  <2>11. \A p \in policies' : p.nth <= received'
    BY <2>1, <2>2, <2>3, <2>7
  <2>. QED  BY <2>4, <2>5, <2>6, <2>9, <2>10, <2>11 DEF SubmitInv, SubmitsFit
<1>. QED  BY <1>2, <1>3, <1>4

\* What a call about a policy there is keeps.
LEMMA UpdateKeeps ==
  ASSUME SubmitInv, NEW h \in Handlers, Submission!Update(h)
  PROVE  SubmitInv'
<1>0. Submission!Step(h)
  BY DEF Submission!Step
<1>1. work[h].phase = "update"
  BY DEF Submission!Update, Submission!At
<1>. DEFINE r == work[h].req
<1>2. CASE Submission!Named(r.at, r.name) = {}
  <2>1. Submission!Refuse(h)
    BY <1>2 DEF Submission!Update
  <2>2. r.op = "delete"
    BY <1>0, <1>1, FineWork DEF Phased
  <2>3. Submission!RefusedForReason'
    BY <1>2, <2>1, <2>2, ReasonedAnswers DEF Submission!Refuse
  <2>. QED  BY <2>1, <2>3, RefuseKeeps DEF Submission!Refuse
<1>3. CASE Submission!Named(r.at, r.name) # {}
  <2>1. policies' \subseteq policies /\ (Submission!Done(h) \/ Submission!DoneUnheard(h))
    BY <1>3 DEF Submission!Update
  <2>2. work' = Submission!Others(h, Submission!Idle) /\ UNCHANGED <<creds, defs, received>>
    BY <2>1 DEF Submission!Done, Submission!DoneUnheard
  <2>3. Submission!RefusedForReason'
    BY <2>1, ExcusedAnswers DEF Submission!Done, Submission!DoneUnheard
  <2>4. SubmitTypes'
    BY <1>0, <2>1, <2>2, FineWork, ChangedTyped, RestIsNoWork DEF SubmitTypes
  <2>5. AllFine'
    BY <2>2, <2>4, ChangeKeeps, RestIsNoWork
  <2>6. /\ Submission!TargetsApart' /\ Submission!PolicyEquipped'
        /\ \A p \in policies' : p.nth <= received'
    BY <2>1, <2>2 DEF SubmitInv, SubmitsFit, Submission!TargetsApart, Submission!PolicyEquipped
  <2>. QED  BY <2>3, <2>4, <2>5, <2>6 DEF SubmitInv, SubmitsFit
<1>. QED  BY <1>2, <1>3

\* What a request that comes keeps.
LEMMA ReceiveKeeps ==
  ASSUME SubmitInv, NEW h \in Handlers, NEW r \in Requests, Submission!Receive(h, r)
  PROVE  SubmitInv'
<1>1. /\ work' = [work EXCEPT ![h] = Submission!Start(r)] /\ answer' = {}
      /\ received' = received + 1 /\ UNCHANGED <<policies, creds, defs>>
  BY DEF Submission!Receive, Submission!stores
<1>2. SubmitTypes'
  BY SubmitTypesStep DEF SubmitInv, Submission!Next
<1>. DEFINE w == Submission!Start(r)
<1>3. /\ w \in Work /\ w.req = r /\ w.heard = {} /\ ~w.hasCred
      /\ w.phase = IF r.op = "delete" THEN "update"
                   ELSE IF r.kind = "other" THEN "submit" ELSE "lookup"
  BY StartsWork
<1>. HIDE DEF w
<1>4. Fine(w)
  BY <1>3 DEF Fine, Knows, Equipped, Phased, ChecksFiles, Prepares
<1>5. AllFine'
  <2>. SUFFICES ASSUME NEW k \in Handlers, work'[k] \in Work
                PROVE  Fine(work[k])'
    BY DEF AllFine
  <2>1. PICK x : x = work'[k] /\ Fine(x)
    BY <1>1, <1>4 DEF SubmitInv, SubmitTypes, AllFine, w
  <2>. QED  BY <1>1, <2>1 DEF Fine, Knows, Equipped, Phased, Submission!Conflicts
<1>6. SubmitsFit'
  BY <1>1 DEF SubmitInv, SubmitsFit, Submission!TargetsApart, Submission!PolicyEquipped,
     Submission!RefusedForReason
<1>7. \A p \in policies' : p.nth <= received'
  BY <1>1, RequestsTyped DEF SubmitInv, SubmitTypes, Submission!Policy
<1>. QED  BY <1>2, <1>5, <1>6, <1>7 DEF SubmitInv

\* What the deletion of a credential keeps.
LEMMA WithdrawKeeps ==
  ASSUME SubmitInv, NEW b \in Beacons, NEW c \in Creds, Submission!Withdraw(b, c)
  PROVE  SubmitInv'
<1>1. SubmitTypes'
  BY SubmitTypesStep DEF SubmitInv, Submission!Next
<1>2. /\ received' = received + 1 /\ received < MaxRequests /\ UNCHANGED <<policies, defs>>
      /\ creds' = [creds EXCEPT ![b] = @ \ {c}] /\ answer' = {}
  BY DEF Submission!Withdraw
<1>3. AllFine'
  <2>. SUFFICES ASSUME NEW k \in Handlers, work'[k] \in Work
                PROVE  Fine(work[k])'
    BY DEF AllFine
  <2>1. /\ work[k] \in Work /\ work'[k].disturbed
        /\ work'[k].phase = work[k].phase /\ work'[k].req = work[k].req
        /\ work'[k].hasCred = work[k].hasCred /\ work'[k].asked = work[k].asked
        /\ ~work'[k].lapsed =>
             ~work[k].lapsed /\ ~(work[k].req.at = b /\ work[k].req.cred = c)
    BY WithdrawnWork, RestIsNoWork DEF SubmitInv
  <2>2. Equipped(work[k]) /\ Phased(work[k])
    BY <2>1 DEF SubmitInv, AllFine, Fine
  <2>3. work[k].req.at \in Beacons
    BY <2>1, NextWork, RequestsTyped DEF SubmitInv
  <2>4. \A at \in Beacons : \A cred : cred \in creds[at] /\ ~(at = b /\ cred = c) => cred \in creds'[at]
    BY <1>2 DEF SubmitInv, SubmitTypes
  <2>. QED  BY <1>2, <2>1, <2>2, <2>3, <2>4 DEF Fine, Knows, Equipped, Phased
<1>4. SubmitsFit'
  BY <1>2 DEF SubmitInv, SubmitsFit, Submission!TargetsApart, Submission!PolicyEquipped,
     Submission!RefusedForReason
<1>5. \A p \in policies' : p.nth <= received'
  BY <1>2, RequestsTyped DEF SubmitInv, SubmitTypes, Submission!Policy
<1>. QED  BY <1>1, <1>3, <1>4, <1>5 DEF SubmitInv

\* The invariant of submission is one of the backend.
LEMMA SubmitInvHolds == Spec => []SubmitInv
<1>1. Init => SubmitInv
  <2>. SUFFICES ASSUME Submission!Init
                PROVE  SubmitInv
    BY DEF Init
  <2>1. SubmitTypes /\ AllFine
    BY RequestsTyped, RestIsNoWork DEF Submission!Init, SubmitTypes, AllFine
  <2>. QED
    BY <2>1 DEF SubmitInv, Submission!Init, SubmitsFit, Submission!TargetsApart,
       Submission!PolicyEquipped, Submission!RefusedForReason
<1>2. SubmitInv /\ [Next]_vars => SubmitInv'
  <2>. SUFFICES ASSUME SubmitInv, [Submission!Next]_(Submission!vars)
                PROVE  SubmitInv'
    BY PartSteps
  <2>1. CASE UNCHANGED Submission!vars
    <3>1. UNCHANGED <<policies, creds, defs, work, answer, received>>
      BY <2>1 DEF Submission!vars, Submission!stores
    <3>2. SubmitTypes'
      BY SubmitTypesStep DEF SubmitInv
    <3>3. AllFine'
      BY <3>1 DEF SubmitInv, AllFine, Fine, Knows, Equipped, Phased, Submission!Conflicts
    <3>4. SubmitsFit'
      BY <3>1 DEF SubmitInv, SubmitsFit, Submission!TargetsApart, Submission!PolicyEquipped,
         Submission!RefusedForReason, Submission!Named, Submission!Conflicts
    <3>. QED  BY <3>1, <3>2, <3>3, <3>4 DEF SubmitInv
  <2>2. ASSUME NEW h \in Handlers, Submission!Fail(h)
        PROVE  SubmitInv'
    BY <2>2, ExcusedAnswers, RefuseKeeps DEF Submission!Fail
  <2>3. ASSUME NEW h \in Handlers, Submission!NeverAnswered(h)
        PROVE  SubmitInv'
    <3>1. /\ work' = [work EXCEPT ![h] = Submission!Hung] /\ answer' = {}
          /\ UNCHANGED <<Submission!stores, received>>
      BY <2>3 DEF Submission!NeverAnswered, Submission!Go
    <3>2. Submission!RefusedForReason'
      BY <3>1 DEF Submission!RefusedForReason
    <3>. QED  BY <3>1, <3>2, RestKeeps, RestIsNoWork
  <2>. QED
    BY <2>1, <2>2, <2>3, WithdrawKeeps, LookupKeeps, ListKeeps, CheckKeeps, DefineKeeps,
       SubmitDefinitionKeeps, AccountKeeps, PushKeeps, SubmitKeeps, UpdateKeeps, ReceiveKeeps
       DEF Submission!Next, Submission!Proceed, Submission!Step
<1>. QED  BY <1>1, <1>2, PTL DEF Spec

-----------------------------------------------------------------------------
(* Requests passed on to one Beacon. *)

\* An answer fits what came back.
Fits(x, status, body) ==
  /\ x.phase \in {"ok", "error"}
  /\ x.phase = "ok" => status = 200 /\ body = "expected"
  /\ x.phase = "error" =>
       /\ status \notin {0, 200} /\ body # "unreadable" => x.code = status
       /\ x.code \in Statuses \cup {500, 502, 503}
       /\ x.code = 502 /\ 502 \notin Statuses => status = 200 /\ body # "unreadable"

\* What is made of what came back.
LEMMA ResultFits ==
  ASSUME NEW r, NEW res, NEW status \in Statuses \cup {200}, NEW body \in Relayed!Bodies,
         res.status = status, res.body = body,
         NEW x, x = Relayed!Result(r, res)
  PROVE  Fits(x, status, body)
<1>1. CASE status = 200
  <2>1. x = Relayed!Accepted(r.part, body)
    BY <1>1 DEF Relayed!Result
  <2>2. CASE body = "expected"
    <3>1. x = Relayed!Good
      BY <2>1, <2>2 DEF Relayed!Accepted
    <3>. QED  BY <1>1, <2>2, <3>1 DEF Relayed!Good, Fits
  <2>3. CASE body # "expected"
    <3>1. \A p : Relayed!Accepted(p, "unreadable") = Relayed!Unreached
      BY DEF Relayed!Accepted
    <3>2. CASE body = "unreadable"
      <4>1. x = Relayed!Unreached
        BY <2>1, <3>1, <3>2, Zenon
      <4>2. x.phase = "error" /\ x.code = 503
        BY <4>1 DEF Relayed!Bad, Relayed!Unreached, Relayed!SERVICE_UNAVAILABLE
      <4>. QED  BY <1>1, <3>2, <4>2 DEF Fits
    <3>3. CASE body # "unreadable"
      <4>1. x.phase = "error" /\ x.code \in {502, 503}
        BY <2>1, <2>3, <3>3 DEF Relayed!Accepted, Relayed!Bad, Relayed!Unreached,
           Relayed!BAD_GATEWAY, Relayed!SERVICE_UNAVAILABLE
      <4>. QED  BY <1>1, <2>3, <3>3, <4>1 DEF Fits
    <3>. QED  BY <3>2, <3>3
  <2>. QED  BY <2>2, <2>3
<1>2. CASE status # 200
  <2>1. x = Relayed!Refused(status, body) /\ status \in Statuses
    BY <1>2 DEF Relayed!Result
  <2>2. CASE body = "unreadable"
    <3>1. x.phase = "error" /\ x.code = 503
      BY <2>1, <2>2 DEF Relayed!Refused, Relayed!Bad, Relayed!Unreached, Relayed!SERVICE_UNAVAILABLE
    <3>. QED  BY <1>2, <2>1, <2>2, <3>1 DEF Fits
  <2>3. CASE body # "unreadable"
    <3>1. x.phase = "error" /\ x.code = status
      BY <2>1, <2>3 DEF Relayed!Refused, Relayed!Bad
    <3>. QED  BY <1>2, <2>1, <2>3, <3>1 DEF Fits
  <2>. QED  BY <2>2, <2>3
<1>. QED  BY <1>1, <1>2

\* A request waits, or has an answer that fits what came back of it.
RelayInv ==
  /\ Relayed!TypeOK /\ came \in [status : Statuses \cup {0, 200}, body : Relayed!Bodies]
  /\ route = Relayed!None => given.phase = "waiting"
  /\ \/ given.phase \in {"waiting", "never"} /\ came = Relayed!Nothing /\ done = 0
     \/ /\ Fits(given, came.status, came.body)
        /\ given.phase = "ok" /\ route.changes => done = 1

\* The invariant of relayed calls holds.
LEMMA RelayInvHolds == Spec => []RelayInv
<1>1. Init => RelayInv
  <2>. SUFFICES ASSUME route = Relayed!None, came = Relayed!Nothing, done = 0, given = Relayed!Waiting
                PROVE  RelayInv
    BY DEF Init, Relayed!Init
  <2>. QED  BY DEF RelayInv, Relayed!TypeOK, Relayed!Nothing, Relayed!Waiting, Relayed!Bodies
<1>2. ASSUME RelayInv, [Relayed!Next]_relayVars
      PROVE  RelayInv'
  <2>1. CASE UNCHANGED relayVars
    BY <1>2, <2>1 DEF relayVars, RelayInv, Relayed!TypeOK, Fits
  <2>2. ASSUME NEW r \in Relayed!Routes, Relayed!Request(r)
        PROVE  RelayInv'
    <3>1. UNCHANGED <<came, done, given>> /\ route = Relayed!None /\ route' \in Relayed!Routes
      BY <2>2 DEF Relayed!Request
    <3>. QED  BY <1>2, <3>1 DEF RelayInv, Relayed!TypeOK, Fits
  <2>3. CASE Relayed!LookupFails
    <3>1. /\ UNCHANGED <<route, came, done>> /\ given.phase = "waiting" /\ route # Relayed!None
          /\ given' \in {Relayed!Bad(500, TRUE), Relayed!Never}
      BY <2>3 DEF Relayed!LookupFails, Relayed!AtWork, Relayed!INTERNAL_SERVER_ERROR, Relayed!Waiting
    <3>2. came = Relayed!Nothing /\ done = 0
      BY <1>2, <3>1 DEF RelayInv, Fits
    <3>3. given'.phase = "never" \/ (given'.phase = "error" /\ given'.code = 500)
      <4>1. CASE given' = Relayed!Bad(500, TRUE)
        BY <4>1 DEF Relayed!Bad
      <4>2. CASE given' = Relayed!Never
        BY <4>2 DEF Relayed!Never
      <4>. QED  BY <3>1, <4>1, <4>2
    <3>4. came'.status = 0 /\ came'.body = "unreadable"
      BY <3>1, <3>2 DEF Relayed!Nothing
    <3>5. given'.phase = "never" \/ (Fits(given', came'.status, came'.body) /\ given'.phase # "ok")
      BY <3>3, <3>4 DEF Fits
    <3>. QED  BY <1>2, <3>1, <3>2, <3>3, <3>5 DEF RelayInv, Relayed!TypeOK
  <2>4. CASE Relayed!CallBeacon
    <3>1. UNCHANGED route /\ route # Relayed!None /\ done' \in {0, 1}
      BY <2>4 DEF Relayed!CallBeacon, Relayed!AtWork
    <3>2. ASSUME NEW res \in [status : Statuses \cup {200}, body : Relayed!Bodies],
                 (res.status = 200 /\ res.body = "expected" /\ route.changes) => done' = 1,
                 came' = res, given' = Relayed!Result(route, res)
          PROVE  RelayInv'
      <4>1. /\ came' \in [status : Statuses \cup {0, 200}, body : Relayed!Bodies]
            /\ came'.status \in Statuses \cup {0, 200}
            /\ Fits(given', came'.status, came'.body)
        BY <3>2, ResultFits
      <4>. QED  BY <1>2, <3>1, <3>2, <4>1 DEF RelayInv, Relayed!TypeOK, Fits
    <3>3. CASE came' = Relayed!Nothing /\ given' = Relayed!Unreached
      <4>1. given'.phase = "error" /\ given'.code = 503
        BY <3>3 DEF Relayed!Bad, Relayed!Unreached, Relayed!SERVICE_UNAVAILABLE
      <4>2. came'.status = 0 /\ came'.body = "unreadable"
            /\ came' \in [status : Statuses \cup {0, 200}, body : Relayed!Bodies]
        BY <3>3 DEF Relayed!Nothing, Relayed!Bodies
      <4>3. Fits(given', came'.status, came'.body)
        BY <4>1, <4>2 DEF Fits
      <4>. QED  BY <1>2, <3>1, <4>1, <4>2, <4>3 DEF RelayInv, Relayed!TypeOK
    <3>. QED  BY <2>4, <3>2, <3>3 DEF Relayed!CallBeacon
  <2>. QED  BY <1>2, <2>1, <2>2, <2>3, <2>4 DEF Relayed!Next
<1>. QED  BY <1>1, <1>2, PartSteps, PTL DEF Spec

\* Relayed answers fit what came back.
LEMMA RelaysAreFit == Spec => []Relayed!RelaysFit
<1>1. ASSUME RelayInv
      PROVE  Relayed!RelaysFit
  <2>1. came \in [status : Statuses \cup {0, 200}, body : Relayed!Bodies] /\ 0 \notin Statuses
    BY <1>1, BackendConstants DEF RelayInv, Relayed!TypeOK, Relayed!RelaysConstants
  <2>2. CASE given.phase \in {"waiting", "never"} /\ came = Relayed!Nothing /\ done = 0
    BY <2>2 DEF Relayed!RelaysFit
  <2>3. CASE Fits(given, came.status, came.body) /\ (given.phase = "ok" /\ route.changes => done = 1)
    BY <1>1, <2>1, <2>3 DEF Relayed!RelaysFit, Fits, Relayed!BAD_GATEWAY
  <2>. QED  BY <1>1, <2>2, <2>3 DEF RelayInv
<1>. QED  BY <1>1, RelayInvHolds, PTL
-----------------------------------------------------------------------------
(* The status of accounts. *)

StorageTypes ==
  /\ stored \in [StoreAccounts -> Storage!Types \cup {"absent"}] /\ replaced \in 0..MaxReplaced
  /\ waiting \subseteq StoreAccounts
  /\ built \in [StoreAccounts -> {"none", "aws", "wasb", "adls"}]
  /\ reached.phase \in {"pending", "ok", "error", "never"}
  /\ asking.kind \in {"none", "identity", "list", "statuses"}
  /\ \A s \in statuses : s[1] \in StoreAccounts

\* The accounts that have a status when no account was replaced and no call failed.
HasStatus(a) == stored[a] = "key" \/ (stored[a] \in {"wasb", "adls"} /\ alive[a])

\* While nothing goes wrong, an account that is waited for no more has a status if it
\* should, and what was built of it is of its provider.
Undisturbed == asking.kind = "statuses" /\ replaced = 0 /\ ~troubled
StorageInv ==
  /\ StorageTypes
  /\ asking.kind = "none" => waiting = {} /\ statuses = {} /\ reached.phase = "pending"
                               /\ built = [a \in StoreAccounts |-> "none"] /\ ~troubled
  /\ \A s \in statuses : s[2] = "ACTIVE" <=> alive[s[1]]
  /\ Undisturbed /\ reached.phase = "pending" =>
       \A a \in StoreAccounts :
         /\ built[a] # "none" => built[a] = Storage!Provider[stored[a]] /\ a \in Storage!ToBeChecked
         /\ a \in waiting => a \in Storage!ToBeChecked
         /\ a \in Storage!ToBeChecked \ waiting =>
              (HasStatus(a) => \E s \in statuses : s[1] = a)
         /\ (\E s \in statuses : s[1] = a) => HasStatus(a)
  /\ Undisturbed /\ reached.phase = "ok" =>
       {s[1] : s \in reached.found} = {a \in StoreAccounts : HasStatus(a)}

\* The clouds of the types of accounts.
LEMMA ProvidersAre ==
  ASSUME NEW t \in Storage!Types
  PROVE  /\ Storage!Provider[t] \in {"aws", "wasb", "adls"}
         /\ Storage!Provider[t] = "aws" <=> t \in {"key", "role"}
         /\ Storage!Provider[t] = "wasb" <=> t = "wasb"
         /\ Storage!Provider[t] = "adls" <=> t = "adls"
  BY DEF Storage!Provider, Storage!Types

\* At first no account is waited for.
LEMMA StorageInvInit == Init => StorageInv
<1>. SUFFICES ASSUME Storage!Init
              PROVE  StorageInv
  BY DEF Init
<1>1. asking.kind = "none" /\ reached.phase = "pending"
  BY DEF Storage!Init, Storage!NotAsking, Storage!Unanswered
<1>2. MaxReplaced \in Nat
  BY BackendConstants DEF Storage!CloudStorageConstants
<1>. QED  BY <1>1, <1>2 DEF Storage!Init, Storage!NoService, StorageInv, StorageTypes, Undisturbed

\* Accounts that are replaced.
LEMMA ReplaceKeeps ==
  ASSUME StorageInv, NEW a \in StoreAccounts, NEW t \in Storage!Types \cup {"absent"},
         Storage!Replace(a, t)
  PROVE  StorageInv'
<1>1. /\ replaced' = replaced + 1 /\ replaced' # 0 /\ replaced' \in 0..MaxReplaced
      /\ stored' \in [StoreAccounts -> Storage!Types \cup {"absent"}]
      /\ UNCHANGED <<alive, asking, waiting, built, statuses, troubled, reached>>
      /\ asking.kind # "none"
  <2>1. replaced \in 0..MaxReplaced /\ replaced < MaxReplaced /\ replaced' = replaced + 1
        /\ MaxReplaced \in Nat
    BY BackendConstants DEF Storage!Replace, StorageInv, StorageTypes, Storage!CloudStorageConstants
  <2>2. replaced' # 0 /\ replaced' \in 0..MaxReplaced
    BY <2>1
  <2>. QED  BY <2>1, <2>2 DEF Storage!Replace, StorageInv, StorageTypes
<1>. QED  BY <1>1 DEF StorageInv, StorageTypes, Undisturbed

\* What is asked for.
LEMMA AskKeeps ==
  ASSUME StorageInv, asking = Storage!NotAsking, NEW kind \in {"identity", "list", "statuses"}, NEW dir,
         asking' = [kind |-> kind, dir |-> dir],
         waiting' \subseteq StoreAccounts, kind = "statuses" => waiting' = Storage!ToBeChecked,
         UNCHANGED <<stored, alive, replaced, built, statuses, troubled, reached>>
  PROVE  StorageInv'
<1>1. asking.kind = "none" /\ asking'.kind = kind
  BY DEF Storage!NotAsking
<1>2. /\ statuses' = {} /\ reached'.phase = "pending" /\ ~troubled'
      /\ \A a \in StoreAccounts : built'[a] = "none"
  BY <1>1 DEF StorageInv
<1>3. StorageTypes'
  BY <1>1 DEF StorageInv, StorageTypes
<1>4. Storage!ToBeChecked' = Storage!ToBeChecked
  BY DEF Storage!ToBeChecked
<1>. QED  BY <1>1, <1>2, <1>3, <1>4 DEF StorageInv, Undisturbed

\* An account that is waited for no more, without a status or with a new one, while the
\* request goes on.
LEMMA GoesOnKeeps ==
  ASSUME StorageInv, NEW a \in waiting, asking.kind # "none", reached.phase = "pending",
         waiting' = waiting \ {a}, UNCHANGED <<stored, alive, replaced, asking, built, reached>>,
         troubled' = TRUE \/ UNCHANGED troubled,
         \/ UNCHANGED statuses
         \/ \E x : statuses' = statuses \cup {<<a, x>>} /\ (x = "ACTIVE" <=> alive[a]),
         (Undisturbed /\ ~troubled') =>
           (HasStatus(a) <=> \E x : statuses' = statuses \cup {<<a, x>>})
  PROVE  StorageInv'
<1>1. a \in StoreAccounts
  BY DEF StorageInv, StorageTypes
<1>2. \A s \in statuses' : s \in statuses \/ (s[1] = a /\ (s[2] = "ACTIVE" <=> alive[a]))
  OBVIOUS
<1>3. /\ StorageTypes' /\ \A s \in statuses' : s[2] = "ACTIVE" <=> alive'[s[1]]
  BY <1>1, <1>2 DEF StorageInv, StorageTypes
<1>4. ASSUME Undisturbed', NEW b \in StoreAccounts
      PROVE  /\ built'[b] # "none" =>
                  built'[b] = Storage!Provider[stored'[b]] /\ b \in Storage!ToBeChecked'
             /\ b \in waiting' => b \in Storage!ToBeChecked'
             /\ b \in Storage!ToBeChecked' \ waiting' =>
                  (HasStatus(b)' => \E s \in statuses' : s[1] = b)
             /\ (\E s \in statuses' : s[1] = b) => HasStatus(b)'
  <2>1. Undisturbed /\ ~troubled'
    BY <1>4 DEF Undisturbed
  <2>2. Storage!ToBeChecked' = Storage!ToBeChecked /\ (HasStatus(b)' <=> HasStatus(b))
    BY DEF Storage!ToBeChecked, HasStatus
  <2>3. /\ built[b] # "none" => built[b] = Storage!Provider[stored[b]] /\ b \in Storage!ToBeChecked
        /\ b \in waiting => b \in Storage!ToBeChecked
        /\ b \in Storage!ToBeChecked \ waiting => (HasStatus(b) => \E s \in statuses : s[1] = b)
        /\ (\E s \in statuses : s[1] = b) => HasStatus(b)
    BY <2>1 DEF StorageInv
  <2>4. statuses \subseteq statuses'
    OBVIOUS
  <2>5. b \in Storage!ToBeChecked \ waiting' /\ HasStatus(b) => \E s \in statuses' : s[1] = b
    <3>1. CASE b = a
      <4>1. ASSUME HasStatus(a)
            PROVE  \E s \in statuses' : s[1] = a
        <5>1. PICK x : statuses' = statuses \cup {<<a, x>>}
          BY <2>1, <4>1
        <5>2. <<a, x>> \in statuses' /\ <<a, x>>[1] = a
          BY <5>1
        <5>. QED  BY <5>2
      <4>. QED  BY <3>1, <4>1
    <3>2. CASE b # a
      BY <2>3, <2>4, <3>2
    <3>. QED  BY <3>1, <3>2
  <2>6. (\E s \in statuses' : s[1] = b) => HasStatus(b)
    <3>1. CASE \E s \in statuses : s[1] = b
      BY <2>3, <3>1
    <3>2. CASE UNCHANGED statuses
      BY <2>3, <3>2
    <3>3. ASSUME NEW x, statuses' = statuses \cup {<<a, x>>}, NEW s \in statuses', s[1] = b, s \notin statuses
          PROVE  HasStatus(b)
      BY <2>1, <3>3
    <3>. QED  BY <3>1, <3>2, <3>3
  <2>. QED  BY <2>2, <2>3, <2>5, <2>6
<1>. QED  BY <1>3, <1>4 DEF StorageInv, Undisturbed

\* A request that ends with an exception or an error.
LEMMA EndsBadly ==
  ASSUME StorageInv, asking.kind # "none", reached'.phase \in {"error", "never"},
         waiting' \subseteq StoreAccounts, troubled' = TRUE \/ UNCHANGED troubled,
         UNCHANGED <<stored, alive, replaced, asking, built, statuses>>
  PROVE  StorageInv'
  BY DEF StorageInv, StorageTypes, Undisturbed

\* What a service that is built, or is not, keeps.
LEMMA BuildKeeps ==
  ASSUME StorageInv, NEW a \in StoreAccounts, Storage!Build(a)
  PROVE  StorageInv'
<1>1. /\ asking.kind # "none" /\ reached.phase = "pending" /\ a \in waiting /\ built[a] = "none"
      /\ UNCHANGED <<stored, alive, replaced, asking>>
  BY DEF Storage!Build, Storage!Served, Storage!Around, Storage!NoService
<1>2. CASE /\ stored[a] # "absent" /\ built' = [built EXCEPT ![a] = Storage!Provider[stored[a]]]
           /\ UNCHANGED <<waiting, statuses, troubled, reached>>
  <2>1. stored[a] \in Storage!Types
    BY <1>2 DEF StorageInv, StorageTypes
  <2>2. StorageTypes'
    BY <1>1, <1>2, <2>1, ProvidersAre DEF StorageInv, StorageTypes
  <2>3. ASSUME Undisturbed
        PROVE  a \in Storage!ToBeChecked
    BY <1>1, <2>3 DEF StorageInv
  <2>4. /\ Storage!ToBeChecked' = Storage!ToBeChecked /\ (Undisturbed' <=> Undisturbed)
        /\ \A b : HasStatus(b)' <=> HasStatus(b)
    BY <1>1, <1>2 DEF Storage!ToBeChecked, Undisturbed, HasStatus
  <2>5. \A b \in StoreAccounts : built'[b] = IF b = a THEN Storage!Provider[stored[a]] ELSE built[b]
    BY <1>2 DEF StorageInv, StorageTypes
  <2>. QED  BY <1>1, <1>2, <2>2, <2>3, <2>4, <2>5 DEF StorageInv
<1>3. CASE /\ Storage!Drop(a) /\ UNCHANGED built
           /\ \/ troubled' = TRUE
              \/ stored[a] = "absent" /\ UNCHANGED troubled
  <2>1. Undisturbed => stored[a] # "absent"
    BY <1>1 DEF StorageInv, Storage!ToBeChecked
  <2>. QED  BY <1>1, <1>3, <2>1, GoesOnKeeps DEF Storage!Drop
<1>. QED  BY <1>1, <1>2, <1>3 DEF Storage!Build

\* An account without a status has none to say.
LEMMA NoStatus ==
  ASSUME StorageInv, NEW a \in StoreAccounts, Undisturbed, reached.phase = "pending", ~HasStatus(a)
  PROVE  ~\E x : statuses = statuses \cup {<<a, x>>}
<1>. SUFFICES ASSUME NEW x, <<a, x>> \in statuses
              PROVE  FALSE
  OBVIOUS
<1>. QED  BY DEF StorageInv

\* What a checked identity keeps.
LEMMA CheckKeepsStatuses ==
  ASSUME StorageInv, NEW a \in StoreAccounts, Storage!CheckIdentity(a)
  PROVE  StorageInv'
<1>1. /\ asking.kind # "none" /\ reached.phase = "pending" /\ a \in waiting /\ built[a] # "none"
      /\ UNCHANGED <<stored, alive, replaced, asking, built>>
  BY DEF Storage!CheckIdentity, Storage!Served, Storage!Around, Storage!NoService
<1>2. ASSUME Undisturbed
      PROVE  /\ stored[a] \in {"key", "wasb", "adls"} /\ ~Storage!Mismatch(a)
             /\ built[a] = "aws" <=> stored[a] = "key"
             /\ built[a] = "wasb" => stored[a] = "wasb"
             /\ built[a] = "adls" => stored[a] = "adls"
  <2>1. /\ built[a] = Storage!Provider[stored[a]] /\ stored[a] \notin {"absent", "role"}
        /\ stored[a] \in Storage!Types \cup {"absent"}
    BY <1>1, <1>2 DEF StorageInv, StorageTypes, Storage!ToBeChecked
  <2>2. stored[a] \in Storage!Types
    BY <2>1
  <2>. QED  BY <2>1, <2>2, ProvidersAre DEF Storage!Types, Storage!Mismatch
<1>3. CASE Storage!Throw /\ (UNCHANGED troubled \/ troubled' = TRUE)
  <2>1. reached'.phase \in {"error", "never"}
    BY <1>3 DEF Storage!Throw, Storage!Unanswered
  <2>. QED  BY <1>1, <1>3, <2>1, EndsBadly DEF Storage!Throw, StorageInv, StorageTypes
<1>4. CASE Storage!Drop(a) /\ troubled' = TRUE
  BY <1>1, <1>4, GoesOnKeeps DEF Storage!Drop
<1>5. CASE /\ UNCHANGED troubled /\ Storage!Drop(a)
           /\ \/ stored[a] = "absent"
              \/ built[a] = "wasb" /\ stored[a] # "wasb"
              \/ ~alive[a] /\ built[a] # "aws"
  <2>1. Undisturbed => ~HasStatus(a)
    BY <1>1, <1>2, <1>5 DEF HasStatus
  <2>. QED  BY <1>1, <1>5, <2>1, NoStatus, GoesOnKeeps DEF Storage!Drop
<1>6. ASSUME NEW x, UNCHANGED troubled, Storage!Status(a, x), x = "ACTIVE" <=> alive[a],
             ~Storage!Mismatch(a), stored[a] # "absent", built[a] = "wasb" => stored[a] = "wasb",
             alive[a] \/ built[a] = "aws"
      PROVE  StorageInv'
  <2>1. Undisturbed => HasStatus(a)
    BY <1>1, <1>2, <1>6 DEF HasStatus
  <2>. QED  BY <1>1, <1>6, <2>1, GoesOnKeeps DEF Storage!Status
<1>. QED  BY <1>1, <1>3, <1>4, <1>5, <1>6 DEF Storage!CheckIdentity

\* The invariant of the clouds holds.
LEMMA StorageInvHolds == Spec => []StorageInv
<1>1. ASSUME StorageInv, [Storage!Next]_storageVars
      PROVE  StorageInv'
  <2>1. CASE UNCHANGED storageVars
    BY <1>1, <2>1 DEF storageVars, StorageInv, StorageTypes, Undisturbed, HasStatus,
       Storage!ToBeChecked
  <2>2. CASE Storage!AnswerStatuses
    <3>1. /\ UNCHANGED <<stored, alive, replaced, asking, waiting, built, statuses, troubled>>
          /\ waiting = {} /\ asking.kind # "none" /\ reached.phase = "pending"
      BY <2>2 DEF Storage!AnswerStatuses, Storage!Served, Storage!Around
    <3>2. CASE reached'.phase = "error"
      BY <1>1, <3>1, <3>2, EndsBadly DEF StorageInv, StorageTypes
    <3>3. CASE reached' = [phase |-> "ok", found |-> statuses]
      <4>1. ASSUME Undisturbed
            PROVE  {s[1] : s \in statuses} = {a \in StoreAccounts : HasStatus(a)}
        <5>1. \A a \in StoreAccounts : (\E s \in statuses : s[1] = a) <=> HasStatus(a)
          <6>1. \A a \in StoreAccounts : HasStatus(a) => a \in Storage!ToBeChecked
            BY DEF HasStatus, Storage!ToBeChecked
          <6>. QED  BY <1>1, <3>1, <4>1, <6>1 DEF StorageInv
        <5>. QED  BY <1>1, <5>1 DEF StorageInv, StorageTypes
      <4>. QED  BY <1>1, <3>1, <3>3, <4>1 DEF StorageInv, StorageTypes, Undisturbed, HasStatus
    <3>. QED  BY <2>2, <3>2, <3>3 DEF Storage!AnswerStatuses, Storage!Unanswered
  <2>3. CASE Storage!NoFiles
    <3>1. reached'.phase = "error"
      BY <2>3 DEF Storage!NoFiles, Storage!Unanswered
    <3>. QED  BY <1>1, <2>3, <3>1, EndsBadly DEF Storage!NoFiles, Storage!Around, Storage!Served,
                 StorageInv, StorageTypes
  <2>4. ASSUME NEW a \in StoreAccounts, Storage!ListFiles(a)
        PROVE  StorageInv'
    <3>1. /\ reached'.phase \in {"ok", "error"} /\ asking.kind = "list" /\ waiting' = waiting \ {a}
          /\ UNCHANGED <<stored, alive, replaced, asking, built, statuses>>
      BY <2>4 DEF Storage!ListFiles, Storage!Unanswered, Storage!Around
    <3>. QED  BY <1>1, <3>1 DEF StorageInv, StorageTypes, Undisturbed
  <2>5. CASE Storage!AskAll
    <3>1. CASE waiting' = Storage!ToBeChecked /\ UNCHANGED <<troubled, reached>>
      BY <1>1, <2>5, <3>1, AskKeeps DEF Storage!AskAll, Storage!ToBeChecked
    <3>2. CASE waiting' = {} /\ reached' = [Storage!Unanswered EXCEPT !.phase = "error"]
      <4>1. /\ asking.kind = "none" /\ asking'.kind = "statuses" /\ asking'.dir = <<>>
            /\ asking' = [kind |-> "statuses", dir |-> <<>>]
            /\ reached'.phase = "error" /\ statuses' = {}
            /\ UNCHANGED <<stored, alive, replaced, built>> /\ troubled' \in BOOLEAN
        BY <1>1, <2>5, <3>2 DEF Storage!AskAll, Storage!NotAsking, Storage!Unanswered, StorageInv,
           StorageTypes
      <4>. QED  BY <1>1, <3>2, <4>1 DEF StorageInv, StorageTypes, Undisturbed
    <3>. QED  BY <2>5, <3>1, <3>2 DEF Storage!AskAll
  <2>6. ASSUME NEW a \in StoreAccounts, NEW kind \in {"identity", "list"}, NEW dir,
               Storage!AskOne(a, kind, dir)
        PROVE  StorageInv'
    BY <1>1, <2>6, AskKeeps DEF Storage!AskOne
  <2>. QED  BY <1>1, <2>1, <2>2, <2>3, <2>4, <2>5, <2>6, ReplaceKeeps, BuildKeeps,
               CheckKeepsStatuses DEF Storage!Next, Storage!Proceed
<1>. QED  BY <1>1, StorageInvInit, PartSteps, PTL DEF Spec

-----------------------------------------------------------------------------
(* What is read of a cluster. *)

\* What is said of a cluster when its services were had.
LEMMA ConfigsAre ==
  ASSUME NEW x \in Configs
  PROVE  /\ x # Lost /\ x.services \subseteq {"HDFS", "HIVE", "RANGER"}
         /\ x.fs \in BOOLEAN /\ x.zookeeper \in BOOLEAN /\ x.url \in BOOLEAN
         /\ x.internal \in Seq({"ns1", "ns2"}) /\ x.namenodes \in [{"ns1", "ns2"} -> SUBSET (1..2)]
         /\ x.addressed \subseteq 1..2
         /\ x.algorithm \subseteq Lookups!Settings /\ x.key \subseteq Lookups!Settings
<1>1. x \in Lookups!Config /\ x # Lost
  BY BackendConstants DEF Lookups!ClusterLookupsConstants
<1>. QED  BY <1>1 DEF Lookups!Config

\* What is read of HDFS, and when this fails.
LEMMA HdfsIs ==
  ASSUME NEW x \in Configs
  PROVE  /\ ~Lookups!Hdfs(x).found <=> "HDFS" \in x.services /\ ~x.fs
         /\ Lookups!Hdfs(x).found =>
              Lookups!Hdfs(x).keys = IF "HDFS" \in x.services
                                     THEN {<<"fsEndpoint">>} \cup Lookups!HaKeys(x) ELSE {}
  BY ConfigsAre DEF Lookups!Hdfs, Lookups!Error, Lookups!Found

\* The settings that Hive goes by.
HiveSettings(x) ==
  Lookups!Encryption(IF "HDFS" \in x.services THEN x
                     ELSE [x EXCEPT !.algorithm = @ \cap {"bucket"}, !.key = @ \cap {"bucket"}])

\* What is read of Hive, and when this fails.
LEMMA HiveIs ==
  ASSUME NEW x \in Configs
  PROVE  /\ ~Lookups!Hive(x).found <=> /\ x.services \cap {"HIVE", "HDFS"} # {}
                                       /\ "HIVE" \notin x.services \/ ~x.zookeeper
         /\ Lookups!Hive(x).found =>
              Lookups!Hive(x).keys =
                IF "HIVE" \in x.services
                THEN {<<"hsEndpoint">>} \cup {s \in HiveSettings(x) : s[2] # "none"} ELSE {}
<1>. DEFINE more == {<<"hsEndpoint">>} \cup {s \in HiveSettings(x) : s[2] # "none"}
<1>1. x # Lost
  BY ConfigsAre
<1>2. Lookups!Hive(x) = IF x.services \cap {"HIVE", "HDFS"} = {} THEN [found |-> TRUE, keys |-> {}]
                        ELSE IF "HIVE" \notin x.services \/ ~x.zookeeper
                             THEN [found |-> FALSE, keys |-> {}] ELSE [found |-> TRUE, keys |-> more]
  BY <1>1, Zenon DEF Lookups!Hive, Lookups!Error, Lookups!Found, HiveSettings
<1>. HIDE DEF more
<1>3. CASE x.services \cap {"HIVE", "HDFS"} = {}
  BY <1>2, <1>3
<1>4. CASE x.services \cap {"HIVE", "HDFS"} # {} /\ ("HIVE" \notin x.services \/ ~x.zookeeper)
  BY <1>2, <1>4
<1>5. CASE "HIVE" \in x.services /\ x.zookeeper
  <2>1. x.services \cap {"HIVE", "HDFS"} # {}
    BY <1>5
  <2>2. Lookups!Hive(x) = [found |-> TRUE, keys |-> more]
    BY <1>2, <1>5, <2>1
  <2>3. Lookups!Hive(x).found /\ Lookups!Hive(x).keys = more
    BY <2>2
  <2>. QED  BY <1>5, <2>3 DEF more
<1>. QED  BY <1>3, <1>4, <1>5

\* Of what is set, that of the bucket goes first.
LEMMA BucketFirst ==
  ASSUME NEW setting, "bucket" \in setting
  PROVE  /\ Lookups!FirstOf(setting, <<"bucket", "core">>) = "bucket"
         /\ Lookups!FirstOf(setting, <<"bucket", "core", "oldCore">>) = "bucket"
<1>1. ASSUME NEW order, order = <<"bucket", "core">> \/ order = <<"bucket", "core", "oldCore">>
      PROVE  Lookups!FirstOf(setting, order) = "bucket"
  <2>. DEFINE there_ == {i \in DOMAIN order : order[i] \in setting}
  <2>1. 1 \in there_ /\ \A j \in there_ : 1 <= j /\ j \in Nat
    BY <1>1
  <2>2. \A i \in there_ : (\A j \in there_ : i <= j) => i = 1
    BY <2>1
  <2>3. (CHOOSE i \in there_ : \A j \in there_ : i <= j) = 1
    BY <2>1, <2>2
  <2>4. Lookups!FirstOf(setting, order) = order[1]
    BY <2>1, <2>3 DEF Lookups!FirstOf
  <2>. QED  BY <1>1, <2>4
<1>. QED  BY <1>1

\* Keys of one kind.
Of(what, keys) == {s[2] : s \in {k \in keys : k[1] = what}}

\* The values under one key of a definition.
LEMMA OfIs ==
  ASSUME NEW what, NEW keys
  PROVE  \A v : v \in Of(what, keys) <=> \E s \in keys : s[1] = what /\ v = s[2]
  BY Zenon DEF Of

\* One key of a kind.
LEMMA OfOne ==
  ASSUME NEW what, NEW keys, NEW v, <<what, v>> \in keys,
         \A s \in keys : s[1] = what => s = <<what, v>>
  PROVE  Of(what, keys) = {v}
<1>1. \A w : w \in Of(what, keys) <=> \E s \in keys : s[1] = what /\ w = s[2]
  BY OfIs
<1>2. <<what, v>>[1] = what /\ <<what, v>>[2] = v
  OBVIOUS
<1>3. \A w : w \in Of(what, keys) <=> w = v
  BY <1>1, <1>2, Zenon
<1>. QED  BY <1>3

\* Keys of one kind with the values of a set.
LEMMA OfMany ==
  ASSUME NEW what, NEW keys, NEW values, \A v \in values : <<what, v>> \in keys,
         \A s \in keys : s[1] = what => \E v \in values : s = <<what, v>>
  PROVE  Of(what, keys) = values
<1>1. \A w : w \in Of(what, keys) <=> \E s \in keys : s[1] = what /\ w = s[2]
  BY OfIs
<1>2. \A v : <<what, v>>[1] = what /\ <<what, v>>[2] = v
  OBVIOUS
<1>3. ASSUME NEW w
      PROVE  w \in Of(what, keys) <=> w \in values
  <2>1. CASE w \in values
    BY <1>1, <1>2, <2>1, Zenon
  <2>2. ASSUME w \in Of(what, keys)
        PROVE  w \in values
    <3>1. PICK s \in keys : s[1] = what /\ w = s[2]
      BY <1>1, <2>2
    <3>2. PICK v \in values : s = <<what, v>>
      BY <3>1
    <3>. QED  BY <3>1, <3>2
  <2>. QED  BY <2>1, <2>2
<1>. QED  BY <1>3

\* Hive's settings are one algorithm and one key.
LEMMA SettingsAre ==
  ASSUME NEW x \in Configs
  PROVE  \E a, k : /\ HiveSettings(x) = {<<"algorithm", a>>, <<"key", k>>}
                   /\ "bucket" \in x.algorithm => a = "bucket"
                   /\ "bucket" \in x.key => k = "bucket"
<1>. DEFINE y == [x EXCEPT !.algorithm = @ \cap {"bucket"}, !.key = @ \cap {"bucket"}]
<1>1. x \in Lookups!Config
  BY BackendConstants DEF Lookups!ClusterLookupsConstants
<1>2. y.algorithm = x.algorithm \cap {"bucket"} /\ y.key = x.key \cap {"bucket"}
  BY <1>1 DEF Lookups!Config
<1>. HIDE DEF y
<1>3. PICK z \in {x, y} : HiveSettings(x) = Lookups!Encryption(z)
  BY Zenon DEF HiveSettings, y
<1>4. /\ "bucket" \in x.algorithm => "bucket" \in z.algorithm
      /\ "bucket" \in x.key => "bucket" \in z.key
  BY <1>2
<1>5. HiveSettings(x) =
        {<<"algorithm", Lookups!FirstOf(z.algorithm, <<"bucket", "core">>)>>,
         <<"key", Lookups!FirstOf(z.key, <<"bucket", "core", "oldCore">>)>>}
  BY <1>3, Zenon DEF Lookups!Encryption
<1>. QED  BY <1>4, <1>5, BucketFirst, Zenon

\* A definition has the setting of the bucket, where there is one.
LEMMA HiveKeys ==
  ASSUME NEW x \in Configs, Lookups!Hive(x).found
  PROVE  /\ \A k \in Lookups!Hive(x).keys : k[1] \in {"hsEndpoint", "algorithm", "key"}
         /\ "HIVE" \in x.services /\ "bucket" \in x.algorithm =>
              Of("algorithm", Lookups!Hive(x).keys) = {"bucket"}
         /\ "HIVE" \in x.services /\ "bucket" \in x.key =>
              Of("key", Lookups!Hive(x).keys) = {"bucket"}
<1>1. PICK a, k : /\ HiveSettings(x) = {<<"algorithm", a>>, <<"key", k>>}
                  /\ "bucket" \in x.algorithm => a = "bucket"
                  /\ "bucket" \in x.key => k = "bucket"
  BY SettingsAre
<1>2. Lookups!Hive(x).keys = IF "HIVE" \in x.services
        THEN {<<"hsEndpoint">>} \cup {s \in {<<"algorithm", a>>, <<"key", k>>} : s[2] # "none"} ELSE {}
  BY <1>1, HiveIs
<1>3. CASE "HIVE" \notin x.services
  BY <1>2, <1>3
<1>4. CASE "HIVE" \in x.services
  <2>1. \A s : s \in Lookups!Hive(x).keys <=>
                 s = <<"hsEndpoint">> \/ (s = <<"algorithm", a>> /\ a # "none")
                                      \/ (s = <<"key", k>> /\ k # "none")
    BY <1>2, <1>4
  <2>2. \A s \in Lookups!Hive(x).keys : s[1] \in {"hsEndpoint", "algorithm", "key"}
    BY <2>1
  <2>3. ASSUME a = "bucket"
        PROVE  Of("algorithm", Lookups!Hive(x).keys) = {"bucket"}
    <3>1. /\ <<"algorithm", "bucket">> \in Lookups!Hive(x).keys
          /\ \A s \in Lookups!Hive(x).keys : s[1] = "algorithm" => s = <<"algorithm", "bucket">>
      BY <2>1, <2>3
    <3>. QED  BY <3>1, OfOne
  <2>4. ASSUME k = "bucket"
        PROVE  Of("key", Lookups!Hive(x).keys) = {"bucket"}
    <3>1. /\ <<"key", "bucket">> \in Lookups!Hive(x).keys
          /\ \A s \in Lookups!Hive(x).keys : s[1] = "key" => s = <<"key", "bucket">>
      BY <2>1, <2>4
    <3>. QED  BY <3>1, OfOne
  <2>. QED  BY <1>1, <2>2, <2>3, <2>4
<1>. QED  BY <1>3, <1>4

\* A definition has the addresses of the first name service, if there is HDFS.
LEMMA HdfsKeys ==
  ASSUME NEW x \in Configs, Lookups!Hdfs(x).found
  PROVE  /\ \A k \in Lookups!Hdfs(x).keys : k[1] \in {"fsEndpoint", "address"}
         /\ Of("address", Lookups!Hdfs(x).keys) =
              IF "HDFS" \in x.services /\ x.internal # <<>>
              THEN x.namenodes[x.internal[1]] \cap x.addressed ELSE {}
<1>. DEFINE nodes == IF x.internal # <<>> THEN x.namenodes[x.internal[1]] \cap x.addressed ELSE {}
<1>1. Lookups!HaKeys(x) = {<<"address", n>> : n \in nodes}
  BY DEF Lookups!HaKeys
<1>. HIDE DEF nodes
<1>2. Lookups!Hdfs(x).keys = IF "HDFS" \in x.services
                             THEN {<<"fsEndpoint">>} \cup {<<"address", n>> : n \in nodes} ELSE {}
  BY <1>1, HdfsIs
<1>3. Of("address", Lookups!Hdfs(x).keys) = IF "HDFS" \in x.services THEN nodes ELSE {}
  <2>1. CASE "HDFS" \in x.services
    <3>1. \A s : s \in Lookups!Hdfs(x).keys <=>
                   s = <<"fsEndpoint">> \/ \E n \in nodes : s = <<"address", n>>
      BY <1>2, <2>1
    <3>2. \A s \in Lookups!Hdfs(x).keys :
            s[1] = "address" <=> \E n \in nodes : s = <<"address", n>>
      BY <3>1
    <3>3. Of("address", Lookups!Hdfs(x).keys) = nodes
      BY <3>1, <3>2, OfMany
    <3>. QED  BY <2>1, <3>3
  <2>2. CASE "HDFS" \notin x.services
    BY <1>2, <2>2 DEF Of
  <2>. QED  BY <2>1, <2>2
<1>. QED  BY <1>2, <1>3 DEF nodes

\* What is read of a cluster's services is what its definition should have.
LEMMA KeysFit ==
  ASSUME NEW x \in Configs, Lookups!Hdfs(x).found, Lookups!Hive(x).found,
         NEW keys, keys = Lookups!Hdfs(x).keys \cup Lookups!Hive(x).keys
  PROVE  /\ Of("address", keys) = IF "HDFS" \in x.services /\ x.internal # <<>>
                                  THEN x.namenodes[x.internal[1]] \cap x.addressed ELSE {}
         /\ "HIVE" \in x.services /\ "bucket" \in x.algorithm => Of("algorithm", keys) = {"bucket"}
         /\ "HIVE" \in x.services /\ "bucket" \in x.key => Of("key", keys) = {"bucket"}
<1>1. /\ \A k \in Lookups!Hdfs(x).keys : k[1] \notin {"algorithm", "key"}
      /\ \A k \in Lookups!Hive(x).keys : k[1] # "address"
  BY HdfsKeys, HiveKeys
<1>2. /\ Of("address", keys) = Of("address", Lookups!Hdfs(x).keys)
      /\ Of("algorithm", keys) = Of("algorithm", Lookups!Hive(x).keys)
      /\ Of("key", keys) = Of("key", Lookups!Hive(x).keys)
  <2>. PICK a, b : a = Lookups!Hdfs(x).keys /\ b = Lookups!Hive(x).keys
    OBVIOUS
  <2>1. /\ \A k \in a : k[1] # "algorithm" /\ k[1] # "key"
        /\ \A k \in b : k[1] # "address"
    BY <1>1
  <2>2. /\ {k \in a \cup b : k[1] = "address"} = {k \in a : k[1] = "address"}
        /\ {k \in a \cup b : k[1] = "algorithm"} = {k \in b : k[1] = "algorithm"}
        /\ {k \in a \cup b : k[1] = "key"} = {k \in b : k[1] = "key"}
    BY <2>1
  <2>. QED  BY <2>2, Zenon DEF Of
<1>. QED  BY <1>2, HdfsKeys, HiveKeys

-----------------------------------------------------------------------------
(* The calls of a request that is looked up. *)

LookupTypes ==
  /\ registered \subseteq LookupClusters /\ config \in [LookupClusters -> Configs]
  /\ changes \in 0..MaxChanges /\ failures \in BOOLEAN
  /\ request \in [kind : Lookups!Kinds \cup {"none"}, of : SUBSET LookupClusters]
  /\ lists \in Seq((SUBSET LookupClusters) \cup {Lost}) /\ taken \in Seq(Configs \cup {Lost})
  /\ lost \subseteq answered /\ answered \subseteq LookupClusters
  /\ outcome.phase \in {"pending", "ok", "error", "never"}

\* A list of the health of clusters.
HealthInv ==
  request.kind = "health" =>
    /\ Len(lists) <= 1 /\ (answered # {} => Len(lists) = 1 /\ lists[1] # Lost)
    /\ outcome.phase # "pending" =>
         /\ Len(lists) = 1
         /\ outcome.phase = "error" <=> lists[1] = Lost \/ (lost # {} /\ lost = lists[1])
         /\ outcome.phase = "ok" => outcome.clusters = lists[1] \ lost

\* The tables are those of the clusters there are, if nothing changed and no call failed,
\* and those that lack something end the request.
TablesInv ==
  request.kind \in {"beacons", "configs"} /\ Lookups!Undisturbed =>
    /\ Len(lists) <= 6 /\ lost = {}
    /\ \A i \in 1..Len(lists) : lists[i] = IF i = 4 THEN registered \ NoNamenode ELSE registered
    /\ Len(lists) >= 5 => registered \cap NoNamenode = {}
    /\ Len(lists) >= 6 => registered \cap NoPort = {}
    /\ outcome.phase # "pending" /\ request.kind = "beacons" =>
         IF registered \cap (NoNamenode \cup NoPort) = {}
         THEN outcome = Lookups!Listed(registered) ELSE outcome.phase = "error"
    /\ outcome.phase = "error" /\ request.kind = "configs" =>
         \/ registered \cap (NoNamenode \cup NoPort) # {}
         \/ \A c \in registered : ~("HIVE" \in config[c].services /\ config[c].zookeeper)
                                     /\ config[c].services # {}

\* What was read of the cluster is as it is.
DefinitionInv ==
  request.kind = "definition" =>
    /\ request.of # {} /\ lists = <<>>
    /\ Lookups!Undisturbed =>
         /\ \A i \in 1..Len(taken) : taken[i] = config[Lookups!TheCluster]
         /\ Lookups!DefinitionFits /\ Lookups!DefinitionRefused

LookupInv ==
  /\ LookupTypes
  /\ request.kind = "none" =>
       /\ lists = <<>> /\ answered = {} /\ lost = {} /\ taken = <<>> /\ ~failures
       /\ outcome = Lookups!Pending /\ changes = 0
  /\ HealthInv /\ TablesInv /\ DefinitionInv

\* Outcomes are what their names say.
LEMMA Outcomes ==
  /\ Lookups!Pending.phase = "pending"
  /\ \A phase : Lookups!Outcome(phase).phase = phase
  /\ \A S : Lookups!Listed(S).phase = "ok" /\ Lookups!Listed(S).clusters = S
  BY DEF Lookups!Outcome, Lookups!Listed, Lookups!Pending

\* At first nothing is looked up.
LEMMA LookupInvInit == Init => LookupInv
<1>. SUFFICES ASSUME Lookups!Init
              PROVE  LookupInv
  BY DEF Init
<1>1. request.kind = "none" /\ request = [kind |-> "none", of |-> {}]
  BY DEF Lookups!Init, Lookups!NoRequest
<1>2. MaxChanges \in Nat
  BY BackendConstants DEF Lookups!ClusterLookupsConstants
<1>3. LookupTypes
  <2>1. request \in [kind : Lookups!Kinds \cup {"none"}, of : SUBSET LookupClusters]
    BY <1>1
  <2>2. <<>> \in Seq((SUBSET LookupClusters) \cup {Lost}) /\ <<>> \in Seq(Configs \cup {Lost})
    OBVIOUS
  <2>3. outcome.phase = "pending"
    BY Outcomes DEF Lookups!Init
  <2>4. /\ registered \in SUBSET LookupClusters /\ config \in [LookupClusters -> Configs]
        /\ changes = 0 /\ lists = <<>> /\ answered = {} /\ lost = {} /\ taken = <<>> /\ failures = FALSE
    BY DEF Lookups!Init
  <2>5. changes \in 0..MaxChanges
    BY <1>2, <2>4
  <2>6. lists \in Seq((SUBSET LookupClusters) \cup {Lost}) /\ taken \in Seq(Configs \cup {Lost})
    BY <2>2, <2>4
  <2>7. failures \in BOOLEAN /\ lost \subseteq answered /\ answered \subseteq LookupClusters
        /\ registered \subseteq LookupClusters
    BY <2>4
  <2>. QED  BY <2>1, <2>3, <2>4, <2>5, <2>6, <2>7, Zenon DEF LookupTypes
<1>4. outcome = Lookups!Pending /\ lists = <<>> /\ answered = {} /\ lost = {} /\ taken = <<>>
      /\ ~failures /\ changes = 0
  BY DEF Lookups!Init
<1>. QED  BY <1>1, <1>3, <1>4 DEF LookupInv, HealthInv, TablesInv, DefinitionInv

\* Clusters that come, go and change.
LEMMA ClustersChangeKeeps ==
  ASSUME LookupInv, changes' = changes + 1, changes < MaxChanges, request.kind # "none",
         registered' \subseteq LookupClusters, config' \in [LookupClusters -> Configs],
         UNCHANGED <<request, lists, answered, lost, taken, failures, outcome>>
  PROVE  LookupInv'
<1>1. changes \in 0..MaxChanges /\ MaxChanges \in Nat
  BY BackendConstants DEF Lookups!ClusterLookupsConstants, LookupInv, LookupTypes
<1>2. changes' \in 0..MaxChanges /\ changes' # 0
  BY <1>1
<1>3. LookupTypes'
  BY <1>2 DEF LookupInv, LookupTypes
<1>4. ~Lookups!Undisturbed'
  BY <1>2 DEF Lookups!Undisturbed
<1>. QED  BY <1>3, <1>4 DEF LookupInv, HealthInv, TablesInv, DefinitionInv

\* A request that comes.
LEMMA AskedKeeps ==
  ASSUME LookupInv, NEW c \in LookupClusters, NEW kind \in Lookups!Kinds, Lookups!Ask(kind, c)
  PROVE  LookupInv'
<1>1. /\ request' = [kind |-> kind, of |-> IF kind = "definition" THEN {c} ELSE {}]
      /\ UNCHANGED <<registered, config, changes, lists, answered, lost, taken, failures, outcome>>
      /\ request.kind = "none"
  BY DEF Lookups!Ask, Lookups!NoRequest
<1>2. /\ request' \in [kind : Lookups!Kinds \cup {"none"}, of : SUBSET LookupClusters]
      /\ request'.kind # "none" /\ (request'.kind = "definition" => request'.of # {})
  BY <1>1 DEF Lookups!Kinds
<1>3. /\ lists' = <<>> /\ answered' = {} /\ lost' = {} /\ taken' = <<>> /\ ~failures'
      /\ outcome'.phase = "pending"
  BY <1>1, Outcomes DEF LookupInv
<1>4. LookupTypes'
  BY <1>1, <1>2 DEF LookupInv, LookupTypes
<1>. QED  BY <1>2, <1>3, <1>4 DEF LookupInv, HealthInv, TablesInv, DefinitionInv,
             Lookups!DefinitionFits, Lookups!DefinitionRefused

\* What is read of the tables.
LEMMA TablesAre ==
  /\ request.kind \in {"beacons", "configs"} =>
       /\ Len(Lookups!Tables) = 4
       /\ \A i \in 1..4 : Lookups!Rows(Lookups!Tables[i]) =
                            IF i = 4 THEN registered \ NoNamenode ELSE registered
  /\ request.kind = "health" =>
       Len(Lookups!Tables) = 1 /\ Lookups!Rows(Lookups!Tables[1]) = registered
  /\ request.kind \notin {"beacons", "configs", "health"} => Len(Lookups!Tables) = 0
<1>1. request.kind \in {"beacons", "configs"} =>
        Lookups!Tables = <<"clusters", "dataplane", "beacons", "namenodes">>
  BY DEF Lookups!Tables
<1>2. request.kind = "health" => Lookups!Tables = <<"clusters">>
  BY DEF Lookups!Tables
<1>3. request.kind \notin {"beacons", "configs", "health"} => Lookups!Tables = <<>>
  BY DEF Lookups!Tables
<1>4. Len(<<"clusters", "dataplane", "beacons", "namenodes">>) = 4 /\ Len(<<"clusters">>) = 1
      /\ Len(<<>>) = 0
  OBVIOUS
<1>5. \A i \in 1..4 : <<"clusters", "dataplane", "beacons", "namenodes">>[i] = "namenodes" <=> i = 4
  OBVIOUS
<1>. QED  BY <1>1, <1>2, <1>3, <1>4, <1>5 DEF Lookups!Rows

\* A list with one more.
LEMMA Appended ==
  ASSUME NEW S, NEW s \in Seq(S), NEW x \in S, NEW t, t = Append(s, x)
  PROVE  /\ t \in Seq(S) /\ Len(s) \in Nat /\ Len(t) = Len(s) + 1
         /\ t[Len(s) + 1] = x /\ \A i \in 1..Len(s) : t[i] = s[i]
  OBVIOUS

\* Numbers below four.
LEMMA Few ==
  ASSUME NEW n \in Nat
  PROVE  /\ n < 4 => n \in 0..3 /\ n + 1 \in 1..4
         /\ n < 1 => n = 0
  OBVIOUS

\* What a table that is read keeps.
LEMMA ReadTableKeeps ==
  ASSUME LookupInv, Lookups!ReadTable
  PROVE  LookupInv'
<1>1. /\ UNCHANGED <<registered, config, changes, request, answered, lost, taken, outcome>>
      /\ request.kind # "none" /\ outcome.phase = "pending" /\ Len(lists) < Len(Lookups!Tables)
      /\ \/ lists' = Append(lists, Lookups!Rows(Lookups!Tables[Len(lists) + 1])) /\ UNCHANGED failures
         \/ lists' = Append(lists, Lost) /\ failures' = TRUE
  BY DEF Lookups!ReadTable, Lookups!AtWork, Lookups!World
<1>2. lists \in Seq((SUBSET LookupClusters) \cup {Lost}) /\ registered \subseteq LookupClusters
  BY DEF LookupInv, LookupTypes
<1>3. \A t : Lookups!Rows(t) \in SUBSET LookupClusters
  BY <1>2 DEF Lookups!Rows
<1>4. /\ lists' \in Seq((SUBSET LookupClusters) \cup {Lost}) /\ failures' \in BOOLEAN
      /\ Len(lists') = Len(lists) + 1
      /\ \A i \in 1..Len(lists) : lists'[i] = lists[i]
      /\ Len(lists) \in Nat
      /\ ~failures' => lists'[Len(lists) + 1] = Lookups!Rows(Lookups!Tables[Len(lists) + 1])
  <2>1. PICK x \in (SUBSET LookupClusters) \cup {Lost} :
          /\ lists' = Append(lists, x)
          /\ ~failures' => x = Lookups!Rows(Lookups!Tables[Len(lists) + 1])
    <3>1. CASE lists' = Append(lists, Lookups!Rows(Lookups!Tables[Len(lists) + 1]))
      BY <1>3, <3>1
    <3>2. CASE lists' = Append(lists, Lost) /\ failures' = TRUE
      <4>1. Lost \in (SUBSET LookupClusters) \cup {Lost}
        OBVIOUS
      <4>. QED  BY <3>2, <4>1, Zenon
    <3>. QED  BY <1>1, <3>1, <3>2
  <2>2. failures' \in BOOLEAN
    BY <1>1 DEF LookupInv, LookupTypes
  <2>. QED  BY <1>2, <2>1, <2>2, Appended
<1>5. LookupTypes'
  BY <1>1, <1>4 DEF LookupInv, LookupTypes
<1>6. HealthInv'
  <2>. SUFFICES ASSUME request.kind = "health"
                PROVE  HealthInv'
    BY <1>1 DEF HealthInv
  <2>0. Len(lists) < 1 /\ Len(lists) \in Nat
    BY <1>1, <1>4, TablesAre
  <2>1. Len(lists) = 0
    BY <2>0, Few
  <2>. QED  BY <1>1, <1>4, <2>1 DEF LookupInv, HealthInv
<1>7. TablesInv'
  <2>. SUFFICES ASSUME request.kind \in {"beacons", "configs"}, Lookups!Undisturbed'
                PROVE  TablesInv'
    BY <1>1 DEF TablesInv
  <2>1. Len(lists) \in 0..3 /\ Lookups!Undisturbed
    <3>1. Len(lists) < 4
      BY <1>1, TablesAre
    <3>2. Lookups!Undisturbed
      BY <1>1 DEF Lookups!Undisturbed
    <3>3. Len(lists) \in Nat
      BY <1>4
    <3>. QED  BY <3>1, <3>2, <3>3, Few
  <2>2. lists'[Len(lists) + 1] = IF Len(lists) + 1 = 4 THEN registered \ NoNamenode ELSE registered
    <3>1. /\ lists'[Len(lists) + 1] = Lookups!Rows(Lookups!Tables[Len(lists) + 1])
          /\ Len(lists) + 1 \in 1..4
      BY <1>4, <2>1 DEF Lookups!Undisturbed
    <3>. QED  BY <3>1, TablesAre
  <2>. QED  BY <1>1, <1>4, <2>1, <2>2 DEF LookupInv, TablesInv
<1>8. DefinitionInv'
  <2>1. request.kind # "definition"
    <3>1. Len(lists) \in Nat /\ Len(lists) < Len(Lookups!Tables)
      BY <1>1, <1>4
    <3>2. request.kind = "definition" => Len(Lookups!Tables) = 0
      BY TablesAre
    <3>. QED  BY <3>1, <3>2
  <2>. QED  BY <1>1, <2>1 DEF DefinitionInv
<1>. QED  BY <1>1, <1>5, <1>6, <1>7, <1>8 DEF LookupInv

\* A request about tables that ends.
LEMMA EndKeeps ==
  ASSUME LookupInv, NEW o, Lookups!End(o), request.kind \in {"beacons", "configs", "health"},
         outcome.phase = "pending", o.phase \in {"ok", "error", "never"},
         request.kind = "health" =>
           /\ Len(lists) = 1
           /\ o.phase = "error" <=> lists[1] = Lost \/ (lost # {} /\ lost = lists[1])
           /\ o.phase = "ok" => o.clusters = lists[1] \ lost,
         request.kind = "beacons" /\ Lookups!Undisturbed =>
           IF registered \cap (NoNamenode \cup NoPort) = {}
           THEN o = Lookups!Listed(registered) ELSE o.phase = "error",
         request.kind = "configs" /\ Lookups!Undisturbed /\ o.phase = "error" =>
           \/ registered \cap (NoNamenode \cup NoPort) # {}
           \/ \A c \in registered : ~("HIVE" \in config[c].services /\ config[c].zookeeper)
                                       /\ config[c].services # {}
  PROVE  LookupInv'
<1>1. /\ UNCHANGED <<registered, config, changes, request, lists, answered, lost, taken, failures>>
      /\ outcome' = o
  BY DEF Lookups!End, Lookups!World
<1>2. LookupTypes'
  BY <1>1 DEF LookupInv, LookupTypes
<1>3. HealthInv'
  BY <1>1 DEF LookupInv, HealthInv
<1>4. TablesInv'
  BY <1>1 DEF LookupInv, TablesInv, Lookups!Undisturbed
<1>. QED  BY <1>1, <1>2, <1>3, <1>4 DEF LookupInv, DefinitionInv

\* What an exception after the tables were read keeps.
LEMMA ListsFailKeeps ==
  ASSUME LookupInv, Lookups!ListsFail
  PROVE  LookupInv'
<1>1. /\ request.kind \in {"beacons", "configs", "health"} /\ outcome.phase = "pending"
      /\ Len(lists) = Len(Lookups!Tables) /\ Lookups!ListsThrow
      /\ Lookups!End(Lookups!Outcome("error")) /\ Lookups!Outcome("error").phase = "error"
  BY Outcomes DEF Lookups!ListsFail, Lookups!TablesRead, Lookups!AtWork, LookupInv, LookupTypes,
     Lookups!Kinds
<1>2. ASSUME request.kind = "health"
      PROVE  Len(lists) = 1 /\ lists[1] = Lost
  <2>1. Len(lists) = 1
    BY <1>1, <1>2, TablesAre
  <2>2. lists \in Seq((SUBSET LookupClusters) \cup {Lost})
    BY DEF LookupInv, LookupTypes
  <2>3. DOMAIN lists = 1..1
    BY <2>1, <2>2
  <2>. QED  BY <1>1, <2>1, <2>3 DEF Lookups!ListsThrow
<1>3. ASSUME request.kind \in {"beacons", "configs"}, Lookups!Undisturbed
      PROVE  FALSE
  <2>1. Len(lists) = 4 /\ \A i \in 1..4 : lists[i] = IF i = 4 THEN registered \ NoNamenode ELSE registered
    BY <1>1, <1>3, TablesAre DEF LookupInv, TablesInv
  <2>2. \A i \in 1..4 : lists[i] # Lost
    BY <2>1, BackendConstants DEF Lookups!ClusterLookupsConstants, LookupInv, LookupTypes
  <2>3. DOMAIN lists = 1..4
    BY <2>1 DEF LookupInv, LookupTypes
  <2>4. lists[3] = registered /\ lists[1] = registered /\ lists[2] = registered /\ lists[3] # Lost
    BY <2>1, <2>2
  <2>5. Lost \notin {lists[i] : i \in DOMAIN lists}
    BY <2>2, <2>3
  <2>6. ~(Len(lists) <= 1)
    BY <2>1
  <2>. QED  BY <1>1, <2>4, <2>5, <2>6 DEF Lookups!ListsThrow
<1>. QED  BY <1>1, <1>2, <1>3, EndKeeps

\* A call that fails ends a request about Beacons.
LEMMA FailedKeeps ==
  ASSUME LookupInv, NEW phase \in {"error", "never"}, Lookups!Failed(phase),
         request.kind \in {"beacons", "configs"}
  PROVE  LookupInv'
<1>1. /\ UNCHANGED <<registered, config, changes, request, lists, answered, lost, taken>>
      /\ failures' = TRUE /\ outcome' = Lookups!Outcome(phase)
  BY DEF Lookups!Failed, Lookups!World
<1>2. outcome'.phase = phase
  BY <1>1, Outcomes
<1>3. LookupTypes'
  BY <1>1, <1>2 DEF LookupInv, LookupTypes
<1>. QED  BY <1>1, <1>2, <1>3 DEF LookupInv, HealthInv, TablesInv, DefinitionInv, Lookups!Undisturbed

\* The next step on the same tables.
LEMMA GoOnKeeps ==
  ASSUME LookupInv, Lookups!GoOn, request.kind \in {"beacons", "configs"}, outcome.phase = "pending",
         NEW n \in {4, 5}, Len(lists) = n,
         Lookups!Undisturbed => registered \cap NoNamenode = {},
         Lookups!Undisturbed /\ n = 5 => registered \cap NoPort = {}
  PROVE  LookupInv'
<1>1. /\ UNCHANGED <<registered, config, changes, request, answered, lost, taken, failures, outcome>>
      /\ lists' = Append(lists, lists[3])
  BY DEF Lookups!GoOn, Lookups!World
<1>2. lists \in Seq((SUBSET LookupClusters) \cup {Lost})
  BY DEF LookupInv, LookupTypes
<1>3. lists[3] \in (SUBSET LookupClusters) \cup {Lost}
  BY <1>2
<1>4. /\ lists' \in Seq((SUBSET LookupClusters) \cup {Lost}) /\ Len(lists') = n + 1
      /\ lists'[n + 1] = lists[3] /\ \A i \in 1..n : lists'[i] = lists[i]
  BY <1>1, <1>2, <1>3, Appended
<1>5. LookupTypes'
  BY <1>1, <1>4 DEF LookupInv, LookupTypes
<1>6. TablesInv'
  <2>. SUFFICES ASSUME Lookups!Undisturbed'
                PROVE  TablesInv'
    BY DEF TablesInv
  <2>1. Lookups!Undisturbed
    BY <1>1 DEF Lookups!Undisturbed
  <2>2. lists'[n + 1] = registered /\ \A i \in 1..n : lists'[i] = IF i = 4 THEN registered \ NoNamenode ELSE registered
    <3>1. \A i \in 1..n : lists[i] = IF i = 4 THEN registered \ NoNamenode ELSE registered
      BY <2>1 DEF LookupInv, TablesInv
    <3>2. 3 \in 1..n /\ 3 # 4
      OBVIOUS
    <3>. QED  BY <1>4, <3>1, <3>2
  <2>3. \A i \in 1..(n + 1) : lists'[i] = IF i = 4 THEN registered \ NoNamenode ELSE registered
    <3>1. \A i \in 1..(n + 1) : i = n + 1 \/ i \in 1..n
      OBVIOUS
    <3>2. n + 1 # 4
      OBVIOUS
    <3>. QED  BY <2>2, <3>1, <3>2
  <2>4. /\ Len(lists') <= 6 /\ Len(lists') = n + 1
        /\ Len(lists') >= 5 => registered \cap NoNamenode = {}
        /\ Len(lists') >= 6 => registered \cap NoPort = {}
    BY <1>4, <2>1
  <2>5. lost' = {} /\ outcome'.phase = "pending" /\ UNCHANGED registered
    BY <1>1, <2>1 DEF LookupInv, TablesInv
  <2>. QED  BY <2>3, <2>4, <2>5 DEF TablesInv
<1>. QED  BY <1>1, <1>5, <1>6 DEF LookupInv, HealthInv, DefinitionInv

\* What the lookup of the locations keeps.
LEMMA LocateKeeps ==
  ASSUME LookupInv, Lookups!Locate
  PROVE  LookupInv'
<1>1. /\ request.kind \in {"beacons", "configs"} /\ outcome.phase = "pending" /\ Len(lists) = 4
      /\ \/ Lookups!Failed("error")
         \/ (\A c \in lists[3] : c \in lists[4]) /\ Lookups!GoOn
         \/ ~(\A c \in lists[3] : c \in lists[4]) /\ Lookups!End(Lookups!Outcome("error"))
  BY TablesAre DEF Lookups!Locate, Lookups!TablesRead, Lookups!AtWork, LookupInv, LookupTypes,
     Lookups!Kinds
<1>2. Lookups!Undisturbed => ((\A c \in lists[3] : c \in lists[4]) <=> registered \cap NoNamenode = {})
  BY <1>1 DEF LookupInv, TablesInv
<1>3. CASE ~(\A c \in lists[3] : c \in lists[4]) /\ Lookups!End(Lookups!Outcome("error"))
  <2>1. Lookups!Undisturbed => registered \cap (NoNamenode \cup NoPort) # {}
    BY <1>2, <1>3
  <2>. QED  BY <1>1, <1>3, <2>1, Outcomes, EndKeeps
<1>. QED  BY <1>1, <1>2, <1>3, FailedKeeps, GoOnKeeps

\* What the lookup of the endpoints keeps.
LEMMA HostsKeeps ==
  ASSUME LookupInv, Lookups!Hosts
  PROVE  LookupInv'
<1>1. request.kind \in {"beacons", "configs"} /\ outcome.phase = "pending" /\ Len(lists) = 5
  <2>1. /\ request.kind # "none" /\ outcome.phase = "pending" /\ Len(lists) = 5
        /\ request.kind \in Lookups!Kinds \cup {"none"}
    BY DEF Lookups!Hosts, Lookups!AtWork, LookupInv, LookupTypes
  <2>2. request.kind # "health"
    BY <2>1 DEF LookupInv, HealthInv
  <2>3. request.kind # "definition"
    <3>1. Len(<<>>) # 5
      OBVIOUS
    <3>. QED  BY <2>1, <3>1 DEF LookupInv, DefinitionInv
  <2>. QED  BY <2>1, <2>2, <2>3 DEF Lookups!Kinds
<1>2. Lookups!Undisturbed => lists[3] = registered /\ registered \cap NoNamenode = {}
  BY <1>1 DEF LookupInv, TablesInv
<1>3. CASE lists[3] \cap NoPort # {} /\ Lookups!End(Lookups!Outcome("error"))
  <2>1. Lookups!Undisturbed => registered \cap (NoNamenode \cup NoPort) # {}
    BY <1>2, <1>3
  <2>. QED  BY <1>1, <1>3, <2>1, Outcomes, EndKeeps
<1>4. CASE lists[3] \cap NoPort = {} /\ request.kind = "configs" /\ Lookups!GoOn
  <2>1. Lookups!Undisturbed => registered \cap NoNamenode = {} /\ registered \cap NoPort = {}
    BY <1>2, <1>4
  <2>. QED  BY <1>1, <1>4, <2>1, GoOnKeeps
<1>5. CASE /\ lists[3] \cap NoPort = {} /\ request.kind # "configs"
           /\ Lookups!End(Lookups!Listed(lists[3]))
  <2>1. Lookups!Undisturbed =>
          lists[3] = registered /\ registered \cap (NoNamenode \cup NoPort) = {}
    BY <1>2, <1>5
  <2>. QED  BY <1>1, <1>5, <2>1, Outcomes, EndKeeps
<1>. QED  BY <1>1, <1>3, <1>4, <1>5, FailedKeeps DEF Lookups!Hosts

\* Ambari is asked for each.
LEMMA AskEachKeeps ==
  ASSUME LookupInv, NEW c \in LookupClusters, Lookups!AskEach(c)
  PROVE  LookupInv'
<1>1. /\ UNCHANGED <<registered, config, changes, request, lists, taken, outcome>>
      /\ answered' = answered \cup {c}
      /\ \/ UNCHANGED <<lost, failures>>
         \/ lost' = lost \cup {c} /\ failures' = TRUE
      /\ Lookups!ReadyToAsk /\ outcome.phase = "pending" /\ request.kind \in {"health", "configs"}
  BY DEF Lookups!AskEach, Lookups!World, Lookups!ReadyToAsk, Lookups!AtWork
<1>2. LookupTypes'
  BY <1>1 DEF LookupInv, LookupTypes
<1>3. HealthInv'
  <2>1. request.kind = "health" => Len(lists) = 1 /\ lists[1] # Lost
    <3>. SUFFICES ASSUME request.kind = "health"
                  PROVE  Len(lists) = 1 /\ lists[1] # Lost
      OBVIOUS
    <3>1. Len(lists) = 1 /\ ~Lookups!ListsThrow
      BY <1>1 DEF Lookups!ReadyToAsk
    <3>2. lists \in Seq((SUBSET LookupClusters) \cup {Lost})
      BY DEF LookupInv, LookupTypes
    <3>3. 1 \in DOMAIN lists
      BY <3>1, <3>2
    <3>. QED  BY <3>1, <3>3 DEF Lookups!ListsThrow
  <2>. QED  BY <1>1, <2>1 DEF LookupInv, HealthInv
<1>4. TablesInv'
  <2>1. CASE UNCHANGED <<lost, failures>>
    BY <1>1, <2>1 DEF LookupInv, TablesInv, Lookups!Undisturbed
  <2>2. CASE failures' = TRUE
    BY <2>2 DEF TablesInv, Lookups!Undisturbed
  <2>. QED  BY <1>1, <2>1, <2>2
<1>. QED  BY <1>1, <1>2, <1>3, <1>4 DEF LookupInv, DefinitionInv

\* What a list of healths that is answered keeps.
LEMMA ListHealthKeeps ==
  ASSUME LookupInv, Lookups!ListHealth
  PROVE  LookupInv'
<1>. DEFINE o == Lookups!FailsIfAll(Lookups!Asked, lost)
<1>1. /\ request.kind = "health" /\ Len(lists) = 1 /\ ~Lookups!ListsThrow /\ outcome.phase = "pending"
      /\ Lookups!Asked = lists[1] /\ Lookups!End(o)
  BY DEF Lookups!ListHealth, Lookups!AllAsked, Lookups!ReadyToAsk, Lookups!AtWork, Lookups!Asked
<1>2. lists[1] # Lost
  <2>1. lists \in Seq((SUBSET LookupClusters) \cup {Lost})
    BY DEF LookupInv, LookupTypes
  <2>2. 1 \in DOMAIN lists
    BY <1>1, <2>1
  <2>. QED  BY <1>1, <2>2 DEF Lookups!ListsThrow
<1>3. /\ o.phase \in {"ok", "error"}
      /\ o.phase = "error" <=> lost # {} /\ lost = lists[1]
      /\ o.phase = "ok" => o.clusters = lists[1] \ lost
  BY <1>1, Outcomes DEF Lookups!FailsIfAll
<1>. QED  BY <1>1, <1>2, <1>3, EndKeeps

\* What a list of configurations that is answered keeps.
LEMMA ListConfigsKeeps ==
  ASSUME LookupInv, Lookups!ListConfigs
  PROVE  LookupInv'
<1>1. /\ request.kind = "configs" /\ Len(lists) = 6 /\ outcome.phase = "pending"
      /\ Lookups!Asked = lists[3]
  BY DEF Lookups!ListConfigs, Lookups!AllAsked, Lookups!ReadyToAsk, Lookups!AtWork, Lookups!Asked
<1>. DEFINE failed == {c \in lists[3] : c \in lost \/ ~Lookups!Hive(config[c]).found}
            o == IF failed = lists[3] THEN Lookups!Outcome("error") ELSE Lookups!Listed(lists[3] \ failed)
<1>2. Lookups!End(o)
  BY <1>1, Zenon DEF Lookups!ListConfigs
<1>3. o.phase \in {"ok", "error"} /\ (o.phase = "error" => failed = lists[3])
  BY Outcomes
<1>4. ASSUME Lookups!Undisturbed, o.phase = "error", NEW c \in registered
      PROVE  ~("HIVE" \in config[c].services /\ config[c].zookeeper) /\ config[c].services # {}
  <2>1. lists[3] = registered /\ lost = {}
    BY <1>1, <1>4 DEF LookupInv, TablesInv
  <2>2. ~Lookups!Hive(config[c]).found
    BY <1>3, <1>4, <2>1
  <2>3. config[c] \in Configs
    BY DEF LookupInv, LookupTypes
  <2>. QED  BY <2>2, <2>3, HiveIs
<1>. HIDE DEF o
<1>. QED  BY <1>1, <1>2, <1>3, <1>4, EndKeeps

\* The configuration of a cluster is read once more.
LEMMA ReadConfigKeeps ==
  ASSUME LookupInv, Lookups!ReadConfig
  PROVE  LookupInv'
<1>1. /\ UNCHANGED <<registered, config, changes, request, lists, answered, lost, outcome>>
      /\ outcome.phase = "pending" /\ request.kind = "definition"
      /\ \/ taken' = Append(taken, config[Lookups!TheCluster]) /\ UNCHANGED failures
         \/ taken' = Append(taken, Lost) /\ failures' = TRUE
  BY DEF Lookups!ReadConfig, Lookups!AtWork, Lookups!World
<1>2. taken \in Seq(Configs \cup {Lost}) /\ config[Lookups!TheCluster] \in Configs \cup {Lost}
  <2>1. Lookups!TheCluster \in request.of /\ request.of \subseteq LookupClusters
    BY <1>1 DEF Lookups!TheCluster, LookupInv, LookupTypes, DefinitionInv
  <2>. QED  BY <2>1 DEF LookupInv, LookupTypes
<1>3. PICK x \in Configs \cup {Lost} :
        /\ taken' = Append(taken, x)
        /\ (x = config[Lookups!TheCluster] /\ UNCHANGED failures) \/ failures' = TRUE
  BY <1>1, <1>2
<1>4. /\ taken' \in Seq(Configs \cup {Lost}) /\ Len(taken) \in Nat /\ Len(taken') = Len(taken) + 1
      /\ taken'[Len(taken) + 1] = x /\ \A i \in 1..Len(taken) : taken'[i] = taken[i]
  BY <1>2, <1>3, Appended
<1>5. LookupTypes'
  BY <1>1, <1>3, <1>4 DEF LookupInv, LookupTypes
<1>6. DefinitionInv'
  <2>1. ASSUME Lookups!Undisturbed'
        PROVE  \A i \in 1..Len(taken') : taken'[i] = config'[Lookups!TheCluster']
    <3>1. Lookups!Undisturbed /\ x = config[Lookups!TheCluster] /\ Lookups!TheCluster' = Lookups!TheCluster
      BY <1>1, <1>3, <2>1 DEF Lookups!Undisturbed, Lookups!TheCluster
    <3>2. \A i \in 1..Len(taken) : taken[i] = config[Lookups!TheCluster]
      BY <1>1, <3>1 DEF LookupInv, DefinitionInv
    <3>3. \A i \in 1..Len(taken') : i \in 1..Len(taken) \/ i = Len(taken) + 1
      BY <1>4
    <3>. QED  BY <1>1, <1>4, <3>1, <3>2, <3>3
  <2>2. Lookups!DefinitionFits' /\ Lookups!DefinitionRefused'
    BY <1>1 DEF Lookups!DefinitionFits, Lookups!DefinitionRefused
  <2>. QED  BY <1>1, <2>1, <2>2 DEF LookupInv, DefinitionInv
<1>. QED  BY <1>1, <1>5, <1>6 DEF LookupInv, HealthInv, TablesInv

\* What is defined of a cluster that did not change while it was read.
LEMMA DefineFits ==
  ASSUME LookupInv, Lookups!Define, Lookups!Undisturbed, NEW x, x = config[Lookups!TheCluster]
  PROVE  /\ x \in Configs
         /\ outcome'.phase = "error" =>
              \/ "HDFS" \in x.services /\ (~x.fs \/ "HIVE" \notin x.services)
              \/ "HIVE" \in x.services /\ ~x.zookeeper
              \/ "RANGER" \in x.services /\ ~x.url
         /\ outcome'.phase = "ok" =>
              /\ Lookups!Hdfs(x).found /\ Lookups!Hive(x).found
              /\ outcome'.keys = Lookups!Hdfs(x).keys \cup Lookups!Hive(x).keys
              /\ outcome'.ranger = IF "RANGER" \in x.services
                   THEN <<Lookups!Repository(x.hdfsRepo, "hadoop"),
                          IF "HIVE" \in x.services THEN Lookups!Repository(x.hiveRepo, "hive")
                          ELSE "none">>
                   ELSE <<>>
<1>1. request.kind = "definition" /\ Len(taken) = Lookups!Calls
  BY DEF Lookups!Define, Lookups!AtWork
<1>2. x \in Configs
  <2>1. Lookups!TheCluster \in request.of /\ request.of \subseteq LookupClusters
    BY <1>1 DEF Lookups!TheCluster, LookupInv, LookupTypes, DefinitionInv
  <2>. QED  BY <2>1 DEF LookupInv, LookupTypes
<1>3. \A i \in 1..Len(taken) : taken[i] = x
  BY <1>1 DEF LookupInv, DefinitionInv
<1>4. Lookups!Calls = IF "RANGER" \in x.services /\ x.url THEN 5 ELSE 3
  <2>1. Lookups!Calls \in {3, 5}
    BY DEF Lookups!Calls
  <2>2. taken[3] = x /\ ~(Len(taken) < 3)
    BY <1>1, <1>3, <2>1
  <2>. QED  BY <1>2, <2>2, ConfigsAre DEF Lookups!Calls
<1>5. /\ taken[1] = x /\ taken[2] = x /\ taken[3] = x
      /\ "RANGER" \in x.services /\ x.url => taken[4] = x /\ taken[5] = x
  BY <1>1, <1>3, <1>4
<1>6. x # Lost
  BY <1>2, ConfigsAre
<1>7. Lookups!RangerFails <=> "RANGER" \in x.services /\ ~x.url
  BY <1>5, <1>6 DEF Lookups!RangerFails
<1>. DEFINE fails == ~Lookups!Hdfs(taken[1]).found \/ ~Lookups!Hive(taken[2]).found \/ Lookups!RangerFails
            ok == [phase |-> "ok", clusters |-> request.of, ranger |-> Lookups!Ranger,
                   keys |-> Lookups!Hdfs(taken[1]).keys \cup Lookups!Hive(taken[2]).keys]
<1>8. outcome' = IF Lookups!RangerThrows THEN Lookups!Outcome("never")
                 ELSE IF fails THEN Lookups!Outcome("error") ELSE ok
  BY Zenon DEF Lookups!Define, Lookups!End
<1>9. ok.phase = "ok" /\ ok.ranger = Lookups!Ranger
      /\ ok.keys = Lookups!Hdfs(taken[1]).keys \cup Lookups!Hive(taken[2]).keys
  OBVIOUS
<1>. HIDE DEF ok
<1>10. outcome'.phase = "error" => fails
  BY <1>8, <1>9, Outcomes
<1>11. outcome'.phase = "ok" => ~fails /\ outcome' = ok
  BY <1>8, <1>9, Outcomes
<1>12. ASSUME fails
       PROVE  \/ "HDFS" \in x.services /\ (~x.fs \/ "HIVE" \notin x.services)
              \/ "HIVE" \in x.services /\ ~x.zookeeper
              \/ "RANGER" \in x.services /\ ~x.url
  BY <1>2, <1>5, <1>7, <1>12, HdfsIs, HiveIs
<1>13. ASSUME ~fails
       PROVE  Lookups!Ranger = IF "RANGER" \in x.services
                   THEN <<Lookups!Repository(x.hdfsRepo, "hadoop"),
                          IF "HIVE" \in x.services THEN Lookups!Repository(x.hiveRepo, "hive")
                          ELSE "none">>
                   ELSE <<>>
  <2>1. "RANGER" \in x.services => x.url
    BY <1>7, <1>13
  <2>2. CASE "RANGER" \in x.services
    <3>1. Lookups!Calls # 3
      BY <1>4, <2>1, <2>2
    <3>. QED  BY <1>5, <2>1, <2>2, <3>1, Zenon DEF Lookups!Ranger
  <2>3. CASE "RANGER" \notin x.services
    BY <1>4, <2>3, Zenon DEF Lookups!Ranger
  <2>. QED  BY <2>2, <2>3
<1>. QED  BY <1>2, <1>5, <1>9, <1>10, <1>11, <1>12, <1>13

\* Names of Ranger's repositories.
LEMMA RepositoriesAre ==
  ASSUME NEW x \in Configs
  PROVE  /\ Lookups!Repository(x.hdfsRepo, "hadoop") = "named" <=> x.hdfsRepo = "named"
         /\ Lookups!Repository(x.hiveRepo, "hive") # "none"
  BY DEF Lookups!Repository

\* What a definition that is made keeps.
LEMMA DefinitionKeeps ==
  ASSUME LookupInv, Lookups!Define
  PROVE  LookupInv'
<1>1. /\ UNCHANGED <<registered, config, changes, request, lists, answered, lost, taken, failures>>
      /\ request.kind = "definition"
  BY DEF Lookups!Define, Lookups!End, Lookups!World, Lookups!AtWork
<1>2. outcome'.phase \in {"never", "error", "ok"}
  <2>. DEFINE ok == [phase |-> "ok", clusters |-> request.of, ranger |-> Lookups!Ranger,
                     keys |-> Lookups!Hdfs(taken[1]).keys \cup Lookups!Hive(taken[2]).keys]
  <2>1. outcome' \in {Lookups!Outcome("never"), Lookups!Outcome("error"), ok}
    BY Zenon DEF Lookups!Define, Lookups!End
  <2>2. ok.phase = "ok"
    OBVIOUS
  <2>. QED  BY <2>1, <2>2, Outcomes
<1>3. LookupTypes'
  BY <1>1, <1>2 DEF LookupInv, LookupTypes
<1>4. ASSUME Lookups!Undisturbed'
      PROVE  Lookups!DefinitionFits' /\ Lookups!DefinitionRefused'
  <2>1. PICK x : x = config[Lookups!TheCluster]
    OBVIOUS
  <2>2. Lookups!Undisturbed /\ x = config'[Lookups!TheCluster']
    BY <1>1, <1>4, <2>1 DEF Lookups!Undisturbed, Lookups!TheCluster
  <2>3. Lookups!DefinitionRefused'
    BY <2>1, <2>2, DefineFits DEF Lookups!DefinitionRefused
  <2>4. Lookups!DefinitionFits'
    <3>. SUFFICES ASSUME outcome'.phase = "ok"
                  PROVE  Lookups!DefinitionFits'
      BY DEF Lookups!DefinitionFits
    <3>1. /\ x \in Configs /\ Lookups!Hdfs(x).found /\ Lookups!Hive(x).found
          /\ outcome'.keys = Lookups!Hdfs(x).keys \cup Lookups!Hive(x).keys
          /\ outcome'.ranger = IF "RANGER" \in x.services
                   THEN <<Lookups!Repository(x.hdfsRepo, "hadoop"),
                          IF "HIVE" \in x.services THEN Lookups!Repository(x.hiveRepo, "hive")
                          ELSE "none">>
                   ELSE <<>>
      BY <2>1, <2>2, DefineFits
    <3>2. /\ Of("address", outcome'.keys) = IF "HDFS" \in x.services /\ x.internal # <<>>
                                            THEN x.namenodes[x.internal[1]] \cap x.addressed ELSE {}
          /\ "HIVE" \in x.services /\ "bucket" \in x.algorithm =>
               Of("algorithm", outcome'.keys) = {"bucket"}
          /\ "HIVE" \in x.services /\ "bucket" \in x.key => Of("key", outcome'.keys) = {"bucket"}
      BY <3>1, KeysFit
    <3>3. /\ outcome'.ranger # <<>> <=> "RANGER" \in x.services
          /\ outcome'.ranger # <<>> =>
               (outcome'.ranger[1] = "named" <=> x.hdfsRepo = "named") /\
               (outcome'.ranger[2] = "none" <=> "HIVE" \notin x.services)
      BY <3>1, RepositoriesAre
    <3>. QED  BY <2>2, <3>2, <3>3, Zenon DEF Lookups!DefinitionFits, Of
  <2>. QED  BY <2>3, <2>4
<1>5. ASSUME Lookups!Undisturbed'
      PROVE  \A i \in 1..Len(taken') : taken'[i] = config'[Lookups!TheCluster']
  <2>1. Lookups!Undisturbed /\ Lookups!TheCluster' = Lookups!TheCluster
    BY <1>1, <1>5 DEF Lookups!Undisturbed, Lookups!TheCluster
  <2>. QED  BY <1>1, <2>1 DEF LookupInv, DefinitionInv
<1>6. DefinitionInv'
  BY <1>1, <1>4, <1>5 DEF LookupInv, DefinitionInv
<1>. QED  BY <1>1, <1>3, <1>6 DEF LookupInv, HealthInv, TablesInv

\* The invariant of the lookups holds.
LEMMA LookupInvHolds == Spec => []LookupInv
<1>1. ASSUME LookupInv, [Lookups!Next]_lookupVars
      PROVE  LookupInv'
  <2>1. CASE UNCHANGED lookupVars
    <3>1. UNCHANGED <<registered, config, changes, request, lists, answered, lost, taken, failures, outcome>>
      BY <2>1 DEF lookupVars
    <3>2. LookupTypes' /\ HealthInv' /\ TablesInv'
      BY <1>1, <3>1 DEF LookupInv, LookupTypes, HealthInv, TablesInv, Lookups!Undisturbed
    <3>3. Lookups!TheCluster' = Lookups!TheCluster
      BY <3>1 DEF Lookups!TheCluster
    <3>4. DefinitionInv'
      BY <1>1, <3>1, <3>3 DEF LookupInv, DefinitionInv, Lookups!DefinitionFits,
         Lookups!DefinitionRefused, Lookups!Undisturbed
    <3>. QED  BY <1>1, <3>1, <3>2, <3>4 DEF LookupInv
  <2>2. ASSUME NEW c \in LookupClusters, Lookups!Register(c)
        PROVE  LookupInv'
    <3>1. /\ changes' = changes + 1 /\ changes < MaxChanges /\ request.kind # "none"
          /\ registered' = IF c \in registered THEN registered \ {c} ELSE registered \cup {c}
          /\ UNCHANGED <<config, request, lists, answered, lost, taken, failures, outcome>>
      BY <2>2 DEF Lookups!Register
    <3>2. registered' \subseteq LookupClusters /\ config' \in [LookupClusters -> Configs]
      BY <1>1, <3>1 DEF LookupInv, LookupTypes
    <3>. QED  BY <1>1, <3>1, <3>2, ClustersChangeKeeps
  <2>3. ASSUME NEW c \in LookupClusters, NEW x \in Configs, Lookups!Configure(c, x)
        PROVE  LookupInv'
    <3>1. /\ changes' = changes + 1 /\ changes < MaxChanges /\ request.kind # "none"
          /\ config' = [config EXCEPT ![c] = x]
          /\ UNCHANGED <<registered, request, lists, answered, lost, taken, failures, outcome>>
      BY <2>3 DEF Lookups!Configure
    <3>2. registered' \subseteq LookupClusters /\ config' \in [LookupClusters -> Configs]
      BY <1>1, <3>1 DEF LookupInv, LookupTypes
    <3>. QED  BY <1>1, <3>1, <3>2, ClustersChangeKeeps
  <2>. QED  BY <1>1, <2>1, <2>2, <2>3, AskedKeeps, ReadTableKeeps, ListsFailKeeps, LocateKeeps,
               HostsKeeps, AskEachKeeps, ListHealthKeeps, ListConfigsKeeps, ReadConfigKeeps,
               DefinitionKeeps DEF Lookups!Next, Lookups!Proceed
<1>. QED  BY <1>1, LookupInvInit, PartSteps, PTL DEF Spec

\* What is read of clusters is what they have.
LEMMA LookupsAreFit ==
  ASSUME LookupInv
  PROVE  /\ Lookups!TypeOK /\ Lookups!ListsFit
         /\ Lookups!DefinitionFits /\ Lookups!DefinitionRefused
<1>1. Lookups!TypeOK
  BY DEF LookupInv, LookupTypes, Lookups!TypeOK
<1>2. outcome.phase # "pending" => request.kind # "none"
  BY Outcomes DEF LookupInv
<1>3. request.kind = "health" => Lookups!Asked = lists[1]
  BY DEF Lookups!Asked
<1>4. Lookups!ListsFit
  BY <1>3 DEF LookupInv, HealthInv, TablesInv, Lookups!ListsFit
<1>5. Lookups!DefinitionFits /\ Lookups!DefinitionRefused
  BY DEF LookupInv, DefinitionInv, Lookups!DefinitionFits, Lookups!DefinitionRefused
<1>. QED  BY <1>1, <1>4, <1>5

-----------------------------------------------------------------------------
(* Lists of the answers of Beacons. *)

ListTypes == Lists!TypeOK /\ DOMAIN answers = Lists!BeaconIds

\* The phases of the answers are what they may be.
LEMMA ListTypesHold == Spec => []ListTypes
<1>1. Init => ListTypes
  <2>. SUFFICES ASSUME Lists!Init
                PROVE  ListTypes
    BY DEF Init
  <2>1. there \subseteq Universe /\ reported \subseteq Lists!BeaconIds
    BY DEF Lists!Init
  <2>2. query \in Queries /\ answers = [b \in Lists!BeaconIds |-> Lists!NoAnswer]
        /\ reply = Lists!NoAnswer
    BY DEF Lists!Init
  <2>. QED  BY <2>1, <2>2 DEF ListTypes, Lists!TypeOK, Lists!NoAnswer
<1>2. ASSUME ListTypes, [Lists!Next]_(Lists!vars)
      PROVE  ListTypes'
  <2>1. CASE UNCHANGED Lists!vars
    BY <1>2, <2>1 DEF Lists!vars, ListTypes, Lists!TypeOK
  <2>2. ASSUME NEW b \in Lists!BeaconIds, Lists!Respond(b)
        PROVE  ListTypes'
    <3>1. PICK x : answers' = [answers EXCEPT ![b] = x] /\ x.phase \in {"answered", "failed"}
      <4>1. \E list : \/ answers' = [answers EXCEPT ![b] = Lists!Answered(list)]
                      \/ answers' = [answers EXCEPT ![b] = Lists!Failed]
        BY <2>2, Zenon DEF Lists!Respond
      <4>2. /\ \A list : Lists!Answered(list).phase = "answered"
            /\ Lists!Failed.phase = "failed"
        BY DEF Lists!Answered, Lists!Failed
      <4>. QED  BY <4>1, <4>2
    <3>. QED  BY <1>2, <2>2, <3>1 DEF Lists!Respond, ListTypes, Lists!TypeOK
  <2>3. CASE Lists!Reply
    <3>1. reply'.phase \in {"never", "failed", "answered"}
      BY <2>3 DEF Lists!Reply, Lists!Answered, Lists!Failed
    <3>. QED  BY <1>2, <2>3, <3>1 DEF Lists!Reply, ListTypes, Lists!TypeOK
  <2>. QED  BY <1>2, <2>1, <2>2, <2>3 DEF Lists!Next
<1>. QED  BY <1>1, <1>2, PartSteps, PTL DEF Spec

\* The operators on sequences are those of SortedSeqs.
LEMMA SameOrders ==
  /\ \A S : Lists!Cardinality(S) = Cardinality(S)
  /\ \A b : Lists!InOrder(b) = InOrder(b)
  /\ \A s, S : Lists!Those(s, S) = Those(s, S)
  /\ \A s, r : Lists!SortedBy(s, r) = SortedBy(s, r)
  /\ \A s : Lists!Range(s) = {s[i] : i \in DOMAIN s}
<1>1. \A S : Lists!Cardinality(S) = Cardinality(S)
  BY DEF Cardinality, Lists!Cardinality
<1>2. \A b : Lists!InOrder(b) = InOrder(b)
  BY <1>1 DEF InOrder, Lists!InOrder
<1>3. \A s, S : Lists!Those(s, S) = Those(s, S)
  BY <1>2 DEF Those, Lists!Those, Ascending, Lists!Ascending
<1>4. \A s, r : Lists!SortedBy(s, r) = SortedBy(s, r)
  BY <1>2 DEF SortedBy, Lists!SortedBy
<1>5. \A s : Lists!Range(s) = {s[i] : i \in DOMAIN s}
  BY DEF Lists!Range
<1>. QED  BY <1>1, <1>2, <1>3, <1>4, <1>5

\* The policies there may be, what is asked for, and the numbers of Beacons.
LEMMA ListFacts ==
  /\ BeaconsCount \in Nat /\ Lists!BeaconIds = 1..BeaconsCount
  /\ \A p \in Universe : p.number \in Nat /\ p.source \in Nat /\ p.target \in Nat /\ p.source # p.target
  /\ \A p, q \in Universe : p.number = q.number => p = q
  /\ \A q \in Queries : /\ q.kind \in {"policies", "events", "creds"} /\ q.orderBy \in BOOLEAN
                        /\ q.desc \in BOOLEAN /\ q.size \in Nat /\ q.offset \in Nat
  /\ IsFiniteSet(Universe) /\ IsFiniteSet(CredPolicies) /\ IsFiniteSet(Accounts)
<1>1. Lists!ListingsConstants
  BY BackendConstants
<1>2. Lists!IsFiniteSet(Universe) /\ Lists!IsFiniteSet(CredPolicies) /\ Lists!IsFiniteSet(Accounts)
  BY <1>1, Zenon DEF Lists!ListingsConstants
<1>3. IsFiniteSet(Universe) /\ IsFiniteSet(CredPolicies) /\ IsFiniteSet(Accounts)
  BY <1>2, Zenon DEF Lists!IsFiniteSet, IsFiniteSet
<1>4. /\ BeaconsCount \in Nat
      /\ \A p \in Universe : p.number \in Nat /\ {p.source, p.target} \subseteq Nat /\ p.source # p.target
      /\ \A p, q \in Universe : p.number = q.number => p = q
      /\ \A q \in Queries : q \in Lists!Query
  BY <1>1 DEF Lists!ListingsConstants
<1>5. \A p \in Universe : p.source \in Nat /\ p.target \in Nat
  BY <1>4
<1>6. \A q \in Queries : /\ q.kind \in {"policies", "events", "creds"} /\ q.orderBy \in BOOLEAN
                         /\ q.desc \in BOOLEAN /\ q.size \in Nat /\ q.offset \in Nat
  BY <1>4 DEF Lists!Query
<1>. QED  BY <1>3, <1>4, <1>5, <1>6 DEF Lists!BeaconIds

-----------------------------------------------------------------------------
(* What a Beacon answers. *)

\* A policy as a Beacon lists it.
Copies == [number : Nat, source : Nat, target : Nat, jobs : BOOLEAN]

\* A copy is of its policy.
LEMMA CopyIs ==
  ASSUME NEW b, NEW p \in Universe
  PROVE  /\ Lists!Copy(b, p) \in Copies
         /\ Lists!Copy(b, p).number = p.number /\ Lists!Copy(b, p).source = p.source
         /\ Lists!Copy(b, p).target = p.target
  BY ListFacts DEF Lists!Copy, Copies

\* The rank of a policy in the order that is asked for.
LEMMA RankIs ==
  ASSUME query \in Queries
  PROVE  /\ \A p : p.number \in Nat => Lists!Rank(p) \in Int
         /\ \A p, q : p.number \in Nat /\ q.number \in Nat =>
              /\ Lists!Rank(p) = Lists!Rank(q) <=> p.number = q.number
              /\ Lists!Before(p, q) <=> Lists!Rank(p) < Lists!Rank(q)
         /\ \A p, q : p.number = q.number => Lists!Rank(p) = Lists!Rank(q)
  BY ListFacts DEF Lists!Rank, Lists!Before

\* How many a Beacon is asked for, at most.
Asking == query.offset + query.size

\* A part of a list.
IsSlice(s, list, from, n) ==
  /\ \A k \in 1..Len(s) : from + k \in 1..Len(list) /\ s[k] = list[from + k] /\ k <= n
  /\ \A i \in 1..Len(list) : from < i /\ i <= from + n => \E k \in 1..Len(s) : from + k = i

\* A part of a list, by where it begins and how long it is.
LEMMA SliceIs ==
  ASSUME NEW D, NEW list \in Seq(D), NEW from \in Nat, NEW n \in Nat,
         NEW s, s = Lists!Slice(list, from, n)
  PROVE  s \in Seq(D) /\ IsSlice(s, list, from, n)
<1>. DEFINE to == IF from + n < Len(list) THEN from + n ELSE Len(list)
<1>1. s = SubSeq(list, from + 1, to)
  BY DEF Lists!Slice
<1>2. Len(list) \in Nat /\ to \in Nat /\ to <= Len(list) /\ to <= from + n /\ from + 1 \in Int /\ to \in Int
      /\ (to = from + n \/ to = Len(list))
  OBVIOUS
<1>. HIDE DEF to
<1>3. \A i \in from + 1..to : list[i] \in D
  BY <1>2
<1>4. /\ s \in Seq(D)
      /\ Len(s) = IF from + 1 <= to THEN to - (from + 1) + 1 ELSE 0
      /\ \A i \in 1..to - (from + 1) + 1 : s[i] = list[from + 1 + i - 1]
  BY <1>1, <1>2, <1>3, SubSeqProperties
<1>5. /\ Len(s) \in Nat /\ Len(s) <= n /\ (Len(s) > 0 => from + Len(s) <= Len(list))
      /\ \A k \in 1..Len(s) : s[k] = list[from + k]
  <2>1. Len(s) = (IF from + 1 <= to THEN to - from ELSE 0) /\ to - (from + 1) + 1 = to - from
    BY <1>2, <1>4
  <2>2. Len(s) \in Nat /\ Len(s) <= n /\ (Len(s) > 0 => from + Len(s) <= Len(list))
    BY <1>2, <2>1
  <2>3. \A k \in 1..Len(s) : k \in 1..to - (from + 1) + 1 /\ from + 1 + k - 1 = from + k
    BY <1>2, <2>1
  <2>. QED  BY <1>4, <2>2, <2>3
<1>6. \A k \in 1..Len(s) : from + k \in 1..Len(list) /\ k <= n
  BY <1>2, <1>5
<1>7. ASSUME NEW i \in 1..Len(list), from < i, i <= from + n
      PROVE  \E k \in 1..Len(s) : from + k = i
  <2>1. i - from \in 1..Len(s) /\ from + (i - from) = i
    BY <1>2, <1>4, <1>7
  <2>. QED  BY <2>1
<1>. QED  BY <1>4, <1>5, <1>6, <1>7 DEF IsSlice

\* What a Beacon tells of some policies: each once, and as many as it is asked for, in
\* order.
Tells(s, b, P) ==
  /\ \A k \in 1..Len(s) : \E p \in P : s[k] = Lists!Copy(b, p)
  /\ \A k, l \in 1..Len(s) : k # l => s[k].number # s[l].number
  /\ \A p \in P : query.size = 0 \/ Cardinality({q \in P : Lists!Before(q, p)}) < Asking =>
                    \E k \in 1..Len(s) : s[k] = Lists!Copy(b, p)

\* What a Beacon tells of policies in the order that is asked for.
LEMMA ToldIs ==
  ASSUME query \in Queries, NEW P, P \subseteq Universe, NEW b,
         NEW s, s = Lists!InOrderAsked(b, P)
  PROVE  s \in Seq(Copies) /\ Tells(s, b, P)
<1>. DEFINE copies == {Lists!Copy(b, p) : p \in P}
            earlier == [c \in copies |-> {d \in copies : Lists!Before(d, c)}]
            all == InOrder(earlier)
<1>1. s = Lists!Asked(all)
  BY SameOrders DEF Lists!InOrderAsked
<1>2. \A q \in P : q \in Universe
  OBVIOUS
<1>3. \A q \in P : /\ Lists!Copy(b, q) \in copies /\ Lists!Copy(b, q) \in Copies
                   /\ Lists!Copy(b, q).number = q.number /\ q.number \in Nat
  BY <1>2, CopyIs, ListFacts
<1>4. \A c \in copies : /\ c \in Copies /\ c.number \in Nat
                        /\ \E p \in P : c = Lists!Copy(b, p) /\ c.number = p.number
  BY <1>3
<1>5. IsFiniteSet(P) /\ IsFiniteSet(copies)
  <2>1. IsFiniteSet(P)
    BY ListFacts, FS_Subset
  <2>2. copies = {[p \in P |-> Lists!Copy(b, p)][q] : q \in P}
    OBVIOUS
  <2>3. [p \in P |-> Lists!Copy(b, p)] \in [P -> copies]
    OBVIOUS
  <2>4. [p \in P |-> Lists!Copy(b, p)] \in Surjection(P, copies)
    BY <2>2, <2>3 DEF Surjection
  <2>. QED  BY <2>1, <2>4, FS_Surjection
<1>6. /\ earlier \in [copies -> SUBSET copies]
      /\ \A c, d \in copies : d \in earlier[c] <=> Lists!Before(d, c)
      /\ \A c \in copies : earlier[c] = {d \in copies : Lists!Before(d, c)}
  OBVIOUS
<1>. HIDE DEF copies, earlier
<1>7. \A c, d \in copies : /\ Lists!Rank(c) \in Int /\ (d \in earlier[c] <=> Lists!Rank(d) < Lists!Rank(c))
                           /\ Lists!Rank(c) = Lists!Rank(d) => c = d
  <2>1. \A c, d \in copies : c.number = d.number => c = d
    BY <1>2, <1>4, ListFacts
  <2>. QED  BY <1>4, <1>6, <2>1, RankIs
<1>8. \A c \in copies : c \notin earlier[c]
  BY <1>7
<1>9. \A c, d \in copies : d \in earlier[c] => earlier[d] \subseteq earlier[c]
  <2>1. ASSUME NEW c \in copies, NEW d \in copies, d \in earlier[c], NEW e \in earlier[d]
        PROVE  e \in earlier[c]
    <3>1. e \in copies
      BY <1>6
    <3>2. /\ Lists!Rank(e) < Lists!Rank(d) /\ Lists!Rank(d) < Lists!Rank(c)
          /\ Lists!Rank(e) \in Int /\ Lists!Rank(d) \in Int /\ Lists!Rank(c) \in Int
      BY <1>7, <2>1, <3>1
    <3>. QED  BY <1>7, <3>1, <3>2
  <2>. QED  BY <2>1
<1>10. \A c, d \in copies : c = d \/ c \in earlier[d] \/ d \in earlier[c]
  BY <1>7
<1>11. /\ all \in Seq(copies)
       /\ \A c \in copies : \E k \in 1..Len(all) : all[k] = c
       /\ \A i, j \in 1..Len(all) : i < j => all[i] \in earlier[all[j]]
       /\ \A k \in 1..Len(all) : Cardinality(earlier[all[k]]) = k - 1
  <2>1. StrictOrder(earlier, copies)
    BY <1>5, <1>6, <1>8, <1>9, <1>10 DEF StrictOrder
  <2>2. StandsInOrder(all, earlier, copies)
    BY <2>1, InOrderIs
  <2>. HIDE DEF all
  <2>. QED  BY <2>2 DEF StandsInOrder
<1>. HIDE DEF all
<1>12. \A k, l \in 1..Len(all) : k # l => all[k].number # all[l].number
  <2>1. \A c, d \in copies : d \in earlier[c] => c.number # d.number
    BY <1>4, <1>7, RankIs
  <2>2. \A k \in 1..Len(all) : all[k] \in copies
    BY <1>11
  <2>3. \A k, l \in 1..Len(all) : k < l => all[k].number # all[l].number
    BY <1>11, <2>1, <2>2
  <2>4. \A k, l \in 1..Len(all) : k = l \/ k < l \/ l < k
    OBVIOUS
  <2>. QED  BY <2>3, <2>4
<1>13. \A p \in P : /\ Cardinality(earlier[Lists!Copy(b, p)]) <= Cardinality({q \in P : Lists!Before(q, p)})
                    /\ Cardinality({q \in P : Lists!Before(q, p)}) \in Nat
  <2>. TAKE p \in P
  <2>. DEFINE Q == {q \in P : Lists!Before(q, p)}
              E == earlier[Lists!Copy(b, p)]
              f == [q \in Q |-> Lists!Copy(b, q)]
  <2>1. IsFiniteSet(Q)
    BY <1>5, FS_Subset
  <2>2. \A q \in Q : f[q] \in E
    BY <1>3, <1>6, RankIs
  <2>3. \A e \in E : \E q \in Q : f[q] = e
    <3>1. ASSUME NEW e \in E
          PROVE  \E q \in Q : f[q] = e
      <4>1. e \in copies /\ Lists!Before(e, Lists!Copy(b, p))
        BY <1>3, <1>6
      <4>2. PICK q \in P : e = Lists!Copy(b, q) /\ e.number = q.number
        BY <1>4, <4>1
      <4>3. Lists!Before(q, p)
        BY <1>3, <4>1, <4>2, RankIs
      <4>. QED  BY <4>2, <4>3
    <3>. QED  BY <3>1
  <2>. HIDE DEF Q, E
  <2>4. f \in Surjection(Q, E)
    BY <2>2, <2>3 DEF Surjection
  <2>5. Cardinality(E) <= Cardinality(Q)
    BY <2>1, <2>4, FS_Surjection
  <2>6. Cardinality(Q) \in Nat
    BY <2>1, FS_CardinalityType
  <2>. QED  BY <2>5, <2>6 DEF E, Q
<1>14. CASE query.size = 0
  <2>1. s = all
    BY <1>1, <1>14 DEF Lists!Asked
  <2>2. all \in Seq(Copies)
    BY <1>4, <1>11, SeqMonotonic
  <2>. QED  BY <1>3, <1>4, <1>11, <1>12, <2>1, <2>2 DEF Tells
<1>15. CASE query.size # 0
  <2>1. s = Lists!Slice(all, 0, Asking) /\ Asking \in Nat
    BY <1>1, <1>15, ListFacts DEF Lists!Asked, Asking
  <2>2. all \in Seq(Copies)
    BY <1>4, <1>11, SeqMonotonic
  <2>3. /\ s \in Seq(Copies)
        /\ \A k \in 1..Len(s) : 0 + k \in 1..Len(all) /\ s[k] = all[0 + k]
        /\ \A i \in 1..Len(all) : 0 < i /\ i <= 0 + Asking => \E k \in 1..Len(s) : 0 + k = i
    <3>1. s \in Seq(Copies) /\ IsSlice(s, all, 0, Asking)
      BY <2>1, <2>2, SliceIs
    <3>. QED  BY <3>1 DEF IsSlice
  <2>4. /\ \A k \in 1..Len(s) : k \in 1..Len(all) /\ s[k] = all[k]
        /\ \A i \in 1..Len(all) : i <= Asking => i \in 1..Len(s)
    BY <2>1, <2>3
  <2>5. ASSUME NEW p \in P, Cardinality({q \in P : Lists!Before(q, p)}) < Asking
        PROVE  \E k \in 1..Len(s) : s[k] = Lists!Copy(b, p)
    <3>1. PICK k \in 1..Len(all) : all[k] = Lists!Copy(b, p)
      BY <1>3, <1>11
    <3>2. k - 1 < Asking
      <4>1. Cardinality(earlier[Lists!Copy(b, p)]) = k - 1
        BY <1>11, <3>1
      <4>. QED  BY <1>13, <2>1, <2>5, <4>1
    <3>3. k \in 1..Len(s)
      BY <2>1, <2>4, <3>2
    <3>. QED  BY <2>4, <3>1, <3>3
  <2>6. \A k \in 1..Len(s) : \E p \in P : s[k] = Lists!Copy(b, p)
    <3>1. \A k \in 1..Len(s) : s[k] \in copies
      <4>1. \A k \in 1..Len(all) : all[k] \in copies
        BY <1>11
      <4>. QED  BY <2>4, <4>1
    <3>. QED  BY <1>4, <3>1
  <2>7. \A k, l \in 1..Len(s) : k # l => s[k].number # s[l].number
    BY <1>12, <2>4
  <2>. QED  BY <1>15, <2>3, <2>5, <2>6, <2>7 DEF Tells
<1>. QED  BY <1>14, <1>15

-----------------------------------------------------------------------------
(* One list of all. *)

ListOf == [b \in 1..BeaconsCount |-> answers[b].list]

\* The list after some Beacons has that of the Beacon before, and its own.
LEMMA JoinedStep ==
  ASSUME NEW D, \A b \in 1..BeaconsCount : answers[b].list \in Seq(D)
  PROVE  Joins(Lists!Joined, ListOf, BeaconsCount)
<1>1. PICK n \in Nat : n = BeaconsCount
  BY ListFacts
<1>. DEFINE step == [b \in 1..n |-> [s \in Seq(D) |-> s \o answers[b].list]]
            Is(f) == f = [b \in 0..n |-> IF b = 0 THEN <<>> ELSE f[b - 1] \o answers[b].list]
<1>2. step \in [1..n -> [Seq(D) -> Seq(D)]]
  <2>1. \A b \in 1..n : [s \in Seq(D) |-> s \o answers[b].list] \in [Seq(D) -> Seq(D)]
    BY <1>1, ConcatProperties
  <2>. QED  BY <2>1
<1>3. \A b \in 1..n : \A s \in Seq(D) : step[b][s] = s \o answers[b].list
  OBVIOUS
<1>4. \A f : f \in [0..n -> Seq(D)] => f = [b \in 0..n |-> f[b]]
  OBVIOUS
<1>. HIDE DEF step
<1>5. \E f : Is(f)
  <2>1. <<>> \in Seq(D)
    BY EmptySeq
  <2>2. PICK f \in [0..n -> Seq(D)] : StepsOf(f, <<>>, step, n)
    BY <1>2, <2>1, StepByStep
  <2>3. \A b \in 1..n : f[b - 1] \in Seq(D) /\ f[b] = f[b - 1] \o answers[b].list
    <3>1. \A b \in 1..n : b - 1 \in 0..n
      BY <1>1
    <3>2. \A b \in 1..n : f[b - 1] \in Seq(D)
      BY <3>1, <2>2
    <3>. QED  BY <3>2, <1>3, <2>2 DEF StepsOf
  <2>4. \A b \in 0..n : f[b] = IF b = 0 THEN <<>> ELSE f[b - 1] \o answers[b].list
    <3>1. \A b \in 0..n : b = 0 \/ b \in 1..n
      BY <1>1
    <3>2. 0 \notin 1..n
      BY <1>1
    <3>. QED  BY <3>1, <3>2, <2>2, <2>3 DEF StepsOf
  <2>5. [b \in 0..n |-> f[b]] = [b \in 0..n |-> IF b = 0 THEN <<>> ELSE f[b - 1] \o answers[b].list]
    BY <2>4
  <2>6. Is(f)
    BY <1>4, <2>2, <2>5
  <2>. QED  BY <2>6
<1>6. Lists!Joined = CHOOSE f : Is(f)
  BY <1>1 DEF Lists!Joined
<1>7. Is(Lists!Joined)
  <2>. HIDE DEF Is
  <2>. QED  BY <1>5, <1>6, Zenon
<1>8. PICK J : J = Lists!Joined
  OBVIOUS
<1>. DEFINE Steps(f) == \A b \in 0..n : f[b] = IF b = 0 THEN <<>> ELSE f[b - 1] \o answers[b].list
<1>9. \A f : Is(f) => Steps(f)
  OBVIOUS
<1>11. /\ \A b \in 0..n : J[b] = IF b = 0 THEN <<>> ELSE J[b - 1] \o answers[b].list
      /\ 0 \in 0..n /\ \A b \in 1..n : b \in 0..n /\ b # 0
  <2>1. Steps(Lists!Joined)
    <3>. HIDE DEF Is, Steps
    <3>. QED  BY <1>7, <1>9
  <2>2. Steps(J)
    BY <1>8, <2>1, Zenon
  <2>. QED  BY <1>1, <2>2
<1>10. J[0] = <<>> /\ \A b \in 1..n : J[b] = J[b - 1] \o ListOf[b]
  BY <1>1, <1>11 DEF ListOf
<1>. QED  BY <1>1, <1>8, <1>10 DEF Joins

\* A list of what some policies are copied to: each at most once.
ListsSome(A, All) ==
  /\ A \in Seq(Copies)
  /\ \A i, j \in 1..Len(A) : A[i].number = A[j].number => i = j
  /\ \A i \in 1..Len(A) : \E p \in All : A[i].number = p.number

PlaceAmong(All, p) == Cardinality({q \in All : Lists!Before(q, p)})

Numbers(A) == {A[i].number : i \in 1..Len(A)}

\* Two lists with the same elements, of which each is once in both.
LEMMA SameNumbers ==
  ASSUME NEW s, NEW list, NEW at, Arranged(s, list, at)
  PROVE  Numbers(s) = Numbers(list)
<1>1. \A x \in Numbers(s) : x \in Numbers(list)
  <2>1. ASSUME NEW k \in 1..Len(s)
        PROVE  \E i \in 1..Len(list) : s[k] = list[i]
    <3>1. at[k] \in 1..Len(list) /\ s[k] = list[at[k]]
      BY DEF Arranged
    <3>. QED  BY <3>1
  <2>. QED  BY <2>1 DEF Numbers
<1>2. \A x \in Numbers(list) : x \in Numbers(s)
  <2>1. ASSUME NEW i \in 1..Len(list)
        PROVE  \E k \in 1..Len(s) : s[k] = list[i]
    <3>1. PICK k \in 1..Len(list) : at[k] = i
      BY DEF Arranged
    <3>2. k \in 1..Len(s) /\ s[k] = list[i]
      BY <3>1 DEF Arranged
    <3>. QED  BY <3>2
  <2>. QED  BY <2>1 DEF Numbers
<1>. QED  BY <1>1, <1>2

\* The m-th of a page is on the page.
LEMMA OnPage ==
  ASSUME NEW from \in Nat, NEW size \in Nat, NEW m \in Int, 1 <= m, m <= size,
         NEW k, k = from + m, NEW end, end = from + size
  PROVE  k - 1 < end /\ k - 1 \in from..from + size - 1
  OBVIOUS

\* A page of a list in order is that of all, if what comes before the end of the page is
\* in the list.
LEMMA PageIs ==
  ASSUME query \in Queries, query.orderBy, NEW All, All \subseteq Universe,
         NEW A, ListsSome(A, All),
         \A p \in All : query.size = 0 \/ PlaceAmong(All, p) < Asking =>
                          \E i \in 1..Len(A) : A[i].number = p.number
  PROVE  /\ Lists!Page(Lists!Ordered(A)) \in Seq(Copies)
         /\ Numbers(Lists!Page(Lists!Ordered(A))) =
              {p.number : p \in {p \in All : query.size = 0 \/
                                   PlaceAmong(All, p) \in query.offset..query.offset + query.size - 1}}
<1>. DEFINE n == Len(A)
            rank == [i \in 1..n |-> Lists!Rank(A[i])]
            r == [p \in All |-> Lists!Rank(p)]
            T == {p \in All : \E i \in 1..n : A[i].number = p.number}
            who == [i \in 1..n |-> CHOOSE p \in All : A[i].number = p.number]
            s == Lists!Ordered(A)
<1>1. /\ A \in Seq(Copies) /\ n \in Nat /\ DOMAIN A = 1..n
      /\ \A i, j \in 1..n : A[i].number = A[j].number => i = j
      /\ \A i \in 1..n : \E p \in All : A[i].number = p.number
      /\ \A i \in 1..n : A[i].number \in Nat
  <2>1. /\ A \in Seq(Copies)
        /\ \A i, j \in 1..n : A[i].number = A[j].number => i = j
        /\ \A i \in 1..n : \E p \in All : A[i].number = p.number
    BY DEF ListsSome
  <2>2. \A c \in Copies : c.number \in Nat
    BY DEF Copies
  <2>3. \A i \in 1..n : A[i] \in Copies
    BY <2>1, ElementOfSeq
  <2>. QED  BY <2>1, <2>2, <2>3
<1>2. /\ query.size \in Nat /\ query.offset \in Nat /\ Asking \in Nat
      /\ \A p \in All : p.number \in Nat
      /\ \A p, q \in All : p.number = q.number => p = q
  BY ListFacts DEF Asking
<1>3. IsFiniteSet(All) /\ IsFiniteSet(1..n)
  BY <1>1, ListFacts, FS_Subset, FS_Interval
<1>4. /\ rank \in [1..n -> Int]
      /\ \A i, j \in 1..n : rank[i] = rank[j] => i = j
  <2>1. \A i \in 1..n : Lists!Rank(A[i]) \in Int
    BY <1>1, RankIs
  <2>2. \A i, j \in 1..n : Lists!Rank(A[i]) = Lists!Rank(A[j]) => A[i].number = A[j].number
    BY <1>1, RankIs
  <2>. QED  BY <1>1, <2>1, <2>2
<1>5. /\ r \in [All -> Int]
      /\ \A p, q \in All : r[p] = r[q] => p = q
      /\ \A p, q \in All : r[q] < r[p] <=> Lists!Before(q, p)
  <2>1. \A p, q \in All : /\ Lists!Rank(p) \in Int
                          /\ Lists!Rank(p) = Lists!Rank(q) => p.number = q.number
                          /\ Lists!Before(q, p) <=> Lists!Rank(q) < Lists!Rank(p)
    BY <1>2, RankIs
  <2>. QED  BY <1>2, <2>1
<1>6. \A p \in All : PlaceIn(All, r, p) = PlaceAmong(All, p)
  <2>1. \A p \in All : {q \in All : r[q] < r[p]} = {q \in All : Lists!Before(q, p)}
    BY <1>5
  <2>. QED  BY <2>1 DEF PlaceIn, PlaceAmong
<1>7. /\ \A i \in 1..n : who[i] \in All /\ A[i].number = who[i].number
      /\ \A i \in 1..n : rank[i] = r[who[i]]
  <2>1. \A i \in 1..n : who[i] \in All /\ A[i].number = who[i].number
    BY <1>1
  <2>. HIDE DEF who
  <2>2. \A i \in 1..n : Lists!Rank(A[i]) = Lists!Rank(who[i])
    BY <2>1, RankIs
  <2>. QED  BY <2>1, <2>2
<1>8. T \in SUBSET All /\ who \in [1..n -> T]
  <2>1. \A i \in 1..n : who[i] \in T
    BY <1>7
  <2>. HIDE DEF T
  <2>2. who \in [1..n -> T]
    BY <2>1
  <2>. QED  BY <2>2 DEF T
<1>9. /\ \A i, j \in 1..n : who[i] = who[j] => i = j
      /\ \A p \in T : \E i \in 1..n : who[i] = p
  <2>. HIDE DEF who
  <2>1. \A i, j \in 1..n : who[i] = who[j] => i = j
    BY <1>1, <1>7
  <2>2. \A p \in T : \E i \in 1..n : who[i] = p
    BY <1>2, <1>7
  <2>. QED  BY <2>1, <2>2
<1>10. s = SortedBy(A, rank)
  BY <1>1, SameOrders DEF Lists!Ordered
<1>. HIDE DEF s, rank, r, who
<1>11. s \in Seq(Copies) /\ SortsBy(s, A, rank)
  BY <1>1, <1>4, <1>10, SortedIs
<1>12. PICK at : Arranged(s, A, at) /\ \A k \in 1..n : PlaceIn(1..n, rank, at[k]) = k - 1
  BY <1>4, <1>11 DEF SortsBy
<1>13. /\ Len(s) = n /\ \A k \in 1..n : at[k] \in 1..n /\ s[k] = A[at[k]]
       /\ \A i \in 1..n : \E k \in 1..n : at[k] = i
  BY <1>12 DEF Arranged
<1>. HIDE DEF T
<1>14. \A k \in 1..n : PlaceIn(T, r, who[at[k]]) = k - 1
  <2>1. \A i \in 1..n : PlaceIn(1..n, rank, i) = PlaceIn(T, r, who[i])
    <3>1. \A I : I = 1..n => StandFor(I, rank, T, r, who)
      BY <1>7, <1>8, <1>9 DEF StandFor
    <3>2. \A I : I = 1..n => \A i \in I : PlaceIn(I, rank, i) = PlaceIn(T, r, who[i])
      BY <1>3, <3>1, PlacesKept
    <3>. QED  BY <3>2
  <2>. QED  BY <1>12, <1>13, <2>1
<1>15. CASE query.size = 0
  <2>1. Lists!Page(s) = s
    BY <1>15 DEF Lists!Page
  <2>2. Numbers(s) = Numbers(A)
    BY <1>12, SameNumbers
  <2>3. Numbers(A) = {p.number : p \in All}
    BY <1>1, <1>15 DEF Numbers
  <2>4. {p \in All : query.size = 0 \/ PlaceAmong(All, p) \in query.offset..query.offset + query.size - 1} = All
    BY <1>15
  <2>. QED  BY <1>11, <2>1, <2>2, <2>3, <2>4 DEF s
<1>16. CASE query.size # 0
  <2>. DEFINE P == Lists!Page(s)
              from == query.offset
              Shown == {p \in All : PlaceAmong(All, p) \in from..from + query.size - 1}
  <2>1. P = Lists!Slice(s, from, query.size)
    BY <1>16 DEF Lists!Page
  <2>2. /\ P \in Seq(Copies)
        /\ \A m \in 1..Len(P) : from + m \in 1..n /\ P[m] = s[from + m] /\ m <= query.size
        /\ \A k \in 1..n : from < k /\ k <= from + query.size => \E m \in 1..Len(P) : from + m = k
    <3>1. P \in Seq(Copies) /\ IsSlice(P, s, from, query.size)
      BY <1>2, <1>11, <2>1, SliceIs
    <3>. QED  BY <1>13, <3>1 DEF IsSlice
  <2>. HIDE DEF P
  <2>3. \A p \in All : PlaceIn(All, r, p) < Asking => p \in T
    BY <1>6, <1>16 DEF T
  <2>4. \A p \in T : /\ PlaceIn(All, r, p) < Asking => PlaceIn(T, r, p) = PlaceIn(All, r, p)
                     /\ PlaceIn(T, r, p) < Asking => PlaceIn(T, r, p) = PlaceIn(All, r, p)
    <3>1. Ranks(r, All) /\ HasFirst(T, All, r, Asking)
      BY <1>5, <1>8, <2>3 DEF Ranks, HasFirst
    <3>. QED  BY <1>2, <1>3, <3>1, FirstOfPart
  <2>5. ASSUME NEW m \in 1..Len(P)
        PROVE  \E p \in Shown : P[m].number = p.number
    <3>1. PICK k \in 1..n : k = from + m
      BY <2>2
    <3>2. /\ at[k] \in 1..n /\ who[at[k]] \in T /\ who[at[k]] \in All
          /\ P[m] = A[at[k]] /\ P[m].number = who[at[k]].number
      <4>1. P[m] = s[k] /\ at[k] \in 1..n /\ s[k] = A[at[k]]
        BY <1>13, <2>2, <3>1
      <4>2. \A i \in 1..n : who[i] \in T /\ who[i] \in All /\ A[i].number = who[i].number
        BY <1>7, <1>8
      <4>. QED  BY <4>1, <4>2
    <3>3. /\ PlaceIn(T, r, who[at[k]]) = k - 1 /\ k - 1 < Asking
          /\ k - 1 \in from..from + query.size - 1
      <4>1. PlaceIn(T, r, who[at[k]]) = k - 1
        BY <1>14
      <4>2. m \in Int /\ 1 <= m /\ m <= query.size
        BY <2>2
      <4>3. from \in Nat /\ query.size \in Nat
        BY <1>2
      <4>4. k = from + m /\ Asking = from + query.size
        BY <3>1 DEF Asking
      <4>5. k - 1 < Asking /\ k - 1 \in from..from + query.size - 1
        BY <4>2, <4>3, <4>4, OnPage
      <4>. QED  BY <4>1, <4>5
    <3>4. PlaceAmong(All, who[at[k]]) = k - 1
      BY <1>6, <2>4, <3>2, <3>3
    <3>. QED  BY <3>2, <3>3, <3>4
  <2>6. ASSUME NEW p \in Shown
        PROVE  \E m \in 1..Len(P) : P[m].number = p.number
    <3>1. p \in All /\ PlaceIn(All, r, p) \in from..from + query.size - 1
      BY <1>6
    <3>2. PlaceIn(All, r, p) < Asking
      BY <1>2, <3>1 DEF Asking
    <3>3. p \in T /\ PlaceIn(T, r, p) = PlaceIn(All, r, p)
      <4>1. p \in T
        BY <2>3, <3>1, <3>2
      <4>. QED  BY <2>4, <3>2, <4>1
    <3>4. PICK k \in 1..n : who[at[k]] = p
      <4>1. PICK i \in 1..n : who[i] = p
        BY <1>9, <3>3
      <4>2. PICK k \in 1..n : at[k] = i
        BY <1>13
      <4>. QED  BY <4>1, <4>2
    <3>5. k - 1 \in from..from + query.size - 1 /\ k \in Int
      BY <1>14, <3>1, <3>3, <3>4
    <3>6. from < k /\ k <= from + query.size
      BY <1>2, <3>5
    <3>7. PICK m \in 1..Len(P) : from + m = k
      BY <2>2, <3>6
    <3>8. P[m] = A[at[k]] /\ at[k] \in 1..n
      <4>1. P[m] = s[k]
        BY <2>2, <3>7
      <4>. QED  BY <1>13, <4>1
    <3>9. A[at[k]].number = p.number
      BY <1>7, <3>4, <3>8
    <3>. QED  BY <3>8, <3>9
  <2>7. {p \in All : query.size = 0 \/ PlaceAmong(All, p) \in query.offset..query.offset + query.size - 1} = Shown
    BY <1>16
  <2>. HIDE DEF Shown
  <2>8. Numbers(P) = {p.number : p \in Shown}
    BY <2>5, <2>6 DEF Numbers
  <2>. QED  BY <2>2, <2>7, <2>8 DEF P, s
<1>. QED  BY <1>2, <1>15, <1>16

\* No two of a list are the same policy.
AllDiffer(s) == \A i, j \in 1..Len(s) : Lists!Same(s[i], s[j]) => i = j

\* u has what acc has and the policy next, with jobs if one of them has.
Takes(u, acc, next) ==
  /\ \A k \in 1..Len(u) : u[k] = next \/ \E i \in 1..Len(acc) : u[k] = acc[i]
  /\ \E k \in 1..Len(u) : Lists!Same(u[k], next) /\ (next.jobs => u[k].jobs)
  /\ \A i \in 1..Len(acc) : \E k \in 1..Len(u) : Lists!Same(u[k], acc[i]) /\ (acc[i].jobs => u[k].jobs)

\* Being a copy of the same policy is an equivalence.
LEMMA SameIs ==
  /\ \A p : Lists!Same(p, p)
  /\ \A p, q : Lists!Same(p, q) => Lists!Same(q, p)
  /\ \A p, q, r : Lists!Same(p, q) /\ Lists!Same(q, r) => Lists!Same(p, r)
  BY DEF Lists!Same

\* The first of some places is one of them.
LEMMA FirstIs ==
  ASSUME NEW at, at \subseteq Nat, at # {}
  PROVE  Lists!First(at) \in at
<1>1. PICK i \in at : \A j \in at : i <= j
  BY Smallest
<1>. QED  BY <1>1 DEF Lists!First

\* A list takes a policy that it has no copy of.
LEMMA TakeNew ==
  ASSUME NEW acc \in Seq(Copies), NEW next \in Copies, NEW u, Extends(u, acc, next),
         \A i \in 1..Len(acc) : ~Lists!Same(acc[i], next)
  PROVE  Takes(u, acc, next) /\ (AllDiffer(acc) => AllDiffer(u))
<1>1. /\ Len(u) \in 1..Len(u) /\ u[Len(u)] = next
      /\ \A i \in 1..Len(acc) : i \in 1..Len(u) /\ u[i] = acc[i]
      /\ \A i \in 1..Len(u) : i \in 1..Len(acc) \/ i = Len(u)
  BY DEF Extends
<1>2. Takes(u, acc, next)
  BY <1>1, SameIs DEF Takes
<1>3. AllDiffer(acc) => AllDiffer(u)
  BY <1>1, SameIs DEF AllDiffer
<1>. QED  BY <1>2, <1>3

\* A list takes a copy with jobs in place of the first one it has.
LEMMA TakeInstead ==
  ASSUME NEW acc \in Seq(Copies), NEW next \in Copies, next.jobs, NEW first \in 1..Len(acc),
         Lists!Same(acc[first], next), NEW t \in Seq(Copies),
         NEW at, Shortened(t, acc, first, at),
         NEW u, Extends(u, t, next)
  PROVE  Takes(u, acc, next) /\ (AllDiffer(acc) => AllDiffer(u))
<1>1. /\ Len(u) \in 1..Len(u) /\ u[Len(u)] = next
      /\ \A i \in 1..Len(t) : i \in 1..Len(u) /\ u[i] = t[i]
      /\ \A i \in 1..Len(u) : i \in 1..Len(t) \/ i = Len(u)
  BY DEF Extends
<1>2. /\ \A k \in 1..Len(t) : at[k] \in 1..Len(acc) /\ t[k] = acc[at[k]] /\ at[k] # first
      /\ \A j \in 1..Len(acc) : j # first => \E k \in 1..Len(t) : at[k] = j
      /\ \A k, l \in 1..Len(t) : at[k] = at[l] => k = l
  BY DEF Shortened
<1>3. Takes(u, acc, next)
  <2>1. \A k \in 1..Len(u) : u[k] = next \/ \E i \in 1..Len(acc) : u[k] = acc[i]
    <3>1. ASSUME NEW k \in 1..Len(u)
          PROVE  u[k] = next \/ \E i \in 1..Len(acc) : u[k] = acc[i]
      <4>1. CASE k \in 1..Len(t)
        <5>1. at[k] \in 1..Len(acc) /\ u[k] = acc[at[k]]
          BY <1>1, <1>2, <4>1
        <5>. QED  BY <5>1
      <4>2. CASE k = Len(u)
        BY <1>1, <4>2
      <4>. QED  BY <1>1, <4>1, <4>2
    <3>. QED  BY <3>1
  <2>2. ASSUME NEW i \in 1..Len(acc)
        PROVE  \E k \in 1..Len(u) : Lists!Same(u[k], acc[i]) /\ (acc[i].jobs => u[k].jobs)
    <3>1. CASE i = first
      BY <1>1, <3>1, SameIs
    <3>2. CASE i # first
      <4>1. PICK k \in 1..Len(t) : at[k] = i
        BY <1>2, <3>2
      <4>2. k \in 1..Len(u) /\ u[k] = acc[i]
        BY <1>1, <1>2, <4>1
      <4>. QED  BY <4>2, SameIs
    <3>. QED  BY <3>1, <3>2
  <2>3. \E k \in 1..Len(u) : Lists!Same(u[k], next) /\ (next.jobs => u[k].jobs)
    BY <1>1, SameIs
  <2>. QED  BY <2>1, <2>2, <2>3 DEF Takes
<1>4. ASSUME AllDiffer(acc)
      PROVE  AllDiffer(u)
  <2>1. \A k \in 1..Len(t) : ~Lists!Same(t[k], next) /\ ~Lists!Same(next, t[k])
    <3>1. ASSUME NEW k \in 1..Len(t), Lists!Same(t[k], next) \/ Lists!Same(next, t[k])
          PROVE  FALSE
      <4>1. Lists!Same(acc[at[k]], acc[first])
        BY <1>2, <3>1, SameIs
      <4>. QED  BY <1>2, <1>4, <4>1 DEF AllDiffer
    <3>. QED  BY <3>1
  <2>2. \A k, l \in 1..Len(t) : Lists!Same(t[k], t[l]) => k = l
    <3>1. ASSUME NEW k \in 1..Len(t), NEW l \in 1..Len(t), Lists!Same(t[k], t[l])
          PROVE  k = l
      <4>1. /\ at[k] \in 1..Len(acc) /\ at[l] \in 1..Len(acc)
            /\ t[k] = acc[at[k]] /\ t[l] = acc[at[l]] /\ (at[k] = at[l] => k = l)
        BY <1>2
      <4>2. at[k] = at[l]
        BY <1>4, <3>1, <4>1 DEF AllDiffer
      <4>. QED  BY <4>1, <4>2
    <3>. QED  BY <3>1
  <2>. QED  BY <1>1, <2>1, <2>2 DEF AllDiffer
<1>. QED  BY <1>3, <1>4

\* A list takes a copy: as a new one, in place of another, or not at all (deduplication of
\* policies).
LEMMA DeduplicatedIs ==
  ASSUME NEW acc \in Seq(Copies), NEW next \in Copies, NEW u, u = Lists!Deduplicated(acc, next)
  PROVE  u \in Seq(Copies) /\ Takes(u, acc, next) /\ (AllDiffer(acc) => AllDiffer(u))
<1>. DEFINE prev == {i \in DOMAIN acc : Lists!Same(acc[i], next)}
            t == Lists!RemoveAt(acc, Lists!First(prev))
<1>1. DOMAIN acc = 1..Len(acc) /\ Len(acc) \in Nat
  OBVIOUS
<1>2. u = IF prev = {} THEN Append(acc, next) ELSE IF ~next.jobs THEN acc ELSE Append(t, next)
  BY DEF Lists!Deduplicated
<1>. HIDE DEF t
<1>3. CASE prev = {}
  <2>1. u \in Seq(Copies) /\ Extends(u, acc, next)
    BY <1>2, <1>3, AppendIs
  <2>2. \A i \in 1..Len(acc) : ~Lists!Same(acc[i], next)
    BY <1>1, <1>3
  <2>. QED  BY <2>1, <2>2, TakeNew
<1>4. CASE prev # {} /\ ~next.jobs
  <2>1. u = acc
    BY <1>2, <1>4
  <2>2. PICK i \in 1..Len(acc) : Lists!Same(acc[i], next)
    BY <1>1, <1>4
  <2>3. Takes(u, acc, next)
    BY <1>4, <2>1, <2>2, SameIs DEF Takes
  <2>. QED  BY <2>1, <2>3
<1>5. CASE prev # {} /\ next.jobs
  <2>1. PICK first \in prev : first = Lists!First(prev)
    <3>1. prev \subseteq Nat
      BY <1>1
    <3>. HIDE DEF prev
    <3>. QED  BY <1>5, <3>1, FirstIs
  <2>2. first \in 1..Len(acc) /\ Lists!Same(acc[first], next)
    BY <1>1, <2>1
  <2>3. LeavesOut(t, acc, first)
    BY <2>1 DEF LeavesOut, t, Lists!RemoveAt
  <2>4. t \in Seq(Copies) /\ \E at : Shortened(t, acc, first, at)
    BY <2>2, <2>3, RemoveIs
  <2>5. PICK at : Shortened(t, acc, first, at)
    BY <2>4
  <2>6. u = Append(t, next)
    BY <1>2, <1>5
  <2>7. u \in Seq(Copies) /\ Extends(u, t, next)
    BY <2>4, <2>6, AppendIs
  <2>. QED  BY <1>5, <2>2, <2>4, <2>5, <2>7, TakeInstead
<1>. QED  BY <1>3, <1>4, <1>5

\* u has the policies of the first m of a list.
Merges(u, list, m) ==
  /\ \A k \in 1..Len(u) : \E i \in 1..m : u[k] = list[i]
  /\ \A i \in 1..m : \E k \in 1..Len(u) : Lists!Same(u[k], list[i]) /\ (list[i].jobs => u[k].jobs)

\* One more is taken.
LEMMA MergesMore ==
  ASSUME NEW list, NEW m \in Nat, m # 0, NEW acc \in Seq(Copies), Merges(acc, list, m - 1),
         NEW u, Takes(u, acc, list[m])
  PROVE  Merges(u, list, m)
<1>1. /\ m \in 1..m /\ \A i \in 1..m - 1 : i \in 1..m
      /\ \A i \in 1..m : i = m \/ i \in 1..m - 1
  OBVIOUS
<1>2. \A k \in 1..Len(u) : \E i \in 1..m : u[k] = list[i]
  <2>1. ASSUME NEW k \in 1..Len(u)
        PROVE  \E i \in 1..m : u[k] = list[i]
    <3>1. CASE u[k] = list[m]
      BY <1>1, <3>1
    <3>2. CASE \E i \in 1..Len(acc) : u[k] = acc[i]
      <4>1. PICK i \in 1..Len(acc) : u[k] = acc[i]
        BY <3>2
      <4>2. PICK j \in 1..m - 1 : acc[i] = list[j]
        BY DEF Merges
      <4>. QED  BY <1>1, <4>1, <4>2
    <3>. QED  BY <3>1, <3>2 DEF Takes
  <2>. QED  BY <2>1
<1>3. ASSUME NEW i \in 1..m
      PROVE  \E k \in 1..Len(u) : Lists!Same(u[k], list[i]) /\ (list[i].jobs => u[k].jobs)
  <2>1. CASE i = m
    BY <2>1 DEF Takes
  <2>2. CASE i \in 1..m - 1
    <3>1. PICK j \in 1..Len(acc) : Lists!Same(acc[j], list[i]) /\ (list[i].jobs => acc[j].jobs)
      BY <2>2 DEF Merges
    <3>2. PICK k \in 1..Len(u) : Lists!Same(u[k], acc[j]) /\ (acc[j].jobs => u[k].jobs)
      BY DEF Takes
    <3>3. Lists!Same(u[k], list[i]) /\ (list[i].jobs => u[k].jobs)
      BY <3>1, <3>2, SameIs
    <3>. QED  BY <3>3
  <2>. QED  BY <1>1, <2>1, <2>2
<1>. QED  BY <1>2, <1>3 DEF Merges

\* One list of all policies: each once, and with jobs if a copy has them.
LEMMA MergedIs ==
  ASSUME NEW list \in Seq(Copies), NEW u, u = Lists!Merged(list)
  PROVE  u \in Seq(Copies) /\ Merges(u, list, Len(list)) /\ AllDiffer(u)
<1>1. PICK n \in Nat : n = Len(list)
  OBVIOUS
<1>2. \A i \in 1..n : list[i] \in Copies
  BY <1>1
<1>. DEFINE step == [i \in 1..n |-> [s \in Seq(Copies) |-> Lists!Deduplicated(s, list[i])]]
            Is(f) == f = [i \in 0..n |-> IF i = 0 THEN <<>> ELSE Lists!Deduplicated(f[i - 1], list[i])]
            Steps(f) == \A i \in 0..n : f[i] = IF i = 0 THEN <<>> ELSE Lists!Deduplicated(f[i - 1], list[i])
<1>3. step \in [1..n -> [Seq(Copies) -> Seq(Copies)]]
  <2>1. \A i \in 1..n : \A s \in Seq(Copies) : Lists!Deduplicated(s, list[i]) \in Seq(Copies)
    BY <1>2, DeduplicatedIs
  <2>. QED  BY <2>1
<1>4. \A i \in 1..n : \A s \in Seq(Copies) : step[i][s] = Lists!Deduplicated(s, list[i])
  OBVIOUS
<1>5. \A f : f \in [0..n -> Seq(Copies)] => f = [i \in 0..n |-> f[i]]
  OBVIOUS
<1>6. /\ 0 \notin 1..n /\ 0 \in 0..n /\ \A i \in 0..n : i = 0 \/ i \in 1..n
      /\ \A i \in 1..n : i - 1 \in 0..n /\ i \in 0..n /\ i # 0 /\ i \in Nat
  OBVIOUS
<1>. HIDE DEF step
<1>7. PICK f \in [0..n -> Seq(Copies)] : Is(f)
  <2>1. <<>> \in Seq(Copies)
    BY EmptySeq
  <2>2. PICK f \in [0..n -> Seq(Copies)] : StepsOf(f, <<>>, step, n)
    BY <1>3, <2>1, StepByStep
  <2>3. \A i \in 1..n : f[i] = Lists!Deduplicated(f[i - 1], list[i])
    BY <1>4, <1>6, <2>2 DEF StepsOf
  <2>4. \A i \in 0..n : f[i] = IF i = 0 THEN <<>> ELSE Lists!Deduplicated(f[i - 1], list[i])
    BY <1>6, <2>2, <2>3 DEF StepsOf
  <2>5. [i \in 0..n |-> f[i]] = [i \in 0..n |-> IF i = 0 THEN <<>> ELSE Lists!Deduplicated(f[i - 1], list[i])]
    BY <2>4
  <2>6. Is(f)
    BY <1>5, <2>2, <2>5
  <2>. QED  BY <2>6
<1>8. PICK F : Is(F) /\ u = F[n]
  <2>1. u = (CHOOSE g : Is(g))[n]
    BY <1>1 DEF Lists!Merged
  <2>2. Is(CHOOSE g : Is(g))
    <3>. HIDE DEF Is
    <3>. QED  BY <1>7, Zenon
  <2>3. \E F : F = CHOOSE g : Is(g)
    OBVIOUS
  <2>4. PICK F : F = CHOOSE g : Is(g)
    BY <2>3
  <2>. HIDE DEF Is
  <2>. QED  BY <2>1, <2>2, <2>4
<1>9. Steps(F)
  <2>1. \A g : Is(g) => Steps(g)
    OBVIOUS
  <2>. HIDE DEF Is, Steps
  <2>. QED  BY <1>8, <2>1
<1>10. F[0] = <<>> /\ \A i \in 1..n : F[i] = Lists!Deduplicated(F[i - 1], list[i])
  BY <1>6, <1>9
<1>. HIDE DEF Is, Steps
<1>. DEFINE Good == {i \in 0..n : F[i] \in Seq(Copies) /\ Merges(F[i], list, i) /\ AllDiffer(F[i])}
<1>11. 0 \in Good
  <2>1. F[0] \in Seq(Copies) /\ Len(F[0]) = 0 /\ 1..0 = {}
    BY <1>10, EmptySeq
  <2>. QED  BY <1>6, <2>1 DEF Merges, AllDiffer
<1>12. ASSUME NEW i \in 1..n, i - 1 \in Good
       PROVE  i \in Good
  <2>1. /\ F[i - 1] \in Seq(Copies) /\ Merges(F[i - 1], list, i - 1) /\ AllDiffer(F[i - 1])
        /\ i \in Nat /\ i # 0 /\ list[i] \in Copies /\ i \in 0..n
    BY <1>2, <1>6, <1>12
  <2>2. F[i] \in Seq(Copies) /\ Takes(F[i], F[i - 1], list[i]) /\ AllDiffer(F[i])
    BY <1>10, <2>1, DeduplicatedIs
  <2>3. Merges(F[i], list, i)
    BY <2>1, <2>2, MergesMore
  <2>. QED  BY <2>1, <2>2, <2>3
<1>. HIDE DEF Good
<1>13. n \in Good
  <2>1. \A i \in 1..n : i - 1 \in Good => i \in Good
    BY <1>12
  <2>2. \A i \in 0..n : i \in Good
    BY <1>11, <2>1, UpTo
  <2>. QED  BY <2>2
<1>. QED  BY <1>1, <1>8, <1>13 DEF Good

\* The policies of registered clusters, of what all Beacons list.
AllAre(A, list) ==
  /\ \A i \in 1..Len(A) : \E k \in 1..Len(list) : A[i] = list[k]
  /\ \A i \in 1..Len(A) : Lists!Registered(A[i])
  /\ \A k \in 1..Len(list) : Lists!Registered(list[k]) =>
       \E i \in 1..Len(A) : Lists!Same(A[i], list[k]) /\ (list[k].jobs => A[i].jobs)

\* What is made of the lists of all Beacons.
LEMMA AllPoliciesAre ==
  ASSUME NEW list \in Seq(Copies), list = Lists!Lists, NEW A, A = Lists!AllPolicies
  PROVE  A \in Seq(Copies) /\ AllDiffer(A) /\ AllAre(A, list)
<1>1. PICK all \in Seq(Copies) : all = Lists!Merged(list) /\ Merges(all, list, Len(list)) /\ AllDiffer(all)
  <2>1. \A u : u = Lists!Merged(list) => u \in Seq(Copies) /\ Merges(u, list, Len(list)) /\ AllDiffer(u)
    BY MergedIs
  <2>. QED  BY <2>1
<1>. DEFINE S == {p \in Lists!Range(all) : Lists!Registered(p)}
<1>2. A = Those(all, S)
  BY <1>1, SameOrders DEF Lists!AllPolicies
<1>3. DOMAIN all = 1..Len(all) /\ Len(all) \in Nat /\ \A i \in 1..Len(all) : all[i] \in Copies
  OBVIOUS
<1>4. \A p : p \in S <=> (\E i \in 1..Len(all) : p = all[i]) /\ Lists!Registered(p)
  BY <1>3, SameOrders
<1>. HIDE DEF S
<1>5. /\ A \in Seq(Copies \cap S)
      /\ \A i \in 1..Len(all) : all[i] \in S => \E k \in 1..Len(A) : A[k] = all[i]
      /\ \A i, j \in 1..Len(A) : i < j =>
           \E k, l \in 1..Len(all) : k < l /\ A[i] = all[k] /\ A[j] = all[l]
  <2>1. A \in Seq(Copies \cap S) /\ Selects(A, all, S)
    BY <1>2, ThoseAre
  <2>. QED  BY <2>1 DEF Selects
<1>6. A \in Seq(Copies) /\ Len(A) \in Nat /\ \A i \in 1..Len(A) : A[i] \in S
  <2>1. \A x \in Copies \cap S : x \in Copies
    OBVIOUS
  <2>2. A \in Seq(Copies)
    BY <1>5, <2>1, SeqMonotonic
  <2>3. A \in Seq(Copies \cap S)
    BY <1>5
  <2>4. \A i \in 1..Len(A) : A[i] \in Copies \cap S
    BY <2>3, ElementOfSeq
  <2>. QED  BY <2>2, <2>4
<1>7. AllDiffer(A)
  <2>1. ASSUME NEW i \in 1..Len(A), NEW j \in 1..Len(A), i < j, Lists!Same(A[i], A[j]) \/ Lists!Same(A[j], A[i])
        PROVE  FALSE
    <3>1. PICK k \in 1..Len(all), l \in 1..Len(all) : k < l /\ A[i] = all[k] /\ A[j] = all[l]
      BY <1>5, <2>1
    <3>2. k = l
      BY <1>1, <2>1, <3>1, SameIs DEF AllDiffer
    <3>. QED  BY <1>3, <3>1, <3>2
  <2>2. \A i, j \in 1..Len(A) : i = j \/ i < j \/ j < i
    BY <1>6
  <2>. QED  BY <2>1, <2>2 DEF AllDiffer
<1>8. \A i \in 1..Len(A) : Lists!Registered(A[i]) /\ \E k \in 1..Len(list) : A[i] = list[k]
  <2>1. ASSUME NEW i \in 1..Len(A)
        PROVE  Lists!Registered(A[i]) /\ \E k \in 1..Len(list) : A[i] = list[k]
    <3>1. PICK k \in 1..Len(all) : A[i] = all[k]
      BY <1>4, <1>6
    <3>2. Lists!Registered(A[i])
      BY <1>4, <1>6
    <3>. QED  BY <1>1, <3>1, <3>2 DEF Merges
  <2>. QED  BY <2>1
<1>9. ASSUME NEW k \in 1..Len(list), Lists!Registered(list[k])
      PROVE  \E i \in 1..Len(A) : Lists!Same(A[i], list[k]) /\ (list[k].jobs => A[i].jobs)
  <2>1. PICK j \in 1..Len(all) : Lists!Same(all[j], list[k]) /\ (list[k].jobs => all[j].jobs)
    BY <1>1 DEF Merges
  <2>2. Lists!Registered(all[j])
    BY <1>9, <2>1 DEF Lists!Registered, Lists!Same
  <2>3. PICK i \in 1..Len(A) : A[i] = all[j]
    BY <1>4, <1>5, <2>2
  <2>. QED  BY <2>1, <2>3
<1>. QED  BY <1>6, <1>7, <1>8, <1>9 DEF AllAre

-----------------------------------------------------------------------------
(* The invariant. *)

\* What a Beacon answers.
Told(b) ==
  IF query.kind = "policies" THEN Lists!Kept(b) ELSE IF query.kind = "events" THEN Lists!Events(b) ELSE <<>>

\* What is asked for and found stays; each Beacon answers from what is there; and the
\* reply comes last.
ListInv ==
  /\ query \in Queries /\ there \subseteq Universe /\ reported \subseteq 1..BeaconsCount
  /\ credsAt \in [1..BeaconsCount -> SUBSET Lists!Names]
  /\ usesAt \in [1..BeaconsCount -> SUBSET CredPolicies]
  /\ DOMAIN answers = 1..BeaconsCount
  /\ \A b \in 1..BeaconsCount :
       answers[b] \in {Lists!NoAnswer, Lists!Failed, Lists!Answered(Told(b))}
  /\ reply # Lists!NoAnswer => \A b \in 1..BeaconsCount : answers[b] # Lists!NoAnswer

\* The answers of Beacons as lists of copies.
LEMMA AnswersAre ==
  ASSUME ListInv
  PROVE  /\ \A b \in 1..BeaconsCount : answers[b].list \in Seq(Copies)
         /\ \A b \in 1..BeaconsCount : answers[b].phase # "answered" => answers[b].list = <<>>
         /\ \A b \in 1..BeaconsCount : answers[b].phase = "answered" => answers[b].list = Told(b)
<1>. USE DEF Lists!NoAnswer, Lists!Failed, Lists!Answered
<1>1. \A b \in 1..BeaconsCount : Told(b) \in Seq(Copies)
  <2>1. <<>> \in Seq(Copies)
    BY EmptySeq
  <2>2. query \in Queries /\ there \subseteq Universe
    BY DEF ListInv
  <2>3. \A P, b : P \subseteq Universe => Lists!InOrderAsked(b, P) \in Seq(Copies)
    BY <2>2, ToldIs
  <2>4. \A b : Lists!Kept(b) \in Seq(Copies) /\ Lists!Events(b) \in Seq(Copies)
    BY <2>2, <2>3 DEF Lists!Kept, Lists!Events
  <2>. QED  BY <2>1, <2>4 DEF Told
<1>2. \A b \in 1..BeaconsCount : answers[b] \in {Lists!NoAnswer, Lists!Failed, Lists!Answered(Told(b))}
  BY DEF ListInv
<1>3. <<>> \in Seq(Copies)
  BY EmptySeq
<1>4. \A b \in 1..BeaconsCount :
        \/ answers[b].phase # "answered" /\ answers[b].list = <<>>
        \/ answers[b].phase = "answered" /\ answers[b].list = Told(b)
  BY <1>2
<1>. QED  BY <1>1, <1>3, <1>4

\* Copies by their numbers.
CopyNumber == [c \in Copies |-> c.number]

\* The list of all Beacons is that of their answers.
LEMMA ListsAre ==
  ASSUME ListInv
  PROVE  /\ Lists!Lists \in Seq(Copies) /\ Gathers(Lists!Lists, ListOf, BeaconsCount)
         /\ AllApart(ListOf, BeaconsCount, CopyNumber) => ApartIn(Lists!Lists, CopyNumber)
<1>1. Joins(Lists!Joined, ListOf, BeaconsCount)
  BY AnswersAre, JoinedStep
<1>2. BeaconsCount \in Nat /\ \A b \in 1..BeaconsCount : ListOf[b] \in Seq(Copies)
  BY AnswersAre, ListFacts DEF ListOf
<1>3. PICK n, L, J : n \in Nat /\ n = BeaconsCount /\ L = ListOf /\ J = Lists!Joined
  BY <1>2
<1>4. /\ J[n] \in Seq(Copies) /\ Gathers(J[n], L, n)
      /\ AllApart(L, n, CopyNumber) => ApartIn(J[n], CopyNumber)
  BY <1>1, <1>2, <1>3, JoinIs
<1>. QED  BY <1>3, <1>4 DEF Lists!Lists

\* A Beacon lists copies of policies it holds.
LEMMA ToldBy ==
  ASSUME ListInv, NEW b \in 1..BeaconsCount, NEW k \in 1..Len(answers[b].list)
  PROVE  /\ answers[b].phase = "answered" /\ query.kind \in {"policies", "events"}
         /\ \E p \in there : /\ answers[b].list[k] = Lists!Copy(b, p)
                             /\ query.kind = "policies" => Lists!Holds(b, p)
                             /\ query.kind = "events" => b = p.source
         /\ \A l \in 1..Len(answers[b].list) :
              answers[b].list[k].number = answers[b].list[l].number => k = l
<1>1. query \in Queries /\ there \subseteq Universe /\ query.kind \in {"policies", "events", "creds"}
  BY ListFacts DEF ListInv
<1>2. answers[b].phase = "answered" /\ answers[b].list = Told(b)
  <2>1. answers[b].list # <<>>
    OBVIOUS
  <2>. QED  BY <2>1, AnswersAre
<1>3. CASE query.kind = "policies"
  <2>. DEFINE P == {p \in there : Lists!Holds(b, p)}
  <2>1. answers[b].list = Lists!InOrderAsked(b, P)
    BY <1>2, <1>3 DEF Told, Lists!Kept
  <2>2. P \subseteq Universe
    BY <1>1
  <2>. HIDE DEF P
  <2>3. /\ \E p \in P : answers[b].list[k] = Lists!Copy(b, p)
        /\ \A l \in 1..Len(answers[b].list) : k # l => answers[b].list[k].number # answers[b].list[l].number
    <3>1. Tells(answers[b].list, b, P)
      BY <1>1, <2>1, <2>2, ToldIs
    <3>. QED  BY <3>1 DEF Tells
  <2>. QED  BY <1>2, <1>3, <2>3 DEF P
<1>4. CASE query.kind = "events"
  <2>. DEFINE P == {p \in there : b = p.source}
  <2>1. answers[b].list = Lists!InOrderAsked(b, P)
    BY <1>2, <1>4 DEF Told, Lists!Events
  <2>2. P \subseteq Universe
    BY <1>1
  <2>. HIDE DEF P
  <2>3. /\ \E p \in P : answers[b].list[k] = Lists!Copy(b, p)
        /\ \A l \in 1..Len(answers[b].list) : k # l => answers[b].list[k].number # answers[b].list[l].number
    <3>1. Tells(answers[b].list, b, P)
      BY <1>1, <2>1, <2>2, ToldIs
    <3>. QED  BY <3>1 DEF Tells
  <2>. QED  BY <1>2, <1>4, <2>3 DEF P
<1>5. CASE query.kind = "creds"
  <2>1. answers[b].list = <<>>
    BY <1>2, <1>5 DEF Told
  <2>. QED  BY <2>1
<1>. QED  BY <1>1, <1>3, <1>4, <1>5

\* What is there is told by a Beacon that should, if what comes before is not too much.
LEMMA ToldOf ==
  ASSUME ListInv, NEW b \in 1..BeaconsCount, answers[b].phase = "answered", NEW p \in there,
         NEW P, \/ query.kind = "policies" /\ P = {q \in there : Lists!Holds(b, q)}
                \/ query.kind = "events" /\ P = {q \in there : b = q.source},
         p \in P, query.size = 0 \/ Cardinality({q \in P : Lists!Before(q, p)}) < Asking
  PROVE  \E k \in 1..Len(answers[b].list) : answers[b].list[k] = Lists!Copy(b, p)
<1>1. query \in Queries /\ P \subseteq Universe
  BY DEF ListInv
<1>2. answers[b].list = Lists!InOrderAsked(b, P)
  BY AnswersAre DEF Told, Lists!Kept, Lists!Events
<1>3. Tells(answers[b].list, b, P)
  BY <1>1, <1>2, ToldIs
<1>. QED  BY <1>3 DEF Tells

\* s has elements of list, each from a place of its own.
Picks(s, list) ==
  \E at \in [1..Len(s) -> 1..Len(list)] :
    /\ \A k \in 1..Len(s) : s[k] = list[at[k]]
    /\ \A k, l \in 1..Len(s) : at[k] = at[l] => k = l

\* What is picked is of the list, and no two are the same policy if no two of the list are.
LEMMA PicksFrom ==
  ASSUME NEW s, NEW list, Picks(s, list)
  PROVE  /\ \A k \in 1..Len(s) : \E i \in 1..Len(list) : s[k] = list[i]
         /\ AllDiffer(list) => AllDiffer(s)
<1>1. PICK at \in [1..Len(s) -> 1..Len(list)] :
        /\ \A k \in 1..Len(s) : s[k] = list[at[k]]
        /\ \A k, l \in 1..Len(s) : at[k] = at[l] => k = l
  BY DEF Picks
<1>2. \A k \in 1..Len(s) : at[k] \in 1..Len(list)
  OBVIOUS
<1>3. ASSUME AllDiffer(list), NEW k \in 1..Len(s), NEW l \in 1..Len(s), Lists!Same(s[k], s[l])
      PROVE  k = l
  <2>1. Lists!Same(list[at[k]], list[at[l]])
    BY <1>1, <1>3
  <2>2. at[k] = at[l]
    BY <1>2, <1>3, <2>1 DEF AllDiffer
  <2>. QED  BY <1>1, <2>2
<1>4. \A k \in 1..Len(s) : \E i \in 1..Len(list) : s[k] = list[i]
  BY <1>1, <1>2
<1>. QED  BY <1>3, <1>4 DEF AllDiffer

\* What is picked of what is picked.
LEMMA PicksOn ==
  ASSUME NEW s, NEW t, NEW u, Picks(s, t), Picks(t, u)
  PROVE  Picks(s, u)
<1>1. PICK at \in [1..Len(s) -> 1..Len(t)] :
        /\ \A k \in 1..Len(s) : s[k] = t[at[k]]
        /\ \A k, l \in 1..Len(s) : at[k] = at[l] => k = l
  BY DEF Picks
<1>2. PICK up \in [1..Len(t) -> 1..Len(u)] :
        /\ \A k \in 1..Len(t) : t[k] = u[up[k]]
        /\ \A k, l \in 1..Len(t) : up[k] = up[l] => k = l
  BY DEF Picks
<1>. DEFINE f == [k \in 1..Len(s) |-> up[at[k]]]
<1>3. f \in [1..Len(s) -> 1..Len(u)]
  OBVIOUS
<1>4. \A k \in 1..Len(s) : s[k] = u[f[k]]
  BY <1>1, <1>2
<1>5. \A k, l \in 1..Len(s) : f[k] = f[l] => k = l
  BY <1>1, <1>2
<1>. HIDE DEF f
<1>. QED  BY <1>3, <1>4, <1>5 DEF Picks

\* A list in another order picks all of it.
LEMMA PicksAll ==
  ASSUME NEW s, NEW list, NEW at, Arranged(s, list, at)
  PROVE  Picks(s, list)
<1>1. /\ at \in [1..Len(s) -> 1..Len(list)]
      /\ \A k \in 1..Len(s) : s[k] = list[at[k]]
      /\ \A k, l \in 1..Len(s) : at[k] = at[l] => k = l
  BY DEF Arranged
<1>. QED  BY <1>1 DEF Picks

\* A list picks all of itself.
LEMMA PicksItself ==
  ASSUME NEW s
  PROVE  Picks(s, s)
<1>. DEFINE f == [k \in 1..Len(s) |-> k]
<1>1. f \in [1..Len(s) -> 1..Len(s)] /\ \A k \in 1..Len(s) : f[k] = k
  OBVIOUS
<1>. HIDE DEF f
<1>. QED  BY <1>1 DEF Picks

\* A part of a list picks of it.
LEMMA PicksSlice ==
  ASSUME NEW s, NEW list, NEW from \in Nat, NEW n, Len(s) \in Nat, IsSlice(s, list, from, n)
  PROVE  Picks(s, list)
<1>. DEFINE f == [k \in 1..Len(s) |-> from + k]
<1>1. \A k \in 1..Len(s) : from + k \in 1..Len(list) /\ s[k] = list[from + k] /\ k \in Int
  BY DEF IsSlice
<1>2. f \in [1..Len(s) -> 1..Len(list)] /\ \A k \in 1..Len(s) : f[k] = from + k
  BY <1>1
<1>. HIDE DEF f
<1>3. \A k, l \in 1..Len(s) : f[k] = f[l] => k = l
  BY <1>1, <1>2
<1>. QED  BY <1>1, <1>2, <1>3 DEF Picks

-----------------------------------------------------------------------------
(* Lists of copies in order, and pages of them. *)

\* A list with its newest first.
LEMMA NewestIs ==
  ASSUME NEW list \in Seq(Copies), NEW s, s = Lists!NewestFirst(list)
  PROVE  s \in Seq(Copies) /\ \E at : Arranged(s, list, at)
<1>. DEFINE rank == [i \in 1..Len(list) |-> -list[i].number]
<1>1. DOMAIN list = 1..Len(list)
  OBVIOUS
<1>2. rank \in [1..Len(list) -> Int]
  <2>1. \A i \in 1..Len(list) : list[i].number \in Nat
    <3>1. \A c \in Copies : c.number \in Nat
      BY DEF Copies
    <3>. QED  BY <3>1
  <2>. QED  BY <2>1
<1>3. s = SortedBy(list, rank)
  BY <1>1, SameOrders DEF Lists!NewestFirst
<1>. HIDE DEF rank
<1>4. s \in Seq(Copies) /\ SortsBy(s, list, rank)
  BY <1>2, <1>3, SortedIs
<1>. QED  BY <1>4 DEF SortsBy

\* A list in the order asked for, if any is.
LEMMA OrderedIs ==
  ASSUME query \in Queries, NEW list \in Seq(Copies), NEW s, s = Lists!Ordered(list)
  PROVE  s \in Seq(Copies) /\ Picks(s, list)
<1>1. CASE ~query.orderBy
  BY <1>1, PicksItself DEF Lists!Ordered
<1>2. CASE query.orderBy
  <2>. DEFINE rank == [i \in 1..Len(list) |-> Lists!Rank(list[i])]
  <2>1. DOMAIN list = 1..Len(list)
    OBVIOUS
  <2>2. rank \in [1..Len(list) -> Int]
    <3>1. \A c \in Copies : c.number \in Nat
      BY DEF Copies
    <3>2. \A i \in 1..Len(list) : Lists!Rank(list[i]) \in Int
      BY <3>1, RankIs
    <3>. QED  BY <3>2
  <2>3. s = SortedBy(list, rank)
    BY <1>2, <2>1, SameOrders DEF Lists!Ordered
  <2>. HIDE DEF rank
  <2>4. s \in Seq(Copies) /\ \E at : Arranged(s, list, at)
    <3>1. s \in Seq(Copies) /\ SortsBy(s, list, rank)
      BY <2>2, <2>3, SortedIs
    <3>. QED  BY <3>1 DEF SortsBy
  <2>. QED  BY <2>4, PicksAll
<1>. QED  BY <1>1, <1>2

\* A page of a list, if one is asked for.
LEMMA PagePicks ==
  ASSUME query \in Queries, NEW list \in Seq(Copies), NEW s, s = Lists!Page(list)
  PROVE  s \in Seq(Copies) /\ Picks(s, list)
<1>1. query.size \in Nat /\ query.offset \in Nat
  BY ListFacts
<1>2. CASE query.size = 0
  BY <1>2, PicksItself DEF Lists!Page
<1>3. CASE query.size # 0
  <2>1. s = Lists!Slice(list, query.offset, query.size)
    BY <1>3 DEF Lists!Page
  <2>2. s \in Seq(Copies) /\ IsSlice(s, list, query.offset, query.size)
    BY <1>1, <2>1, SliceIs
  <2>3. Len(s) \in Nat
    BY <2>2
  <2>. QED  BY <1>1, <2>2, <2>3, PicksSlice
<1>. QED  BY <1>2, <1>3

\* What is replied of policies.
LEMMA ReplyPicks ==
  ASSUME query \in Queries, NEW list \in Seq(Copies), NEW s,
         s = Lists!NewestFirst(Lists!Page(Lists!Ordered(list)))
  PROVE  s \in Seq(Copies) /\ Picks(s, list)
<1>1. PICK o \in Seq(Copies) : o = Lists!Ordered(list) /\ Picks(o, list)
  <2>1. \A o : o = Lists!Ordered(list) => o \in Seq(Copies) /\ Picks(o, list)
    BY OrderedIs
  <2>. QED  BY <2>1
<1>2. PICK p \in Seq(Copies) : p = Lists!Page(o) /\ Picks(p, o)
  <2>1. \A p : p = Lists!Page(o) => p \in Seq(Copies) /\ Picks(p, o)
    BY PagePicks
  <2>. QED  BY <2>1
<1>3. s \in Seq(Copies) /\ Picks(s, p)
  BY <1>1, <1>2, NewestIs, PicksAll
<1>. QED  BY <1>1, <1>2, <1>3, PicksOn

\* What a Beacon lists is in the list of all, and the other way round.
LEMMA InLists ==
  ASSUME ListInv
  PROVE  /\ \A b \in 1..BeaconsCount : \A k \in 1..Len(answers[b].list) :
              \E i \in 1..Len(Lists!Lists) : Lists!Lists[i] = answers[b].list[k]
         /\ \A i \in 1..Len(Lists!Lists) : \E b \in 1..BeaconsCount : \E k \in 1..Len(answers[b].list) :
              Lists!Lists[i] = answers[b].list[k]
<1>1. Gathers(Lists!Lists, ListOf, BeaconsCount)
  BY ListsAre
<1>2. \A b \in 1..BeaconsCount : ListOf[b] = answers[b].list
  BY DEF ListOf
<1>3. PICK s : s = Lists!Lists
  OBVIOUS
<1>4. PICK L : L = ListOf
  OBVIOUS
<1>5. /\ \A b \in 1..BeaconsCount : \A k \in 1..Len(L[b]) : \E i \in 1..Len(s) : s[i] = L[b][k]
      /\ \A i \in 1..Len(s) : \E b \in 1..BeaconsCount : \E k \in 1..Len(L[b]) : s[i] = L[b][k]
  BY <1>1, <1>3, <1>4 DEF Gathers
<1>6. \A b \in 1..BeaconsCount : L[b] = answers[b].list
  BY <1>2, <1>4
<1>7. ASSUME NEW b \in 1..BeaconsCount, NEW k \in 1..Len(answers[b].list)
      PROVE  \E i \in 1..Len(s) : s[i] = answers[b].list[k]
  <2>1. PICK t : t = L[b] /\ t = answers[b].list
    BY <1>6
  <2>2. k \in 1..Len(L[b]) /\ L[b][k] = t[k]
    BY <2>1
  <2>3. PICK i \in 1..Len(s) : s[i] = L[b][k]
    BY <1>5, <2>2
  <2>. QED  BY <2>1, <2>2, <2>3
<1>8. ASSUME NEW i \in 1..Len(s)
      PROVE  \E b \in 1..BeaconsCount : \E k \in 1..Len(answers[b].list) : s[i] = answers[b].list[k]
  <2>1. PICK b \in 1..BeaconsCount : \E k \in 1..Len(L[b]) : s[i] = L[b][k]
    BY <1>5
  <2>2. PICK t : t = L[b] /\ t = answers[b].list
    BY <1>6
  <2>3. \E k \in 1..Len(t) : s[i] = t[k]
    BY <2>1, <2>2
  <2>. QED  BY <2>2, <2>3
<1>. QED  BY <1>3, <1>7, <1>8

\* A reply about policies has no policy twice, and each with jobs if a Beacon that answered
\* reported them.
LEMMA PoliciesOnceReplied ==
  ASSUME ListInv, Lists!Reply
  PROVE  Lists!PoliciesOnce'
<1>. SUFFICES ASSUME reply'.phase = "answered", query.kind = "policies"
              PROVE  Lists!PoliciesOnce'
  BY DEF Lists!PoliciesOnce, Lists!Replied, Lists!Reply
<1>1. query \in Queries /\ Lists!Lists \in Seq(Copies)
  BY ListsAre DEF ListInv
<1>2. PICK list \in Seq(Copies) : list = Lists!Lists
  BY <1>1
<1>3. PICK A \in Seq(Copies) : A = Lists!AllPolicies /\ AllDiffer(A) /\ AllAre(A, list)
  <2>1. \A a : a = Lists!AllPolicies => a \in Seq(Copies) /\ AllDiffer(a) /\ AllAre(a, list)
    BY <1>2, AllPoliciesAre
  <2>. QED  BY <2>1
<1>4. PICK s : s = reply'.list
  OBVIOUS
<1>5. s = Lists!NewestFirst(Lists!Page(Lists!Ordered(A)))
  BY <1>3, <1>4 DEF Lists!Reply, Lists!Failed, Lists!Answered
<1>6. s \in Seq(Copies) /\ Picks(s, A)
  BY <1>1, <1>5, ReplyPicks
<1>7. AllDiffer(s) /\ \A i \in 1..Len(s) : \E j \in 1..Len(A) : s[i] = A[j]
  BY <1>3, <1>6, PicksFrom
<1>8. DOMAIN s = 1..Len(s)
  BY <1>6
<1>9. ASSUME NEW i \in 1..Len(s), NEW b \in Lists!Answering, NEW k \in DOMAIN answers[b].list,
             Lists!Same(answers[b].list[k], s[i]), answers[b].list[k].jobs
      PROVE  s[i].jobs
  <2>1. b \in 1..BeaconsCount /\ k \in 1..Len(answers[b].list)
    BY AnswersAre DEF Lists!Answering, Lists!BeaconIds
  <2>2. PICK l \in 1..Len(list) : list[l] = answers[b].list[k]
    BY <1>2, <2>1, InLists
  <2>3. PICK j \in 1..Len(A) : s[i] = A[j]
    BY <1>7
  <2>4. Lists!Registered(list[l])
    <3>1. Lists!Registered(A[j])
      BY <1>3 DEF AllAre
    <3>. QED  BY <1>9, <2>2, <2>3, <3>1 DEF Lists!Registered, Lists!Same
  <2>5. PICK h \in 1..Len(A) : Lists!Same(A[h], list[l]) /\ (list[l].jobs => A[h].jobs)
    BY <1>3, <2>4 DEF AllAre
  <2>6. Lists!Same(A[h], A[j])
    BY <1>9, <2>2, <2>3, <2>5, SameIs
  <2>7. h = j
    BY <1>3, <2>6 DEF AllDiffer
  <2>. QED  BY <1>9, <2>2, <2>3, <2>5, <2>7
<1>10. \A i, j \in DOMAIN s : Lists!Same(s[i], s[j]) => i = j
  BY <1>7, <1>8 DEF AllDiffer
<1>11. answers' = answers /\ query' = query /\ Lists!Answering' = Lists!Answering
  BY DEF Lists!Reply, Lists!Answering
<1>12. \A i \in DOMAIN s : (\E b \in Lists!Answering : \E k \in DOMAIN answers[b].list :
            Lists!Same(answers[b].list[k], s[i]) /\ answers[b].list[k].jobs) => s[i].jobs
  BY <1>8, <1>9
<1>. QED  BY <1>4, <1>10, <1>11, <1>12 DEF Lists!PoliciesOnce

\* There is no reply only if an order of nothing was asked for.
LEMMA UnansweredReplied ==
  ASSUME ListInv, Lists!Reply
  PROVE  Lists!UnansweredForReason'
<1>. SUFFICES ASSUME reply'.phase = "never"
              PROVE  Lists!UnansweredForReason'
  BY DEF Lists!UnansweredForReason
<1>1. Lists!Throws
  BY DEF Lists!Reply, Lists!Failed, Lists!Answered
<1>2. Lists!Lists \in Seq(Copies)
  BY ListsAre
<1>3. PICK list \in Seq(Copies) : list = Lists!Lists
  BY <1>2
<1>4. ASSUME NEW b \in 1..BeaconsCount, NEW k \in 1..Len(answers[b].list)
      PROVE  query.kind = "policies" /\ ~Lists!Registered(answers[b].list[k])
  <2>1. PICK l \in 1..Len(list) : list[l] = answers[b].list[k]
    BY <1>3, InLists
  <2>2. list # <<>>
    BY <2>1
  <2>3. query.kind = "policies" /\ Lists!AllPolicies = <<>>
    BY <1>1, <1>3, <2>2 DEF Lists!Throws
  <2>4. \A a : a = Lists!AllPolicies => AllAre(a, list)
    BY <1>3, AllPoliciesAre
  <2>5. ~Lists!Registered(list[l])
    <3>1. AllAre(<<>>, list)
      BY <2>3, <2>4
    <3>. QED  BY <3>1 DEF AllAre
  <2>. QED  BY <2>1, <2>3, <2>5
<1>5. \A b \in 1..BeaconsCount : DOMAIN answers[b].list = 1..Len(answers[b].list)
  BY AnswersAre
<1>6. answers' = answers /\ query' = query
  BY DEF Lists!Reply
<1>7. query.orderBy /\ query.kind # "creds"
  BY <1>1 DEF Lists!Throws
<1>8. \A b \in 1..BeaconsCount : \A p \in Lists!Range(answers[b].list) :
        query.kind = "policies" /\ ~Lists!Registered(p)
  BY <1>4, <1>5, SameOrders
<1>. QED  BY <1>6, <1>7, <1>8 DEF Lists!UnansweredForReason, Lists!BeaconIds

\* Fewer come before a policy in a part.
LEMMA PlaceInPart ==
  ASSUME NEW P, NEW All, P \subseteq All, IsFiniteSet(All), NEW p,
         NEW n \in Nat, PlaceAmong(All, p) < n
  PROVE  PlaceAmong(P, p) < n
<1>. DEFINE S == {q \in All : Lists!Before(q, p)}
            T == {q \in P : Lists!Before(q, p)}
<1>1. IsFiniteSet(S) /\ T \in SUBSET S
  BY FS_Subset
<1>. HIDE DEF S, T
<1>2. IsFiniteSet(T) /\ Cardinality(T) <= Cardinality(S) /\ Cardinality(T) \in Nat /\ Cardinality(S) \in Nat
  BY <1>1, FS_Subset, FS_CardinalityType
<1>3. PlaceAmong(All, p) = Cardinality(S) /\ PlaceAmong(P, p) = Cardinality(T)
  BY DEF PlaceAmong, S, T
<1>. QED  BY <1>2, <1>3

\* What b is asked for, of what is there.
AskedFor(b, P) ==
  \/ query.kind = "policies" /\ P = {q \in there : Lists!Holds(b, q)}
  \/ query.kind = "events" /\ P = {q \in there : b = q.source}

\* A policy that comes early enough to be asked for, and one that is listed from b.
Early(all, p) == query.size = 0 \/ PlaceAmong(all, p) < Asking
ListedFrom(b, p) == \E l \in 1..Len(Lists!Lists) : Lists!Lists[l] = Lists!Copy(b, p)

\* A policy of there that is told by the Beacon b, of those it has.
LEMMA ListedIfEarly ==
  ASSUME ListInv, NEW All, All \subseteq there, NEW P, P \subseteq All,
         NEW b \in 1..BeaconsCount,
         answers[b].phase = "answered", AskedFor(b, P),
         NEW p \in P, Early(All, p)
  PROVE  ListedFrom(b, p)
<1>1. query \in Queries /\ All \subseteq Universe /\ p \in there
  BY DEF ListInv
<1>2. Asking \in Nat /\ IsFiniteSet(All)
  BY <1>1, ListFacts, FS_Subset DEF Asking
<1>3. query.size = 0 \/ Cardinality({q \in P : Lists!Before(q, p)}) < Asking
  <2>1. query.size = 0 \/ PlaceAmong(P, p) < Asking
    BY <1>2, PlaceInPart DEF Early
  <2>. QED  BY <2>1 DEF PlaceAmong
<1>4. PICK k \in 1..Len(answers[b].list) : answers[b].list[k] = Lists!Copy(b, p)
  BY <1>1, <1>3, ToldOf DEF AskedFor
<1>5. PICK l \in 1..Len(Lists!Lists) : Lists!Lists[l] = answers[b].list[k]
  BY InLists
<1>. QED  BY <1>4, <1>5 DEF ListedFrom

\* What all Beacons list are copies of what is there.
LEMMA ListsCopies ==
  ASSUME ListInv, NEW l \in 1..Len(Lists!Lists)
  PROVE  \E b \in 1..BeaconsCount : \E p \in there :
           /\ Lists!Lists[l] = Lists!Copy(b, p) /\ Lists!Lists[l].number = p.number
           /\ query.kind = "events" => b = p.source
<1>1. PICK b \in 1..BeaconsCount : \E k \in 1..Len(answers[b].list) : Lists!Lists[l] = answers[b].list[k]
  BY InLists
<1>2. PICK k \in 1..Len(answers[b].list) : Lists!Lists[l] = answers[b].list[k]
  BY <1>1
<1>3. PICK p \in there : /\ answers[b].list[k] = Lists!Copy(b, p)
                         /\ query.kind = "events" => b = p.source
  BY ToldBy
<1>4. p \in Universe
  BY DEF ListInv
<1>5. Lists!Copy(b, p).number = p.number
  BY <1>4, CopyIs
<1>. QED  BY <1>2, <1>3, <1>5

\* The list of all policies is one of what is there.
LEMMA PoliciesListSome ==
  ASSUME ListInv, NEW A, A = Lists!AllPolicies
  PROVE  ListsSome(A, there)
<1>1. PICK list \in Seq(Copies) : list = Lists!Lists
  BY ListsAre
<1>2. A \in Seq(Copies) /\ AllDiffer(A) /\ AllAre(A, list)
  BY <1>1, AllPoliciesAre
<1>3. there \subseteq Universe
  BY DEF ListInv
<1>4. ASSUME NEW i \in 1..Len(A)
      PROVE  \E p \in there : A[i].number = p.number /\ A[i].source = p.source /\ A[i].target = p.target
  <2>1. PICK k \in 1..Len(list) : A[i] = list[k]
    BY <1>2 DEF AllAre
  <2>2. PICK p \in there : \E b \in 1..BeaconsCount : list[k] = Lists!Copy(b, p)
    BY <1>1, ListsCopies
  <2>3. p \in Universe
    BY <1>3
  <2>. QED  BY <2>1, <2>2, <2>3, CopyIs
<1>5. ASSUME NEW i \in 1..Len(A), NEW j \in 1..Len(A), A[i].number = A[j].number
      PROVE  i = j
  <2>1. PICK p \in there : A[i].number = p.number /\ A[i].source = p.source /\ A[i].target = p.target
    BY <1>4
  <2>2. PICK q \in there : A[j].number = q.number /\ A[j].source = q.source /\ A[j].target = q.target
    BY <1>4
  <2>3. p = q
    BY <1>3, <1>5, <2>1, <2>2, ListFacts
  <2>4. Lists!Same(A[i], A[j])
    BY <1>5, <2>1, <2>2, <2>3 DEF Lists!Same
  <2>. QED  BY <1>2, <2>4 DEF AllDiffer
<1>. QED  BY <1>2, <1>4, <1>5 DEF ListsSome

\* The list of all events is one of what happened at registered clusters.
LEMMA EventsListSome ==
  ASSUME ListInv, query.kind = "events"
  PROVE  ListsSome(Lists!Lists, {p \in there : p.source \in 1..BeaconsCount})
<1>1. PICK list \in Seq(Copies) : list = Lists!Lists
  BY ListsAre
<1>2. there \subseteq Universe
  BY DEF ListInv
<1>3. AllApart(ListOf, BeaconsCount, CopyNumber)
  <2>1. \A b \in 1..BeaconsCount : ListOf[b] = answers[b].list
    BY DEF ListOf
  <2>2. ASSUME NEW b \in 1..BeaconsCount, NEW c \in 1..BeaconsCount,
               NEW k \in 1..Len(answers[b].list), NEW l \in 1..Len(answers[c].list),
               answers[b].list[k].number = answers[c].list[l].number
        PROVE  b = c /\ k = l
    <3>1. PICK p \in there : answers[b].list[k] = Lists!Copy(b, p) /\ b = p.source
      BY ToldBy
    <3>2. PICK q \in there : answers[c].list[l] = Lists!Copy(c, q) /\ c = q.source
      BY ToldBy
    <3>3. p \in Universe /\ q \in Universe
      BY <1>2
    <3>4. p.number = q.number
      BY <2>2, <3>1, <3>2, <3>3, CopyIs
    <3>5. b = c
      BY <3>1, <3>2, <3>3, <3>4, ListFacts
    <3>6. \A m \in 1..Len(answers[b].list) : answers[b].list[k].number = answers[b].list[m].number => k = m
      BY ToldBy
    <3>. QED  BY <2>2, <3>5, <3>6
  <2>3. \A b \in 1..BeaconsCount : \A k \in 1..Len(answers[b].list) :
          CopyNumber[answers[b].list[k]] = answers[b].list[k].number
    <3>1. \A b \in 1..BeaconsCount : \A k \in 1..Len(answers[b].list) : answers[b].list[k] \in Copies
      BY AnswersAre, ElementOfSeq
    <3>. QED  BY <3>1 DEF CopyNumber
  <2>4. ASSUME NEW b \in 1..BeaconsCount, NEW c \in 1..BeaconsCount,
               NEW k \in 1..Len(ListOf[b]), NEW l \in 1..Len(ListOf[c]), b # c \/ k # l
        PROVE  CopyNumber[ListOf[b][k]] # CopyNumber[ListOf[c][l]]
    <3>1. PICK s, t : s = answers[b].list /\ t = answers[c].list
      OBVIOUS
    <3>2. ListOf[b] = s /\ ListOf[c] = t
      BY <2>1, <3>1
    <3>3. k \in 1..Len(s) /\ l \in 1..Len(t)
      BY <3>2
    <3>4. CopyNumber[s[k]] = s[k].number /\ CopyNumber[t[l]] = t[l].number /\ s[k].number # t[l].number
      BY <2>2, <2>3, <2>4, <3>1, <3>3
    <3>. QED  BY <3>2, <3>4
  <2>. HIDE DEF ListOf
  <2>. QED  BY <2>4 DEF AllApart
<1>4. ApartIn(list, CopyNumber)
  BY <1>1, <1>3, ListsAre
<1>5. \A i \in 1..Len(list) : list[i] \in Copies /\ CopyNumber[list[i]] = list[i].number
  BY <1>1, ElementOfSeq DEF CopyNumber
<1>6. \A i, j \in 1..Len(list) : list[i].number = list[j].number => i = j
  BY <1>4, <1>5 DEF ApartIn
<1>7. \A i \in 1..Len(list) : \E p \in {p \in there : p.source \in 1..BeaconsCount} : list[i].number = p.number
  BY <1>1, ListsCopies
<1>. QED  BY <1>1, <1>6, <1>7 DEF ListsSome

\* If all Beacons answer, a policy is in the list of all unless too much comes before it.
LEMMA PolicyListed ==
  ASSUME ListInv, query.kind = "policies", \A b \in 1..BeaconsCount : answers[b].phase = "answered",
         NEW p \in there, Lists!Registered(p), query.size = 0 \/ PlaceAmong(there, p) < Asking,
         NEW A \in Seq(Copies), A = Lists!AllPolicies
  PROVE  \E i \in 1..Len(A) : A[i].number = p.number
<1>1. p \in Universe /\ p.source # p.target
  BY ListFacts DEF ListInv
<1>2. PICK b \in 1..BeaconsCount : b \in {p.source, p.target}
  BY <1>1 DEF Lists!Registered, Lists!BeaconIds
<1>3. PICK P : P = {q \in there : Lists!Holds(b, q)}
  OBVIOUS
<1>10. p \in P /\ P \subseteq there /\ AskedFor(b, P)
  BY <1>2, <1>3 DEF Lists!Holds, AskedFor
<1>11. Early(there, p)
  BY DEF Early
<1>12. ListedFrom(b, p)
  BY <1>10, <1>11, ListedIfEarly
<1>4. PICK l \in 1..Len(Lists!Lists) : Lists!Lists[l] = Lists!Copy(b, p)
  BY <1>12 DEF ListedFrom
<1>5. PICK list \in Seq(Copies) : list = Lists!Lists
  BY ListsAre
<1>6. AllAre(A, list)
  BY <1>5, AllPoliciesAre
<1>7. Lists!Registered(list[l])
  BY <1>1, <1>4, <1>5, CopyIs DEF Lists!Registered
<1>8. PICK i \in 1..Len(A) : Lists!Same(A[i], list[l])
  BY <1>4, <1>5, <1>6, <1>7 DEF AllAre
<1>9. A[i].number = p.number
  BY <1>1, <1>4, <1>5, <1>8, CopyIs DEF Lists!Same
<1>. QED  BY <1>9

\* What happened at registered clusters.
LocalEvents == {q \in there : q.source \in 1..BeaconsCount}

\* If all Beacons answer, an event is in the list of all unless too much comes before it.
LEMMA EventListed ==
  ASSUME ListInv, query.kind = "events", \A b \in 1..BeaconsCount : answers[b].phase = "answered",
         NEW All, All = LocalEvents, NEW p \in All,
         query.size = 0 \/ PlaceAmong(All, p) < Asking
  PROVE  \E i \in 1..Len(Lists!Lists) : Lists!Lists[i].number = p.number
<1>1. p \in there /\ p.source \in 1..BeaconsCount /\ p \in Universe
  BY DEF ListInv, LocalEvents
<1>2. PICK b \in 1..BeaconsCount : b = p.source
  BY <1>1
<1>3. PICK P : P = {q \in there : b = q.source}
  OBVIOUS
<1>4. P \subseteq All /\ All \subseteq there /\ p \in P /\ AskedFor(b, P) /\ answers[b].phase = "answered"
  BY <1>1, <1>2, <1>3 DEF LocalEvents, AskedFor
<1>5. ListedFrom(b, p)
  <2>1. Early(All, p)
    BY DEF Early
  <2>. QED  BY <1>4, <2>1, ListedIfEarly
<1>6. PICK l \in 1..Len(Lists!Lists) : Lists!Lists[l] = Lists!Copy(b, p)
  BY <1>5 DEF ListedFrom
<1>7. Lists!Lists[l].number = p.number
  BY <1>1, <1>6, CopyIs
<1>. QED  BY <1>7

PlaceThere(all, p) == Lists!Cardinality({q \in all : Lists!Before(q, p)})

\* What the pages should show.
PagesShown(r) ==
  LET all == IF query.kind = "policies" THEN there ELSE {p \in there : p.source \in Lists!BeaconIds}
  IN (r.phase = "answered" /\ query.kind # "creds" /\ query.orderBy /\ Lists!Answering = Lists!BeaconIds
        /\ \A p \in there : Lists!Registered(p))
     => {p.number : p \in Lists!Range(r.list)} =
          {p.number : p \in {p \in all : query.size = 0 \/ PlaceThere(all, p) \in
                                           query.offset..query.offset + query.size - 1}}

\* It is what PagesAgree says.
LEMMA PagesMean ==
  ASSUME query' = query, there' = there, answers' = answers
  PROVE  Lists!PagesAgree' <=> PagesShown(reply')
<1>1. Lists!PagesAgree' <=> PagesShown(reply)'
  BY DEF Lists!PagesAgree, PagesShown, PlaceThere
<1>2. PagesShown(reply)' <=> PagesShown(reply')
  BY DEF PagesShown, PlaceThere, Lists!Before, Lists!Rank, Lists!Answering, Lists!BeaconIds,
     Lists!Registered, Lists!Range
<1>. QED  BY <1>1, <1>2

\* A reply in the order asked for is the page of what all Beacons have, if all answered.
LEMMA PagesReplied ==
  ASSUME ListInv, Lists!Reply
  PROVE  Lists!PagesAgree'
<1>0. query' = query /\ there' = there /\ answers' = answers
  BY DEF Lists!Reply
<1>. DEFINE all == IF query.kind = "policies" THEN there ELSE {p \in there : p.source \in 1..BeaconsCount}
<1>. SUFFICES ASSUME reply'.phase = "answered", query.kind # "creds", query.orderBy,
                     Lists!Answering = 1..BeaconsCount, \A p \in there : Lists!Registered(p)
              PROVE  {p.number : p \in Lists!Range(reply'.list)} =
                       {p.number : p \in {p \in all : query.size = 0 \/
                          PlaceAmong(all, p) \in query.offset..query.offset + query.size - 1}}
  <2>1. \A S, p : PlaceThere(S, p) = PlaceAmong(S, p)
    BY SameOrders DEF PlaceAmong, PlaceThere
  <2>2. {p \in all : query.size = 0 \/ PlaceThere(all, p) \in
                                          query.offset..query.offset + query.size - 1} =
          {p \in all : query.size = 0 \/ PlaceAmong(all, p) \in
                                          query.offset..query.offset + query.size - 1}
    BY <2>1
  <2>. QED  BY <1>0, <2>2, PagesMean DEF PagesShown, Lists!BeaconIds
<1>1. /\ query \in Queries /\ there \subseteq Universe
      /\ query.kind \in {"policies", "events", "creds"}
  BY ListFacts DEF ListInv
<1>2. \A b \in 1..BeaconsCount : answers[b].phase = "answered"
  BY DEF Lists!Answering
<1>3. /\ ~Lists!Throws /\ Lists!Answering # {}
      /\ reply'.list = IF query.kind = "policies"
                       THEN Lists!NewestFirst(Lists!Page(Lists!Ordered(Lists!AllPolicies)))
                       ELSE Lists!Page(Lists!Ordered(Lists!Lists))
  BY <1>1 DEF Lists!Reply, Lists!Failed, Lists!Answered
<1>4. PICK A : A = IF query.kind = "policies" THEN Lists!AllPolicies ELSE Lists!Lists
  OBVIOUS
<1>5. ListsSome(A, all) /\ A \in Seq(Copies)
  <2>1. CASE query.kind = "policies"
    <3>1. ListsSome(A, there)
      BY <1>4, <2>1, PoliciesListSome
    <3>. QED  BY <2>1, <3>1 DEF ListsSome
  <2>2. CASE query.kind = "events"
    <3>1. ListsSome(Lists!Lists, {p \in there : p.source \in 1..BeaconsCount})
      BY <2>2, EventsListSome
    <3>2. ListsSome(A, all)
      BY <1>4, <2>2, <3>1
    <3>. QED  BY <3>2 DEF ListsSome
  <2>. QED  BY <1>1, <2>1, <2>2
<1>6. ASSUME NEW p \in all, query.size = 0 \/ PlaceAmong(all, p) < Asking
      PROVE  \E i \in 1..Len(A) : A[i].number = p.number
  <2>1. CASE query.kind = "policies"
    <3>1. all = there /\ A = Lists!AllPolicies
      BY <1>4, <2>1
    <3>2. p \in there /\ Lists!Registered(p) /\ (query.size = 0 \/ PlaceAmong(there, p) < Asking)
      BY <1>6, <3>1
    <3>. HIDE DEF all
    <3>. QED  BY <1>2, <1>5, <2>1, <3>1, <3>2, PolicyListed
  <2>2. CASE query.kind = "events"
    <3>1. all = LocalEvents /\ A = Lists!Lists
      BY <1>4, <2>2 DEF LocalEvents
    <3>. HIDE DEF all
    <3>2. \E i \in 1..Len(Lists!Lists) : Lists!Lists[i].number = p.number
      BY <1>2, <1>6, <2>2, <3>1, EventListed
    <3>. QED  BY <3>1, <3>2
  <2>. QED  BY <1>1, <2>1, <2>2
<1>7. all \subseteq Universe
  BY <1>1
<1>. HIDE DEF all
<1>8. /\ Lists!Page(Lists!Ordered(A)) \in Seq(Copies)
      /\ Numbers(Lists!Page(Lists!Ordered(A))) =
           {p.number : p \in {p \in all : query.size = 0 \/
              PlaceAmong(all, p) \in query.offset..query.offset + query.size - 1}}
  <2>1. \A p \in all : query.size = 0 \/ PlaceAmong(all, p) < Asking =>
                         \E i \in 1..Len(A) : A[i].number = p.number
    BY <1>6
  <2>. QED  BY <1>1, <1>5, <1>7, <2>1, PageIs
<1>9. PICK P \in Seq(Copies) : P = Lists!Page(Lists!Ordered(A))
  BY <1>8
<1>10. reply'.list \in Seq(Copies) /\ Numbers(reply'.list) = Numbers(P)
  <2>1. CASE query.kind = "policies"
    <3>1. reply'.list = Lists!NewestFirst(P)
      BY <1>3, <1>4, <1>9, <2>1
    <3>2. reply'.list \in Seq(Copies) /\ \E at : Arranged(reply'.list, P, at)
      BY <3>1, NewestIs
    <3>. QED  BY <3>2, SameNumbers
  <2>2. CASE query.kind # "policies"
    BY <1>3, <1>4, <1>9, <2>2
  <2>. QED  BY <2>1, <2>2
<1>11. {p.number : p \in Lists!Range(reply'.list)} = Numbers(reply'.list)
  <2>1. PICK s \in Seq(Copies) : s = reply'.list
    BY <1>10
  <2>2. DOMAIN s = 1..Len(s) /\ Lists!Range(s) = {s[i] : i \in DOMAIN s}
    BY SameOrders
  <2>3. {p.number : p \in Lists!Range(s)} = Numbers(s)
    BY <2>2 DEF Numbers
  <2>. QED  BY <2>1, <2>3
<1>. QED  BY <1>8, <1>9, <1>10, <1>11

-----------------------------------------------------------------------------
(* Credentials with the policies that use them. *)

\* A list that has each of a set once.
Once(list, S) ==
  /\ \A k \in 1..Len(list) : list[k] \in S
  /\ \A x \in S : \E k \in 1..Len(list) : list[k] = x
  /\ \A k, l \in 1..Len(list) : list[k] = list[l] => k = l

\* No element, and one.
LEMMA OnceFew ==
  /\ Once(<<>>, {})
  /\ \A x : Once(<<x>>, {x})
<1>1. Len(<<>>) = 0 /\ 1..0 = {}
  BY EmptySeq
<1>2. \A x : Len(<<x>>) = 1 /\ <<x>>[1] = x /\ 1..1 = {1}
  OBVIOUS
<1>. QED  BY <1>1, <1>2 DEF Once

\* One more that is not in it.
LEMMA OnceMore ==
  ASSUME NEW D, NEW s \in Seq(D), NEW S, Once(s, S), NEW x \in D, x \notin S,
         NEW u, u = Append(s, x),
         NEW T, T = S \cup {x}
  PROVE  u \in Seq(D) /\ Once(u, T)
<1>1. u \in Seq(D) /\ Extends(u, s, x)
  BY AppendIs
<1>2. /\ Len(u) \in 1..Len(u) /\ u[Len(u)] = x
      /\ \A i \in 1..Len(s) : i \in 1..Len(u) /\ u[i] = s[i]
      /\ \A i \in 1..Len(u) : i \in 1..Len(s) \/ i = Len(u)
  BY <1>1 DEF Extends
<1>. QED  BY <1>1, <1>2 DEF Once

\* One more unless it is in it.
LEMMA OnceNew ==
  ASSUME NEW D, NEW s \in Seq(D), NEW S, Once(s, S), NEW x \in D,
         NEW u, u = Lists!AppendNew(s, x),
         NEW T, T = S \cup {x}
  PROVE  u \in Seq(D) /\ Once(u, T)
<1>1. CASE x \in S
  <2>1. Lists!Contains(s, x)
    BY <1>1 DEF Once, Lists!Contains
  <2>2. u = s /\ T = S
    BY <1>1, <2>1 DEF Lists!AppendNew
  <2>. QED  BY <2>2
<1>2. CASE x \notin S
  <2>1. ~Lists!Contains(s, x)
    BY <1>2 DEF Once, Lists!Contains
  <2>2. u = Append(s, x)
    BY <2>1 DEF Lists!AppendNew
  <2>. QED  BY <1>2, <2>2, OnceMore
<1>. QED  BY <1>1, <1>2

\* A list that has each once is as long as there are.
LEMMA OnceLong ==
  ASSUME NEW D, NEW s \in Seq(D), NEW S, Once(s, S)
  PROVE  Len(s) = Cardinality(S) /\ {s[i] : i \in 1..Len(s)} = S
<1>1. PICK n \in Nat : n = Len(s)
  OBVIOUS
<1>2. PICK f : f = [k \in 1..n |-> s[k]]
  OBVIOUS
<1>3. /\ f \in [1..n -> S] /\ \A x, y \in 1..n : f[x] = f[y] => x = y
      /\ \A z \in S : \E x \in 1..n : f[x] = z
  BY <1>1, <1>2 DEF Once
<1>4. IsFiniteSet(1..n) /\ Cardinality(1..n) = n
  <2>1. IsFiniteSet(1..n) /\ Cardinality(1..n) = IF 1 > n THEN 0 ELSE n - 1 + 1
    BY FS_Interval
  <2>. QED  BY <2>1
<1>5. Cardinality(S) = Cardinality(1..n)
  BY <1>3, <1>4, SameSize
<1>. QED  BY <1>1, <1>4, <1>5 DEF Once

\* The elements of a finite set as a list.
LEMMA SetToSeqIs ==
  ASSUME NEW S, IsFiniteSet(S), NEW s, s = Lists!SetToSeq(S)
  PROVE  s \in Seq(S) /\ Len(s) = Cardinality(S) /\ Once(s, S)
<1>1. PICK n \in Nat : n = Cardinality(S) /\ ExistsBijection(1..n, S)
  BY FS_CardinalityType
<1>2. \A f : Lists!IsInjective(f) <=> \A a, b \in DOMAIN f : f[a] = f[b] => a = b
  BY DEF Lists!IsInjective
<1>3. s = CHOOSE f \in [1..n -> S] : Lists!IsInjective(f)
  BY <1>1, SameOrders DEF Lists!SetToSeq
<1>4. \E f \in [1..n -> S] : Lists!IsInjective(f)
  BY <1>1, <1>2 DEF ExistsBijection, Bijection, Injection, IsInjective
<1>5. s \in [1..n -> S] /\ Lists!IsInjective(s)
  BY <1>3, <1>4
<1>6. \A k, l \in 1..n : s[k] = s[l] => k = l
  BY <1>2, <1>5
<1>7. s \in Seq(S) /\ Len(s) = n
  BY <1>5
<1>8. \A x \in S : \E k \in 1..n : s[k] = x
  <2>1. s \in Injection(1..n, S)
    BY <1>5, <1>6 DEF Injection, IsInjective
  <2>2. Cardinality(1..n) = n
    <3>1. Cardinality(1..n) = IF 1 > n THEN 0 ELSE n - 1 + 1
      BY FS_Interval
    <3>. QED  BY <3>1
  <2>3. s \in Surjection(1..n, S)
    BY <1>1, <2>1, <2>2, FS_Injection
  <2>. QED  BY <2>3 DEF Surjection
<1>9. \A k \in 1..n : s[k] \in S
  BY <1>5
<1>. QED  BY <1>1, <1>6, <1>7, <1>8, <1>9 DEF Once

\* A Beacon and a policy of it; and a credential in the list, with the clusters that have
\* it and what uses it.
Uses == {<<b, p.id>> : b \in 1..BeaconsCount, p \in CredPolicies}
Entries == [name : Lists!Names, policies : Seq(Uses), clusters : Seq(1..BeaconsCount)]

\* Every credential that some cluster has, once, with the clusters H says and what U says.
Collected(acc, H, U) ==
  /\ acc \in Seq(Entries)
  /\ \A i, j \in 1..Len(acc) : acc[i].name = acc[j].name => i = j
  /\ \A i \in 1..Len(acc) : /\ Once(acc[i].clusters, H[acc[i].name])
                            /\ Once(acc[i].policies, U[acc[i].name])
                            /\ H[acc[i].name] # {}
  /\ \A c \in Lists!Names : H[c] # {} => \E i \in 1..Len(acc) : acc[i].name = c
  /\ \A c \in Lists!Names : H[c] = {} => U[c] = {}

\* u is acc with the entry e for the credential c, as a new one or in place of the one
\* there was.
Enters(u, acc, c, e) ==
  /\ e.name = c
  /\ \E i \in 1..Len(u) : u[i] = e /\ \A k \in 1..Len(u) : k # i => k \in 1..Len(acc) /\ u[k] = acc[k] /\ acc[k].name # c
  /\ \A k \in 1..Len(acc) : acc[k].name # c => k \in 1..Len(u) /\ u[k] = acc[k]

\* H and U are as they were but for c; and c has one more.
Elsewhere(I, H, c) == \A d \in Lists!Names : d # c => I[d] = H[d]
Gains(I, H, c, x) == \A d \in Lists!Names : I[d] = IF d = c THEN H[d] \cup {x} ELSE H[d]

\* What c has after it got one more.
LEMMA GainsIs ==
  ASSUME NEW c \in Lists!Names, NEW I, NEW H, NEW x, Gains(I, H, c, x)
  PROVE  I[c] = H[c] \cup {x} /\ I[c] # {} /\ Elsewhere(I, H, c)
  BY DEF Gains, Elsewhere

\* A list of credentials with an entry that is as it should be.
LEMMA Entered ==
  ASSUME NEW acc, NEW H, NEW U, Collected(acc, H, U), NEW c \in Lists!Names, NEW e \in Entries,
         NEW u \in Seq(Entries), Enters(u, acc, c, e),
         NEW I, NEW V, I[c] # {}, Once(e.clusters, I[c]), Once(e.policies, V[c]),
         Elsewhere(I, H, c), Elsewhere(V, U, c)
  PROVE  Collected(u, I, V)
<1>0. \A d \in Lists!Names : d # c => I[d] = H[d] /\ V[d] = U[d]
  BY DEF Elsewhere
<1>1. PICK i \in 1..Len(u) : u[i] = e /\ \A k \in 1..Len(u) : k # i => k \in 1..Len(acc) /\ u[k] = acc[k] /\ acc[k].name # c
  BY DEF Enters
<1>2. e.name = c /\ \A k \in 1..Len(acc) : acc[k].name # c => k \in 1..Len(u) /\ u[k] = acc[k]
  BY DEF Enters
<1>3. \A k \in 1..Len(acc) : acc[k].name \in Lists!Names
  <2>1. \A x \in Entries : x.name \in Lists!Names
    BY DEF Entries
  <2>. QED  BY <2>1, ElementOfSeq DEF Collected
<1>4. \A k, l \in 1..Len(u) : u[k].name = u[l].name => k = l
  BY <1>1, <1>2 DEF Collected
<1>5. ASSUME NEW k \in 1..Len(u)
      PROVE  Once(u[k].clusters, I[u[k].name]) /\ Once(u[k].policies, V[u[k].name]) /\ I[u[k].name] # {}
  <2>1. CASE k = i
    BY <1>1, <1>2, <2>1
  <2>2. CASE k # i
    <3>1. k \in 1..Len(acc) /\ u[k] = acc[k] /\ acc[k].name # c
      BY <1>1, <2>2
    <3>2. I[u[k].name] = H[acc[k].name] /\ V[u[k].name] = U[acc[k].name]
      BY <1>0, <1>3, <3>1
    <3>. QED  BY <3>1, <3>2 DEF Collected
  <2>. QED  BY <2>1, <2>2
<1>6. \A d \in Lists!Names : I[d] # {} => \E k \in 1..Len(u) : u[k].name = d
  <2>1. ASSUME NEW d \in Lists!Names, I[d] # {}
        PROVE  \E k \in 1..Len(u) : u[k].name = d
    <3>1. CASE d = c
      BY <1>1, <1>2, <3>1
    <3>2. CASE d # c
      <4>1. PICK k \in 1..Len(acc) : acc[k].name = d
        BY <1>0, <2>1, <3>2 DEF Collected
      <4>. QED  BY <1>2, <3>2, <4>1
    <3>. QED  BY <3>1, <3>2
  <2>. QED  BY <2>1
<1>7. \A d \in Lists!Names : I[d] = {} => V[d] = {}
  BY <1>0 DEF Collected
<1>. QED  BY <1>4, <1>5, <1>6, <1>7 DEF Collected

\* A list of one.
LEMMA OnceOf ==
  ASSUME NEW D, NEW x \in D
  PROVE  <<x>> \in Seq(D) /\ Once(<<x>>, {x})
<1>1. <<x>> \in Seq(D)
  OBVIOUS
<1>. QED  BY <1>1, OnceFew

\* Where a credential is in the list, if it is.
Lacks(acc, c) == \A k \in 1..Len(acc) : acc[k].name # c
Distinct(acc) == \A k, l \in 1..Len(acc) : acc[k].name = acc[l].name => k = l

\* It is an entry of the credential, or there is none.
LEMMA EntryIs ==
  ASSUME NEW acc \in Seq(Entries), NEW c, NEW i, i = Lists!Entry(c, acc)
  PROVE  \/ i = 0 /\ Lacks(acc, c)
         \/ i # 0 /\ i \in 1..Len(acc) /\ acc[i].name = c
<1>. DEFINE at == {k \in DOMAIN acc : acc[k].name = c}
<1>1. DOMAIN acc = 1..Len(acc) /\ at \subseteq Nat
  OBVIOUS
<1>2. i = IF at = {} THEN 0 ELSE Lists!First(at)
  BY DEF Lists!Entry
<1>3. CASE at = {}
  BY <1>1, <1>2, <1>3 DEF Lacks
<1>4. CASE at # {}
  <2>1. i \in at
    <3>. HIDE DEF at
    <3>. QED  BY <1>1, <1>2, <1>4, FirstIs
  <2>. QED  BY <1>1, <2>1
<1>. QED  BY <1>3, <1>4

\* A new entry, and one that changes.
LEMMA EnterNew ==
  ASSUME NEW acc \in Seq(Entries), NEW c, Lacks(acc, c),
         NEW e \in Entries, e.name = c, NEW u, u = Append(acc, e)
  PROVE  u \in Seq(Entries) /\ Enters(u, acc, c, e)
<1>1. u \in Seq(Entries) /\ Extends(u, acc, e)
  BY AppendIs
<1>2. /\ Len(u) \in 1..Len(u) /\ u[Len(u)] = e
      /\ \A i \in 1..Len(acc) : i \in 1..Len(u) /\ u[i] = acc[i]
      /\ \A i \in 1..Len(u) : i \in 1..Len(acc) \/ i = Len(u)
  BY <1>1 DEF Extends
<1>. QED  BY <1>1, <1>2 DEF Enters, Lacks

\* An entry in place of the one for the same credential.
LEMMA EnterInstead ==
  ASSUME NEW acc \in Seq(Entries), Distinct(acc),
         NEW i \in 1..Len(acc), NEW e \in Entries, e.name = acc[i].name,
         NEW u, u = [acc EXCEPT ![i] = e]
  PROVE  u \in Seq(Entries) /\ Enters(u, acc, acc[i].name, e)
<1>1. u \in Seq(Entries) /\ Len(u) = Len(acc) /\ \A k \in 1..Len(u) : u[k] = IF k = i THEN e ELSE acc[k]
  BY ExceptSeq
<1>. QED  BY <1>1 DEF Enters, Distinct

\* The parts of an entry.
LEMMA EntryParts ==
  ASSUME NEW e \in Entries
  PROVE  /\ e.name \in Lists!Names /\ e.policies \in Seq(Uses) /\ e.clusters \in Seq(1..BeaconsCount)
         /\ \A p \in Seq(Uses), d \in Seq(1..BeaconsCount) :
              [name |-> e.name, policies |-> p, clusters |-> d] \in Entries
         /\ \A p, d : /\ [e EXCEPT !.clusters = d] = [name |-> e.name, policies |-> e.policies, clusters |-> d]
                      /\ [e EXCEPT !.clusters = d, !.policies = p] =
                           [name |-> e.name, policies |-> p, clusters |-> d]
<1>1. PICK P, D : P = Seq(Uses) /\ D = Seq(1..BeaconsCount)
  OBVIOUS
<1>2. e \in [name : Lists!Names, policies : P, clusters : D] /\ Entries = [name : Lists!Names, policies : P, clusters : D]
  BY <1>1 DEF Entries
<1>3. e.name \in Lists!Names /\ e.policies \in P /\ e.clusters \in D
  BY <1>2
<1>4. \A p \in P, d \in D : [name |-> e.name, policies |-> p, clusters |-> d] \in Entries
  BY <1>2, <1>3
<1>5. PICK n, q, f : e = [name |-> n, policies |-> q, clusters |-> f]
  BY <1>2
<1>6. \A d : [e EXCEPT !.clusters = d] = [name |-> e.name, policies |-> e.policies, clusters |-> d]
  BY <1>5
<1>7. \A p, d : [e EXCEPT !.clusters = d, !.policies = p] =
                           [name |-> e.name, policies |-> p, clusters |-> d]
  <2>. TAKE p, d
  <2>1. PICK r : r = [e EXCEPT !.clusters = d]
    OBVIOUS
  <2>2. [e EXCEPT !.clusters = d, !.policies = p] = [r EXCEPT !.policies = p]
    BY <2>1
  <2>3. r = [name |-> e.name, policies |-> e.policies, clusters |-> d]
    BY <1>6, <2>1
  <2>4. [r EXCEPT !.policies = p] = [name |-> e.name, policies |-> p, clusters |-> d]
    BY <2>3
  <2>. QED  BY <2>2, <2>4
<1>. QED  BY <1>1, <1>3, <1>4, <1>6, <1>7

\* A credential that b has and that no policy of b uses.
LEMMA AddUnusedKeeps ==
  ASSUME NEW acc, NEW H, NEW U, Collected(acc, H, U), NEW b \in 1..BeaconsCount,
         NEW c \in Lists!Names,
         b \notin H[c], NEW u, u = Lists!AddUnused(b, acc, c),
         NEW I, Gains(I, H, c, b)
  PROVE  Collected(u, I, U)
<1>1. acc \in Seq(Entries) /\ Distinct(acc)
  BY DEF Collected, Distinct
<1>2. I[c] = H[c] \cup {b} /\ I[c] # {} /\ Elsewhere(I, H, c) /\ Elsewhere(U, U, c)
  BY GainsIs DEF Elsewhere
<1>3. PICK i : i = Lists!Entry(c, acc)
  OBVIOUS
<1>4. CASE i = 0
  <2>1. Lacks(acc, c)
    BY <1>1, <1>3, <1>4, EntryIs
  <2>2. H[c] = {} /\ U[c] = {}
    BY <2>1 DEF Collected, Lacks
  <2>3. PICK d : d = <<b>> /\ d \in Seq(1..BeaconsCount) /\ Once(d, {b})
    BY OnceOf
  <2>4. PICK none : none = <<>> /\ none \in Seq(Uses) /\ Once(none, {})
    BY OnceFew, EmptySeq
  <2>5. PICK e : e = [name |-> c, policies |-> none, clusters |-> d]
    OBVIOUS
  <2>6. e \in Entries /\ e.name = c /\ e.policies = none /\ e.clusters = d
    BY <2>3, <2>4, <2>5 DEF Entries
  <2>7. u = Append(acc, e)
    BY <1>3, <1>4, <2>3, <2>4, <2>5 DEF Lists!AddUnused
  <2>8. u \in Seq(Entries) /\ Enters(u, acc, c, e)
    BY <1>1, <2>1, <2>6, <2>7, EnterNew
  <2>9. Once(e.clusters, I[c]) /\ Once(e.policies, U[c])
    <3>1. H[c] \cup {b} = {b}
      BY <2>2
    <3>. QED  BY <1>2, <2>2, <2>3, <2>4, <2>6, <3>1
  <2>. QED  BY <1>2, <2>6, <2>8, <2>9, Entered
<1>5. CASE i # 0
  <2>1. i \in 1..Len(acc) /\ acc[i].name = c
    BY <1>1, <1>3, <1>5, EntryIs
  <2>2. acc[i] \in Entries
    BY <1>1, <2>1, ElementOfSeq
  <2>3. PICK d : d = Append(acc[i].clusters, b) /\ d \in Seq(1..BeaconsCount) /\ Once(d, I[c])
    <3>1. acc[i].clusters \in Seq(1..BeaconsCount) /\ Once(acc[i].clusters, H[c])
      BY <2>1, <2>2, EntryParts DEF Collected
    <3>2. PICK s : s = acc[i].clusters /\ s \in Seq(1..BeaconsCount) /\ Once(s, H[c])
      BY <3>1
    <3>3. PICK d : d = Append(s, b)
      OBVIOUS
    <3>4. PICK S, T, D, x : S = H[c] /\ T = I[c] /\ D = 1..BeaconsCount /\ x = b
      OBVIOUS
    <3>6. Once(s, S) /\ x \notin S /\ T = S \cup {x} /\ x \in D /\ s \in Seq(D) /\ d = Append(s, x)
      BY <1>2, <3>2, <3>3, <3>4
    <3>5. d \in Seq(D) /\ Once(d, T)
      BY <3>6, OnceMore
    <3>. QED  BY <3>2, <3>3, <3>4, <3>5
  <2>4. PICK e : e = [name |-> acc[i].name, policies |-> acc[i].policies, clusters |-> d]
    OBVIOUS
  <2>5. /\ e \in Entries /\ e.name = c /\ e.policies = acc[i].policies /\ e.clusters = d
        /\ [acc[i] EXCEPT !.clusters = d] = e
    <3>1. acc[i].policies \in Seq(Uses)
      BY <2>2, EntryParts
    <3>2. e \in Entries /\ [acc[i] EXCEPT !.clusters = d] = e
      BY <2>2, <2>3, <2>4, <3>1, EntryParts
    <3>. QED  BY <2>1, <2>4, <3>2
  <2>6. u = [acc EXCEPT ![i] = e]
    <3>1. u = [acc EXCEPT ![i] = [acc[i] EXCEPT !.clusters = Append(acc[i].clusters, b)]]
      BY <1>3, <1>5 DEF Lists!AddUnused
    <3>. QED  BY <2>3, <2>5, <3>1
  <2>7. u \in Seq(Entries) /\ Enters(u, acc, c, e)
    <3>1. e \in Entries /\ e.name = acc[i].name
      BY <2>1, <2>5
    <3>2. u \in Seq(Entries) /\ Enters(u, acc, acc[i].name, e)
      BY <1>1, <2>1, <2>6, <3>1, EnterInstead
    <3>. QED  BY <2>1, <3>2
  <2>8. Once(e.policies, U[c])
    BY <2>1, <2>5 DEF Collected
  <2>9. e \in Entries /\ Once(e.clusters, I[c])
    BY <2>3, <2>5
  <2>. QED  BY <1>2, <2>7, <2>8, <2>9, Entered
<1>. QED  BY <1>4, <1>5

\* What a policy of b adds: its cluster and itself to the credential it uses, if b has it.
LEMMA AddUseKeeps ==
  ASSUME NEW acc, NEW H, NEW U, Collected(acc, H, U), NEW b \in 1..BeaconsCount,
         NEW p \in CredPolicies,
         p.cred \in credsAt[b], NEW u, u = Lists!AddUse(b, acc, p),
         NEW I, Gains(I, H, p.cred, b), NEW V, Gains(V, U, p.cred, <<b, p.id>>)
  PROVE  Collected(u, I, V)
<1>1. acc \in Seq(Entries) /\ Distinct(acc)
  BY DEF Collected, Distinct
<1>2. PICK c \in Lists!Names : c = p.cred
  BY DEF Lists!Names
<1>4. PICK x : x = <<b, p.id>>
  OBVIOUS
<1>3. /\ I[c] = H[c] \cup {b} /\ I[c] # {} /\ Elsewhere(I, H, c)
      /\ V[c] = U[c] \cup {x} /\ Elsewhere(V, U, c) /\ x \in Uses
  <2>1. Gains(I, H, c, b) /\ Gains(V, U, c, x)
    BY <1>2, <1>4
  <2>2. x \in Uses
    BY <1>4 DEF Uses
  <2>. QED  BY <2>1, <2>2, GainsIs
<1>5. PICK i : i = Lists!Entry(c, acc)
  OBVIOUS
<1>6. CASE i = 0
  <2>1. Lacks(acc, c)
    BY <1>1, <1>5, <1>6, EntryIs
  <2>2. H[c] = {} /\ U[c] = {}
    BY <2>1 DEF Collected, Lacks
  <2>3. PICK d : d = <<b>> /\ d \in Seq(1..BeaconsCount) /\ Once(d, {b})
    BY OnceOf
  <2>4. PICK s : s = <<x>> /\ s \in Seq(Uses) /\ Once(s, {x})
    BY <1>3, OnceOf
  <2>5. PICK e : e = [name |-> c, policies |-> s, clusters |-> d]
    OBVIOUS
  <2>6. e \in Entries /\ e.name = c /\ e.policies = s /\ e.clusters = d
    BY <2>3, <2>4, <2>5 DEF Entries
  <2>7. u = Append(acc, e)
    BY <1>2, <1>4, <1>5, <1>6, <2>3, <2>4, <2>5 DEF Lists!AddUse
  <2>8. u \in Seq(Entries) /\ Enters(u, acc, c, e)
    BY <1>1, <2>1, <2>6, <2>7, EnterNew
  <2>9. Once(e.clusters, I[c]) /\ Once(e.policies, V[c])
    <3>1. I[c] = {b} /\ V[c] = {x}
      BY <1>3, <2>2
    <3>. QED  BY <2>3, <2>4, <2>6, <3>1
  <2>. QED  BY <1>3, <2>6, <2>8, <2>9, Entered
<1>7. CASE i # 0
  <2>1. i \in 1..Len(acc) /\ acc[i].name = c
    BY <1>1, <1>5, <1>7, EntryIs
  <2>2. acc[i] \in Entries
    BY <1>1, <2>1, ElementOfSeq
  <2>3. PICK d : d = Lists!AppendNew(acc[i].clusters, b) /\ d \in Seq(1..BeaconsCount) /\ Once(d, I[c])
    <3>1. acc[i].clusters \in Seq(1..BeaconsCount) /\ Once(acc[i].clusters, H[c])
      BY <2>1, <2>2, EntryParts DEF Collected
    <3>2. PICK s : s = acc[i].clusters /\ s \in Seq(1..BeaconsCount) /\ Once(s, H[c])
      BY <3>1
    <3>3. PICK d : d = Lists!AppendNew(s, b)
      OBVIOUS
    <3>4. PICK S, T, D, y : S = H[c] /\ T = I[c] /\ D = 1..BeaconsCount /\ y = b
      OBVIOUS
    <3>6. Once(s, S) /\ T = S \cup {y} /\ y \in D /\ s \in Seq(D) /\ d = Lists!AppendNew(s, y)
      BY <1>3, <3>2, <3>3, <3>4
    <3>5. d \in Seq(D) /\ Once(d, T)
      BY <3>6, OnceNew
    <3>. QED  BY <3>2, <3>3, <3>4, <3>5
  <2>4. PICK s : s = Lists!AppendNew(acc[i].policies, x) /\ s \in Seq(Uses) /\ Once(s, V[c])
    <3>1. acc[i].policies \in Seq(Uses) /\ Once(acc[i].policies, U[c])
      BY <2>1, <2>2, EntryParts DEF Collected
    <3>2. PICK t : t = acc[i].policies /\ t \in Seq(Uses) /\ Once(t, U[c])
      BY <3>1
    <3>3. PICK s : s = Lists!AppendNew(t, x)
      OBVIOUS
    <3>4. PICK S, T, D : S = U[c] /\ T = V[c] /\ Once(t, S) /\ T = S \cup {x}
                         /\ D = Uses /\ x \in D /\ t \in Seq(D)
      BY <1>3, <3>2
    <3>5. s \in Seq(D) /\ Once(s, T)
      BY <3>3, <3>4, OnceNew
    <3>. QED  BY <3>2, <3>3, <3>4, <3>5
  <2>5. PICK e : e = [name |-> acc[i].name, policies |-> s, clusters |-> d]
    OBVIOUS
  <2>6. /\ e \in Entries /\ e.name = c /\ e.policies = s /\ e.clusters = d
        /\ [acc[i] EXCEPT !.clusters = d, !.policies = s] = e
    <3>1. e \in Entries /\ [acc[i] EXCEPT !.clusters = d, !.policies = s] = e
      BY <2>2, <2>3, <2>4, <2>5, EntryParts
    <3>. QED  BY <2>1, <2>5, <3>1
  <2>7. u = [acc EXCEPT ![i] = e]
    <3>1. u = [acc EXCEPT ![i].clusters = d, ![i].policies = s]
      BY <1>2, <1>4, <1>5, <1>7, <2>3, <2>4 DEF Lists!AddUse
    <3>. QED  BY <2>1, <2>6, <3>1
  <2>8. u \in Seq(Entries) /\ Enters(u, acc, c, e)
    <3>1. e \in Entries /\ e.name = acc[i].name
      BY <2>1, <2>6
    <3>2. u \in Seq(Entries) /\ Enters(u, acc, acc[i].name, e)
      BY <1>1, <2>1, <2>7, <3>1, EnterInstead
    <3>. QED  BY <2>1, <3>2
  <2>9. e \in Entries /\ Once(e.clusters, I[c]) /\ Once(e.policies, V[c])
    BY <2>3, <2>4, <2>6
  <2>. QED  BY <1>3, <2>8, <2>9, Entered
<1>. QED  BY <1>6, <1>7

\* What is added keeps lists of entries.
LEMMA AddUnusedTyped ==
  ASSUME NEW acc \in Seq(Entries), NEW b \in 1..BeaconsCount, NEW c \in Lists!Names
  PROVE  Lists!AddUnused(b, acc, c) \in Seq(Entries)
<1>1. PICK i, D, x : i = Lists!Entry(c, acc) /\ D = 1..BeaconsCount /\ x = b
  OBVIOUS
<1>2. CASE i = 0
  <2>1. <<>> \in Seq(Uses) /\ <<b>> \in Seq(1..BeaconsCount)
    BY EmptySeq
  <2>2. PICK e : e = [name |-> c, policies |-> <<>>, clusters |-> <<b>>]
    OBVIOUS
  <2>3. e \in Entries
    BY <2>1, <2>2 DEF Entries
  <2>4. Append(acc, e) \in Seq(Entries)
    BY <2>3, AppendProperties
  <2>. QED  BY <1>1, <1>2, <2>2, <2>4 DEF Lists!AddUnused
<1>3. CASE i # 0
  <2>1. i \in 1..Len(acc)
    BY <1>1, <1>3, EntryIs
  <2>2. acc[i] \in Entries
    BY <2>1, ElementOfSeq
  <2>3. PICK s : s = acc[i].clusters
    OBVIOUS
  <2>4. s \in Seq(D) /\ x \in D
    BY <1>1, <2>2, <2>3, EntryParts
  <2>5. PICK d : d = Append(s, x)
    OBVIOUS
  <2>6. d \in Seq(D)
    BY <2>4, <2>5, AppendProperties
  <2>7. PICK e : e = [acc[i] EXCEPT !.clusters = d]
    OBVIOUS
  <2>8. e \in Entries
    <3>1. acc[i].policies \in Seq(Uses)
      BY <2>2, EntryParts
    <3>2. e = [name |-> acc[i].name, policies |-> acc[i].policies, clusters |-> d]
      BY <2>2, <2>7, EntryParts
    <3>. QED  BY <1>1, <2>2, <2>6, <3>1, <3>2, EntryParts
  <2>9. [acc EXCEPT ![i] = e] \in Seq(Entries)
    BY <2>1, <2>8, ExceptSeq
  <2>. QED  BY <1>1, <1>3, <2>3, <2>5, <2>7, <2>9 DEF Lists!AddUnused
<1>. QED  BY <1>2, <1>3

\* One more unless it is in it: a list of the same.
LEMMA AddNewTyped ==
  ASSUME NEW D, NEW s \in Seq(D), NEW x \in D
  PROVE  Lists!AppendNew(s, x) \in Seq(D)
  BY AppendProperties DEF Lists!AppendNew

\* What a policy adds keeps lists of entries.
LEMMA AddUseTyped ==
  ASSUME NEW acc \in Seq(Entries), NEW b \in 1..BeaconsCount, NEW p \in CredPolicies
  PROVE  Lists!AddUse(b, acc, p) \in Seq(Entries)
<1>1. PICK i, D, x, y : i = Lists!Entry(p.cred, acc) /\ D = 1..BeaconsCount /\ x = b /\ y = <<b, p.id>>
  OBVIOUS
<1>2. p.cred \in Lists!Names /\ y \in Uses
  BY <1>1 DEF Lists!Names, Uses
<1>3. CASE i = 0
  <2>1. <<y>> \in Seq(Uses) /\ <<b>> \in Seq(1..BeaconsCount)
    BY <1>2
  <2>2. PICK e : e = [name |-> p.cred, policies |-> <<y>>, clusters |-> <<b>>]
    OBVIOUS
  <2>3. e \in Entries
    BY <1>2, <2>1, <2>2 DEF Entries
  <2>4. Append(acc, e) \in Seq(Entries)
    BY <2>3, AppendProperties
  <2>. QED  BY <1>1, <1>3, <2>2, <2>4 DEF Lists!AddUse
<1>4. CASE i # 0
  <2>1. i \in 1..Len(acc)
    BY <1>1, <1>4, EntryIs
  <2>2. acc[i] \in Entries
    BY <2>1, ElementOfSeq
  <2>3. PICK s, t : s = acc[i].clusters /\ t = acc[i].policies
    OBVIOUS
  <2>4. s \in Seq(D) /\ x \in D /\ t \in Seq(Uses)
    BY <1>1, <2>2, <2>3, EntryParts
  <2>5. PICK d, q : d = Lists!AppendNew(s, x) /\ q = Lists!AppendNew(t, y)
    OBVIOUS
  <2>6. d \in Seq(D) /\ q \in Seq(Uses)
    BY <1>2, <2>4, <2>5, AddNewTyped
  <2>7. PICK e : e = [acc[i] EXCEPT !.clusters = d, !.policies = q]
    OBVIOUS
  <2>8. e \in Entries
    <3>1. e = [name |-> acc[i].name, policies |-> q, clusters |-> d]
      BY <2>2, <2>7, EntryParts
    <3>. QED  BY <1>1, <2>2, <2>6, <3>1, EntryParts
  <2>9. [acc EXCEPT ![i] = e] \in Seq(Entries)
    BY <2>1, <2>8, ExceptSeq
  <2>10. Lists!AddUse(b, acc, p) = acc \/ Lists!AddUse(b, acc, p) = [acc EXCEPT ![i].clusters = d, ![i].policies = q]
    BY <1>1, <1>4, <2>3, <2>5 DEF Lists!AddUse
  <2>11. [acc EXCEPT ![i].clusters = d, ![i].policies = q] = [acc EXCEPT ![i] = e]
    BY <2>1, <2>7
  <2>. QED  BY <2>9, <2>10, <2>11
<1>. QED  BY <1>3, <1>4

\* What H says with b for the credentials S, and what U says with the policies S of b.
WithCluster(H, b, S) == [c \in Lists!Names |-> IF c \in S THEN H[c] \cup {b} ELSE H[c]]
UsedOf(b, S, c) == {<<b, p.id>> : p \in {p \in S : p.cred = c /\ c \in credsAt[b]}}
WithUses(U, b, S) == [c \in Lists!Names |-> U[c] \cup UsedOf(b, S, c)]
Used(b, S) == {p.cred : p \in {p \in S : p.cred \in credsAt[b]}}

\* The first of a list, and that after them.
FirstOf(list, i) == {list[k] : k \in 1..i}

\* One more of the list.
LEMMA FirstOfMore ==
  ASSUME NEW n \in Nat, NEW i \in 1..n, NEW list
  PROVE  FirstOf(list, i) = FirstOf(list, i - 1) \cup {list[i]} /\ FirstOf(list, 0) = {}
<1>1. 1..0 = {} /\ i \in 1..i /\ \A k \in 1..i : k = i \/ k \in 1..i - 1
  OBVIOUS
<1>2. \A k \in 1..i - 1 : k \in 1..i
  OBVIOUS
<1>. QED  BY <1>1, <1>2 DEF FirstOf

\* What is collected, only as H and U are on names.
LEMMA SameCollected ==
  ASSUME NEW acc, NEW H, NEW U, Collected(acc, H, U),
         NEW I, NEW V, \A c \in Lists!Names : I[c] = H[c], \A c \in Lists!Names : V[c] = U[c]
  PROVE  Collected(acc, I, V)
<1>1. \A k \in 1..Len(acc) : acc[k].name \in Lists!Names
  <2>1. \A x \in Entries : x.name \in Lists!Names
    BY DEF Entries
  <2>. QED  BY <2>1, ElementOfSeq DEF Collected
<1>. QED  BY <1>1 DEF Collected

\* Unused credentials of b, one after the other.
UnusedSteps(F, acc, b, list) ==
  F[0] = acc /\ \A i \in 1..Len(list) : F[i] = Lists!AddUnused(b, F[i - 1], list[i])
UseSteps(F, acc, b, list) ==
  F[0] = acc /\ \A i \in 1..Len(list) : F[i] = Lists!AddUse(b, F[i - 1], list[i])

\* All credentials that b has and no policy uses.
LEMMA UnusedCollected ==
  ASSUME NEW acc, NEW H, NEW U, Collected(acc, H, U), NEW b \in 1..BeaconsCount,
         NEW S, S \subseteq Lists!Names,
         NEW list \in Seq(S), Once(list, S), \A c \in Lists!Names : b \notin H[c],
         NEW F, UnusedSteps(F, acc, b, list)
  PROVE  Collected(F[Len(list)], WithCluster(H, b, S), U)
<1>1. PICK n \in Nat : n = Len(list)
  OBVIOUS
<1>2. F[0] = acc /\ \A i \in 1..n : F[i] = Lists!AddUnused(b, F[i - 1], list[i])
  BY <1>1 DEF UnusedSteps
<1>3. \A i \in 1..n : list[i] \in S /\ list[i] \in Lists!Names
  BY <1>1
<1>4. \A i \in 1..n : list[i] \notin FirstOf(list, i - 1)
  <2>1. ASSUME NEW i \in 1..n, list[i] \in FirstOf(list, i - 1)
        PROVE  FALSE
    <3>1. PICK k \in 1..i - 1 : list[i] = list[k]
      BY <2>1 DEF FirstOf
    <3>2. k \in 1..n /\ k # i
      OBVIOUS
    <3>. QED  BY <1>1, <3>1, <3>2 DEF Once
  <2>. QED  BY <2>1
<1>. DEFINE Good == {i \in 0..n : Collected(F[i], WithCluster(H, b, FirstOf(list, i)), U)}
<1>5. 0 \in Good
  <2>1. FirstOf(list, 0) = {}
    BY DEF FirstOf
  <2>2. PICK I : I = WithCluster(H, b, {})
    OBVIOUS
  <2>3. \A c \in Lists!Names : I[c] = H[c]
    BY <2>2 DEF WithCluster
  <2>4. Collected(acc, I, U)
    <3>1. \A c \in Lists!Names : U[c] = U[c]
      OBVIOUS
    <3>. QED  BY <2>3, <3>1, SameCollected
  <2>5. Collected(F[0], WithCluster(H, b, FirstOf(list, 0)), U)
    BY <1>2, <2>1, <2>2, <2>4
  <2>6. 0 \in 0..n
    OBVIOUS
  <2>. QED  BY <2>5, <2>6
<1>6. ASSUME NEW i \in 1..n, i - 1 \in Good
      PROVE  i \in Good
  <2>1. PICK I, J : I = WithCluster(H, b, FirstOf(list, i - 1)) /\ J = WithCluster(H, b, FirstOf(list, i))
    OBVIOUS
  <2>2. Collected(F[i - 1], I, U)
    BY <1>6, <2>1
  <2>3. PICK c \in Lists!Names : c = list[i]
    BY <1>3
  <2>4. b \notin I[c]
    BY <1>4, <2>1, <2>3 DEF WithCluster
  <2>5. FirstOf(list, i) = FirstOf(list, i - 1) \cup {c}
    BY <2>3, FirstOfMore
  <2>6. Gains(J, I, c, b)
    BY <2>1, <2>5 DEF Gains, WithCluster
  <2>7. F[i] = Lists!AddUnused(b, F[i - 1], c)
    BY <1>2, <2>3
  <2>8. Collected(F[i], J, U)
    BY <2>2, <2>4, <2>6, <2>7, AddUnusedKeeps
  <2>. QED  BY <2>1, <2>8
<1>. HIDE DEF Good
<1>7. n \in Good
  <2>1. \A i \in 1..n : i - 1 \in Good => i \in Good
    BY <1>6
  <2>2. \A i \in 0..n : i \in Good
    BY <1>5, <2>1, UpTo
  <2>. QED  BY <2>2
<1>8. FirstOf(list, n) = S
  BY <1>1 DEF FirstOf, Once
<1>. QED  BY <1>1, <1>7, <1>8 DEF Good

\* Policies of b with the credentials they use, one after the other.
LEMMA UsesCollected ==
  ASSUME NEW acc, NEW H, NEW U, Collected(acc, H, U), NEW b \in 1..BeaconsCount,
         NEW S, S \subseteq CredPolicies,
         NEW list \in Seq(S), Once(list, S), NEW F, UseSteps(F, acc, b, list)
  PROVE  Collected(F[Len(list)], WithCluster(H, b, Used(b, S)), WithUses(U, b, S))
<1>1. PICK n \in Nat : n = Len(list)
  OBVIOUS
<1>2. F[0] = acc /\ \A i \in 1..n : F[i] = Lists!AddUse(b, F[i - 1], list[i])
  BY <1>1 DEF UseSteps
<1>3. \A i \in 1..n : list[i] \in S /\ list[i] \in CredPolicies
  BY <1>1
<1>. DEFINE Good == {i \in 0..n : Collected(F[i], WithCluster(H, b, Used(b, FirstOf(list, i))),
                                           WithUses(U, b, FirstOf(list, i)))}
<1>5. 0 \in Good
  <2>1. FirstOf(list, 0) = {} /\ Used(b, {}) = {}
    BY DEF FirstOf, Used
  <2>2. PICK I, V : I = WithCluster(H, b, {}) /\ V = WithUses(U, b, {})
    OBVIOUS
  <2>3. \A c \in Lists!Names : I[c] = H[c] /\ V[c] = U[c]
    BY <2>2 DEF WithCluster, WithUses, UsedOf
  <2>4. Collected(acc, I, V)
    BY <2>3, SameCollected
  <2>5. Collected(F[0], WithCluster(H, b, Used(b, FirstOf(list, 0))), WithUses(U, b, FirstOf(list, 0)))
    BY <1>2, <2>1, <2>2, <2>4
  <2>6. 0 \in 0..n
    OBVIOUS
  <2>. QED  BY <2>5, <2>6
<1>6. ASSUME NEW i \in 1..n, i - 1 \in Good
      PROVE  i \in Good
  <2>1. PICK T, T2 : T = FirstOf(list, i - 1) /\ T2 = FirstOf(list, i)
    OBVIOUS
  <2>2. PICK I, J : I = WithCluster(H, b, Used(b, T)) /\ J = WithCluster(H, b, Used(b, T2))
    OBVIOUS
  <2>3. PICK V, W : V = WithUses(U, b, T) /\ W = WithUses(U, b, T2)
    OBVIOUS
  <2>4. Collected(F[i - 1], I, V)
    BY <1>6, <2>1, <2>2, <2>3
  <2>5. PICK p \in CredPolicies : p = list[i]
    BY <1>3
  <2>6. T2 = T \cup {p}
    BY <2>1, <2>5, FirstOfMore
  <2>7. F[i] = Lists!AddUse(b, F[i - 1], p)
    BY <1>2, <2>5
  <2>8. Collected(F[i], J, W)
    <3>1. CASE p.cred \notin credsAt[b]
      <4>1. F[i] = F[i - 1]
        BY <2>7, <3>1 DEF Lists!AddUse
      <4>2. Used(b, T2) = Used(b, T)
        BY <2>6, <3>1 DEF Used
      <4>3. \A c : UsedOf(b, T2, c) = UsedOf(b, T, c)
        BY <2>6, <3>1 DEF UsedOf
      <4>4. W = V
        BY <2>3, <4>3 DEF WithUses
      <4>. QED  BY <2>2, <2>4, <4>1, <4>2, <4>4
    <3>2. CASE p.cred \in credsAt[b]
      <4>1. Used(b, T2) = Used(b, T) \cup {p.cred}
        BY <2>6, <3>2 DEF Used
      <4>2. Gains(J, I, p.cred, b)
        BY <2>2, <4>1 DEF Gains, WithCluster
      <4>3. \A c : UsedOf(b, T2, c) = IF c = p.cred THEN UsedOf(b, T, c) \cup {<<b, p.id>>} ELSE UsedOf(b, T, c)
        BY <2>6, <3>2 DEF UsedOf
      <4>4. Gains(W, V, p.cred, <<b, p.id>>)
        <5>1. \A c \in Lists!Names : W[c] = U[c] \cup UsedOf(b, T2, c) /\ V[c] = U[c] \cup UsedOf(b, T, c)
          BY <2>3 DEF WithUses
        <5>. QED  BY <4>3, <5>1 DEF Gains
      <4>. QED  BY <2>4, <2>7, <3>2, <4>2, <4>4, AddUseKeeps
    <3>. QED  BY <3>1, <3>2
  <2>. QED  BY <2>1, <2>2, <2>3, <2>8
<1>. HIDE DEF Good
<1>7. n \in Good
  <2>1. \A i \in 1..n : i - 1 \in Good => i \in Good
    BY <1>6
  <2>2. \A i \in 0..n : i \in Good
    BY <1>5, <2>1, UpTo
  <2>. QED  BY <2>2
<1>8. FirstOf(list, n) = S
  BY <1>1 DEF FirstOf, Once
<1>. QED  BY <1>1, <1>7, <1>8 DEF Good

\* What is made of a list, one of its elements after the other.
IsUnused(g, acc, b, list) ==
  g = [i \in 0..Len(list) |-> IF i = 0 THEN acc ELSE Lists!AddUnused(b, g[i - 1], list[i])]
IsUse(g, acc, b, list) ==
  g = [i \in 0..Len(list) |-> IF i = 0 THEN acc ELSE Lists!AddUse(b, g[i - 1], list[i])]

\* The fold over credentials goes on step by step.
LEMMA AfterUnused ==
  ASSUME NEW acc \in Seq(Entries), NEW b \in 1..BeaconsCount, NEW list \in Seq(Lists!Names),
         NEW F, F = CHOOSE g : IsUnused(g, acc, b, list)
  PROVE  UnusedSteps(F, acc, b, list)
<1>1. PICK n \in Nat : n = Len(list)
  OBVIOUS
<1>2. \A i \in 1..n : list[i] \in Lists!Names
  BY <1>1
<1>. DEFINE step == [i \in 1..n |-> [s \in Seq(Entries) |-> Lists!AddUnused(b, s, list[i])]]
            Made(g) == \A i \in 0..n : g[i] = IF i = 0 THEN acc ELSE Lists!AddUnused(b, g[i - 1], list[i])
<1>3. step \in [1..n -> [Seq(Entries) -> Seq(Entries)]]
  <2>1. \A i \in 1..n : \A s \in Seq(Entries) : Lists!AddUnused(b, s, list[i]) \in Seq(Entries)
    BY <1>2, AddUnusedTyped
  <2>. QED  BY <2>1
<1>4. \A i \in 1..n : \A s \in Seq(Entries) : step[i][s] = Lists!AddUnused(b, s, list[i])
  OBVIOUS
<1>5. \A f : f \in [0..n -> Seq(Entries)] => f = [i \in 0..n |-> f[i]]
  OBVIOUS
<1>6. /\ 0 \notin 1..n /\ 0 \in 0..n /\ \A i \in 0..n : i = 0 \/ i \in 1..n
      /\ \A i \in 1..n : i - 1 \in 0..n /\ i \in 0..n /\ i # 0
  OBVIOUS
<1>. HIDE DEF step
<1>7. \E g : IsUnused(g, acc, b, list)
  <2>1. PICK f \in [0..n -> Seq(Entries)] : StepsOf(f, acc, step, n)
    BY <1>3, StepByStep
  <2>2. \A i \in 1..n : f[i] = Lists!AddUnused(b, f[i - 1], list[i])
    BY <1>4, <1>6, <2>1 DEF StepsOf
  <2>3. \A i \in 0..n : f[i] = IF i = 0 THEN acc ELSE Lists!AddUnused(b, f[i - 1], list[i])
    BY <1>6, <2>1, <2>2 DEF StepsOf
  <2>4. [i \in 0..n |-> f[i]] = [i \in 0..n |-> IF i = 0 THEN acc ELSE Lists!AddUnused(b, f[i - 1], list[i])]
    BY <2>3
  <2>5. f = [i \in 0..Len(list) |-> IF i = 0 THEN acc ELSE Lists!AddUnused(b, f[i - 1], list[i])]
    BY <1>1, <1>5, <2>1, <2>4
  <2>. QED  BY <2>5 DEF IsUnused
<1>8. IsUnused(F, acc, b, list)
  BY <1>7, Zenon
<1>9. Made(F)
  BY <1>1, <1>8 DEF IsUnused
<1>10. F[0] = acc /\ \A i \in 1..n : F[i] = Lists!AddUnused(b, F[i - 1], list[i])
  BY <1>6, <1>9
<1>. QED  BY <1>1, <1>10 DEF UnusedSteps

\* The fold over policies goes on step by step.
LEMMA AfterUses ==
  ASSUME NEW acc \in Seq(Entries), NEW b \in 1..BeaconsCount, NEW list \in Seq(CredPolicies),
         NEW F, F = CHOOSE g : IsUse(g, acc, b, list)
  PROVE  UseSteps(F, acc, b, list)
<1>1. PICK n \in Nat : n = Len(list)
  OBVIOUS
<1>2. \A i \in 1..n : list[i] \in CredPolicies
  BY <1>1
<1>. DEFINE step == [i \in 1..n |-> [s \in Seq(Entries) |-> Lists!AddUse(b, s, list[i])]]
            Made(g) == \A i \in 0..n : g[i] = IF i = 0 THEN acc ELSE Lists!AddUse(b, g[i - 1], list[i])
<1>3. step \in [1..n -> [Seq(Entries) -> Seq(Entries)]]
  <2>1. \A i \in 1..n : \A s \in Seq(Entries) : Lists!AddUse(b, s, list[i]) \in Seq(Entries)
    BY <1>2, AddUseTyped
  <2>. QED  BY <2>1
<1>4. \A i \in 1..n : \A s \in Seq(Entries) : step[i][s] = Lists!AddUse(b, s, list[i])
  OBVIOUS
<1>5. \A f : f \in [0..n -> Seq(Entries)] => f = [i \in 0..n |-> f[i]]
  OBVIOUS
<1>6. /\ 0 \notin 1..n /\ 0 \in 0..n /\ \A i \in 0..n : i = 0 \/ i \in 1..n
      /\ \A i \in 1..n : i - 1 \in 0..n /\ i \in 0..n /\ i # 0
  OBVIOUS
<1>. HIDE DEF step
<1>7. \E g : IsUse(g, acc, b, list)
  <2>1. PICK f \in [0..n -> Seq(Entries)] : StepsOf(f, acc, step, n)
    BY <1>3, StepByStep
  <2>2. \A i \in 1..n : f[i] = Lists!AddUse(b, f[i - 1], list[i])
    BY <1>4, <1>6, <2>1 DEF StepsOf
  <2>3. \A i \in 0..n : f[i] = IF i = 0 THEN acc ELSE Lists!AddUse(b, f[i - 1], list[i])
    BY <1>6, <2>1, <2>2 DEF StepsOf
  <2>4. [i \in 0..n |-> f[i]] = [i \in 0..n |-> IF i = 0 THEN acc ELSE Lists!AddUse(b, f[i - 1], list[i])]
    BY <2>3
  <2>5. f = [i \in 0..Len(list) |-> IF i = 0 THEN acc ELSE Lists!AddUse(b, f[i - 1], list[i])]
    BY <1>1, <1>5, <2>1, <2>4
  <2>. QED  BY <2>5 DEF IsUse
<1>8. IsUse(F, acc, b, list)
  BY <1>7, Zenon
<1>9. Made(F)
  BY <1>1, <1>8 DEF IsUse
<1>10. F[0] = acc /\ \A i \in 1..n : F[i] = Lists!AddUse(b, F[i - 1], list[i])
  BY <1>6, <1>9
<1>. QED  BY <1>1, <1>10 DEF UseSteps

\* Credentials are finitely many, those of accounts among them.
LEMMA NamesAre == IsFiniteSet(Lists!Names) /\ Accounts \subseteq Lists!Names
<1>. DEFINE f == [p \in CredPolicies |-> p.cred]
            T == {p.cred : p \in CredPolicies}
<1>1. f \in Surjection(CredPolicies, T)
  BY DEF Surjection
<1>2. IsFiniteSet(T)
  BY <1>1, ListFacts, FS_Surjection
<1>3. IsFiniteSet(T \cup Accounts)
  BY <1>2, ListFacts, FS_Union
<1>. QED  BY <1>3 DEF Lists!Names

\* What a Beacon that answered adds: itself to each of its credentials, and those of its
\* policies that use one it has.
LEMMA AddClusterKeeps ==
  ASSUME NEW acc, NEW H, NEW U, Collected(acc, H, U), NEW b \in 1..BeaconsCount,
         credsAt[b] \subseteq Lists!Names, usesAt[b] \subseteq CredPolicies, \A c \in Lists!Names : b \notin H[c],
         NEW u, u = Lists!AddCluster(acc, b)
  PROVE  Collected(u, WithCluster(H, b, credsAt[b]), WithUses(U, b, usesAt[b]))
<1>1. PICK S, T : S = Lists!WithoutPolicies(b) /\ T = usesAt[b]
  OBVIOUS
<1>2. S \subseteq credsAt[b] /\ S \subseteq Lists!Names /\ T \subseteq CredPolicies
  BY <1>1 DEF Lists!WithoutPolicies
<1>3. IsFiniteSet(S) /\ IsFiniteSet(T)
  <2>1. IsFiniteSet(Lists!Names)
    BY NamesAre
  <2>. QED  BY <1>2, <2>1, ListFacts, FS_Subset
<1>4. PICK creds_ : creds_ = Lists!SetToSeq(S)
  OBVIOUS
<1>5. PICK uses_ : uses_ = Lists!SetToSeq(T)
  OBVIOUS
<1>6. creds_ \in Seq(S) /\ Once(creds_, S) /\ uses_ \in Seq(T) /\ Once(uses_, T)
  BY <1>3, <1>4, <1>5, SetToSeqIs
<1>7. creds_ \in Seq(Lists!Names) /\ uses_ \in Seq(CredPolicies)
  BY <1>2, <1>6, SeqMonotonic
<1>8. PICK F : F = CHOOSE g : IsUnused(g, acc, b, creds_)
  OBVIOUS
<1>9. PICK mid : mid = F[Len(creds_)]
  OBVIOUS
<1>10. PICK G : G = CHOOSE g : IsUse(g, mid, b, uses_)
  OBVIOUS
<1>11. u = G[Len(uses_)]
  BY <1>1, <1>4, <1>5, <1>8, <1>9, <1>10 DEF Lists!AddCluster, IsUnused, IsUse
<1>12. PICK I : I = WithCluster(H, b, S)
  OBVIOUS
<1>13. Collected(mid, I, U)
  <2>1. acc \in Seq(Entries)
    BY DEF Collected
  <2>2. UnusedSteps(F, acc, b, creds_)
    BY <1>7, <1>8, <2>1, AfterUnused
  <2>. QED  BY <1>2, <1>6, <1>9, <1>12, <2>2, UnusedCollected
<1>14. Collected(u, WithCluster(I, b, Used(b, T)), WithUses(U, b, T))
  <2>1. mid \in Seq(Entries)
    BY <1>13 DEF Collected
  <2>2. UseSteps(G, mid, b, uses_)
    BY <1>7, <1>10, <2>1, AfterUses
  <2>. QED  BY <1>2, <1>6, <1>11, <1>13, <2>2, UsesCollected
<1>15. WithCluster(I, b, Used(b, T)) = WithCluster(H, b, credsAt[b])
  <2>1. \A c : c \in credsAt[b] <=> c \in S \/ c \in Used(b, T)
    BY <1>1 DEF Lists!WithoutPolicies, Used
  <2>2. \A c \in Lists!Names : WithCluster(I, b, Used(b, T))[c] = WithCluster(H, b, credsAt[b])[c]
    BY <1>12, <2>1 DEF WithCluster
  <2>. QED  BY <2>2 DEF WithCluster
<1>. QED  BY <1>1, <1>14, <1>15

\* Lists of entries stay lists of entries.
LEMMA UnusedTyped ==
  ASSUME NEW acc \in Seq(Entries), NEW b \in 1..BeaconsCount, NEW list \in Seq(Lists!Names),
         NEW F, UnusedSteps(F, acc, b, list)
  PROVE  F[Len(list)] \in Seq(Entries)
<1>1. PICK n \in Nat : n = Len(list)
  OBVIOUS
<1>2. F[0] = acc /\ \A i \in 1..n : F[i] = Lists!AddUnused(b, F[i - 1], list[i]) /\ list[i] \in Lists!Names
  BY <1>1 DEF UnusedSteps
<1>. DEFINE Good == {i \in 0..n : F[i] \in Seq(Entries)}
<1>3. 0 \in Good
  BY <1>2
<1>6. ASSUME NEW i \in 1..n, i - 1 \in Good
      PROVE  i \in Good
  <2>1. F[i - 1] \in Seq(Entries) /\ i \in 0..n
    BY <1>6
  <2>2. F[i] \in Seq(Entries)
    BY <1>2, <2>1, AddUnusedTyped
  <2>. QED  BY <2>1, <2>2
<1>. HIDE DEF Good
<1>7. \A i \in 1..n : i - 1 \in Good => i \in Good
  BY <1>6
<1>4. \A i \in 0..n : i \in Good
  BY <1>3, <1>7, UpTo
<1>5. n \in 0..n
  OBVIOUS
<1>. QED  BY <1>1, <1>4, <1>5 DEF Good

\* Lists of entries stay lists of entries.
LEMMA UsesTyped ==
  ASSUME NEW acc \in Seq(Entries), NEW b \in 1..BeaconsCount, NEW list \in Seq(CredPolicies),
         NEW F, UseSteps(F, acc, b, list)
  PROVE  F[Len(list)] \in Seq(Entries)
<1>1. PICK n \in Nat : n = Len(list)
  OBVIOUS
<1>2. F[0] = acc /\ \A i \in 1..n : F[i] = Lists!AddUse(b, F[i - 1], list[i]) /\ list[i] \in CredPolicies
  BY <1>1 DEF UseSteps
<1>. DEFINE Good == {i \in 0..n : F[i] \in Seq(Entries)}
<1>3. 0 \in Good
  BY <1>2
<1>6. ASSUME NEW i \in 1..n, i - 1 \in Good
      PROVE  i \in Good
  <2>1. F[i - 1] \in Seq(Entries) /\ i \in 0..n
    BY <1>6
  <2>2. F[i] \in Seq(Entries)
    BY <1>2, <2>1, AddUseTyped
  <2>. QED  BY <2>1, <2>2
<1>. HIDE DEF Good
<1>7. \A i \in 1..n : i - 1 \in Good => i \in Good
  BY <1>6
<1>4. \A i \in 0..n : i \in Good
  BY <1>3, <1>7, UpTo
<1>5. n \in 0..n
  OBVIOUS
<1>. QED  BY <1>1, <1>4, <1>5 DEF Good

\* What a Beacon adds keeps lists of entries.
LEMMA AddClusterTyped ==
  ASSUME NEW acc \in Seq(Entries), NEW b \in 1..BeaconsCount,
         credsAt[b] \subseteq Lists!Names, usesAt[b] \subseteq CredPolicies
  PROVE  Lists!AddCluster(acc, b) \in Seq(Entries)
<1>1. PICK S, T : S = Lists!WithoutPolicies(b) /\ T = usesAt[b]
  OBVIOUS
<1>2. S \subseteq Lists!Names /\ T \subseteq CredPolicies
  BY <1>1 DEF Lists!WithoutPolicies
<1>3. IsFiniteSet(S) /\ IsFiniteSet(T)
  BY <1>2, NamesAre, ListFacts, FS_Subset
<1>4. PICK creds_ : creds_ = Lists!SetToSeq(S)
  OBVIOUS
<1>5. PICK uses_ : uses_ = Lists!SetToSeq(T)
  OBVIOUS
<1>6. creds_ \in Seq(Lists!Names) /\ uses_ \in Seq(CredPolicies)
  <2>1. creds_ \in Seq(S) /\ uses_ \in Seq(T)
    BY <1>3, <1>4, <1>5, SetToSeqIs
  <2>. QED  BY <1>2, <2>1, SeqMonotonic
<1>8. PICK F : F = CHOOSE g : IsUnused(g, acc, b, creds_)
  OBVIOUS
<1>9. PICK mid : mid = F[Len(creds_)]
  OBVIOUS
<1>10. PICK G : G = CHOOSE g : IsUse(g, mid, b, uses_)
  OBVIOUS
<1>11. Lists!AddCluster(acc, b) = G[Len(uses_)]
  BY <1>1, <1>4, <1>5, <1>8, <1>9, <1>10 DEF Lists!AddCluster, IsUnused, IsUse
<1>12. mid \in Seq(Entries)
  BY <1>6, <1>8, <1>9, AfterUnused, UnusedTyped
<1>. QED  BY <1>6, <1>10, <1>11, <1>12, AfterUses, UsesTyped

KnownSteps(K) ==
  /\ K[0] = <<>>
  /\ \A b \in 1..BeaconsCount : K[b] = IF b \in Lists!Answering THEN Lists!AddCluster(K[b - 1], b) ELSE K[b - 1]

\* What Beacons know is collected of one after the other, and those that did not answer
\* add nothing.
LEMMA KnownMade ==
  ASSUME \A b \in 1..BeaconsCount : credsAt[b] \subseteq Lists!Names /\ usesAt[b] \subseteq CredPolicies
  PROVE  KnownSteps(Lists!Known)
<1>1. PICK n \in Nat : n = BeaconsCount
  BY ListFacts
<1>. DEFINE step == [b \in 1..n |-> [s \in Seq(Entries) |->
                       IF b \in Lists!Answering THEN Lists!AddCluster(s, b) ELSE s]]
            Is(g) == g = [b \in 0..n |-> IF b = 0 THEN <<>>
                            ELSE IF b \in Lists!Answering THEN Lists!AddCluster(g[b - 1], b) ELSE g[b - 1]]
            Made(g) == \A b \in 0..n : g[b] = IF b = 0 THEN <<>>
                            ELSE IF b \in Lists!Answering THEN Lists!AddCluster(g[b - 1], b) ELSE g[b - 1]
<1>2. step \in [1..n -> [Seq(Entries) -> Seq(Entries)]]
  <2>1. \A b \in 1..n : \A s \in Seq(Entries) :
          (IF b \in Lists!Answering THEN Lists!AddCluster(s, b) ELSE s) \in Seq(Entries)
    BY <1>1, AddClusterTyped
  <2>. QED  BY <2>1
<1>3. \A b \in 1..n : \A s \in Seq(Entries) :
         step[b][s] = IF b \in Lists!Answering THEN Lists!AddCluster(s, b) ELSE s
  OBVIOUS
<1>4. \A f : f \in [0..n -> Seq(Entries)] => f = [b \in 0..n |-> f[b]]
  OBVIOUS
<1>5. /\ 0 \notin 1..n /\ 0 \in 0..n /\ \A b \in 0..n : b = 0 \/ b \in 1..n
      /\ \A b \in 1..n : b - 1 \in 0..n /\ b \in 0..n /\ b # 0
  OBVIOUS
<1>. HIDE DEF step
<1>6. \E g : Is(g)
  <2>0. <<>> \in Seq(Entries)
    BY EmptySeq
  <2>1. PICK f \in [0..n -> Seq(Entries)] : StepsOf(f, <<>>, step, n)
    BY <1>2, <2>0, StepByStep
  <2>2. \A b \in 1..n : f[b] = IF b \in Lists!Answering THEN Lists!AddCluster(f[b - 1], b) ELSE f[b - 1]
    BY <1>3, <1>5, <2>1 DEF StepsOf
  <2>3. Made(f)
    BY <1>5, <2>1, <2>2 DEF StepsOf
  <2>4. [b \in 0..n |-> f[b]] = [b \in 0..n |-> IF b = 0 THEN <<>>
                            ELSE IF b \in Lists!Answering THEN Lists!AddCluster(f[b - 1], b) ELSE f[b - 1]]
    BY <2>3
  <2>5. Is(f)
    BY <1>4, <2>1, <2>4
  <2>. QED  BY <2>5
<1>7. Lists!Known = CHOOSE g : Is(g)
  BY <1>1 DEF Lists!Known
<1>8. Is(Lists!Known)
  <2>. HIDE DEF Is
  <2>. QED  BY <1>6, <1>7, Zenon
<1>9. PICK K : K = Lists!Known
  OBVIOUS
<1>10. \A g : Is(g) => Made(g)
  OBVIOUS
<1>11. Made(K)
  <2>. HIDE DEF Is, Made
  <2>. QED  BY <1>8, <1>9, <1>10
<1>12. K[0] = <<>> /\ \A b \in 1..n : K[b] = IF b \in Lists!Answering THEN Lists!AddCluster(K[b - 1], b) ELSE K[b - 1]
  BY <1>5, <1>11
<1>. QED  BY <1>1, <1>9, <1>12 DEF KnownSteps

\* The first m Beacons that answered and have a credential, and what uses it there.
HavingTo(m) == [c \in Lists!Names |-> {d \in 1..m : d \in Lists!Answering /\ c \in credsAt[d]}]
UsingTo(m) == [c \in Lists!Names |-> UNION {UsedOf(d, usesAt[d], c) : d \in {d \in 1..m : d \in Lists!Answering}}]

\* What all Beacons that answered know, each credential once.
LEMMA KnownCollected ==
  ASSUME \A b \in 1..BeaconsCount : credsAt[b] \subseteq Lists!Names /\ usesAt[b] \subseteq CredPolicies
  PROVE  Collected(Lists!Known[BeaconsCount], HavingTo(BeaconsCount), UsingTo(BeaconsCount))
<1>1. PICK n \in Nat : n = BeaconsCount
  BY ListFacts
<1>2. PICK K : K = Lists!Known
  OBVIOUS
<1>3. K[0] = <<>> /\ \A b \in 1..n : K[b] = IF b \in Lists!Answering THEN Lists!AddCluster(K[b - 1], b) ELSE K[b - 1]
  BY <1>1, <1>2, KnownMade DEF KnownSteps
<1>. DEFINE Good == {m \in 0..n : Collected(K[m], HavingTo(m), UsingTo(m))}
<1>4. 0 \in Good
  <2>1. PICK H, U : H = HavingTo(0) /\ U = UsingTo(0)
    OBVIOUS
  <2>2. \A c \in Lists!Names : H[c] = {} /\ U[c] = {}
    <3>1. 1..0 = {}
      OBVIOUS
    <3>. QED  BY <2>1, <3>1 DEF HavingTo, UsingTo
  <2>3. Collected(<<>>, H, U)
    <3>1. <<>> \in Seq(Entries) /\ 1..Len(<<>>) = {}
      BY EmptySeq
    <3>. QED  BY <2>2, <3>1 DEF Collected
  <2>4. 0 \in 0..n
    OBVIOUS
  <2>. QED  BY <1>3, <2>1, <2>3, <2>4
<1>5. ASSUME NEW m \in 1..n, m - 1 \in Good
      PROVE  m \in Good
  <2>1. PICK H, U, I, V : H = HavingTo(m - 1) /\ U = UsingTo(m - 1) /\ I = HavingTo(m) /\ V = UsingTo(m)
    OBVIOUS
  <2>2. PICK acc : acc = K[m - 1]
    OBVIOUS
  <2>3. Collected(acc, H, U)
    BY <1>5, <2>1, <2>2
  <2>4. m \in 1..m /\ m \notin 1..m - 1 /\ \A d : d \in 1..m <=> d = m \/ d \in 1..m - 1
    OBVIOUS
  <2>5. /\ \A c \in Lists!Names : H[c] = {d \in 1..m - 1 : d \in Lists!Answering /\ c \in credsAt[d]}
        /\ \A c \in Lists!Names : I[c] = {d \in 1..m : d \in Lists!Answering /\ c \in credsAt[d]}
    BY <2>1 DEF HavingTo
  <2>6. /\ \A c \in Lists!Names : U[c] = UNION {UsedOf(d, usesAt[d], c) : d \in {d \in 1..m - 1 : d \in Lists!Answering}}
        /\ \A c \in Lists!Names : V[c] = UNION {UsedOf(d, usesAt[d], c) : d \in {d \in 1..m : d \in Lists!Answering}}
    BY <2>1 DEF UsingTo
  <2>7. CASE m \notin Lists!Answering
    <3>1. \A c \in Lists!Names : I[c] = H[c]
      <4>1. \A c : {d \in 1..m : d \in Lists!Answering /\ c \in credsAt[d]} =
                   {d \in 1..m - 1 : d \in Lists!Answering /\ c \in credsAt[d]}
        BY <2>4, <2>7
      <4>. QED  BY <2>5, <4>1
    <3>2. {d \in 1..m : d \in Lists!Answering} = {d \in 1..m - 1 : d \in Lists!Answering}
      BY <2>4, <2>7
    <3>3. \A c \in Lists!Names : V[c] = U[c]
      BY <2>6, <3>2
    <3>4. K[m] = acc
      BY <1>3, <2>2, <2>7
    <3>5. Collected(acc, I, V)
      BY <2>3, <3>1, <3>3, SameCollected
    <3>. QED  BY <2>1, <3>4, <3>5
  <2>8. CASE m \in Lists!Answering
    <3>1. \A c \in Lists!Names : m \notin H[c]
      BY <2>4, <2>5
    <3>2. K[m] = Lists!AddCluster(acc, m)
      BY <1>3, <2>2, <2>8
    <3>3. PICK J, W : J = WithCluster(H, m, credsAt[m]) /\ W = WithUses(U, m, usesAt[m])
      OBVIOUS
    <3>4. m \in 1..BeaconsCount
      BY <1>1
    <3>5. Collected(K[m], J, W)
      BY <2>3, <3>1, <3>2, <3>3, <3>4, AddClusterKeeps
    <3>6. \A c \in Lists!Names : I[c] = J[c]
      <4>1. \A c \in Lists!Names : J[c] = IF c \in credsAt[m] THEN H[c] \cup {m} ELSE H[c]
        BY <3>3 DEF WithCluster
      <4>2. ASSUME NEW c \in Lists!Names
            PROVE  I[c] = J[c]
        <5>1. CASE c \in credsAt[m]
          <6>1. {d \in 1..m : d \in Lists!Answering /\ c \in credsAt[d]} =
                  {d \in 1..m - 1 : d \in Lists!Answering /\ c \in credsAt[d]} \cup {m}
            BY <2>4, <2>8, <5>1
          <6>. QED  BY <2>5, <4>1, <5>1, <6>1
        <5>2. CASE c \notin credsAt[m]
          <6>1. {d \in 1..m : d \in Lists!Answering /\ c \in credsAt[d]} =
                  {d \in 1..m - 1 : d \in Lists!Answering /\ c \in credsAt[d]}
            BY <2>4, <5>2
          <6>. QED  BY <2>5, <4>1, <5>2, <6>1
        <5>. QED  BY <5>1, <5>2
      <4>. QED  BY <4>2
    <3>7. \A c \in Lists!Names : V[c] = W[c]
      <4>1. PICK A, B : A = {d \in 1..m : d \in Lists!Answering} /\ B = {d \in 1..m - 1 : d \in Lists!Answering}
        OBVIOUS
      <4>2. A = B \cup {m}
        BY <2>4, <2>8, <4>1
      <4>3. \A c \in Lists!Names : W[c] = U[c] \cup UsedOf(m, usesAt[m], c)
        BY <3>3 DEF WithUses
      <4>4. ASSUME NEW c \in Lists!Names
            PROVE  V[c] = W[c]
        <5>1. V[c] = UNION {UsedOf(d, usesAt[d], c) : d \in A} /\ U[c] = UNION {UsedOf(d, usesAt[d], c) : d \in B}
          BY <2>6, <4>1
        <5>2. UNION {UsedOf(d, usesAt[d], c) : d \in B \cup {m}} =
                (UNION {UsedOf(d, usesAt[d], c) : d \in B}) \cup UsedOf(m, usesAt[m], c)
          OBVIOUS
        <5>. QED  BY <4>2, <4>3, <5>1, <5>2
      <4>. QED  BY <4>4
    <3>8. Collected(K[m], I, V)
      BY <3>5, <3>6, <3>7, SameCollected
    <3>. QED  BY <2>1, <3>8
  <2>. QED  BY <2>7, <2>8
<1>. HIDE DEF Good
<1>6. n \in Good
  <2>1. \A m \in 1..n : m - 1 \in Good => m \in Good
    BY <1>5
  <2>2. \A m \in 0..n : m \in Good
    BY <1>4, <2>1, UpTo
  <2>. QED  BY <2>2
<1>. QED  BY <1>1, <1>2, <1>6 DEF Good

\* The clusters that have a credential, of those that answered, and what uses it there.
HavingOf(c) == {b \in Lists!Answering : c \in credsAt[b]}
UsingOf(c) == UNION {{<<b, p.id>> : p \in {p \in usesAt[b] : p.cred = c}} : b \in HavingOf(c)}
Sound(e) == e \in Entries /\ Once(e.clusters, HavingOf(e.name)) /\ Once(e.policies, UsingOf(e.name))

\* Each credential of a list is another one, is as it should be, and is one of these.
ListsCreds(list, S) ==
  /\ \A i \in 1..Len(list) : Sound(list[i]) /\ list[i].name \in S
  /\ \A i, j \in 1..Len(list) : list[i].name = list[j].name => i = j
  /\ \A c \in S : \E i \in 1..Len(list) : list[i].name = c

\* Credentials that Beacons know are in the list, and no others.
LEMMA KnownSound ==
  ASSUME ListInv, NEW K, K = Lists!Known[BeaconsCount]
  PROVE  K \in Seq(Entries) /\ ListsCreds(K, {c \in Lists!Names : HavingOf(c) # {}})
<1>1. \A b \in 1..BeaconsCount : credsAt[b] \subseteq Lists!Names /\ usesAt[b] \subseteq CredPolicies
  BY DEF ListInv
<1>2. PICK H, U : H = HavingTo(BeaconsCount) /\ U = UsingTo(BeaconsCount)
  OBVIOUS
<1>3. Collected(K, H, U)
  BY <1>1, <1>2, KnownCollected
<1>4. \A b : b \in Lists!Answering => b \in 1..BeaconsCount
  BY DEF Lists!Answering, Lists!BeaconIds
<1>5. \A c \in Lists!Names : H[c] = HavingOf(c)
  BY <1>2, <1>4 DEF HavingTo, HavingOf
<1>6. \A c \in Lists!Names : U[c] = UsingOf(c)
  <2>1. ASSUME NEW c \in Lists!Names
        PROVE  U[c] = UsingOf(c)
    <3>1. U[c] = UNION {UsedOf(d, usesAt[d], c) : d \in {d \in 1..BeaconsCount : d \in Lists!Answering}}
      BY <1>2 DEF UsingTo
    <3>2. \A x : x \in U[c] <=> \E d \in Lists!Answering : x \in UsedOf(d, usesAt[d], c)
      BY <1>4, <3>1
    <3>3. \A d, x : x \in UsedOf(d, usesAt[d], c) <=>
                      c \in credsAt[d] /\ x \in {<<d, p.id>> : p \in {p \in usesAt[d] : p.cred = c}}
      BY DEF UsedOf
    <3>4. \A x : x \in UsingOf(c) <=> \E d \in Lists!Answering :
                      c \in credsAt[d] /\ x \in {<<d, p.id>> : p \in {p \in usesAt[d] : p.cred = c}}
      BY DEF UsingOf, HavingOf
    <3>5. \A x : x \in U[c] <=> x \in UsingOf(c)
      BY <3>2, <3>3, <3>4
    <3>. QED  BY <3>1, <3>5 DEF UsingOf
  <2>. QED  BY <2>1
<1>7. K \in Seq(Entries) /\ \A i \in 1..Len(K) : K[i] \in Entries /\ K[i].name \in Lists!Names
  <2>1. \A x \in Entries : x.name \in Lists!Names
    BY DEF Entries
  <2>. QED  BY <1>3, <2>1, ElementOfSeq DEF Collected
<1>8. \A i \in 1..Len(K) : Sound(K[i]) /\ HavingOf(K[i].name) # {}
  BY <1>3, <1>5, <1>6, <1>7 DEF Collected, Sound
<1>9. \A i, j \in 1..Len(K) : K[i].name = K[j].name => i = j
  BY <1>3 DEF Collected
<1>10. \A c \in Lists!Names : HavingOf(c) # {} => \E i \in 1..Len(K) : K[i].name = c
  BY <1>3, <1>5 DEF Collected
<1>. QED  BY <1>7, <1>8, <1>9, <1>10 DEF ListsCreds

\* Accounts that no Beacon knows.
LEMMA OthersSound ==
  ASSUME NEW S, S \subseteq Lists!Names, IsFiniteSet(S), \A a \in S : HavingOf(a) = {},
         NEW O, O = [i \in 1..Cardinality(S) |->
                       [name |-> Lists!SetToSeq(S)[i], policies |-> <<>>, clusters |-> <<>>]]
  PROVE  O \in Seq(Entries) /\ ListsCreds(O, S)
<1>1. PICK s : s = Lists!SetToSeq(S)
  OBVIOUS
<1>2. s \in Seq(S) /\ Len(s) = Cardinality(S) /\ Once(s, S)
  BY <1>1, SetToSeqIs
<1>3. PICK n \in Nat : n = Cardinality(S)
  BY FS_CardinalityType
<1>4. O = [i \in 1..n |-> [name |-> s[i], policies |-> <<>>, clusters |-> <<>>]]
  BY <1>1, <1>3
<1>5. \A i \in 1..n : s[i] \in S /\ s[i] \in Lists!Names
  BY <1>2, <1>3
<1>6. PICK none : none = <<>> /\ none \in Seq(Uses) /\ none \in Seq(1..BeaconsCount)
  BY EmptySeq
<1>13. \A c \in Lists!Names : [name |-> c, policies |-> none, clusters |-> none] \in Entries
  BY <1>6 DEF Entries
<1>14. \A i \in 1..n : O[i] = [name |-> s[i], policies |-> none, clusters |-> none]
  BY <1>4, <1>6
<1>7. \A i \in 1..n : /\ O[i] \in Entries /\ O[i].name = s[i]
                      /\ O[i].policies = none /\ O[i].clusters = none
  <2>1. ASSUME NEW i \in 1..n
        PROVE  /\ O[i] \in Entries /\ O[i].name = s[i]
               /\ O[i].policies = none /\ O[i].clusters = none
    <3>1. PICK e : e = [name |-> s[i], policies |-> none, clusters |-> none]
      OBVIOUS
    <3>2. e \in Entries /\ e.name = s[i] /\ e.policies = none /\ e.clusters = none
      BY <1>5, <1>13, <3>1
    <3>3. O[i] = e
      BY <1>14, <3>1
    <3>. QED  BY <3>2, <3>3
  <2>. QED  BY <2>1
<1>8. O \in Seq(Entries) /\ Len(O) = n
  <2>1. PICK P : P = O
    OBVIOUS
  <2>2. P \in [1..n -> Entries]
    BY <1>4, <1>7, <2>1
  <2>3. P \in Seq(Entries) /\ Len(P) = n
    BY <2>2
  <2>. QED  BY <2>1, <2>3
<1>9. \A i \in 1..n : Sound(O[i])
  <2>1. ASSUME NEW i \in 1..n
        PROVE  Sound(O[i])
    <3>1. HavingOf(O[i].name) = {}
      BY <1>5, <1>7
    <3>2. UsingOf(O[i].name) = {}
      BY <3>1 DEF UsingOf
    <3>. QED  BY <1>6, <1>7, <3>1, <3>2, OnceFew DEF Sound
  <2>. QED  BY <2>1
<1>10. \A i, j \in 1..n : s[i] = s[j] => i = j
  BY <1>2, <1>3 DEF Once
<1>11. \A c \in S : \E i \in 1..n : s[i] = c
  BY <1>2, <1>3 DEF Once
<1>12. /\ \A i \in 1..Len(O) : Sound(O[i]) /\ O[i].name \in S
       /\ \A i, j \in 1..Len(O) : O[i].name = O[j].name => i = j
       /\ \A c \in S : \E i \in 1..Len(O) : O[i].name = c
  <2>1. \A i \in 1..n : O[i].name = s[i] /\ Sound(O[i]) /\ s[i] \in S
    BY <1>5, <1>7, <1>9
  <2>2. \A i \in 1..n : Sound(O[i]) /\ O[i].name \in S
    BY <2>1
  <2>3. ASSUME NEW i \in 1..n, NEW j \in 1..n, O[i].name = O[j].name
        PROVE  i = j
    <3>1. s[i] = s[j]
      BY <2>1, <2>3
    <3>. QED  BY <1>10, <3>1
  <2>4. \A c \in S : \E i \in 1..n : O[i].name = c
    BY <1>11, <2>1
  <2>. QED  BY <1>8, <2>2, <2>3, <2>4
<1>. QED  BY <1>8, <1>12 DEF ListsCreds

\* One list after another, of other credentials.
LEMMA BothSound ==
  ASSUME NEW K \in Seq(Entries), NEW S, ListsCreds(K, S), NEW O \in Seq(Entries),
         NEW T, ListsCreds(O, T),
         S \cap T = {}, NEW u, u = K \o O
  PROVE  u \in Seq(Entries) /\ ListsCreds(u, S \cup T)
<1>1. PICK m \in Nat, n \in Nat : m = Len(K) /\ n = Len(O)
  OBVIOUS
<1>2. /\ u \in Seq(Entries) /\ Len(u) = m + n
      /\ \A i \in 1..m + n : u[i] = IF i <= m THEN K[i] ELSE O[i - m]
  BY <1>1, ConcatProperties
<1>3. /\ \A i \in 1..m : Sound(K[i]) /\ K[i].name \in S
      /\ \A i, j \in 1..m : K[i].name = K[j].name => i = j
      /\ \A c \in S : \E i \in 1..m : K[i].name = c
  BY <1>1 DEF ListsCreds
<1>4. /\ \A i \in 1..n : Sound(O[i]) /\ O[i].name \in T
      /\ \A i, j \in 1..n : O[i].name = O[j].name => i = j
      /\ \A c \in T : \E i \in 1..n : O[i].name = c
  BY <1>1 DEF ListsCreds
<1>5. ASSUME NEW i \in 1..m + n
      PROVE  \/ i \in 1..m /\ u[i] = K[i]
             \/ i - m \in 1..n /\ ~(i <= m) /\ u[i] = O[i - m]
  BY <1>2
<1>6. \A i \in 1..m + n : Sound(u[i]) /\ u[i].name \in S \cup T
  <2>1. ASSUME NEW i \in 1..m + n
        PROVE  Sound(u[i]) /\ u[i].name \in S \cup T
    <3>1. CASE i \in 1..m /\ u[i] = K[i]
      BY <1>3, <3>1
    <3>2. CASE i - m \in 1..n /\ u[i] = O[i - m]
      BY <1>4, <3>2
    <3>. QED  BY <1>5, <3>1, <3>2
  <2>. QED  BY <2>1
<1>7. \A i, j \in 1..m + n : u[i].name = u[j].name => i = j
  <2>1. ASSUME NEW i \in 1..m + n, NEW j \in 1..m + n, u[i].name = u[j].name
        PROVE  i = j
    <3>1. CASE i \in 1..m /\ u[i] = K[i] /\ j \in 1..m /\ u[j] = K[j]
      BY <1>3, <2>1, <3>1
    <3>2. CASE i - m \in 1..n /\ u[i] = O[i - m] /\ j - m \in 1..n /\ u[j] = O[j - m]
      <4>1. i - m = j - m
        BY <1>4, <2>1, <3>2
      <4>. QED  BY <4>1
    <3>3. CASE i \in 1..m /\ u[i] = K[i] /\ j - m \in 1..n /\ u[j] = O[j - m]
      <4>1. u[i].name \in S
        BY <1>3, <3>3
      <4>2. u[j].name \in T
        BY <1>4, <3>3
      <4>. QED  BY <2>1, <4>1, <4>2
    <3>4. CASE i - m \in 1..n /\ u[i] = O[i - m] /\ j \in 1..m /\ u[j] = K[j]
      <4>1. u[i].name \in T
        BY <1>4, <3>4
      <4>2. u[j].name \in S
        BY <1>3, <3>4
      <4>. QED  BY <2>1, <4>1, <4>2
    <3>. QED  BY <1>5, <3>1, <3>2, <3>3, <3>4
  <2>. QED  BY <2>1
<1>8. ASSUME NEW c \in S \cup T
      PROVE  \E i \in 1..m + n : u[i].name = c
  <2>1. CASE c \in S
    <3>1. PICK i \in 1..m : K[i].name = c
      BY <1>3, <2>1
    <3>2. i \in 1..m + n /\ i <= m
      OBVIOUS
    <3>3. u[i] = K[i]
      BY <1>2, <3>2
    <3>. QED  BY <3>1, <3>2, <3>3
  <2>2. CASE c \in T
    <3>1. PICK i \in 1..n : O[i].name = c
      BY <1>4, <2>2
    <3>2. m + i \in 1..m + n /\ ~(m + i <= m) /\ m + i - m = i
      OBVIOUS
    <3>3. u[m + i] = O[i]
      BY <1>2, <3>2
    <3>. QED  BY <3>1, <3>2, <3>3
  <2>. QED  BY <2>1, <2>2
<1>9. \A c \in S \cup T : \E i \in 1..m + n : u[i].name = c
  BY <1>8
<1>. QED  BY <1>2, <1>6, <1>7, <1>9 DEF ListsCreds

\* The credentials that are answered.
LEMMA CredsSound ==
  ASSUME ListInv, NEW u, u = Lists!CredsWithPolicies
  PROVE  /\ u \in Seq(Entries)
         /\ ListsCreds(u, Accounts \cup UNION {credsAt[b] : b \in Lists!Answering})
<1>1. PICK K : K = Lists!Known[BeaconsCount]
  OBVIOUS
<1>2. PICK S : S = {c \in Lists!Names : HavingOf(c) # {}}
  OBVIOUS
<1>3. K \in Seq(Entries) /\ ListsCreds(K, S)
  BY <1>1, <1>2, KnownSound
<1>4. PICK T : T = {a \in Accounts : Lists!Entry(a, K) = 0}
  OBVIOUS
<1>5. \A a \in Accounts : Lists!Entry(a, K) = 0 <=> HavingOf(a) = {}
  <2>1. ASSUME NEW a \in Accounts
        PROVE  Lists!Entry(a, K) = 0 <=> HavingOf(a) = {}
    <3>1. PICK i : i = Lists!Entry(a, K)
      OBVIOUS
    <3>2. \/ i = 0 /\ Lacks(K, a)
          \/ i # 0 /\ i \in 1..Len(K) /\ K[i].name = a
      BY <1>3, <3>1, EntryIs
    <3>3. ASSUME Lacks(K, a), HavingOf(a) # {}
          PROVE  FALSE
      BY <1>2, <1>3, <3>3, NamesAre DEF Lacks, ListsCreds
    <3>4. ASSUME i \in 1..Len(K), K[i].name = a
          PROVE  HavingOf(a) # {}
      BY <1>2, <1>3, <3>4 DEF ListsCreds
    <3>. QED  BY <3>1, <3>2, <3>3, <3>4
  <2>. QED  BY <2>1
<1>6. T \subseteq Lists!Names /\ IsFiniteSet(T) /\ \A a \in T : HavingOf(a) = {}
  <2>1. T \in SUBSET Accounts
    BY <1>4
  <2>. QED  BY <1>4, <1>5, <2>1, NamesAre, ListFacts, FS_Subset
<1>7. PICK O : O = [i \in 1..Cardinality(T) |->
                      [name |-> Lists!SetToSeq(T)[i], policies |-> <<>>, clusters |-> <<>>]]
  OBVIOUS
<1>8. O \in Seq(Entries) /\ ListsCreds(O, T)
  BY <1>6, <1>7, OthersSound
<1>9. u = K \o O
  BY <1>1, <1>4, <1>7, SameOrders DEF Lists!CredsWithPolicies
<1>10. S \cap T = {}
  BY <1>2, <1>6
<1>11. S \cup T = Accounts \cup UNION {credsAt[b] : b \in Lists!Answering}
  <2>1. \A b \in Lists!Answering : credsAt[b] \subseteq Lists!Names
    BY DEF ListInv, Lists!Answering, Lists!BeaconIds
  <2>2. \A c : c \in S <=> \E b \in Lists!Answering : c \in credsAt[b]
    BY <1>2, <2>1 DEF HavingOf
  <2>3. \A a \in Accounts : a \in S \/ a \in T
    BY <1>2, <1>4, <1>5, NamesAre
  <2>4. T \subseteq Accounts
    BY <1>4
  <2>. QED  BY <2>2, <2>3, <2>4
<1>12. u \in Seq(Entries) /\ ListsCreds(u, S \cup T)
  BY <1>3, <1>8, <1>9, <1>10, BothSound
<1>. QED  BY <1>11, <1>12

\* What the answer should have.
CredsShown(r) ==
  r.phase = "answered" /\ query.kind = "creds" =>
    /\ {e.name : e \in Lists!Range(r.list)} = Accounts \cup UNION {credsAt[b] : b \in Lists!Answering}
    /\ \A i, j \in DOMAIN r.list : r.list[i].name = r.list[j].name => i = j
    /\ \A e \in Lists!Range(r.list) :
         /\ Lists!Range(e.clusters) = HavingOf(e.name) /\ Len(e.clusters) = Lists!Cardinality(HavingOf(e.name))
         /\ Lists!Range(e.policies) = UsingOf(e.name)
         /\ \A i, j \in DOMAIN e.policies : e.policies[i] = e.policies[j] => i = j

\* It is what CredsJoined says.
LEMMA CredsMean ==
  ASSUME query' = query, credsAt' = credsAt, usesAt' = usesAt, answers' = answers
  PROVE  Lists!CredsJoined' <=> CredsShown(reply')
<1>1. Lists!CredsJoined' <=> CredsShown(reply)'
  BY DEF Lists!CredsJoined, Lists!Replied, CredsShown, HavingOf, UsingOf
<1>2. CredsShown(reply)' <=> CredsShown(reply')
  BY DEF CredsShown, HavingOf, UsingOf, Lists!Answering, Lists!BeaconIds, Lists!Range
<1>. QED  BY <1>1, <1>2

\* A reply about credentials has each once, with the clusters that have it and the policies
\* that use it there, of the Beacons that answered, and the accounts no Beacon knows.
LEMMA CredsReplied ==
  ASSUME ListInv, Lists!Reply
  PROVE  Lists!CredsJoined'
<1>0. query' = query /\ credsAt' = credsAt /\ usesAt' = usesAt /\ answers' = answers
  BY DEF Lists!Reply
<1>. SUFFICES ASSUME reply'.phase = "answered", query.kind = "creds"
              PROVE  CredsShown(reply')
  BY <1>0, CredsMean DEF CredsShown
<1>1. reply'.list = Lists!CredsWithPolicies
  BY DEF Lists!Reply, Lists!Failed, Lists!Answered
<1>2. PICK u : u = Lists!CredsWithPolicies
  OBVIOUS
<1>3. PICK S : S = Accounts \cup UNION {credsAt[b] : b \in Lists!Answering}
  OBVIOUS
<1>4. u \in Seq(Entries) /\ ListsCreds(u, S)
  BY <1>2, <1>3, CredsSound
<1>5. DOMAIN u = 1..Len(u) /\ Lists!Range(u) = {u[i] : i \in 1..Len(u)}
  BY <1>4, SameOrders
<1>6. {e.name : e \in Lists!Range(u)} = S
  BY <1>4, <1>5 DEF ListsCreds
<1>7. \A i, j \in DOMAIN u : u[i].name = u[j].name => i = j
  BY <1>4, <1>5 DEF ListsCreds
<1>8. ASSUME NEW e \in Lists!Range(u)
      PROVE  /\ Lists!Range(e.clusters) = HavingOf(e.name)
             /\ Len(e.clusters) = Lists!Cardinality(HavingOf(e.name))
             /\ Lists!Range(e.policies) = UsingOf(e.name)
             /\ \A i, j \in DOMAIN e.policies : e.policies[i] = e.policies[j] => i = j
  <2>1. e \in Entries /\ Once(e.clusters, HavingOf(e.name)) /\ Once(e.policies, UsingOf(e.name))
    BY <1>4, <1>5 DEF ListsCreds, Sound
  <2>2. PICK s, t, H, U : s = e.clusters /\ t = e.policies /\ H = HavingOf(e.name) /\ U = UsingOf(e.name)
    OBVIOUS
  <2>3. s \in Seq(1..BeaconsCount) /\ t \in Seq(Uses) /\ Once(s, H) /\ Once(t, U)
    BY <2>1, <2>2, EntryParts
  <2>4. /\ Len(s) = Cardinality(H) /\ {s[i] : i \in 1..Len(s)} = H
        /\ {t[i] : i \in 1..Len(t)} = U
    BY <2>3, OnceLong
  <2>5. DOMAIN s = 1..Len(s) /\ DOMAIN t = 1..Len(t)
    BY <2>3
  <2>6. /\ Lists!Range(s) = H /\ Lists!Range(t) = U
        /\ \A i, j \in DOMAIN t : t[i] = t[j] => i = j
    BY <2>3, <2>4, <2>5, SameOrders DEF Once
  <2>. QED  BY <2>2, <2>4, <2>6, SameOrders
<1>. QED  BY <1>1, <1>2, <1>3, <1>6, <1>7, <1>8 DEF CredsShown

-----------------------------------------------------------------------------
(* What is answered. *)

\* What is answered is what was asked for.
ListsAnswered == Lists!PoliciesOnce /\ Lists!PagesAgree /\ Lists!CredsJoined /\ Lists!UnansweredForReason

\* Before there is a reply nothing is wrong with it.
LEMMA NothingAnswered ==
  ASSUME reply = Lists!NoAnswer
  PROVE  ListsAnswered
  BY DEF ListsAnswered, Lists!NoAnswer, Lists!PoliciesOnce, Lists!PagesAgree, Lists!CredsJoined,
     Lists!UnansweredForReason, Lists!Replied

\* No Beacon has answered at first.
LEMMA ListInvInit == Lists!Init => ListInv /\ ListsAnswered
<1>. SUFFICES ASSUME Lists!Init
              PROVE  ListInv /\ ListsAnswered
  OBVIOUS
<1>1. query \in Queries /\ there \subseteq Universe /\ reported \subseteq 1..BeaconsCount
  BY ListFacts DEF Lists!Init
<1>2. /\ credsAt \in [1..BeaconsCount -> SUBSET Lists!Names]
      /\ usesAt \in [1..BeaconsCount -> SUBSET CredPolicies]
  BY ListFacts DEF Lists!Init
<1>3. answers = [b \in 1..BeaconsCount |-> Lists!NoAnswer] /\ reply = Lists!NoAnswer
  BY ListFacts DEF Lists!Init
<1>. QED  BY <1>1, <1>2, <1>3, NothingAnswered DEF ListInv

\* A Beacon answers, or does not, while there is no reply.
LEMMA RespondKeeps ==
  ASSUME ListInv, NEW b \in 1..BeaconsCount, Lists!Respond(b)
  PROVE  (ListInv /\ ListsAnswered)'
<1>1. /\ query' = query /\ there' = there /\ reported' = reported
      /\ credsAt' = credsAt /\ usesAt' = usesAt /\ reply' = reply /\ answers[b] = Lists!NoAnswer
  BY DEF Lists!Respond
<1>2. reply' = Lists!NoAnswer
  BY <1>1 DEF ListInv
<1>3. \A c : Told(c)' = Told(c)
  BY <1>1 DEF Told, Lists!Kept, Lists!Events, Lists!InOrderAsked, Lists!Holds, Lists!Copy,
     Lists!Before, Lists!Rank, Lists!Asked
<1>4. answers' = [answers EXCEPT ![b] = Lists!Answered(Told(b))] \/ answers' = [answers EXCEPT ![b] = Lists!Failed]
  BY DEF Lists!Respond, Told
<1>5. DOMAIN answers' = 1..BeaconsCount
  BY <1>4 DEF ListInv
<1>6. ASSUME NEW c \in 1..BeaconsCount
      PROVE  answers'[c] \in {Lists!NoAnswer, Lists!Failed, Lists!Answered(Told(c))}
  BY <1>4 DEF ListInv
<1>7. /\ Lists!NoAnswer' = Lists!NoAnswer /\ Lists!Failed' = Lists!Failed
      /\ \A c : Lists!Answered(Told(c))' = Lists!Answered(Told(c))
  BY <1>3 DEF Lists!NoAnswer, Lists!Failed, Lists!Answered
<1>8. ListInv'
  BY <1>1, <1>2, <1>5, <1>6, <1>7 DEF ListInv
<1>9. ListsAnswered'
  BY <1>2 DEF ListsAnswered, Lists!NoAnswer, Lists!PoliciesOnce, Lists!PagesAgree,
     Lists!CredsJoined, Lists!UnansweredForReason, Lists!Replied
<1>. QED  BY <1>8, <1>9

\* Nothing changes while another part is at work.
LEMMA UnchangedKeeps ==
  ASSUME ListInv, ListsAnswered, UNCHANGED Lists!vars
  PROVE  (ListInv /\ ListsAnswered)'
<1>1. /\ query' = query /\ there' = there /\ reported' = reported
      /\ credsAt' = credsAt /\ usesAt' = usesAt /\ reply' = reply /\ answers' = answers
  BY DEF Lists!vars
<1>3. \A c : Told(c)' = Told(c)
  BY <1>1 DEF Told, Lists!Kept, Lists!Events, Lists!InOrderAsked, Lists!Holds, Lists!Copy,
     Lists!Before, Lists!Rank, Lists!Asked
<1>4. /\ Lists!NoAnswer' = Lists!NoAnswer /\ Lists!Failed' = Lists!Failed
      /\ \A c : Lists!Answered(Told(c))' = Lists!Answered(Told(c))
  BY <1>3 DEF Lists!NoAnswer, Lists!Failed, Lists!Answered
<1>5. ListInv'
  BY <1>1, <1>4 DEF ListInv
<1>6. /\ Lists!PoliciesOnce' <=> Lists!PoliciesOnce
      /\ Lists!PagesAgree' <=> Lists!PagesAgree
      /\ Lists!CredsJoined' <=> Lists!CredsJoined
      /\ Lists!UnansweredForReason' <=> Lists!UnansweredForReason
  BY <1>1 DEF Lists!PoliciesOnce, Lists!PagesAgree, Lists!CredsJoined,
     Lists!UnansweredForReason, Lists!Replied, Lists!Same,
     Lists!Answering, Lists!BeaconIds, Lists!Before, Lists!Rank, Lists!Registered, Lists!Range
<1>. QED  BY <1>5, <1>6 DEF ListsAnswered

\* The reply is made when all Beacons have answered or failed.
LEMMA ReplyKeeps ==
  ASSUME ListInv, Lists!Reply
  PROVE  (ListInv /\ ListsAnswered)'
<1>1. /\ query' = query /\ there' = there /\ reported' = reported
      /\ credsAt' = credsAt /\ usesAt' = usesAt /\ answers' = answers
      /\ \A b \in 1..BeaconsCount : answers[b] # Lists!NoAnswer
  BY DEF Lists!Reply, Lists!BeaconIds
<1>3. \A c : Told(c)' = Told(c)
  BY <1>1 DEF Told, Lists!Kept, Lists!Events, Lists!InOrderAsked, Lists!Holds, Lists!Copy,
     Lists!Before, Lists!Rank, Lists!Asked
<1>4. /\ Lists!NoAnswer' = Lists!NoAnswer /\ Lists!Failed' = Lists!Failed
      /\ \A c : Lists!Answered(Told(c))' = Lists!Answered(Told(c))
  BY <1>3 DEF Lists!NoAnswer, Lists!Failed, Lists!Answered
<1>5. ListInv'
  BY <1>1, <1>4 DEF ListInv
<1>. QED  BY <1>5, PoliciesOnceReplied, PagesReplied, CredsReplied,
             UnansweredReplied DEF ListsAnswered

\* What is answered is what was asked for, whatever the Beacons have and whichever of them
\* fail.
LEMMA ListInvHolds == Spec => [](ListInv /\ ListsAnswered)
<1>1. Init => ListInv /\ ListsAnswered
  BY ListInvInit DEF Init
<1>2. ASSUME ListInv /\ ListsAnswered, [Lists!Next]_(Lists!vars)
      PROVE  (ListInv /\ ListsAnswered)'
  BY <1>2, UnchangedKeeps, ReplyKeeps, RespondKeeps, ListFacts DEF Lists!Next
<1>. QED  BY <1>1, <1>2, PartSteps, PTL DEF Spec

-----------------------------------------------------------------------------
(* Files of a directory. *)

\* The files of a request are those of the cloud of its account; only this one is
\* looked up.
FilesFound ==
  asking.kind = "list" =>
    /\ asking.dir \in Directories
    /\ \E one \in StoreAccounts :
         waiting \subseteq {one} /\ \A a \in StoreAccounts : a # one => built[a] = "none"
    /\ reached.phase = "ok" =>
         \/ /\ \E page \in Storage!Pages(asking.dir) : reached.found = Storage!FilesOfS3(asking.dir, page)
            /\ \A a \in StoreAccounts : built[a] \notin {"wasb", "adls"}
         \/ reached.found = Storage!FilesOfAzure(asking.dir)

\* Only accounts that are waited for get a service, and a list comes from the service of
\* one of them.
LEMMA FilesFoundKeeps ==
  ASSUME StorageInv, FilesFound, [Storage!Next]_storageVars
  PROVE  FilesFound'
<1>1. ASSUME asking' = asking, built' = built, waiting' \subseteq waiting,
             asking.kind = "list" => (reached' = reached \/ reached'.phase # "ok")
      PROVE  FilesFound'
  BY <1>1 DEF FilesFound, Storage!FilesOfS3, Storage!FilesOfAzure, Storage!Pages, Storage!Below, Storage!Named,
     Storage!IsMarker
<1>2. CASE UNCHANGED storageVars
  BY <1>1, <1>2 DEF storageVars
<1>3. CASE Storage!AnswerStatuses
  BY <1>1, <1>3 DEF Storage!AnswerStatuses, Storage!Around
<1>4. CASE Storage!NoFiles
  BY <1>1, <1>4 DEF Storage!NoFiles, Storage!Around, Storage!Unanswered
<1>5. ASSUME NEW a \in StoreAccounts, Storage!Build(a)
      PROVE  FilesFound'
  <2>1. asking' = asking /\ reached.phase = "pending" /\ reached' = reached /\ waiting' \subseteq waiting /\ a \in waiting
    BY <1>5 DEF Storage!Build, Storage!Around, Storage!Served, Storage!Drop
  <2>2. built' = built \/ \E x : built' = [built EXCEPT ![a] = x]
    BY <1>5 DEF Storage!Build
  <2>3. \A c \in StoreAccounts : c # a => built'[c] = built[c]
    BY <2>2 DEF StorageInv, StorageTypes
  <2>. QED  BY <2>1, <2>3 DEF FilesFound
<1>6. ASSUME NEW a \in StoreAccounts, Storage!CheckIdentity(a)
      PROVE  FilesFound'
  BY <1>1, <1>6 DEF Storage!CheckIdentity, Storage!Around, Storage!Drop, Storage!Status,
     Storage!Throw
<1>7. ASSUME NEW a \in StoreAccounts, Storage!ListFiles(a)
      PROVE  FilesFound'
  <2>1. /\ asking' = asking /\ built' = built /\ waiting' \subseteq waiting /\ a \in waiting
        /\ asking.kind = "list"
    BY <1>7 DEF Storage!ListFiles, Storage!Around
  <2>2. reached'.phase = "ok" =>
          \E page \in Storage!Pages(asking.dir) :
            reached'.found = IF built[a] = "aws" THEN Storage!FilesOfS3(asking.dir, page)
                             ELSE Storage!FilesOfAzure(asking.dir)
    BY <1>7 DEF Storage!ListFiles, Storage!Unanswered
  <2>3. PICK one \in StoreAccounts :
         waiting \subseteq {one} /\ \A c \in StoreAccounts : c # one => built[c] = "none"
    BY <2>1 DEF FilesFound
  <2>4. one = a /\ built[a] # "none" /\ built[a] \in {"none", "aws", "wasb", "adls"}
    BY <1>7, <2>1, <2>3 DEF Storage!ListFiles, Storage!NoService, StorageInv, StorageTypes
  <2>5. built[a] = "aws" => \A c \in StoreAccounts : built[c] \notin {"wasb", "adls"}
    BY <2>3, <2>4
  <2>6. /\ Storage!Pages(asking.dir)' = Storage!Pages(asking.dir)
        /\ \A page : Storage!FilesOfS3(asking.dir, page)' = Storage!FilesOfS3(asking.dir, page)
        /\ Storage!FilesOfAzure(asking.dir)' = Storage!FilesOfAzure(asking.dir)
    BY <2>1 DEF Storage!FilesOfS3, Storage!FilesOfAzure, Storage!Pages, Storage!Below, Storage!Named,
       Storage!IsMarker
  <2>7. asking'.dir \in Directories /\ waiting' \subseteq {one}
    BY <2>1, <2>3 DEF FilesFound
  <2>. QED  BY <2>1, <2>2, <2>3, <2>5, <2>6, <2>7 DEF FilesFound
<1>8. CASE Storage!AskAll
  BY <1>8 DEF Storage!AskAll, FilesFound
<1>9. ASSUME NEW a \in StoreAccounts, NEW kind \in {"identity", "list"}, NEW dir, kind = "list" => dir \in Directories,
             Storage!AskOne(a, kind, dir)
      PROVE  FilesFound'
  <2>1. /\ asking' = [kind |-> kind, dir |-> dir] /\ waiting' = {a}
        /\ reached'.phase = "pending" /\ \A c \in StoreAccounts : built'[c] = "none"
    BY <1>9 DEF Storage!AskOne, Storage!NotAsking, StorageInv
  <2>. QED  BY <1>9, <2>1 DEF FilesFound
<1>10. ASSUME NEW a \in StoreAccounts, NEW t \in Storage!Types \cup {"absent"}, Storage!Replace(a, t)
       PROVE  FilesFound'
  BY <1>1, <1>10 DEF Storage!Replace
<1>. QED  BY <1>2, <1>3, <1>4, <1>5, <1>6, <1>7, <1>8, <1>9, <1>10 DEF Storage!Next,
             Storage!Proceed

\* Names, and the one that stands for none.
Texts == STRING
Blank == ""

\* What is below a directory goes on after the directory's names.
LEMMA BelowIs ==
  ASSUME NEW dir \in Directories, NEW o \in Objects
  PROVE  /\ dir \in Seq(Texts) /\ o \in Seq(Texts) /\ Len(o) \in Nat \ {0} /\ Len(dir) \in Nat
         /\ \A i \in 1..Len(o) - 1 : o[i] # Blank
         /\ o \in Storage!Below(dir) <=> Len(dir) < Len(o) /\ \A i \in 1..Len(dir) : o[i] = dir[i]
<1>1. dir \in Seq(Texts) /\ o \in Seq(Texts) /\ o # <<>> /\ \A i \in 1..Len(o) - 1 : o[i] # Blank
  BY BackendConstants DEF Storage!CloudStorageConstants, Texts, Blank
<1>2. Len(o) \in Nat \ {0} /\ Len(dir) \in Nat
  BY <1>1, EmptySeq
<1>3. ASSUME Len(dir) <= Len(o)
      PROVE  SubSeq(dir, 1, Len(dir)) = SubSeq(o, 1, Len(dir)) <=> \A i \in 1..Len(dir) : o[i] = dir[i]
  <2>1. PICK s \in Seq(Texts) : s = SubSeq(dir, 1, Len(dir)) /\ Len(s) = Len(dir) /\ \A i \in 1..Len(dir) : s[i] = dir[i]
    BY <1>1, <1>2, SubSeqProperties
  <2>2. PICK t \in Seq(Texts) : t = SubSeq(o, 1, Len(dir)) /\ Len(t) = Len(dir) /\ \A i \in 1..Len(dir) : t[i] = o[i]
    <3>1. PICK t : t = SubSeq(o, 1, Len(dir))
      OBVIOUS
    <3>2. t \in Seq(Texts) /\ Len(t) = Len(dir) /\ \A i \in 1..Len(dir) : t[i] = o[i]
      BY <1>1, <1>2, <1>3, <3>1, Firsts
    <3>. QED  BY <3>1, <3>2
  <2>3. s = t <=> \A i \in 1..Len(dir) : s[i] = t[i]
    BY <2>1, <2>2, SeqEqual
  <2>. QED  BY <2>1, <2>2, <2>3
<1>4. ASSUME Len(dir) = Len(o), \A i \in 1..Len(dir) : o[i] = dir[i]
      PROVE  o = dir
  BY <1>1, <1>4, SeqEqual
<1>5. Storage!IsStrictPrefix(dir, o) <=>
        Len(dir) <= Len(o) /\ SubSeq(dir, 1, Len(dir)) = SubSeq(o, 1, Len(dir)) /\ dir # o
  BY DEF Storage!IsStrictPrefix, Storage!IsPrefix
<1>6. Storage!IsStrictPrefix(dir, o) <=> Len(dir) < Len(o) /\ \A i \in 1..Len(dir) : o[i] = dir[i]
  BY <1>2, <1>3, <1>4, <1>5
<1>. QED  BY <1>1, <1>2, <1>6 DEF Storage!Below

\* Names without the empty one at the end.
LEMMA NamedIs ==
  ASSUME NEW o \in Seq(Texts), Len(o) \in Nat \ {0}
  PROVE  /\ o[Len(o)] = Blank => Len(Storage!Named(o)) = Len(o) - 1 /\ \A i \in 1..Len(o) - 1 : Storage!Named(o)[i] = o[i]
         /\ o[Len(o)] # Blank => Storage!Named(o) = o
<1>1. PICK s : s = SubSeq(o, 1, Len(o) - 1)
  OBVIOUS
<1>2. Len(s) = Len(o) - 1 /\ \A i \in 1..Len(o) - 1 : s[i] = o[i]
  <2>1. Len(o) - 1 \in Nat /\ Len(o) - 1 <= Len(o)
    OBVIOUS
  <2>2. PICK n \in Nat : n = Len(o) - 1
    BY <2>1
  <2>3. Len(s) = n /\ \A i \in 1..n : s[i] = o[i]
    <3>1. n <= Len(o) /\ s = SubSeq(o, 1, n)
      BY <1>1, <2>1, <2>2
    <3>. QED  BY <3>1, Firsts
  <2>. QED  BY <2>2, <2>3
<1>3. Storage!Named(o) = IF o[Len(o)] = Blank THEN s ELSE o
  BY <1>1 DEF Storage!Named, Storage!IsMarker, Storage!Last, Storage!Front, Blank
<1>. QED  BY <1>2, <1>3

\* What stands for itself on the page of a directory is in the list.
ListsPage(dir, at, page) ==
  \A o \in page :
    o[at] # Blank /\ (Len(o) = at \/ (Len(o) = at + 1 /\ o[at + 1] = Blank)) =>
      \E f \in Storage!FilesOfS3(dir, page) : f[1] = o[at]

\* The files of a page of S3: names right below the directory, among which are those of
\* the page that stand for themselves.
LEMMA FilesOfS3Are ==
  ASSUME NEW dir \in Directories, NEW at, at = Len(dir) + 1,
         NEW page, page \subseteq Storage!Below(dir)
  PROVE  /\ \A f \in Storage!FilesOfS3(dir, page) : \E o \in Storage!Below(dir) :
              o[at] = f[1] /\ f[1] # Blank /\ (f[2] = "DIRECTORY" => Len(o) > at)
         /\ ListsPage(dir, at, page)
<1>1. at \in Nat \ {0} /\ Len(dir) \in Nat
  <2>1. dir \in Seq(Texts)
    BY BackendConstants DEF Storage!CloudStorageConstants, Texts, Blank
  <2>. QED  BY <2>1
<1>2. ASSUME NEW o \in Storage!Below(dir)
      PROVE  /\ o \in Seq(Texts) /\ Len(o) \in Nat /\ Len(o) >= at
             /\ \A i \in 1..Len(o) - 1 : o[i] # Blank
             /\ o[Len(o)] = Blank => Len(Storage!Named(o)) = Len(o) - 1 /\ \A i \in 1..Len(o) - 1 : Storage!Named(o)[i] = o[i]
             /\ o[Len(o)] # Blank => Storage!Named(o) = o
             /\ Storage!IsMarker(o) <=> o[Len(o)] = Blank
             /\ Storage!Last(Storage!Named(o)) = Storage!Named(o)[Len(Storage!Named(o))]
  <2>1. o \in Objects
    BY DEF Storage!Below
  <2>2. o \in Seq(Texts) /\ Len(o) \in Nat \ {0} /\ Len(dir) < Len(o) /\ \A i \in 1..Len(o) - 1 : o[i] # Blank
    BY <2>1, BelowIs
  <2>3. Len(o) \in Nat /\ Len(o) >= at
    BY <1>1, <2>2
  <2>4. /\ o[Len(o)] = Blank => Len(Storage!Named(o)) = Len(o) - 1 /\ \A i \in 1..Len(o) - 1 : Storage!Named(o)[i] = o[i]
        /\ o[Len(o)] # Blank => Storage!Named(o) = o
    BY <2>2, NamedIs
  <2>5. Storage!IsMarker(o) <=> o[Len(o)] = Blank
    BY DEF Storage!IsMarker, Storage!Last, Blank
  <2>6. Storage!Last(Storage!Named(o)) = Storage!Named(o)[Len(Storage!Named(o))]
    BY DEF Storage!Last
  <2>. QED  BY <2>2, <2>3, <2>4, <2>5, <2>6
<1>3. ASSUME NEW o \in Storage!Below(dir)
      PROVE  Len(Storage!Named(o)) = at <=>
               o[at] # Blank /\ (Len(o) = at \/ (Len(o) = at + 1 /\ o[at + 1] = Blank))
  <2>1. CASE o[Len(o)] = Blank
    BY <1>1, <1>2, <2>1
  <2>2. CASE o[Len(o)] # Blank
    BY <1>1, <1>2, <2>2
  <2>. QED  BY <2>1, <2>2
<1>4. ASSUME NEW o \in Storage!Below(dir), Len(Storage!Named(o)) = at
      PROVE  /\ Storage!Last(Storage!Named(o)) = o[at]
             /\ Storage!IsMarker(o) => Len(o) > at
  <2>1. CASE o[Len(o)] = Blank
    BY <1>1, <1>2, <1>4, <2>1
  <2>2. CASE o[Len(o)] # Blank
    BY <1>1, <1>2, <1>4, <2>2
  <2>. QED  BY <2>1, <2>2
<1>5. \A f : f \in Storage!FilesOfS3(dir, page) <=>
        \E o \in page : /\ Len(Storage!Named(o)) = at
          /\ f = <<Storage!Last(Storage!Named(o)), IF Storage!IsMarker(o) THEN "DIRECTORY" ELSE "FILE">>
  BY DEF Storage!FilesOfS3
<1>6. ASSUME NEW f \in Storage!FilesOfS3(dir, page)
      PROVE  \E o \in Storage!Below(dir) :
              o[at] = f[1] /\ f[1] # Blank /\ (f[2] = "DIRECTORY" => Len(o) > at)
  <2>1. PICK o \in page : /\ Len(Storage!Named(o)) = at
          /\ f = <<Storage!Last(Storage!Named(o)), IF Storage!IsMarker(o) THEN "DIRECTORY" ELSE "FILE">>
    BY <1>5
  <2>2. f[1] = o[at] /\ (f[2] = "DIRECTORY" => Storage!IsMarker(o))
    BY <1>4, <2>1
  <2>3. o[at] # Blank /\ (Storage!IsMarker(o) => Len(o) > at)
    BY <1>3, <1>4, <2>1
  <2>. QED  BY <2>2, <2>3
<1>7. ASSUME NEW o \in page, o[at] # Blank, Len(o) = at \/ (Len(o) = at + 1 /\ o[at + 1] = Blank)
      PROVE  \E f \in Storage!FilesOfS3(dir, page) : f[1] = o[at]
  <2>1. Len(Storage!Named(o)) = at
    BY <1>3, <1>7
  <2>2. <<o[at], IF Storage!IsMarker(o) THEN "DIRECTORY" ELSE "FILE">> \in Storage!FilesOfS3(dir, page)
    BY <1>4, <1>5, <2>1
  <2>. QED  BY <2>2
<1>8. ListsPage(dir, at, page)
  BY <1>7 DEF ListsPage
<1>. QED  BY <1>6, <1>8

\* What is answered is a list of the directory.
LEMMA FilesAreFit ==
  ASSUME FilesFound
  PROVE  Storage!FilesFit
<1>. SUFFICES ASSUME asking.kind = "list", reached.phase = "ok"
              PROVE  Storage!FilesFit
  BY DEF Storage!FilesFit
<1>. DEFINE dir == asking.dir
            at == Len(dir) + 1
            names == {o[at] : o \in Storage!Below(dir)} \ {Blank}
            isDir(n) == \E o \in Storage!Below(dir) : o[at] = n /\ Len(o) > at
            own(n) == Append(dir, n) \in Objects \/ dir \o <<n, Blank>> \in Objects
<1>1. dir \in Directories
  BY DEF FilesFound
<1>2. dir \in Seq(Texts) /\ at \in Nat \ {0} /\ Len(dir) \in Nat
  <2>1. dir \in Seq(Texts)
    BY <1>1, BackendConstants DEF Storage!CloudStorageConstants, Texts, Blank
  <2>. QED  BY <2>1
<1>3. ASSUME NEW n \in names, own(n)
      PROVE  \E o \in Storage!Below(dir) :
               o[at] = n /\ n # Blank /\ (Len(o) = at \/ (Len(o) = at + 1 /\ o[at + 1] = Blank))
  <2>1. n \in Texts /\ n # Blank
    <3>1. PICK o \in Storage!Below(dir) : n = o[at]
      OBVIOUS
    <3>2. o \in Objects
      BY DEF Storage!Below
    <3>3. o \in Seq(Texts) /\ at \in 1..Len(o)
      BY <1>1, <1>2, <3>1, <3>2, BelowIs
    <3>. QED  BY <3>1, <3>3, ElementOfSeq
  <2>2. CASE Append(dir, n) \in Objects
    <3>1. PICK o \in Objects : o = Append(dir, n)
      BY <2>2
    <3>2. Len(o) = at /\ o[at] = n /\ \A i \in 1..Len(dir) : o[i] = dir[i]
      BY <1>2, <2>1, <3>1, AppendProperties
    <3>3. o \in Storage!Below(dir)
      BY <1>1, <1>2, <3>2, BelowIs
    <3>. QED  BY <2>1, <3>2, <3>3
  <2>3. CASE dir \o <<n, Blank>> \in Objects
    <3>1. PICK o \in Objects : o = dir \o <<n, Blank>>
      BY <2>3
    <3>2. PICK S : S = Texts \cup {Blank}
      OBVIOUS
    <3>3. PICK t : t = <<n, Blank>>
      OBVIOUS
    <3>4. t \in Seq(S) /\ Len(t) = 2 /\ t[1] = n /\ t[2] = Blank
      BY <2>1, <3>2, <3>3
    <3>6. dir \in Seq(S)
      BY <1>2, <3>2, SeqMonotonic
    <3>7. Len(o) = at + 1 /\ o[at] = n /\ o[at + 1] = Blank /\ \A i \in 1..Len(dir) : o[i] = dir[i]
      BY <1>2, <3>1, <3>3, <3>4, <3>6, ConcatProperties
    <3>8. Len(dir) < Len(o) /\ \A i \in 1..Len(dir) : o[i] = dir[i]
      BY <1>2, <3>7
    <3>5. o \in Storage!Below(dir)
      BY <1>1, <3>8, BelowIs
    <3>. QED  BY <2>1, <3>5, <3>7
  <2>. QED  BY <1>3, <2>2, <2>3
<1>4. ASSUME NEW page \in Storage!Pages(dir), reached.found = Storage!FilesOfS3(dir, page),
             \A a \in StoreAccounts : built[a] \notin {"wasb", "adls"}
      PROVE  Storage!FilesFit
  <2>0. /\ page \subseteq Storage!Below(dir)
        /\ Storage!Cardinality(Storage!Below(dir)) <= MaxKeys => page = Storage!Below(dir)
    BY DEF Storage!Pages
  <2>1. \A f \in reached.found : f[1] \in names /\ (f[2] = "DIRECTORY" => isDir(f[1]))
    BY <1>1, <1>4, <2>0, FilesOfS3Are
  <2>3. \A o \in page :
          o[at] # Blank /\ (Len(o) = at \/ (Len(o) = at + 1 /\ o[at + 1] = Blank)) =>
            \E f \in Storage!FilesOfS3(dir, page) : f[1] = o[at]
    <3>1. ListsPage(dir, at, page)
      BY <1>1, <2>0, FilesOfS3Are
    <3>. QED  BY <3>1 DEF ListsPage
  <2>2. ASSUME Storage!Cardinality(Storage!Below(dir)) <= MaxKeys
        PROVE  \A n \in names : own(n) => \E f \in reached.found : f[1] = n
    <3>1. \A o \in Storage!Below(dir) :
              o[at] # Blank /\ (Len(o) = at \/ (Len(o) = at + 1 /\ o[at + 1] = Blank)) =>
                \E f \in reached.found : f[1] = o[at]
      <4>1. page = Storage!Below(dir)
        BY <2>0, <2>2
      <4>. HIDE DEF dir
      <4>. QED  BY <1>4, <2>3, <4>1, Zenon
    <3>. HIDE DEF names, own
    <3>. QED  BY <1>3, <3>1
  <2>. QED  BY <1>4, <2>1, <2>2 DEF Storage!FilesFit, Blank
<1>5. CASE reached.found = Storage!FilesOfAzure(dir)
  <2>1. \A f : f \in reached.found <=>
          \E o \in Storage!Below(dir) : /\ o[at] # Blank
             /\ f = <<o[at], IF Len(o) > at THEN "DIRECTORY" ELSE "FILE">>
    BY <1>5 DEF Storage!FilesOfAzure, Blank
  <2>2. \A f \in reached.found : f[1] \in names /\ (f[2] = "DIRECTORY" => isDir(f[1]))
    <3>1. ASSUME NEW f \in reached.found
          PROVE  f[1] \in names /\ (f[2] = "DIRECTORY" => isDir(f[1]))
      <4>1. PICK o \in Storage!Below(dir) : /\ o[at] # Blank
             /\ f = <<o[at], IF Len(o) > at THEN "DIRECTORY" ELSE "FILE">>
        BY <2>1
      <4>2. f[1] = o[at] /\ (f[2] = "DIRECTORY" => Len(o) > at)
        BY <4>1
      <4>. QED  BY <4>1, <4>2
    <3>. QED  BY <3>1
  <2>3. \A n \in names : \E f \in reached.found : f[1] = n
    <3>1. ASSUME NEW n \in names
          PROVE  \E f \in reached.found : f[1] = n
      <4>1. PICK o \in Storage!Below(dir) : o[at] = n /\ o[at] # Blank
        OBVIOUS
      <4>2. <<o[at], IF Len(o) > at THEN "DIRECTORY" ELSE "FILE">> \in reached.found
        BY <2>1, <4>1
      <4>. QED  BY <4>1, <4>2
    <3>. QED  BY <3>1
  <2>4. {f[1] : f \in reached.found} = names
    <3>. HIDE DEF names, isDir
    <3>. QED  BY <2>2, <2>3
  <2>. QED  BY <2>2, <2>3, <2>4 DEF Storage!FilesFit, Blank
<1>. QED  BY <1>4, <1>5 DEF FilesFound

\* The files a request was answered are those of its directory.
LEMMA FilesFoundHolds == Spec => []FilesFound
<1>1. Init => FilesFound
  BY DEF Init, Storage!Init, Storage!NotAsking, FilesFound
<1>. QED  BY <1>1, FilesFoundKeeps, StorageInvHolds, PartSteps, PTL DEF Spec

-----------------------------------------------------------------------------
(* All parts. *)

\* The variables of every part have their types.
THEOREM TypeCorrect == Spec => []TypeOK
<1>1. ASSUME SubmitInv, ListTypes, LookupInv, StorageInv, RelayInv
      PROVE  TypeOK
  <2>1. Submission!TypeOK
    BY <1>1, SubmissionTyped DEF SubmitInv
  <2>2. Lists!TypeOK /\ Lookups!TypeOK /\ Relayed!TypeOK
    BY <1>1, LookupsAreFit DEF ListTypes, RelayInv
  <2>3. Storage!TypeOK
    BY <1>1 DEF StorageInv, StorageTypes, Storage!TypeOK, Storage!NoService
  <2>. QED  BY <2>1, <2>2, <2>3 DEF TypeOK
<1>. QED  BY <1>1, SubmitInvHolds, ListTypesHold, LookupInvHolds, StorageInvHolds, RelayInvHolds, PTL

\* Policies do not write below one another but where a check could not know, they have
\* the credential and the definition they need on their Beacon, and requests are refused
\* for a reason, however many requests to however many Beacons interleave and whichever
\* of their calls fail (createPolicy, testPolicy, updatePolicy of BeaconService.scala).
\* Clusters are listed, defined and refused as they are if they stay so (DataplaneService,
\* AmbariService), an account is called active only if its cloud takes it
\* (CloudServiceImpl), and what one Beacon is asked to do is said to be done only if it
\* was, and otherwise answered with its code, or one that says that none was had
\* (WebService and what uses it in BeaconService).
THEOREM AnswersAreFit == Spec => []RequestsFit
<1>1. ASSUME SubmitInv, LookupInv, StorageInv, Relayed!RelaysFit
      PROVE  RequestsFit
  <2>1. Storage!StatusesFit
    BY <1>1 DEF StorageInv, Undisturbed, HasStatus, Storage!StatusesFit
  <2>. QED  BY <1>1, <2>1, LookupsAreFit DEF RequestsFit, SubmitInv
<1>. QED  BY <1>1, SubmitInvHolds, LookupInvHolds, StorageInvHolds, RelaysAreFit, PTL

\* However many Beacons there are, whatever they have and whichever of them fail: a reply
\* about policies has each once, with jobs if a Beacon reported them; one in the order asked
\* for is a page of what all Beacons have, if all answered; one about credentials has each
\* once, with its clusters and the policies that use it there; and a question gets no answer
\* only if an order of nothing was asked for (getAllPolicies, getAllEvents,
\* getAllCloudCredsWithPolicies, getOrderedResponse of BeaconService.scala).  A list of files
\* has what is right below its directory (listFiles of AmazonS3Service, listBlobs of
\* WASBService, listFiles of ADLSService).
THEOREM ListsAreFit == Spec => []AnswersFit
<1>1. ASSUME ListsAnswered, FilesFound
      PROVE  AnswersFit
  BY <1>1, FilesAreFit DEF AnswersFit, ListsAnswered
<1>. QED  BY <1>1, ListInvHolds, FilesFoundHolds, PTL
=============================================================================
