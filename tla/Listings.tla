------------------------------- MODULE Listings -------------------------------
(***************************************************************************)
(* services/BeaconService.scala, getAllPolicies, getAllEvents,             *)
(* getAllBeaconAdminStatus and getAllCloudCredsWithPolicies: a question to *)
(* all Beacons, of which some may not answer, and one list made of the     *)
(* answers.  A policy is kept by the Beacons of both its clusters.  Each   *)
(* Beacon is asked for as many as the page and all before it hold, in the  *)
(* order that is wanted.                                                   *)
(*                                                                         *)
(* Beacons are numbered in the order they are asked in.  A policy's number *)
(* is its name and tells when it was made; Cloud stands for no cluster,    *)
(* and clusters above BeaconsCount are not registered.                     *)
(***************************************************************************)
EXTENDS Integers, Sequences, SequencesExt, SortedSeqs

CONSTANTS BeaconsCount,
          Universe,     \* the policies there may be
          CredPolicies, \* policies of a Beacon with the credential they use
          Accounts,     \* accounts of the keystore
          Queries,      \* what may be asked for
          Cloud

BeaconIds == 1..BeaconsCount
Names == {p.cred : p \in CredPolicies} \cup Accounts

Query == [kind : {"policies", "events", "creds"}, orderBy : BOOLEAN, desc : BOOLEAN,
          size : Nat, offset : Nat]

ListingsConstants ==
  /\ BeaconsCount \in Nat \ {0} /\ \A q \in Queries : q \in Query
  /\ \A p \in Universe :
       p.number \in Nat /\ {p.source, p.target} \subseteq Nat /\ p.source # p.target
  /\ \A p, q \in Universe : p.number = q.number => p = q
  /\ IsFiniteSet(Universe) /\ IsFiniteSet(CredPolicies) /\ IsFiniteSet(Accounts)

VARIABLES query,
          there, reported,   \* the policies, and the BeaconIds that report their jobs
          credsAt, usesAt,   \* credentials of each Beacon, and its policies that use one
          answers,           \* of each Beacon
          reply

vars == <<query, there, reported, credsAt, usesAt, answers, reply>>

NoAnswer == [phase |-> "none", list |-> <<>>]
Failed == [phase |-> "failed", list |-> <<>>]
Answered(list) == [phase |-> "answered", list |-> list]

Init ==
  /\ query \in Queries
  /\ there \in IF query.kind = "creds" THEN {{}} ELSE SUBSET Universe
  /\ reported \in IF query.kind = "policies" THEN SUBSET BeaconIds ELSE {{}}
  /\ IF query.kind = "creds"
     THEN credsAt \in [BeaconIds -> SUBSET Names] /\ usesAt \in [BeaconIds -> SUBSET CredPolicies]
     ELSE credsAt = [b \in BeaconIds |-> {}] /\ usesAt = [b \in BeaconIds |-> {}]
  /\ answers = [b \in BeaconIds |-> NoAnswer] /\ reply = NoAnswer

-----------------------------------------------------------------------------
(* Orders and pages. *)

Rank(p) == IF query.orderBy /\ ~query.desc THEN p.number ELSE -p.number
Before(p, q) == Rank(p) < Rank(q)

\* getOrderedResponse
Ordered(list) == IF query.orderBy THEN SortedBy(list, [i \in DOMAIN list |-> Rank(list[i])]) ELSE list

Slice(list, from, n) == SubSeq(list, from + 1, IF from + n < Len(list) THEN from + n ELSE Len(list))

\* getPaginatedResponse
PageAsAsked(list) == IF query.size = 0 THEN list ELSE Slice(list, 0, query.size)
Page(list) == IF query.size = 0 THEN list ELSE Slice(list, query.offset, query.size)

\* getQueryStringForResources: what a Beacon is asked for.
Asked(list) == IF query.size = 0 THEN list ELSE Slice(list, 0, query.offset + query.size)

-----------------------------------------------------------------------------
(* A Beacon. *)

Holds(b, p) == b \in {p.source, p.target}

Copy(b, p) == [number |-> p.number, source |-> p.source, target |-> p.target,
               jobs |-> b \in reported]

\* Without an order Beacons are taken to begin with the newest.
InOrderAsked(b, policies) ==
  LET copies == {Copy(b, p) : p \in policies}
  IN Asked(InOrder([c \in copies |-> {d \in copies : Before(d, c)}]))
Kept(b) == InOrderAsked(b, {p \in there : Holds(b, p)})

\* An event happens at one Beacon; those from other clusters are not told apart here.
Events(b) == InOrderAsked(b, {p \in there : b = p.source})

Respond(b) ==
  /\ answers[b] = NoAnswer
  /\ \/ answers' = [answers EXCEPT ![b] =
                      Answered(IF query.kind = "policies" THEN Kept(b)
                               ELSE IF query.kind = "events" THEN Events(b) ELSE <<>>)]
     \/ answers' = [answers EXCEPT ![b] = Failed]
  /\ UNCHANGED <<query, there, reported, credsAt, usesAt, reply>>

Answering == {b \in BeaconIds : answers[b].phase = "answered"}

Joined[b \in 0..BeaconsCount] == IF b = 0 THEN <<>> ELSE Joined[b - 1] \o answers[b].list
Lists == Joined[BeaconsCount]

-----------------------------------------------------------------------------
(* Policies. *)

First(at) == CHOOSE i \in at : \A j \in at : i <= j

Same(p, q) == p.number = q.number /\ p.source = q.source /\ p.target = q.target

\* Duplicates without jobs are left out, those with jobs come instead.
KeepFirst(acc, next) ==
  IF \E i \in DOMAIN acc : Same(acc[i], next) THEN acc ELSE Append(acc, next)
Deduplicated(acc, next) ==
  LET prev == {i \in DOMAIN acc : Same(acc[i], next)}
  IN IF prev = {} THEN Append(acc, next)
     ELSE IF ~next.jobs THEN acc
     ELSE Append(RemoveAt(acc, First(prev)), next)

Merged(list) ==
  LET upTo[i \in 0..Len(list)] == IF i = 0 THEN <<>> ELSE Deduplicated(upTo[i - 1], list[i])
  IN upTo[Len(list)]

Registered(p) == {p.source, p.target} \subseteq BeaconIds \cup {Cloud}

AllPolicies ==
  LET all == Merged(Lists)
  IN Those(all, {p \in Range(all) : Registered(p)})

NewestFirst(list) == SortedBy(list, [i \in DOMAIN list |-> -list[i].number])

-----------------------------------------------------------------------------
(* Credentials with the policies that use them. *)

Entry(name, list) ==
  LET at == {i \in DOMAIN list : list[i].name = name}
  IN IF at = {} THEN 0 ELSE First(at)

WithoutPolicies(b) == {c \in credsAt[b] : \A p \in usesAt[b] : p.cred # c}

AddAlways(b, acc, c) == Append(acc, [name |-> c, policies |-> <<>>, clusters |-> <<b>>])
AddUnused(b, acc, c) ==
  LET i == Entry(c, acc)
  IN IF i = 0 THEN Append(acc, [name |-> c, policies |-> <<>>, clusters |-> <<b>>])
     ELSE [acc EXCEPT ![i].clusters = Append(@, b)]

AppendNew(list, x) == IF Contains(list, x) THEN list ELSE Append(list, x)

AddUse(b, acc, p) ==
  LET i == Entry(p.cred, acc)
      used == <<b, p.id>>
  IN IF p.cred \notin credsAt[b] THEN acc
     ELSE IF i = 0 THEN Append(acc, [name |-> p.cred, policies |-> <<used>>, clusters |-> <<b>>])
     ELSE [acc EXCEPT ![i].clusters = AppendNew(@, b), ![i].policies = AppendNew(@, used)]

AddCluster(acc, b) ==
  LET creds == SetToSeq(WithoutPolicies(b))
      uses == SetToSeq(usesAt[b])
      unused[i \in 0..Len(creds)] == IF i = 0 THEN acc ELSE AddUnused(b, unused[i - 1], creds[i])
      used[i \in 0..Len(uses)] ==
        IF i = 0 THEN unused[Len(creds)] ELSE AddUse(b, used[i - 1], uses[i])
  IN used[Len(uses)]

Known[b \in 0..BeaconsCount] ==
  IF b = 0 THEN <<>> ELSE IF b \in Answering THEN AddCluster(Known[b - 1], b) ELSE Known[b - 1]

\* Accounts that no Beacon knows come last.
CredsWithPolicies ==
  LET known == Known[BeaconsCount]
      others == {a \in Accounts : Entry(a, known) = 0}
  IN known \o [i \in 1..Cardinality(others) |->
                 [name |-> SetToSeq(others)[i], policies |-> <<>>, clusters |-> <<>>]]

-----------------------------------------------------------------------------

\* The list that is put in order is looked at for the class of its first element: an
\* empty one throws, and the question is never answered.  That of policies is put in
\* order also when no Beacon answered.
Throws ==
  /\ query.orderBy
  /\ \/ query.kind = "policies" /\ AllPolicies = <<>>
     \/ query.kind = "events" /\ Lists = <<>> /\ Answering # {}

Reply ==
  /\ reply = NoAnswer /\ \A b \in BeaconIds : answers[b] # NoAnswer
  /\ reply' = IF Throws THEN [phase |-> "never", list |-> <<>>]
              ELSE IF Answering = {} THEN Failed
              ELSE Answered(CASE query.kind = "policies" -> NewestFirst(Page(Ordered(AllPolicies)))
                              [] query.kind = "events" -> Page(Ordered(Lists))
                              [] query.kind = "creds" -> CredsWithPolicies)
  /\ UNCHANGED <<query, there, reported, credsAt, usesAt, answers>>

Next == Reply \/ \E b \in BeaconIds : Respond(b)

Spec == Init /\ [][Next]_vars

-----------------------------------------------------------------------------
(* Properties. *)

TypeOK ==
  /\ query \in Queries /\ there \subseteq Universe /\ reported \subseteq BeaconIds
  /\ \A b \in BeaconIds : answers[b].phase \in {"none", "failed", "answered"}
  /\ reply.phase \in {"none", "failed", "answered", "never"}

Replied(kind) == reply.phase = "answered" /\ query.kind = kind

\* A policy is listed once, and with jobs if a Beacon that answered reported them
\* among what it was asked for.
PoliciesOnce ==
  Replied("policies") =>
    \A i \in DOMAIN reply.list :
      /\ \A j \in DOMAIN reply.list : Same(reply.list[i], reply.list[j]) => i = j
      /\ (\E b \in Answering : \E k \in DOMAIN answers[b].list :
            Same(answers[b].list[k], reply.list[i]) /\ answers[b].list[k].jobs)
           => reply.list[i].jobs

\* Pages that are in order are those of the list of all, although each Beacon was
\* asked for its own, if all Beacons answer and all clusters are registered.
PagesAgree ==
  LET all == IF query.kind = "policies" THEN there ELSE {p \in there : p.source \in BeaconIds}
      place(p) == Cardinality({q \in all : Before(q, p)})
  IN (reply.phase = "answered" /\ query.kind # "creds" /\ query.orderBy /\ Answering = BeaconIds
        /\ \A p \in there : Registered(p))
     => {p.number : p \in Range(reply.list)} =
          {p.number : p \in {p \in all : query.size = 0 \/ place(p) \in
                                           query.offset..query.offset + query.size - 1}}

\* Every credential is listed once, with each cluster that has it and each policy that
\* uses it once; accounts that no cluster has are there too.
CredsJoined ==
  Replied("creds") =>
    /\ {e.name : e \in Range(reply.list)} = Accounts \cup UNION {credsAt[b] : b \in Answering}
    /\ \A i, j \in DOMAIN reply.list : reply.list[i].name = reply.list[j].name => i = j
    /\ \A e \in Range(reply.list) :
         LET having == {b \in Answering : e.name \in credsAt[b]}
             using == {<<b, p.id>> : b \in having, p \in CredPolicies}
         IN /\ Range(e.clusters) = having /\ Len(e.clusters) = Cardinality(having)
            /\ Range(e.policies) =
                 UNION {{<<b, p.id>> : p \in {p \in usesAt[b] : p.cred = e.name}} : b \in having}
            /\ \A i, j \in DOMAIN e.policies : e.policies[i] = e.policies[j] => i = j

\* A question is left without an answer only if an order of nothing was asked for: no
\* Beacon reported any, or no policy is of registered clusters.
UnansweredForReason ==
  reply.phase = "never" =>
    /\ query.orderBy /\ query.kind # "creds"
    /\ \A b \in BeaconIds : \A p \in Range(answers[b].list) : query.kind = "policies" /\ ~Registered(p)
=============================================================================
