-------------------------------- MODULE Backend --------------------------------
(***************************************************************************)
(* What the backend does beside the keystore, the credentials on Beacons   *)
(* and pairing: policies are submitted, lists are made of the answers of   *)
(* all Beacons, clusters are looked up, and clouds are asked.  Each part   *)
(* is a module of its own.  They meet in the calls of one another, which   *)
(* each takes for a call that may fail, and keep no state in common, so    *)
(* that it is enough to check one at a time: part names the one that takes *)
(* steps in a behaviour.                                                   *)
(***************************************************************************)
EXTENDS Integers, Sequences

CONSTANTS Handlers, Beacons, Creds, Aws, MaxRequests, NumResults,      \* PolicySubmit
          BeaconsCount, Accounts, Cloud,                               \* Listings
          LookupClusters, NoNamenode, NoPort, Lost, MaxChanges,        \* ClusterLookups
          StoreAccounts, MaxKeys, MaxReplaced,                         \* CloudStorage
          Statuses                                                     \* Relays

VARIABLES part,
          policies, creds, defs, work, answer, received,
          query, there, reported, credsAt, usesAt, answers, reply,
          registered, config, changes, request, lists, answered, lost, taken, failures, outcome,
          stored, alive, replaced, asking, waiting, built, statuses, troubled, reached,
          route, came, done, given

submitVars == <<policies, creds, defs, work, answer, received>>
listingVars == <<query, there, reported, credsAt, usesAt, answers, reply>>
lookupVars == <<registered, config, changes, request, lists, answered, lost, taken, failures, outcome>>
storageVars == <<stored, alive, replaced, asking, waiting, built, statuses, troubled, reached>>
relayVars == <<route, came, done, given>>
vars == <<part, submitVars, listingVars, lookupVars, storageVars, relayVars>>

-----------------------------------------------------------------------------
(* Instances of what the parts work on. *)

\* One policy would write below another one; one copies no files; one is only tested,
\* and lacks an account; one is deleted.
Create(at, name, kind, target, cred) ==
  [op |-> "create", at |-> at, name |-> name, kind |-> kind, target |-> target, cred |-> cred]
Requests ==
  {Create("b1", "p", "files to cloud", <<"x">>, "k"),
   Create("b2", "q", "files to cloud", <<"x", "y">>, "k"),
   Create("b2", "s", "other", <<>>, "k"),
   [Create("b1", "t", "needs a credential", <<>>, "w") EXCEPT !.op = "test"],
   [Create("b1", "p", "other", <<>>, "k") EXCEPT !.op = "delete"]}
Paths == {<<"x">>, <<"x", "y">>}

\* Between both clusters, to the cloud, and from a cluster that is not registered.
Universe ==
  {[number |-> 1, source |-> 1, target |-> 2], [number |-> 2, source |-> 1, target |-> 0],
   [number |-> 3, source |-> 2, target |-> 1], [number |-> 4, source |-> 2, target |-> 3]}
CredPolicies == {[id |-> 1, cred |-> "k"], [id |-> 2, cred |-> "k"], [id |-> 3, cred |-> "l"]}
Queries ==
  [kind : {"policies"}, orderBy : {TRUE}, desc : BOOLEAN, size : 0..2, offset : 0..1]
    \cup [kind : {"policies", "events"}, orderBy : BOOLEAN, desc : {TRUE}, size : 0..1, offset : {0}]
    \cup [kind : {"creds"}, orderBy : {FALSE}, desc : {FALSE}, size : {0}, offset : {0}]

\* A cluster with all services, one without Hive, one without HDFS, one that lacks its
\* file system.
Complete ==
  [services |-> {"HDFS", "HIVE", "RANGER"}, fs |-> TRUE, zookeeper |-> TRUE, url |-> TRUE,
   internal |-> <<"ns2", "ns1">>, namenodes |-> [n \in {"ns1", "ns2"} |-> IF n = "ns1" THEN {1} ELSE {2}],
   addressed |-> {1, 2}, algorithm |-> {"bucket", "core"}, key |-> {"bucket", "oldCore"},
   hdfsRepo |-> "named", hiveRepo |-> "variable"]
Configs ==
  {Complete, [Complete EXCEPT !.services = {"HDFS"}], [Complete EXCEPT !.services = {"HIVE", "RANGER"}],
   [Complete EXCEPT !.fs = FALSE]}

Objects == {<<"f">>, <<"d", "">>, <<"d", "f">>, <<"e", "d", "g">>}
Directories == {<<>>, <<"d">>, <<"e">>}

-----------------------------------------------------------------------------

Submission == INSTANCE PolicySubmit
Lists == INSTANCE Listings
Lookups == INSTANCE ClusterLookups
Storage == INSTANCE CloudStorage
Relayed == INSTANCE Relays

ASSUME BackendConstants ==
  /\ Submission!PolicySubmitConstants /\ Lists!ListingsConstants
  /\ Lookups!ClusterLookupsConstants /\ Storage!CloudStorageConstants
  /\ Relayed!RelaysConstants

\* What there is at first matters to the part that is at work only.
NoQuery == CHOOSE q \in Queries : q.kind = "creds"
NoneAt == [b \in 1..BeaconsCount |-> {}]
NoAccounts == [a \in StoreAccounts |-> "absent"]
Init ==
  /\ part \in {"submission", "lists", "lookups", "storage", "relays"}
  /\ part = "lists" \/ (query = NoQuery /\ credsAt = NoneAt /\ usesAt = NoneAt)
  /\ part = "lookups" \/ (registered = {} /\ config = [c \in LookupClusters |-> Complete])
  /\ part = "storage" \/ (stored = NoAccounts /\ alive = [a \in StoreAccounts |-> TRUE])
  /\ Submission!Init /\ Lists!Init /\ Lookups!Init /\ Storage!Init /\ Relayed!Init

AtWork(p, resting) == part = p /\ UNCHANGED <<part, resting>>
SubmissionAtWork == AtWork("submission", <<listingVars, lookupVars, storageVars, relayVars>>)
ListsAtWork == AtWork("lists", <<submitVars, lookupVars, storageVars, relayVars>>)
LookupsAtWork == AtWork("lookups", <<submitVars, listingVars, storageVars, relayVars>>)
StorageAtWork == AtWork("storage", <<submitVars, listingVars, lookupVars, relayVars>>)
RelaysAtWork == AtWork("relays", <<submitVars, listingVars, lookupVars, storageVars>>)

Next ==
  \/ SubmissionAtWork /\ Submission!Next
  \/ ListsAtWork /\ Lists!Next
  \/ LookupsAtWork /\ Lookups!Next
  \/ StorageAtWork /\ Storage!Next
  \/ RelaysAtWork /\ Relayed!Next

\* Every call ends, and what waits for it goes on: the fairness of the parts, of which a
\* behaviour has one.
Proceed ==
  \/ SubmissionAtWork /\ Submission!Proceed
  \/ LookupsAtWork /\ Lookups!Proceed
  \/ StorageAtWork /\ Storage!Proceed

Spec == Init /\ [][Next]_vars /\ WF_vars(Proceed)

-----------------------------------------------------------------------------

\* The types of the variables of each part.
TypeOK == Submission!TypeOK /\ Lists!TypeOK /\ Lookups!TypeOK /\ Storage!TypeOK /\ Relayed!TypeOK

\* Policies do not write below one another, have on their Beacons what they need, and are
\* refused for a reason: TargetsApart, PolicyEquipped and RefusedForReason of PolicySubmit.
SubmitsFit ==
  Submission!TargetsApart /\ Submission!PolicyEquipped /\ Submission!RefusedForReason

\* Policies are fit; clusters are listed and defined as they are, statuses of accounts are
\* true, and an answer says what came back: ListsFit, DefinitionFits and DefinitionRefused
\* of ClusterLookups, StatusesFit of CloudStorage, RelaysFit of Relays.
RequestsFit ==
  /\ SubmitsFit
  /\ Lookups!ListsFit /\ Lookups!DefinitionFits /\ Lookups!DefinitionRefused
  /\ Storage!StatusesFit
  /\ Relayed!RelaysFit

\* The lists that are answered have what was asked for: PoliciesOnce, PagesAgree, CredsJoined
\* and UnansweredForReason of Listings, FilesFit of CloudStorage.
AnswersFit ==
  /\ Lists!PoliciesOnce /\ Lists!PagesAgree /\ Lists!CredsJoined /\ Lists!UnansweredForReason
  /\ Storage!FilesFit

\* Every request is answered but those that wait for a lookup or for accounts that end in
\* an exception: RequestsEnd of PolicySubmit, LookupsEnd and StorageEnds.
AllAnswered ==
  /\ part = "submission" => Submission!RequestsEnd
  /\ part = "lookups" => Lookups!LookupsEnd
  /\ part = "storage" => Storage!StorageEnds
=============================================================================
