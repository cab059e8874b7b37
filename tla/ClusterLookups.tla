---------------------------- MODULE ClusterLookups ----------------------------
(***************************************************************************)
(* What the backend reads of clusters from Dataplane and from Ambari:      *)
(* services/DataplaneService.scala, AmbariService.scala and                *)
(* utils/EndpointService.scala.  A request makes several calls, one after  *)
(* another or to all clusters at a time, while clusters are registered and *)
(* removed and their configuration is changed.  Each call may fail, and a  *)
(* request that fails by an exception nobody catches is not answered.      *)
(*                                                                         *)
(* Dataplane and Ambari are not part of the source: a cluster is taken to  *)
(* come and go in all tables at a time.                                    *)
(***************************************************************************)
EXTENDS Naturals, Sequences, FiniteSets

CONSTANTS LookupClusters,
          Configs,        \* the configurations clusters may have
          NoNamenode, NoPort,  \* clusters without a NameNode, and without a port of Beacon
          Lost,           \* in the place of an answer
          MaxChanges      \* bound: changes while a request is served

Settings == {"none", "bucket", "core", "oldCore"}
Repositories == {"none", "variable", "named"}

\* internal: the internal name services of HDFS, with the NameNodes of each; addressed:
\* NameNodes with an address.  Encryption is set for a bucket in the configuration of
\* Hive, or for all in that of HDFS.
Config == [services : SUBSET {"HDFS", "HIVE", "RANGER"}, fs : BOOLEAN, zookeeper : BOOLEAN,
           url : BOOLEAN, internal : Seq({"ns1", "ns2"}), namenodes : [{"ns1", "ns2"} -> SUBSET (1..2)],
           addressed : SUBSET (1..2), algorithm : SUBSET Settings, key : SUBSET Settings,
           hdfsRepo : Repositories, hiveRepo : Repositories]

ClusterLookupsConstants ==
  /\ NoNamenode \cup NoPort \subseteq LookupClusters /\ MaxChanges \in Nat
  /\ \A x \in Configs : x \in Config /\ x # Lost
  /\ \A S \in SUBSET LookupClusters : S # Lost

VARIABLES registered, config, changes,
          request,     \* what is asked for, of which cluster if of one
          lists,       \* the tables read, in the order they are
          answered,    \* clusters that Ambari was asked of
          lost,        \* those whose call failed
          taken,       \* configurations read for the definition of a cluster
          failures, outcome

lookupVars == <<registered, config, changes, request, lists, answered, lost, taken, failures, outcome>>

Kinds == {"beacons", "configs", "health", "definition"}

NoRequest == [kind |-> "none", of |-> {}]
Pending == [phase |-> "pending", clusters |-> {}, keys |-> {}, ranger |-> <<>>]

Init ==
  /\ registered \in SUBSET LookupClusters /\ config \in [LookupClusters -> Configs] /\ changes = 0
  /\ request = NoRequest /\ lists = <<>> /\ answered = {} /\ lost = {} /\ taken = <<>>
  /\ failures = FALSE /\ outcome = Pending

\* Dataplane and Ambari.
Register(c) ==
  /\ changes < MaxChanges /\ changes' = changes + 1 /\ request.kind # "none"
  /\ registered' = IF c \in registered THEN registered \ {c} ELSE registered \cup {c}
  /\ UNCHANGED <<config, request, lists, answered, lost, taken, failures, outcome>>
Configure(c, x) ==
  /\ changes < MaxChanges /\ changes' = changes + 1 /\ request.kind = "definition" /\ x # config[c]
  /\ config' = [config EXCEPT ![c] = x]
  /\ UNCHANGED <<registered, request, lists, answered, lost, taken, failures, outcome>>

Ask(kind, c) ==
  /\ request = NoRequest /\ request' = [kind |-> kind, of |-> IF kind = "definition" THEN {c} ELSE {}]
  /\ UNCHANGED <<registered, config, changes, lists, answered, lost, taken, failures, outcome>>

AtWork == request.kind # "none" /\ outcome.phase = "pending"
World == <<registered, config, changes, request>>

-----------------------------------------------------------------------------
(* The lists of clusters. *)

\* getBeaconClusters reads the clusters, those of Dataplane, the Beacons and the
\* NameNodes; getAllClusters the clusters only.
Tables ==
  CASE request.kind \in {"beacons", "configs"} -> <<"clusters", "dataplane", "beacons", "namenodes">>
    [] request.kind = "health" -> <<"clusters">>
    [] OTHER -> <<>>

Rows(table) == IF table = "namenodes" THEN registered \ NoNamenode ELSE registered

ReadTable ==
  /\ AtWork /\ Len(lists) < Len(Tables)
  /\ \/ lists' = Append(lists, Rows(Tables[Len(lists) + 1])) /\ UNCHANGED failures
     \/ lists' = Append(lists, Lost) /\ failures' = TRUE
  /\ UNCHANGED <<World, answered, lost, taken, outcome>>

TablesRead == AtWork /\ request.kind # "definition" /\ Len(lists) = Len(Tables)

\* right.get and get throw when a list was not had, and when a Beacon is of a cluster
\* that the lists before do not have.  Without Beacons the other tables are not looked at.
ListsThrow ==
  IF Len(lists) <= 1 THEN Lost \in {lists[i] : i \in DOMAIN lists}
  ELSE IF lists[3] \in {Lost, {}} THEN lists[3] = Lost
  ELSE IF Lost \in {lists[i] : i \in DOMAIN lists} THEN TRUE
  ELSE ~(lists[3] \subseteq lists[1] /\ lists[3] \subseteq lists[2])

End(o) == outcome' = o /\ UNCHANGED <<World, lists, answered, lost, taken, failures>>
Outcome(phase) == [Pending EXCEPT !.phase = phase]
Listed(S) == [Pending EXCEPT !.phase = "ok", !.clusters = S]

Failed(phase) ==
  /\ outcome' = Outcome(phase) /\ failures' = TRUE
  /\ UNCHANGED <<World, lists, answered, lost, taken>>
GoOn ==
  /\ lists' = Append(lists, lists[3])
  /\ UNCHANGED <<World, answered, lost, taken, failures, outcome>>

\* onFailure makes an error of what is thrown.
ListsFail == TablesRead /\ ListsThrow /\ End(Outcome("error"))

\* The locations of all, and a NameNode for each.
Locate ==
  /\ TablesRead /\ ~ListsThrow /\ Len(lists) = 4
  /\ \/ lists[3] # {} /\ Failed("error")
     \/ IF \A c \in lists[3] : c \in lists[4] THEN GoOn ELSE End(Outcome("error"))

\* getBeaconEndpoint, of all: a port that is missing is an error; a host that cannot be
\* had is an exception in a future that nobody looks after.
Hosts ==
  /\ AtWork /\ Len(lists) = 5
  /\ \/ lists[3] # {} /\ Failed("never")
     \/ IF lists[3] \cap NoPort # {} THEN End(Outcome("error"))
        ELSE IF request.kind = "configs" THEN GoOn
        ELSE End(Listed(lists[3]))

\* Ambari, of each cluster at the same time.
Asked == IF request.kind = "configs" THEN lists[3] ELSE lists[1]
ReadyToAsk ==
  AtWork /\ IF request.kind = "health" THEN Len(lists) = 1 /\ ~ListsThrow
             ELSE request.kind = "configs" /\ Len(lists) = 6

AskEach(c) ==
  /\ ReadyToAsk /\ c \in Asked \ answered /\ answered' = answered \cup {c}
  /\ \/ UNCHANGED <<lost, failures>>
     \/ lost' = lost \cup {c} /\ failures' = TRUE
  /\ UNCHANGED <<World, lists, taken, outcome>>

AllAsked == ReadyToAsk /\ answered = Asked

FailsIfAny(S, failed) == IF failed # {} THEN Outcome("error") ELSE Listed(S)
FailsIfAll(S, failed) == IF S # {} /\ failed = S THEN Outcome("error") ELSE Listed(S \ failed)

\* getAllClusterHealthStatus; getUserPrivilegeForAllClusters takes a failed call for no.
ListHealth == AllAsked /\ request.kind = "health" /\ End(FailsIfAll(Asked, lost))

-----------------------------------------------------------------------------
(* The configuration of one cluster. *)

Error == [found |-> FALSE, keys |-> {}]
Found(keys) == [found |-> TRUE, keys |-> keys]

\* The keys of the first internal name service.
HaKeysOfAll(x) ==
  {<<"address", n>> : n \in (x.namenodes["ns1"] \cup x.namenodes["ns2"]) \cap x.addressed}
HaKeys(x) ==
  IF x.internal = <<>> THEN {}
  ELSE {<<"address", n>> : n \in x.namenodes[Head(x.internal)] \cap x.addressed}

\* getHDFSConfigDetails
Hdfs(x) ==
  IF x = Lost THEN Error
  ELSE IF "HDFS" \notin x.services THEN Found({})
  ELSE IF ~x.fs THEN Error
  ELSE Found({<<"fsEndpoint">>} \cup HaKeys(x))

\* getCloudEncryptionConfigs: what is set for a bucket goes first.
FirstOf(setting, order) ==
  LET there == {i \in DOMAIN order : order[i] \in setting}
  IN IF there = {} THEN "none" ELSE order[CHOOSE i \in there : \A j \in there : i <= j]
CoreFirst(x) ==
  {<<"algorithm", FirstOf(x.algorithm, <<"core", "bucket">>)>>,
   <<"key", FirstOf(x.key, <<"core", "oldCore", "bucket">>)>>}
Encryption(x) ==
  {<<"algorithm", FirstOf(x.algorithm, <<"bucket", "core">>)>>,
   <<"key", FirstOf(x.key, <<"bucket", "core", "oldCore">>)>>}

\* getHiveConfigDetails asks for both services, and goes on if it got one.
Hive(x) ==
  IF x = Lost THEN Error
  ELSE IF x.services \cap {"HIVE", "HDFS"} = {} THEN Found({})
  ELSE IF "HIVE" \notin x.services \/ ~x.zookeeper THEN Error
  ELSE Found({<<"hsEndpoint">>} \cup
             {s \in Encryption(IF "HDFS" \in x.services THEN x
                               ELSE [x EXCEPT !.algorithm = @ \cap {"bucket"}, !.key = @ \cap {"bucket"}]) :
                s[2] # "none"})

Repository(name, default) == IF name = "named" THEN "named" ELSE default

\* getAllBeaconClusterConfigDetails; without Beacons it fails.
ListConfigs ==
  /\ AllAsked /\ request.kind = "configs"
  /\ LET failed == {c \in Asked : c \in lost \/ ~Hive(config[c]).found}
     IN End(IF failed = Asked THEN Outcome("error") ELSE Listed(Asked \ failed))

\* The calls for a definition: HDFS, Hive and Ranger, and with Ranger HDFS and Hive once
\* more.
Calls ==
  IF Len(taken) < 3 THEN 3
  ELSE IF taken[3] # Lost THEN IF "RANGER" \in taken[3].services /\ taken[3].url THEN 5 ELSE 3
  ELSE 3

TheCluster == CHOOSE c \in request.of : TRUE

ReadConfig ==
  /\ AtWork /\ request.kind = "definition" /\ Len(taken) < Calls
  /\ \/ taken' = Append(taken, config[TheCluster]) /\ UNCHANGED failures
     \/ taken' = Append(taken, Lost) /\ failures' = TRUE
  /\ UNCHANGED <<World, lists, answered, lost, outcome>>

\* getRangerEndpointDetails: error, none, or the names of what Ranger knows; the head of
\* no configurations of HDFS throws.
RangerThrows ==
  IF Calls = 5 /\ taken[4] # Lost /\ taken[5] # Lost THEN "HDFS" \notin taken[4].services ELSE FALSE
RangerFails ==
  IF taken[3] = Lost THEN TRUE
  ELSE "RANGER" \in taken[3].services /\
         (~taken[3].url \/ taken[4] = Lost \/ taken[5] = Lost)
Ranger ==
  IF Calls = 3 THEN <<>>
  ELSE <<Repository(taken[4].hdfsRepo, "hadoop"),
         IF "HIVE" \in taken[5].services THEN Repository(taken[5].hiveRepo, "hive") ELSE "none">>

\* checkAndCreateClusterDefinition, up to the definition that is sent.
Define ==
  /\ AtWork /\ request.kind = "definition" /\ Len(taken) = Calls
  /\ End(IF RangerThrows THEN Outcome("never")
         ELSE IF ~Hdfs(taken[1]).found \/ ~Hive(taken[2]).found \/ RangerFails THEN Outcome("error")
         ELSE [phase |-> "ok", clusters |-> request.of, ranger |-> Ranger,
               keys |-> Hdfs(taken[1]).keys \cup Hive(taken[2]).keys])

Proceed == ReadTable \/ ListsFail \/ Locate \/ Hosts \/ ListHealth \/ ListConfigs \/ ReadConfig \/ Define
              \/ \E c \in LookupClusters : AskEach(c)

Next ==
  \/ Proceed
  \/ \E c \in LookupClusters : Register(c) \/ \E x \in Configs : Configure(c, x)
  \/ \E c \in LookupClusters, kind \in Kinds : Ask(kind, c)

Spec == Init /\ [][Next]_lookupVars /\ WF_lookupVars(Proceed)

-----------------------------------------------------------------------------
(* Properties. *)

TypeOK ==
  /\ registered \subseteq LookupClusters /\ config \in [LookupClusters -> Configs]
  /\ changes \in 0..MaxChanges /\ request.kind \in Kinds \cup {"none"}
  /\ lost \subseteq answered /\ answered \subseteq LookupClusters
  /\ outcome.phase \in {"pending", "ok", "error", "never"}

Undisturbed == changes = 0 /\ ~failures

\* A list has the clusters that answered, and one of Beacons all that there are.  It is
\* refused for a reason: calls that failed, a cluster that came or went meanwhile, one
\* that lacks what all need, or, of configurations, none that can be had.
ListsFit ==
  /\ request.kind = "health" /\ outcome.phase # "pending" =>
       (outcome.phase = "error" <=> lists[1] = Lost \/ (lost # {} /\ lost = Asked))
  /\ request.kind = "health" /\ outcome.phase = "ok" => outcome.clusters = Asked \ lost
  /\ request.kind = "beacons" /\ Undisturbed /\ outcome.phase # "pending" =>
       IF registered \cap (NoNamenode \cup NoPort) = {}
       THEN outcome = Listed(registered) ELSE outcome.phase = "error"
  /\ request.kind = "configs" /\ Undisturbed /\ outcome.phase = "error" =>
       \/ registered \cap (NoNamenode \cup NoPort) # {}
       \/ \A c \in registered : ~("HIVE" \in config[c].services /\ config[c].zookeeper)
                                   /\ config[c].services # {}

\* A definition says what the cluster has, if nothing changed while it was read: the
\* addresses of the name service that is used here and of no other, the setting of the
\* bucket rather than that of all, and the names of Ranger.
DefinitionFits ==
  request.kind = "definition" /\ Undisturbed /\ outcome.phase = "ok" =>
    LET x == config[TheCluster]
        set(what) == {s[2] : s \in {k \in outcome.keys : k[1] = what}}
    IN /\ set("address") = IF "HDFS" \in x.services /\ x.internal # <<>>
                           THEN x.namenodes[x.internal[1]] \cap x.addressed ELSE {}
       /\ "HIVE" \in x.services /\ "bucket" \in x.algorithm => set("algorithm") = {"bucket"}
       /\ "HIVE" \in x.services /\ "bucket" \in x.key => set("key") = {"bucket"}
       /\ outcome.ranger # <<>> <=> "RANGER" \in x.services
       /\ outcome.ranger # <<>> =>
            (outcome.ranger[1] = "named" <=> x.hdfsRepo = "named") /\
            (outcome.ranger[2] = "none" <=> "HIVE" \notin x.services)

\* A definition is refused for a reason.
DefinitionRefused ==
  request.kind = "definition" /\ Undisturbed /\ outcome.phase = "error" =>
    LET x == config[TheCluster]
    IN \/ "HDFS" \in x.services /\ (~x.fs \/ "HIVE" \notin x.services)
       \/ "HIVE" \in x.services /\ ~x.zookeeper
       \/ "RANGER" \in x.services /\ ~x.url

\* Every request is answered, unless the host of a Beacon cannot be had, or a cluster
\* has Ranger and not HDFS.
LookupsEnd ==
  request.kind # "none" ~>
    \/ outcome.phase \in {"ok", "error"}
    \/ outcome.phase = "never" /\ IF request.kind = "definition"
                                  THEN "HDFS" \notin taken[4].services ELSE failures
=============================================================================
