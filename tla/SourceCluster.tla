----------------------------- MODULE SourceCluster -----------------------------
(***************************************************************************)
(* The cluster of the wizard's source step and what follows from it        *)
(* (step-source.component.ts): its submission to the Beacon, whether the   *)
(* user of the Beacon is a super user there, its databases and their       *)
(* tables (hive.service.ts, hivelist.effect.ts, hive.reducer.ts).          *)
(*                                                                         *)
(* The calls that submit a cluster and those for the super user are kept   *)
(* when another cluster is chosen, so that they are answered in any order; *)
(* the calls for databases, and those for tables, are each replaced by the *)
(* next one (switchMap).                                                   *)
(***************************************************************************)
EXTENDS Naturals, FiniteSets

CONSTANTS Sources,        \* clusters offered as the source
          Paired,         \* those in a pairing
          SuperUsers,     \* those on which Beacon's user is a super user
          HiveDatabases,  \* what their Hives have, see Entity
          MaxPicks        \* bound: choices of a cluster, and of a type of policies

None == ""
Entity(c, name) == [of |-> c, name |-> name]
NoEntity == Entity(None, None)
Names == {d.name : d \in HiveDatabases}

SourceClusterConstants ==
  /\ Paired \subseteq Sources /\ SuperUsers \subseteq Sources
  /\ \A d \in HiveDatabases : d.of \in Sources
  /\ None \notin Sources \cup Names /\ MaxPicks \in Nat

VARIABLES policyType,        \* of the general step
          sourceCluster,     \* of the form, or None
          database,          \* of the form, or None
          isSuperUser, setSnapshottable,
          told, newest,      \* choices: whose answer isSuperUser is, and the last that had one
          defined,           \* on the server: clusters that were submitted
          submittedClusters, \* those known to be
          clusterSubmitted,  \* no spinner is shown
          submissions,       \* calls that submit, each with its choice
          userCalls,         \* calls for the super user
          selectedSource,    \* selectedSource$, whose databases are listed
          databases,         \* in the store
          databasesCall,     \* the cluster whose databases are asked for
          tables,            \* databases whose tables are in the store
          tablesLoading,     \* databaseTablesLoadingMap: those asked for, and if in progress
          tablesCall,        \* the database whose tables are asked for
          picks

vars == <<policyType, sourceCluster, database, isSuperUser, setSnapshottable, told, newest, defined,
          submittedClusters, clusterSubmitted, submissions, userCalls, selectedSource,
          databases, databasesCall, tables, tablesLoading, tablesCall, picks>>
formVars == <<policyType, sourceCluster>>
snapshotVars == <<isSuperUser, setSnapshottable, told, newest>>
submitVars == <<defined, submittedClusters, clusterSubmitted, submissions>>
databaseVars == <<database, selectedSource, databases, databasesCall>>
tableVars == <<tables, tablesLoading, tablesCall>>

NamesOf(dbs, c) == {d.name : d \in {e \in dbs : e.of = c}}

Init ==
  /\ policyType = "HDFS" /\ sourceCluster = None /\ database = None
  /\ isSuperUser = FALSE /\ setSnapshottable = FALSE /\ told = 0 /\ newest = 0
  /\ defined = {} /\ submittedClusters = {} /\ clusterSubmitted = FALSE
  /\ submissions = {} /\ userCalls = {}
  /\ selectedSource = None /\ databases = {} /\ databasesCall = None
  /\ tables = {} /\ tablesLoading = [d \in {} |-> TRUE] /\ tablesCall = NoEntity
  /\ picks = 0

-----------------------------------------------------------------------------
(* Databases and tables. *)

KeepDatabase(source, dbs, cluster) == UNCHANGED database
\* databases$, once it has a list of the source: unless its database is one of the
\* cluster the form has, the first of the list is selected.
SelectDatabase(source, dbs, cluster) ==
  LET listed == NamesOf(dbs, source)
  IN IF \/ policyType # "HIVE" \/ cluster = None \/ listed = {}
        \/ source = cluster /\ database \in listed
     THEN UNCHANGED database
     ELSE database' \in listed

LoadDatabasesSuccess ==
  /\ databasesCall # None /\ databasesCall' = None
  /\ databases' = databases \cup {d \in HiveDatabases : d.of = databasesCall}
  /\ SelectDatabase(selectedSource, databases', sourceCluster)
  /\ UNCHANGED <<formVars, snapshotVars, submitVars, userCalls, selectedSource, tableVars, picks>>

LoadDatabasesFail ==
  /\ databasesCall # None /\ databasesCall' = None
  /\ UNCHANGED <<formVars, snapshotVars, submitVars, userCalls, database, selectedSource,
                 databases, tableVars, picks>>

HandleSelectDatabase(name) ==
  /\ policyType = "HIVE" /\ sourceCluster # None
  /\ name \in NamesOf(databases, selectedSource) \ {database}
  /\ database' = name
  /\ UNCHANGED <<formVars, snapshotVars, submitVars, userCalls, selectedSource, databases,
                 databasesCall, tableVars, picks>>

\* Tables are asked for when they are shown or hidden first.
OnDatabaseTablesCollapsed(d) ==
  /\ policyType = "HIVE" /\ sourceCluster # None
  /\ d \in databases /\ d.of = selectedSource /\ d \notin DOMAIN tablesLoading
  /\ tablesLoading' = [e \in DOMAIN tablesLoading \cup {d} |->
                         IF e = d THEN TRUE ELSE tablesLoading[e]]
  /\ tablesCall' = d
  /\ UNCHANGED <<formVars, snapshotVars, submitVars, userCalls, databaseVars, tables, picks>>

\* The answer ends the progress of all calls for tables, also of those replaced.
OneLoaded == [tablesLoading EXCEPT ![tablesCall] = FALSE]
AllLoaded == [d \in DOMAIN tablesLoading |-> FALSE]

LoadTablesDone(ok) ==
  /\ tablesCall # NoEntity /\ tablesCall' = NoEntity
  /\ tablesLoading' = AllLoaded
  /\ tables' = IF ok THEN tables \cup {tablesCall} ELSE tables
  /\ IF ok THEN SelectDatabase(selectedSource, databases, sourceCluster) ELSE UNCHANGED database
  /\ UNCHANGED <<formVars, snapshotVars, submitVars, userCalls, selectedSource, databases,
                 databasesCall, picks>>

-----------------------------------------------------------------------------
(* Choosing a cluster. *)

\* A cluster was submitted, or need not be: its databases are listed, and asked for,
\* and the super user is.
Proceed(call, cluster) ==
  /\ clusterSubmitted' = TRUE
  /\ selectedSource' = call.of /\ databasesCall' = call.of
  /\ SelectDatabase(call.of, databases, cluster)
  /\ userCalls' = userCalls \cup {call}
  /\ UNCHANGED databases

\* subscribeToSourceCluster.  Handlers run before the form has the new value; the
\* databases are not shown before there is a cluster.
ChooseCluster(c) ==
  /\ picks < MaxPicks /\ picks' = picks + 1
  /\ c # sourceCluster
  /\ policyType = "HIVE" => c \in Paired
  /\ sourceCluster' = c
  /\ LET skipped == c \in Paired \cup submittedClusters
         call == [of |-> c, pick |-> picks']
     IN /\ submittedClusters' = IF skipped THEN submittedClusters \cup {c} ELSE submittedClusters
        /\ IF skipped
           THEN /\ Proceed(call, IF sourceCluster = None THEN c ELSE sourceCluster)
                /\ UNCHANGED submissions
           ELSE /\ clusterSubmitted' = FALSE /\ submissions' = submissions \cup {call}
                /\ UNCHANGED <<databaseVars, userCalls>>
  /\ UNCHANGED <<policyType, snapshotVars, defined, tableVars>>

\* submitCluster.  Its failure is caught, and the choice goes on without.
MarkedAnyway(call, ok) == submittedClusters \cup {call.of}
Marked(call, ok) ==
  IF ok THEN submittedClusters \cup {call.of} ELSE submittedClusters \ {call.of}

SubmitDone(call, ok) ==
  /\ call \in submissions /\ submissions' = submissions \ {call}
  /\ defined' = IF ok THEN defined \cup {call.of} ELSE defined
  /\ submittedClusters' = Marked(call, ok)
  /\ Proceed(call, sourceCluster)
  /\ UNCHANGED <<formVars, snapshotVars, tableVars, picks>>

\* The status of the super user, or none: whichever cluster is chosen by then.
UserOnly(call, known) ==
  [isSuperUser |-> known /\ call.of \in SuperUsers, setSnapshottable |-> setSnapshottable]
UserStatus(call, known) ==
  [isSuperUser |-> known /\ call.of \in SuperUsers,
   setSnapshottable |-> setSnapshottable /\ known /\ call.of \in SuperUsers]

UserDone(call, known) ==
  /\ call \in userCalls /\ userCalls' = userCalls \ {call}
  /\ isSuperUser' = UserStatus(call, known).isSuperUser
  /\ setSnapshottable' = UserStatus(call, known).setSnapshottable
  /\ told' = call.pick /\ newest' = IF call.pick > newest THEN call.pick ELSE newest
  /\ UNCHANGED <<formVars, submitVars, databaseVars, tableVars, picks>>

\* The directory must also be one that allows it; this is left open.
HandleSnapshotable ==
  /\ policyType = "HDFS" /\ sourceCluster # None /\ clusterSubmitted /\ isSuperUser
  /\ setSnapshottable' = ~setSnapshottable
  /\ UNCHANGED <<formVars, isSuperUser, told, newest, submitVars, userCalls, databaseVars, tableVars, picks>>

\* Another type in the general step sets the form back; the calls go on.
UpdateOnActivation(type) ==
  /\ type # policyType /\ picks < MaxPicks /\ picks' = picks + 1
  /\ policyType' = type
  /\ sourceCluster' = None /\ database' = None
  /\ isSuperUser' = FALSE /\ setSnapshottable' = FALSE
  /\ UNCHANGED <<told, newest, submitVars, userCalls, selectedSource, databases, databasesCall,
                 tableVars>>

Next ==
  \/ \E c \in Sources : ChooseCluster(c)
  \/ \E call \in submissions, ok \in BOOLEAN : SubmitDone(call, ok)
  \/ \E call \in userCalls, known \in BOOLEAN : UserDone(call, known)
  \/ HandleSnapshotable
  \/ \E type \in {"HDFS", "HIVE"} : UpdateOnActivation(type)
  \/ LoadDatabasesSuccess \/ LoadDatabasesFail
  \/ \E name \in Names : HandleSelectDatabase(name)
  \/ \E d \in databases : OnDatabaseTablesCollapsed(d)
  \/ \E ok \in BOOLEAN : LoadTablesDone(ok)

-----------------------------------------------------------------------------

TypeOK ==
  /\ policyType \in {"HDFS", "HIVE"}
  /\ {sourceCluster, selectedSource, databasesCall} \subseteq Sources \cup {None}
  /\ database \in Names \cup {None}
  /\ {isSuperUser, setSnapshottable, clusterSubmitted} \subseteq BOOLEAN
  /\ {told, newest} \subseteq 0..MaxPicks
  /\ submissions \cup userCalls \subseteq [of : Sources, pick : 1..MaxPicks]
  /\ defined \cup submittedClusters \subseteq Sources
  /\ databases \cup DOMAIN tablesLoading \cup tables \subseteq HiveDatabases
  /\ tablesCall \in HiveDatabases \cup {NoEntity}

\* The database of the form is one of its cluster when these are listed: while clusters
\* are changed and lists come late (setupDatabaseChanges, step-source.component.ts).
DatabaseListed ==
  policyType = "HIVE" /\ sourceCluster # None /\ sourceCluster = selectedSource
    => LET listed == NamesOf(databases, sourceCluster)
       IN listed = {} \/ database \in listed

\* The files of a cluster are browsed when its Beacon knows it, by a pairing or by a
\* submission that was not in vain: a browser of HDFS asks the Beacon.
BrowsesDefined == submittedClusters \subseteq Paired \cup defined

\* A spinner in place of the browsers stands for a submission of the cluster chosen, and
\* one in place of tables for a call for tables: none is left over.
SpinsForSource ==
  /\ sourceCluster # None /\ ~clusterSubmitted
       => \E call \in submissions : call.of = sourceCluster
  /\ (\E d \in DOMAIN tablesLoading : tablesLoading[d]) => tablesCall # NoEntity

\* Once every call is answered, snapshots are asked for only by a super user of the
\* cluster that is chosen, also if the user had asked for them on another one before: but
\* not if the last answer was that of an earlier choice, which is taken for one about the
\* cluster chosen by then (subscribeToSourceCluster).
SnapshotBySuperUser ==
  setSnapshottable /\ submissions = {} /\ userCalls = {} /\ told = newest
    => sourceCluster \in SuperUsers
=============================================================================
