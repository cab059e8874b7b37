------------------------------ MODULE ClusterList ------------------------------
(***************************************************************************)
(* The list of the page of clusters (clusters.component.ts,                *)
(* cluster-list.component.ts): when the three loads of the page have       *)
(* ended, however, clusters without pairs are submitted to their Beacons,  *)
(* as only the files of a cluster that its Beacon knows can be browsed;    *)
(* and the menu of each cluster, which leads to the pages that create      *)
(* pairings and policies (cluster-actions, operation.selector).            *)
(*                                                                         *)
(* A load ends with the first answer of its kind, its own or not.          *)
(***************************************************************************)
EXTENDS Naturals, FiniteSets

CONSTANTS ListClusters,  \* clusters, all of them registered
          PairedFirst,   \* keys of the pairs there are at first
          MaxTurns       \* bound: pairings made and removed elsewhere, and visits

PairKeys == {key \in ListClusters \X ListClusters : key[1] # key[2]}
ClusterListConstants ==
  IsFiniteSet(ListClusters) /\ PairedFirst \subseteq PairKeys /\ MaxTurns \in Nat

VARIABLES paired, defined,     \* server: pairs, and clusters whose Beacon has their definition
          everDefined,         \* clusters that were defined at some time
          listedClusters, pairKeys, hasAccounts, \* store
          pending,             \* loads of the page under way, or {"elsewhere"}
          submitted,           \* submittedClusters
          posting,             \* submissions under way
          opened,              \* clusters whose files are browsed
          leadsTo,             \* what was chosen last in the menu of a cluster
          turns

serverVars == <<paired, defined, everDefined>>
storeVars == <<listedClusters, pairKeys, hasAccounts>>
pageVars == <<pending, submitted, posting, opened, leadsTo>>
vars == <<serverVars, storeVars, pageVars, turns>>

Loads == {"clusters", "pairs", "policies"}
NoneSubmitted == [c \in {} |-> FALSE]
Ends(keys) == UNION {{key[1], key[2]} : key \in keys}

Init ==
  /\ paired = {{key[1], key[2]} : key \in PairedFirst}
  /\ defined = Ends(PairedFirst) /\ everDefined = defined
  /\ listedClusters = {} /\ pairKeys = {} /\ hasAccounts = FALSE
  /\ pending = Loads /\ submitted = NoneSubmitted /\ posting = {} /\ opened = {}
  /\ leadsTo = "" /\ turns = 0

Turn == turns < MaxTurns /\ turns' = turns + 1

-----------------------------------------------------------------------------
(* The server. *)

\* Two clusters are defined and paired, or unpaired and what has no pair is removed.
Happen(pair) ==
  /\ Turn
  /\ paired' = IF pair \in paired THEN paired \ {pair} ELSE paired \cup {pair}
  /\ defined' = IF pair \in paired
                THEN defined \ {c \in pair : \A other \in paired \ {pair} : c \notin other}
                ELSE defined \cup pair
  /\ everDefined' = everDefined \cup defined'
  /\ UNCHANGED <<storeVars, pageVars>>

\* Each pair in the order in which the Beacon that was heard told it.
Told == {keys \in SUBSET PairKeys :
           /\ \A key \in keys : {key[1], key[2]} \in paired /\ <<key[2], key[1]>> \notin keys}

-----------------------------------------------------------------------------
(* The page. *)

\* getCountPairsForClusters.
CountOfFirst(keys, c) == Cardinality({key \in keys : c = key[1]})
CountIn(keys, c) == Cardinality({key \in keys : c \in {key[1], key[2]}})

\* The subscriber of overallProgress$, with what the store has by then, whether the loads
\* succeeded or failed.
TakenAsSubmitted(clusters, keys) ==
  /\ submitted' = [c \in clusters |-> TRUE]
  /\ posting' = {c \in clusters : CountIn(keys, c) = 0}
SubmitUnpaired(clusters, keys) ==
  /\ submitted' = [c \in clusters |-> CountIn(keys, c) > 0]
  /\ posting' = {c \in clusters : CountIn(keys, c) = 0}

Loaded(load, clusters, keys) ==
  /\ load \in pending /\ pending' = pending \ {load}
  /\ IF pending' = {} THEN SubmitUnpaired(clusters, keys) ELSE UNCHANGED <<submitted, posting>>
  /\ listedClusters' = clusters /\ pairKeys' = keys
  /\ UNCHANGED <<serverVars, hasAccounts, opened, leadsTo, turns>>

LoadClustersSuccess == Loaded("clusters", ListClusters, pairKeys)
LoadPairingsSuccess == \E keys \in Told : Loaded("pairs", listedClusters, pairKeys \cup keys)
LoadEnds(load) == Loaded(load, listedClusters, pairKeys)

LoadAccountsSuccess ==
  /\ ~hasAccounts /\ hasAccounts' = TRUE
  /\ UNCHANGED <<serverVars, listedClusters, pairKeys, pageVars, turns>>

\* updateSubmittedCluster.
SubmittedAnyway(c, success) == [submitted EXCEPT ![c] = TRUE]
UpdateSubmittedCluster(c, success) == [submitted EXCEPT ![c] = success]

SubmitClusterEnds(c, success) ==
  /\ c \in posting /\ posting' = posting \ {c}
  /\ submitted' = UpdateSubmittedCluster(c, success)
  /\ defined' = IF success THEN defined \cup {c} ELSE defined
  /\ everDefined' = everDefined \cup defined'
  /\ UNCHANGED <<paired, storeVars, pending, opened, leadsTo, turns>>

IsHDFSDisabled(c) == ~(c \in DOMAIN submitted /\ submitted[c])

ToggleClusterDetails(c) ==
  /\ pending = {} /\ c \in listedClusters /\ ~IsHDFSDisabled(c)
  /\ opened' = IF c \in opened THEN opened \ {c} ELSE opened \cup {c}
  /\ UNCHANGED <<serverVars, storeVars, pending, submitted, posting, leadsTo, turns>>

\* getAvailableEntityActions.
CanAddPolicy == hasAccounts \/ \E c \in listedClusters : CountIn(pairKeys, c) > 0
CanAddPairing ==
  /\ Cardinality(listedClusters) > 1
  /\ \E c \in listedClusters : CountIn(pairKeys, c) # Cardinality(listedClusters) - 1

Leave(to) ==
  /\ Turn /\ leadsTo' = to
  /\ pending' = {"elsewhere"} /\ submitted' = NoneSubmitted /\ posting' = {} /\ opened' = {}
  /\ UNCHANGED <<serverVars, storeVars>>

\* handleSelectedAction, of the menu and of the list.
HandleSelectedAction ==
  /\ pending = {} /\ listedClusters # {}
  /\ \/ CanAddPairing /\ Leave("pairing")
     \/ CanAddPolicy /\ Leave("policy")

\* The page is opened again: its loads replace others of their kind.
Enter ==
  /\ pending = {"elsewhere"} /\ pending' = Loads /\ leadsTo' = ""
  /\ UNCHANGED <<serverVars, storeVars, submitted, posting, opened, turns>>

Next ==
  \/ \E key \in PairKeys : Happen({key[1], key[2]})
  \/ LoadClustersSuccess \/ LoadPairingsSuccess \/ \E load \in Loads : LoadEnds(load)
  \/ LoadAccountsSuccess
  \/ \E c \in ListClusters, success \in BOOLEAN : SubmitClusterEnds(c, success)
  \/ \E c \in ListClusters : ToggleClusterDetails(c)
  \/ HandleSelectedAction \/ Leave("elsewhere") \/ Enter

-----------------------------------------------------------------------------

TypeOK ==
  /\ paired \subseteq {{key[1], key[2]} : key \in PairKeys} /\ defined \subseteq everDefined
  /\ pairKeys \subseteq PairKeys /\ listedClusters \in {{}, ListClusters}
  /\ pending \subseteq Loads \cup {"elsewhere"}
  /\ DOMAIN submitted \subseteq ListClusters /\ posting \subseteq DOMAIN submitted
  /\ opened \subseteq ListClusters /\ leadsTo \in {"", "elsewhere", "pairing", "policy"}

\* Only files of a cluster that its Beacon has had a definition of are browsed, paired or
\* submitted, with answers to submissions in any order.
BrowsedDefined == opened \subseteq everDefined

\* The form for a pairing is led to if two of the clusters listed are not paired, as far
\* as the store knows, unless it has a pair in both orders.
PairsLeft ==
  (pending = {} /\ \A key \in pairKeys : <<key[2], key[1]>> \notin pairKeys) =>
     (CanAddPairing <=> \E a, b \in listedClusters :
                          a # b /\ {<<a, b>>, <<b, a>>} \cap pairKeys = {})
=============================================================================
