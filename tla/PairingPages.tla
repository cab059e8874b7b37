----------------------------- MODULE PairingPages -----------------------------
(***************************************************************************)
(* The two pages of pairings: pairings.component.ts shows the pairings of  *)
(* the store and unpairs, create-pairing.component.ts pairs two clusters.  *)
(* reducers/pairing.reducer.ts keeps every pairing it was ever given,      *)
(* under the ids of its clusters in the order the server gave them, and a  *)
(* progress that both pages share.                                         *)
(*                                                                         *)
(* Every Beacon's version is taken to be known: onFirstClusterChange fails *)
(* half way when it is not.  A cluster that is fit has its Beacon started  *)
(* and its Ambari answers with the privileges that are needed.             *)
(***************************************************************************)
EXTENDS Naturals, FiniteSets

CONSTANTS Clusters, NoCluster,
          Initially,   \* the pairings there are at first
          Is10,        \* clusters whose Beacon has version 1.0
          Params,      \* clusters the page may be opened for, or NoCluster
          MaxOthers,   \* bound: pairs by other users and changes of the clusters' statuses
          MaxCreates   \* bound: pairs that are submitted

\* A pairing as it is, and as it is stored.
Pairs == {s \in SUBSET Clusters : Cardinality(s) = 2}
Keys == {key \in Clusters \X Clusters : key[1] # key[2]}
PairOf(key) == {key[1], key[2]}

PairingPagesConstants ==
  /\ NoCluster \notin Clusters /\ Initially \subseteq Pairs /\ Is10 \subseteq Clusters
  /\ Params \subseteq Clusters \cup {NoCluster}
  /\ {MaxOthers, MaxCreates} \subseteq Nat

PROGRESS_STATUS == {"init", "success", "failed"}

VARIABLES server,      \* the pairings there are
          fit,         \* clusters that may be paired
          route,       \* the page
          entities, progress,  \* the store
          loading,     \* the call for the pairings
          loadingClusters,     \* the other calls of the page that creates
          creating, deleting,  \* the calls of the other two effects
          confirming,  \* the pairing the dialog asks about
          firstClusterId,      \* the parameter of the route, until it was used
          selectedFirst, selectedSecond,
          secondSet,   \* clusters that may be clicked in the second list
          isPairingProgress,
          others, creates

store == <<entities, progress>>
form == <<firstClusterId, selectedFirst, selectedSecond, secondSet, isPairingProgress>>
bounds == <<others, creates>>
vars == <<server, fit, route, store, loading, loadingClusters, creating, deleting,
          confirming, form, bounds>>

NoCall == [phase |-> "none", of |-> {}]
Call(of) == [phase |-> "sent", of |-> of]

\* getMergedProgress: the content of a page is hidden while its calls are made.
Shown(page) ==
  /\ route = page /\ loading = NoCall
  /\ page = "create" => ~loadingClusters

Init ==
  /\ server = Initially /\ fit = Clusters
  /\ route = "pairings"
  /\ entities = {} /\ progress = "init"
  /\ loading = Call({}) /\ loadingClusters = FALSE
  /\ creating = NoCall /\ deleting = NoCall /\ confirming = <<>>
  /\ firstClusterId = NoCluster
  /\ selectedFirst = NoCluster /\ selectedSecond = NoCluster /\ secondSet = {}
  /\ isPairingProgress = FALSE
  /\ others = 0 /\ creates = 0

-----------------------------------------------------------------------------
(* The page that creates. *)

\* getClusterPairIds.
PairedIn(keys, c) == {d \in Clusters : \E key \in keys : PairOf(key) = {c, d}} \ {c}

\* What the second list leaves clickable: unpaired, fit, and of a version that fits.
SecondSet(keys, c) ==
  {d \in (Clusters \ {c}) \cap fit : d \notin PairedIn(keys, c) /\ (d \in Is10 <=> c \in Is10)}

NoReselection(keys) == UNCHANGED <<selectedFirst, selectedSecond, secondSet>>

Select(keys, c) ==
  /\ selectedFirst' = c /\ selectedSecond' = NoCluster
  /\ secondSet' = SecondSet(keys, c)

\* pairings$: the first cluster is selected again.
Reselect(keys) ==
  IF route = "create" /\ keys # {} /\ selectedFirst # NoCluster /\ ~isPairingProgress
  THEN Select(keys, selectedFirst)
  ELSE UNCHANGED <<selectedFirst, selectedSecond, secondSet>>

OnFirstClusterChange(c) ==
  /\ Shown("create") /\ c \in fit
  /\ ~isPairingProgress /\ Select(entities, c)
  /\ UNCHANGED <<server, fit, route, store, loading, loadingClusters, creating, deleting,
                 confirming, firstClusterId, isPairingProgress, bounds>>

\* loadRouteParams: once the clusters are known, whatever else is, and fit or not.
LoadRouteParams ==
  /\ route = "create" /\ firstClusterId # NoCluster
  /\ firstClusterId' = NoCluster
  /\ IF isPairingProgress THEN UNCHANGED <<selectedFirst, selectedSecond, secondSet>>
     ELSE Select(entities, firstClusterId)
  /\ UNCHANGED <<server, fit, route, store, loading, loadingClusters, creating, deleting,
                 confirming, isPairingProgress, bounds>>

SelectSecondCluster(c) ==
  /\ Shown("create") /\ ~isPairingProgress
  /\ c \in secondSet /\ selectedSecond' = c
  /\ UNCHANGED <<server, fit, route, store, loading, loadingClusters, creating, deleting,
                 confirming, firstClusterId, selectedFirst, secondSet, isPairingProgress, bounds>>

Submittable == Shown("create") /\ selectedSecond # NoCluster /\ ~isPairingProgress

HandleSubmit ==
  /\ Submittable /\ creates < MaxCreates /\ creates' = creates + 1
  /\ isPairingProgress' = TRUE
  /\ creating' = Call({selectedFirst, selectedSecond})
  /\ UNCHANGED <<server, fit, route, store, loading, loadingClusters, deleting, confirming,
                 firstClusterId, selectedFirst, selectedSecond, secondSet, others>>

\* router.navigate(['pairings']), and the page's loadPairings.
ToPairings ==
  /\ route' = "pairings" /\ loading' = Call({})
  /\ firstClusterId' = NoCluster
  /\ selectedFirst' = NoCluster /\ selectedSecond' = NoCluster /\ secondSet' = {}
  /\ isPairingProgress' = FALSE

LeaveCreate ==
  /\ route = "create" /\ ToPairings
  /\ UNCHANGED <<server, fit, store, loadingClusters, creating, deleting, confirming, bounds>>

\* ngOnInit; a success that no list has reset since leads back at once.
CreatePairingClick ==
  /\ route = "pairings" /\ confirming = <<>>
  /\ loadingClusters' = TRUE /\ loading' = Call({})
  /\ IF progress = "success" THEN UNCHANGED <<route, form>>
     ELSE /\ route' = "create" /\ firstClusterId' \in Params
          /\ UNCHANGED <<selectedFirst, selectedSecond, secondSet, isPairingProgress>>
  /\ UNCHANGED <<server, fit, store, creating, deleting, confirming, bounds>>

ClustersLoaded ==
  /\ loadingClusters /\ loadingClusters' = FALSE
  /\ UNCHANGED <<server, fit, route, store, loading, creating, deleting, confirming, form, bounds>>

\* loadClustersStatuses of the frame: firstSetClusters are set anew, the second list is not.
StatusesLoaded ==
  /\ others < MaxOthers /\ others' = others + 1
  /\ \E c \in Clusters : fit' = IF c \in fit THEN fit \ {c} ELSE fit \cup {c}
  /\ UNCHANGED <<server, route, store, loading, loadingClusters, creating, deleting, confirming,
                 form, creates>>

-----------------------------------------------------------------------------
(* The page of pairings. *)

OnUnpair(key) ==
  /\ Shown("pairings") /\ confirming = <<>>
  /\ key \in entities /\ confirming' = key
  /\ UNCHANGED <<server, fit, route, store, loading, loadingClusters, creating, deleting, form, bounds>>

CloseDialog(confirmed) ==
  /\ confirming # <<>> /\ confirming' = <<>>
  /\ deleting' = IF confirmed THEN [phase |-> "sent", of |-> confirming] ELSE deleting
  /\ UNCHANGED <<server, fit, route, store, loading, loadingClusters, creating, form, bounds>>

-----------------------------------------------------------------------------
(* The server.  Which cluster of a pairing comes first may differ between lists, *)
(* and pairings of Beacons that do not answer are missing.                       *)

OtherUser(pair) ==
  /\ others < MaxOthers /\ others' = others + 1
  /\ server' = IF pair \in server THEN server \ {pair} ELSE server \cup {pair}
  /\ UNCHANGED <<fit, route, store, loading, loadingClusters, creating, deleting, confirming,
                 form, creates>>

Lists == {l \in SUBSET Keys : /\ \A key \in l : PairOf(key) \in server
                              /\ \A key \in l : <<key[2], key[1]>> \notin l}

ServeList ==
  /\ loading.phase = "sent"
  /\ \E l \in Lists : loading' = [phase |-> "answered", of |-> l]
  /\ UNCHANGED <<server, fit, route, store, loadingClusters, creating, deleting, confirming, form, bounds>>

ServeCreate ==
  /\ creating.phase = "sent"
  /\ \/ creating' = [creating EXCEPT !.phase = "answered"] /\ server' = server \cup {creating.of}
     \/ creating' = [creating EXCEPT !.phase = "failed"] /\ UNCHANGED server
  /\ UNCHANGED <<fit, route, store, loading, loadingClusters, deleting, confirming, form, bounds>>

ServeDelete ==
  /\ deleting.phase = "sent"
  /\ \/ /\ deleting' = [deleting EXCEPT !.phase = "answered"]
        /\ server' = server \ {PairOf(deleting.of)}
     \/ deleting' = [deleting EXCEPT !.phase = "failed"] /\ UNCHANGED server
  /\ UNCHANGED <<fit, route, store, loading, loadingClusters, creating, confirming, form, bounds>>

-----------------------------------------------------------------------------
(* Reducers, and what follows from them. *)

LoadPairingsSuccess ==
  /\ loading.phase = "answered" /\ loading' = NoCall
  /\ entities' = entities \cup loading.of /\ progress' = "init"
  /\ Reselect(entities')
  /\ UNCHANGED <<server, fit, route, loadingClusters, creating, deleting, confirming,
                 firstClusterId, isPairingProgress, bounds>>

LoadPairingsFail ==
  /\ loading # NoCall /\ loading' = NoCall
  /\ UNCHANGED <<server, fit, route, store, loadingClusters, creating, deleting, confirming, form, bounds>>

\* A page that creates is left, whichever page sent the pair.
CreatePairingSuccess ==
  /\ creating.phase = "answered" /\ creating' = NoCall
  /\ progress' = "success"
  /\ IF route = "create" THEN ToPairings ELSE UNCHANGED <<route, loading, form>>
  /\ UNCHANGED <<server, fit, entities, loadingClusters, deleting, confirming, bounds>>

FailUnseen ==
  /\ creating.phase = "failed" /\ creating' = NoCall
  /\ UNCHANGED <<server, fit, route, store, loading, loadingClusters, deleting, confirming, form, bounds>>

CreatePairingFail ==
  /\ creating.phase = "failed" /\ creating' = NoCall
  /\ progress' = "failed" /\ isPairingProgress' = FALSE
  /\ UNCHANGED <<server, fit, route, entities, loading, loadingClusters, deleting, confirming,
                 firstClusterId, selectedFirst, selectedSecond, secondSet, bounds>>

DeletePairingSuccess ==
  /\ deleting.phase = "answered" /\ deleting' = NoCall
  /\ entities' = entities \ {deleting.of}
  /\ Reselect(entities')
  /\ UNCHANGED <<server, fit, route, progress, loading, loadingClusters, creating, confirming,
                 firstClusterId, isPairingProgress, bounds>>

DeletePairingFail ==
  /\ deleting.phase = "failed" /\ deleting' = NoCall
  /\ UNCHANGED <<server, fit, route, store, loading, loadingClusters, creating, confirming, form, bounds>>

Next ==
  \/ \E c \in Clusters : OnFirstClusterChange(c) \/ SelectSecondCluster(c)
  \/ LoadRouteParams \/ HandleSubmit \/ LeaveCreate \/ CreatePairingClick
  \/ ClustersLoaded \/ StatusesLoaded
  \/ \E key \in Keys : OnUnpair(key)
  \/ \E confirmed \in BOOLEAN : CloseDialog(confirmed)
  \/ \E pair \in Pairs : OtherUser(pair)
  \/ ServeList \/ ServeCreate \/ ServeDelete
  \/ LoadPairingsSuccess \/ LoadPairingsFail \/ CreatePairingSuccess \/ CreatePairingFail
  \/ DeletePairingSuccess \/ DeletePairingFail

Spec == Init /\ [][Next]_vars

\* A call ends, with an answer or with an error.
PairAnswered == CreatePairingSuccess \/ CreatePairingFail
Fairness == WF_vars(ServeCreate \/ PairAnswered)

-----------------------------------------------------------------------------
(* Properties. *)

TypeOK ==
  /\ server \subseteq Pairs /\ fit \subseteq Clusters
  /\ route \in {"pairings", "create"}
  /\ entities \subseteq Keys /\ progress \in PROGRESS_STATUS
  /\ {loading.phase, creating.phase, deleting.phase} \subseteq {"none", "sent", "answered", "failed"}
  /\ loadingClusters \in BOOLEAN /\ isPairingProgress \in BOOLEAN
  /\ confirming \in Keys \cup {<<>>}
  /\ {firstClusterId, selectedFirst, selectedSecond} \subseteq Clusters \cup {NoCluster}
  /\ secondSet \subseteq Clusters

\* What can be submitted is no pairing that the page knows of, of two clusters whose
\* Beacons fit, also when the first cluster came with the route before the pairings
\* did, or pairings went and came while the second was chosen.
PairsNew ==
  Submittable =>
    /\ {selectedFirst, selectedSecond} \in Pairs \ {PairOf(key) : key \in entities}
    /\ selectedFirst \in Is10 <=> selectedSecond \in Is10
=============================================================================
