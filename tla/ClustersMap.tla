------------------------------ MODULE ClustersMap ------------------------------
(***************************************************************************)
(* The clusters in the store and on the map of the pages overview and      *)
(* clusters: reducers/cluster.reducer.ts, the polling of dlm.component and *)
(* of the overview, the markers of map.component and the legend of the     *)
(* cluster that is selected.  Lists of clusters and of the statuses of     *)
(* their services come from different requests, which are merged.          *)
(*                                                                         *)
(* Of the statuses of services only what is made of them, the health.      *)
(***************************************************************************)
EXTENDS Integers, Sequences, SequencesExt, SortedSeqs

CONSTANTS MapClusters,   \* ids, in the order in which the store lists them
          Place,         \* cluster |-> where it is
          LowCapacity,   \* clusters that are nearly full
          MaxHappenings  \* bound: changes of clusters

ClustersMapConstants ==
  /\ MapClusters \subseteq Nat /\ IsFiniteSet(MapClusters)
  /\ DOMAIN Place = MapClusters /\ LowCapacity \subseteq MapClusters
  /\ MaxHappenings \in Nat

Health == {"HEALTHY", "UNHEALTHY", "UNKNOWN"}

VARIABLES registered, healthOf,   \* server
          known, healthStatus,    \* store
          statusCall,             \* statuses under way
          mapPage, drawn,         \* the page that is open, and whether its map is drawn
          markers,                \* place |-> clusters listed, and those of a click
          selectedCluster, happenings
mapVars == <<registered, healthOf, known, healthStatus, statusCall, mapPage, drawn, markers,
             selectedCluster, happenings>>

Idle == [phase |-> "none", of |-> [c \in {} |-> "UNKNOWN"]]
NoMarker == [listed |-> <<>>, color |-> "none", clicked |-> <<>>]
NoMarkers == [p \in {Place[c] : c \in MapClusters} |-> NoMarker]
None == 0

Init ==
  /\ registered \in SUBSET MapClusters /\ healthOf = [c \in MapClusters |-> "HEALTHY"]
  /\ known = {} /\ healthStatus = [c \in MapClusters |-> "UNKNOWN"] /\ statusCall = Idle
  /\ mapPage \in {"overview", "clusters"} /\ drawn = FALSE /\ markers = NoMarkers
  /\ selectedCluster = None /\ happenings = 0

Happen ==
  /\ happenings < MaxHappenings /\ happenings' = happenings + 1
  /\ \E c \in MapClusters :
       \/ /\ registered' = IF c \in registered THEN registered \ {c} ELSE registered \cup {c}
          /\ UNCHANGED healthOf
       \/ \E h \in Health \ {healthOf[c]} :
            healthOf' = [healthOf EXCEPT ![c] = h] /\ UNCHANGED registered
  /\ UNCHANGED <<known, healthStatus, statusCall, mapPage, drawn, markers, selectedCluster>>

-----------------------------------------------------------------------------
(* The map. *)

\* makeClustersMapData, which the two pages have each for themselves.
Marked(c, health) ==
  IF c \in LowCapacity /\ (health = "HEALTHY" \/ (mapPage = "clusters" /\ health = "UNKNOWN"))
  THEN "WARNING" ELSE health

statusPriority == <<"UNHEALTHY", "UNKNOWN", "WARNING", "HEALTHY">>
Priority(status) == CHOOSE i \in 1..4 : statusPriority[i] = status

SortByStatus(clusters, status) ==
  InOrder([c \in clusters |-> {d \in clusters : \/ Priority(status[d]) < Priority(status[c])
                                                \/ status[d] = status[c] /\ d < c}])

\* Leaves a marker that is there as it is.
CreateOnce(old, sorted, status) ==
  IF sorted = <<>> \/ old # NoMarker THEN old
  ELSE [listed |-> sorted, color |-> status[sorted[1]], clicked |-> sorted]

\* A marker that is there gets new contents; what a click on it emits stays.
CreateMarker(old, sorted, status) ==
  IF sorted = <<>> THEN old
  ELSE [listed |-> sorted, color |-> status[sorted[1]],
        clicked |-> IF old = NoMarker THEN sorted ELSE old.clicked]

PlotPoints(clusters, health) ==
  LET status == [c \in MapClusters |-> Marked(c, health[c])]
  IN markers' = [p \in DOMAIN markers |->
       CreateMarker(markers[p], SortByStatus({c \in clusters : Place[c] = p}, status), status)]

\* ngOnChanges, whose changes before the map is drawn are left to draw.
Plotted(clusters, health) ==
  IF drawn THEN PlotPoints(clusters, health) ELSE UNCHANGED markers

\* The countries have come.
Draw ==
  /\ ~drawn /\ known # {} /\ drawn' = TRUE /\ PlotPoints(known, healthStatus)
  /\ UNCHANGED <<registered, healthOf, known, healthStatus, statusCall, mapPage,
                 selectedCluster, happenings>>

\* handleClickMarker: the cluster after the one that is selected, if this is among them.
Following(clusters) ==
  LET at == {i \in DOMAIN clusters : clusters[i] = selectedCluster /\ i < Len(clusters)}
  IN IF at = {} THEN clusters[1] ELSE clusters[(CHOOSE i \in at : TRUE) + 1]

Select(clusters) ==
  /\ clusters # <<>> /\ selectedCluster' = Following(clusters)
  /\ UNCHANGED <<registered, healthOf, known, healthStatus, statusCall, mapPage, drawn,
                 markers, happenings>>

ClickMarker(p) == Select(markers[p].clicked)
TooltipItemClick(p) == \E i \in DOMAIN markers[p].listed : Select(<<markers[p].listed[i]>>)

HandleLegendClose ==
  /\ selectedCluster # None /\ selectedCluster' = None
  /\ UNCHANGED <<registered, healthOf, known, healthStatus, statusCall, mapPage, drawn,
                 markers, happenings>>

OpenPage(p) ==
  /\ mapPage # p /\ mapPage' = p
  /\ drawn' = FALSE /\ markers' = NoMarkers /\ selectedCluster' = None
  /\ UNCHANGED <<registered, healthOf, known, healthStatus, statusCall, happenings>>

-----------------------------------------------------------------------------
(* The store. *)

\* A list has no health of its own.
WithoutStatus(c) == IF c \in registered THEN "UNKNOWN" ELSE healthStatus[c]

\* withStatus: what is known of a cluster's health outlives a list.
WithStatus(c) == IF c \in known THEN healthStatus[c] ELSE "UNKNOWN"

\* A list adds to the store.  It is served as it comes.
LoadClustersSuccess ==
  /\ known' = known \cup registered
  /\ healthStatus' = [c \in MapClusters |-> WithStatus(c)]
  /\ Plotted(known', healthStatus')
  /\ UNCHANGED <<registered, healthOf, statusCall, mapPage, drawn, selectedCluster, happenings>>

\* initPolling of dlm.component, and the page of clusters.
LoadClustersStatuses ==
  /\ statusCall.phase = "none" /\ statusCall' = [Idle EXCEPT !.phase = "sent"]
  /\ UNCHANGED <<registered, healthOf, known, healthStatus, mapPage, drawn, markers,
                 selectedCluster, happenings>>

\* A cluster whose Ambari does not answer is not in the answer.
ServeStatuses ==
  /\ statusCall.phase = "sent"
  /\ LET answering == {c \in registered : healthOf[c] # "UNKNOWN"}
     IN statusCall' = [phase |-> "served", of |-> [c \in answering |-> healthOf[c]]]
  /\ UNCHANGED <<registered, healthOf, known, healthStatus, mapPage, drawn, markers,
                 selectedCluster, happenings>>

LoadClustersStatusesSuccess ==
  /\ statusCall.phase = "served" /\ statusCall' = Idle
  /\ healthStatus' = [c \in MapClusters |->
       IF c \in known \cap DOMAIN statusCall.of THEN statusCall.of[c] ELSE "UNKNOWN"]
  /\ Plotted(known, healthStatus')
  /\ UNCHANGED <<registered, healthOf, known, mapPage, drawn, selectedCluster, happenings>>

LoadClustersStatusesFail ==
  /\ statusCall.phase # "none" /\ statusCall' = Idle
  /\ UNCHANGED <<registered, healthOf, known, healthStatus, mapPage, drawn, markers,
                 selectedCluster, happenings>>

Next ==
  \/ Happen \/ Draw
  \/ \E p \in DOMAIN markers : ClickMarker(p) \/ TooltipItemClick(p)
  \/ HandleLegendClose \/ \E p \in {"overview", "clusters"} : OpenPage(p)
  \/ LoadClustersSuccess
  \/ LoadClustersStatuses \/ ServeStatuses
  \/ LoadClustersStatusesSuccess \/ LoadClustersStatusesFail

\* Statuses are asked for all the time, lists on the overview, and a call that is asked
\* again and again is answered in the end.
Poll == LoadClustersStatuses
PollLists == mapPage = "overview" /\ LoadClustersSuccess
Spec ==
  /\ Init /\ [][Next]_mapVars /\ WF_mapVars(Poll) /\ SF_mapVars(PollLists)
  /\ SF_mapVars(ServeStatuses) /\ SF_mapVars(LoadClustersStatusesSuccess)

-----------------------------------------------------------------------------
(* Properties. *)

TypeOK ==
  /\ known \subseteq MapClusters /\ healthStatus \in [MapClusters -> Health]
  /\ statusCall.phase \in {"none", "sent", "served"} /\ selectedCluster \in MapClusters \cup {None}
  /\ \A p \in DOMAIN markers : markers[p].color \in {statusPriority[i] : i \in 1..4} \cup {"none"}

\* The markers of the map list the clusters of the store, each once, and have the color of
\* the worst of them, whatever came while the map was drawn, was not yet or was left.
MarkersFit ==
  drawn => \A p \in DOMAIN markers :
    LET here == {c \in known : Place[c] = p}
        colors == {Marked(c, healthStatus[c]) : c \in here}
    IN /\ ToSet(markers[p].listed) = here /\ IsInjective(markers[p].listed)
       /\ here # {} => /\ markers[p].color \in colors
                       /\ \A s \in colors : Priority(markers[p].color) <= Priority(s)

\* The health of each cluster is shown, and on the overview each cluster.
HealthShown ==
  \A c \in registered : /\ c \in known => healthStatus[c] = healthOf[c]
                        /\ mapPage = "overview" => c \in known
=============================================================================
