----------------------------- MODULE PollingPages -----------------------------
(***************************************************************************)
(* What polls while a page is open: on the page of policies the policies   *)
(* in the store, the jobs and files under an expanded row and the dialog   *)
(* of a log; on the overview the feed of events, the map of clusters and   *)
(* the jobs that are counted and listed.                                   *)
(* Each part is a module of its own, in which the others appear as what    *)
(* they may do to it at any moment: LogViewer!PoliciesListed is a list     *)
(* that PolicyStore polls for, JobsPanel!JobsMerged is the jobs such a     *)
(* list brings, PolicyStore!ShowLog is the list a log asks for.  They      *)
(* share no other state, so that it is enough to check one at a time: part *)
(* names the one that takes steps in a behaviour.                          *)
(***************************************************************************)
EXTENDS Integers

CONSTANTS Ids,                                             \* policies
          Initially, Jobless, MaxChanges, MaxLogs, MaxActions,  \* PolicyStore
          Hive, FromS3, Filters, Pages,                    \* JobsPanel
          MaxLog, MaxShows,                                \* LogViewer
          BeaconsCount, EventsBefore, MaxEvents, PageSize, MaxPolls,  \* EventFeed
          MapClusters, LowCapacity, MaxHappenings,         \* ClustersMap
          Watched, Window, MaxJobs                         \* Overview

VARIABLES part,
          server, policies, known, calls, postLoad, polling, confirming, missed,
          changes, logs, actions,
          selected, expanded, activeContentType, page, filters, pageOf, filtersOf, emitted,
          jobs, jobsPolicyId, loadingJobs, sourceCluster, hdfsRootPath, queries, pageCall,
          succeeded,
          exists, written, logPolicies, storedLogs, waiting, listFor, metaInfo, message,
          open, logPolling, logCall, shows,
          happened, events, headId, tailId, eventCalls, asked,
          registered, healthOf, clusters, healthStatus, statusCall, mapPage, drawn, markers,
          selectedCluster, happenings,
          history, listedJobs, storedJobs, listing

policyVars == <<server, policies, known, calls, postLoad, polling, confirming, missed,
                changes, logs, actions>>
jobVars == <<selected, expanded, activeContentType, page, filters, pageOf, filtersOf, emitted,
             jobs, jobsPolicyId, loadingJobs, sourceCluster, hdfsRootPath, queries, pageCall,
             succeeded>>
logVars == <<exists, written, logPolicies, storedLogs, waiting, listFor, metaInfo, message,
             open, logPolling, logCall, shows>>
eventVars == <<happened, events, headId, tailId, eventCalls, asked>>
mapVars == <<registered, healthOf, clusters, healthStatus, statusCall, mapPage, drawn, markers,
             selectedCluster, happenings>>
overviewVars == <<history, listedJobs, storedJobs, listing>>
vars == <<part, policyVars, jobVars, logVars, eventVars, mapVars, overviewVars>>

Policies == INSTANCE PolicyStore
Jobs == INSTANCE JobsPanel WITH call <- pageCall
Log == INSTANCE LogViewer WITH
         policies <- logPolicies, logs <- storedLogs, polling <- logPolling, call <- logCall
Feed == INSTANCE EventFeed WITH entities <- events, calls <- eventCalls
\* The clusters are all at the same place.
Place == [c \in MapClusters |-> "here"]
Map == INSTANCE ClustersMap WITH known <- clusters
Panel == INSTANCE Overview WITH Ids <- Watched

ASSUME PollingPagesConstants ==
  /\ Policies!PolicyStoreConstants /\ Jobs!JobsPanelConstants
  /\ Log!LogViewerConstants /\ Feed!EventFeedConstants /\ Map!ClustersMapConstants
  /\ Panel!OverviewConstants

Parts == {"policies", "jobs", "log", "feed", "map", "panel"}

\* What a part starts with, beside that of its own Init, matters to this part only.
Init ==
  /\ part \in Parts
  /\ Policies!Init /\ Jobs!Init /\ Log!Init /\ Feed!Init /\ Panel!Init
  /\ part # "jobs" => queries = Jobs!NoPage
  /\ part # "log" => logPolicies = {}
  /\ part # "map" => registered = {} /\ mapPage = "overview"
  /\ Map!Init

AtWork(p, others) == part = p /\ UNCHANGED <<part, others>>
PoliciesAtWork == AtWork("policies", <<jobVars, logVars, eventVars, mapVars, overviewVars>>)
JobsAtWork == AtWork("jobs", <<policyVars, logVars, eventVars, mapVars, overviewVars>>)
LogAtWork == AtWork("log", <<policyVars, jobVars, eventVars, mapVars, overviewVars>>)
FeedAtWork == AtWork("feed", <<policyVars, jobVars, logVars, mapVars, overviewVars>>)
MapAtWork == AtWork("map", <<policyVars, jobVars, logVars, eventVars, overviewVars>>)
PanelAtWork == AtWork("panel", <<policyVars, jobVars, logVars, eventVars, mapVars>>)

Next ==
  \/ PoliciesAtWork /\ Policies!Next
  \/ JobsAtWork /\ Jobs!Next
  \/ LogAtWork /\ Log!Next
  \/ FeedAtWork /\ Feed!Next
  \/ MapAtWork /\ Map!Next
  \/ PanelAtWork /\ Panel!Next

\* The fairness of the parts: a behaviour has one of them.
Poll ==
  \/ PoliciesAtWork /\ Policies!Poll
  \/ JobsAtWork /\ Jobs!Poll
  \/ LogAtWork /\ Log!Poll
  \/ FeedAtWork /\ Feed!Poll
  \/ MapAtWork /\ Map!Poll
  \/ PanelAtWork /\ Panel!Poll
Serve ==
  \/ PoliciesAtWork /\ Policies!ServeList
  \/ LogAtWork /\ Log!ServeLog
  \/ FeedAtWork /\ Feed!ServeAll
  \/ MapAtWork /\ Map!ServeStatuses
  \/ PanelAtWork /\ Panel!Serve
Deliver ==
  \/ PoliciesAtWork /\ Policies!DeliverList
  \/ JobsAtWork /\ Jobs!LoadJobsPageSuccess
  \/ LogAtWork /\ Log!LoadLogsSuccess
  \/ FeedAtWork /\ Feed!DeliverAny
  \/ MapAtWork /\ Map!LoadClustersStatusesSuccess
  \/ PanelAtWork /\ Panel!LoadPoliciesSuccess
List == MapAtWork /\ Map!PollLists

Spec ==
  /\ Init /\ [][Next]_vars
  /\ WF_vars(Poll) /\ SF_vars(Serve) /\ SF_vars(Deliver) /\ SF_vars(List)

-----------------------------------------------------------------------------

\* The types of the variables of each part.
TypeOK ==
  /\ Policies!TypeOK /\ Jobs!TypeOK /\ Log!TypeOK /\ Feed!TypeOK /\ Map!TypeOK
  /\ Panel!TypeOK

\* See DeletedStaysAway of PolicyStore.
DeletedStaysAway == Policies!DeletedStaysAway

\* A loop that polls waits for its answer, and the loop of the dialog runs while this
\* is open: PollingWaits of PolicyStore and PollsWhileOpen of LogViewer.
LoopsRun == Policies!PollingWaits /\ Log!PollsWhileOpen

\* See JobsSettle of JobsPanel.
JobsSettle == Jobs!JobsSettle

\* What is shown belongs to the row and the log that were chosen last, and a spinner
\* to a call: FilesOwn and SpinsForCall of JobsPanel, ShowsChosenLog of LogViewer.
ShowsOwn == Jobs!FilesOwn /\ Jobs!SpinsForCall /\ Log!ShowsChosenLog

\* What is listed fits what came: NewestFirst of EventFeed, MarkersFit of ClustersMap,
\* CountsLead and NewestShown of Overview.
ListedFits ==
  Feed!NewestFirst /\ Map!MarkersFit /\ Panel!CountsLead /\ Panel!NewestShown

\* Once the user has chosen, and no event comes any more, what polls comes to show what
\* the Beacons have: again and again the policies, where a policy that was deleted and
\* kept, a stub, a late status or a list narrowed by a log are repaired; the page of jobs
\* chosen for the row, also where the first was loaded with the filters of another row;
\* what was written to the log; the last event; and for good the health of the clusters,
\* although lists without it keep coming, and the last jobs.
Chosen ==
  /\ <>[][FALSE]_<<Jobs!panel, metaInfo, happened>>
  /\ <>[](/\ part = "log" => Log!PollsForOwn
          /\ part = "feed" => asked)
CatchUp ==
  Chosen =>
    /\ []<>(CASE part = "policies" -> Policies!Agrees
              [] part = "jobs" -> Jobs!ShowsChosen
              [] part = "log" -> Log!ShowsWhatIsWritten
              [] part = "feed" -> Feed!LastShown
              [] OTHER -> TRUE)
    /\ <>[](CASE part = "map" -> Map!HealthShown
              [] part = "panel" -> Panel!LastJobShown
              [] OTHER -> TRUE)
=============================================================================
