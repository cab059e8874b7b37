------------------------------ MODULE JobsPanel ------------------------------
(***************************************************************************)
(* The details of a policy under its row: policy-table.component.ts with   *)
(* the page of jobs in the store (reducers/job.reducer.ts).  One row is    *)
(* expanded at most, with its jobs or its files.  The panel is fed by one  *)
(* page of jobs, whichever policy it is of: the rows share jobs, jobsOffset *)
(* and loadingJobs, and the store has the last page that was loaded.       *)
(*                                                                         *)
(* The subjects of the page and of the filters hold what was chosen last,  *)
(* in any row; the maps hold what was chosen for each.  Sorting is as      *)
(* filtering is.  The datatable keeps a row expanded by the policy's id.   *)
(***************************************************************************)
EXTENDS Naturals

CONSTANTS Ids,      \* policies
          Hive,     \* those of databases; the others are of directories
          FromS3,   \* those whose source is not a cluster
          Filters,  \* filters of jobs, with "" for none
          Pages     \* offsets of pages

JobsPanelConstants ==
  /\ Hive \subseteq Ids /\ FromS3 \subseteq Ids /\ "" \notin Ids
  /\ "" \in Filters /\ 0 \in Pages

PolicyContent == {"Jobs", "Files"}

VARIABLES selected,      \* the value of selectedPolicy$
          expanded,      \* the row that is expanded
          activeContentType,
          page, filters, \* the values of selectedJobsPage$ and selectedJobsFilters$
          pageOf, filtersOf,  \* selectedJobsPage and selectedJobsFilters
          emitted,       \* the last values that were loaded for
          jobs,          \* the page of jobs that is shown
          jobsPolicyId, loadingJobs,
          sourceCluster, \* the policy whose source cluster it is
          hdfsRootPath,  \* the policy whose directory it lies in
          queries,       \* store: the last page
          call,          \* the call for a page
          succeeded      \* the last call that ended brought its page

panel == <<selected, expanded, activeContentType, page, filters, pageOf, filtersOf, emitted>>
files == <<sourceCluster, hdfsRootPath>>
shown == <<jobs, jobsPolicyId, loadingJobs>>
vars == <<panel, files, shown, queries, call, succeeded>>

NoPage == [policy |-> "", offset |-> 0, filters |-> ""]
Page(p, o, f) == [policy |-> p, offset |-> o, filters |-> f]

\* The store is that of the whole visit: it may hold a page from before.
Init ==
  /\ selected = "" /\ expanded = "" /\ activeContentType = "Jobs"
  /\ page = 0 /\ filters = ""
  /\ pageOf = [p \in Ids |-> 0] /\ filtersOf = [p \in Ids |-> ""]
  /\ emitted = NoPage
  /\ queries \in {NoPage} \cup {Page(p, 0, "") : p \in Ids}
  /\ jobs = queries /\ jobsPolicyId = queries.policy /\ loadingJobs = FALSE
  /\ sourceCluster = "" /\ hdfsRootPath = ""
  /\ call = NoPage /\ succeeded = FALSE

-----------------------------------------------------------------------------
(* initJobsLoading: the latest values are loaded for, once for equal ones. *)

SameChoice(old, new) == old.offset = new.offset /\ old.filters = new.filters
Unchanged(old, new) == old = new

\* differs: the row has changed since it was emitted.
Load(new, differs) ==
  /\ emitted' = new
  /\ IF new.policy = "" \/ (Unchanged(emitted, new) /\ ~differs)
     THEN call' = call /\ loadingJobs' = loadingJobs
     ELSE call' = new /\ loadingJobs' = TRUE

PagingKeepsSpinner(q) == jobs' = q /\ jobsPolicyId' = q.policy /\ UNCHANGED loadingJobs

\* getJobsPage emits when the page or any job of the store changes.
UpdateJobsPaging(q) == jobs' = q /\ jobsPolicyId' = q.policy /\ loadingJobs' = FALSE

-----------------------------------------------------------------------------
(* The user. *)

\* toggleSelectedRow: a collapsed row is expanded, in place of another; a click on
\* the same content collapses it.
Toggled(p, content) ==
  IF expanded # p \/ selected # p \/ content # activeContentType THEN p ELSE ""

LoadFilesOfNewRow(p, content) ==
  IF expanded # p /\ content = "Files"
  THEN sourceCluster' = p /\ hdfsRootPath' = p
  ELSE UNCHANGED files

\* loadContentDetails.
LoadContentDetails(p, content) ==
  IF Toggled(p, content) = p /\ content = "Files"
  THEN /\ sourceCluster' = IF p \in FromS3 THEN "" ELSE p
       /\ hdfsRootPath' = IF p \in FromS3 \cup Hive THEN hdfsRootPath ELSE p
  ELSE UNCHANGED files

ToggleRowDetail(p, content, differs) ==
  /\ expanded' = Toggled(p, content)
  /\ activeContentType' = content /\ selected' = p
  /\ jobs' = IF jobsPolicyId # p THEN NoPage ELSE jobs
  /\ LoadContentDetails(p, content)
  \* The page goes back to the first after the policy was emitted: a call for the
  \* page of another row is replaced at once.
  /\ page' = 0 /\ pageOf' = [pageOf EXCEPT ![p] = 0]
  /\ Load(Page(p, 0, filters), differs)
  /\ UNCHANGED <<filters, filtersOf, jobsPolicyId, queries, succeeded>>

HandleJobsPageChange(p, o) ==
  /\ expanded = p /\ activeContentType = "Jobs"
  /\ page' = o /\ pageOf' = [pageOf EXCEPT ![p] = o]
  /\ Load(Page(selected, o, filters), FALSE)
  /\ UNCHANGED <<selected, expanded, activeContentType, filters, filtersOf, jobs,
                 jobsPolicyId, files, queries, succeeded>>

HandleOnFilterJobs(p, f) ==
  /\ expanded = p /\ activeContentType = "Jobs"
  /\ filters' = f /\ filtersOf' = [filtersOf EXCEPT ![p] = f]
  /\ Load(Page(selected, page, f), FALSE)
  /\ UNCHANGED <<selected, expanded, activeContentType, page, pageOf, jobs,
                 jobsPolicyId, files, queries, succeeded>>

HandleOnOpenDirectory(p) ==
  /\ expanded = p /\ activeContentType = "Files" /\ p \notin Hive \cup FromS3
  /\ hdfsRootPath' = p
  /\ UNCHANGED <<panel, sourceCluster, shown, queries, call, succeeded>>

-----------------------------------------------------------------------------
(* The store and its effects. *)

OfRow == Page(selected, pageOf[selected], filtersOf[selected])

OfSubjects == Page(selected, page, filters)
LoadJobsPage == OfRow

\* The interval; the page is loaded without a spinner.
Poll ==
  /\ activeContentType = "Jobs" /\ selected # "" /\ expanded = selected
  /\ call' = LoadJobsPage
  /\ UNCHANGED <<panel, files, shown, queries, succeeded>>

LoadJobsPageSuccess ==
  /\ call # NoPage /\ call' = NoPage
  /\ queries' = call /\ succeeded' = TRUE
  /\ UpdateJobsPaging(queries')
  /\ UNCHANGED <<panel, files>>

\* LOAD_JOBS.FAILURE: no reducer and no component looks at it.
LoadJobsFail ==
  /\ call # NoPage /\ call' = NoPage /\ succeeded' = FALSE
  /\ UNCHANGED <<panel, files, shown, queries>>

\* A list of policies, or the jobs of policies without any, changes the jobs.
JobsMerged ==
  /\ UpdateJobsPaging(queries)
  /\ UNCHANGED <<panel, files, queries, call, succeeded>>

-----------------------------------------------------------------------------

UserStep ==
  \E p \in Ids :
    \/ \E content \in PolicyContent, differs \in BOOLEAN : ToggleRowDetail(p, content, differs)
    \/ \E o \in Pages : HandleJobsPageChange(p, o)
    \/ \E f \in Filters : HandleOnFilterJobs(p, f)
    \/ HandleOnOpenDirectory(p)

Next == UserStep \/ Poll \/ LoadJobsPageSuccess \/ LoadJobsFail \/ JobsMerged

Spec == Init /\ [][Next]_vars

\* The interval runs on, and a page that is asked for again and again does come.
Fairness == WF_vars(Poll) /\ SF_vars(LoadJobsPageSuccess)

-----------------------------------------------------------------------------
(* Properties. *)

PageRecords == [policy : Ids \cup {""}, offset : Pages, filters : Filters]

TypeOK ==
  /\ {selected, expanded, jobsPolicyId, sourceCluster, hdfsRootPath} \subseteq Ids \cup {""}
  /\ activeContentType \in PolicyContent /\ page \in Pages /\ filters \in Filters
  /\ pageOf \in [Ids -> Pages] /\ filtersOf \in [Ids -> Filters]
  /\ {emitted, jobs, queries, call} \subseteq PageRecords
  /\ {loadingJobs, succeeded} \subseteq BOOLEAN

\* Once no page is on its way and the last one came, the jobs under the expanded row
\* are its own, whichever rows were opened and closed while pages came.
JobsSettle ==
  expanded # "" /\ call = NoPage /\ succeeded => jobs.policy = expanded

\* The spinner has a call behind it, or a call that failed.
SpinsForCall == loadingJobs => call # NoPage \/ ~succeeded

\* The directory and the cluster that are browsed under an expanded row are its own.
FilesOwn ==
  expanded # "" /\ activeContentType = "Files" /\ expanded \notin Hive \cup FromS3
    => sourceCluster = expanded /\ hdfsRootPath = expanded

\* The page of jobs that was chosen for the row is shown.
ShowsChosen == expanded # "" /\ activeContentType = "Jobs" => jobs = OfRow
=============================================================================
