------------------------------- MODULE Overview -------------------------------
(***************************************************************************)
(* The jobs of the overview: the panel that counts them                    *)
(* (aggregation.selector.ts, jobs-summary.component.ts), the table of      *)
(* policies whose last jobs were not all successful                        *)
(* (jobs-overview-table.component.ts) and the filter that a click on the   *)
(* panel applies to it (overview.component.ts).  Panel and table are       *)
(* derived from the same store on different ways.                          *)
(*                                                                         *)
(* A policy in the store has the jobs it was listed with; the jobs in the  *)
(* store are those of every list and page so far, and are never removed.   *)
(* Jobs are numbered in the order in which they start.  The policies are   *)
(* active (PolicyStore has their statuses), and listed from the start.     *)
(***************************************************************************)
EXTENDS Naturals, Sequences, SequencesExt, SortedSeqs

CONSTANTS Ids,     \* policies
          Window,  \* jobs that come with a policy, and that the panel looks at: ten
          MaxJobs  \* bound: jobs that start

OverviewConstants == Window \in Nat \ {0} /\ MaxJobs \in Nat

VARIABLES history,   \* the statuses of each policy's jobs, at the Beacons
          listedJobs,  \* policy.jobs, in the store
          storedJobs,  \* the jobs in the store
          listing    \* the call for the policies, with its answer

vars == <<history, listedJobs, storedJobs, listing>>

JobStatus == {"RUNNING", "SUCCESS", "FAILED", "KILLED"}
StatusFilters == {"IN_PROGRESS", "LAST_FAILED", "LAST_10_FAILED"}

NoJobs == [i \in {} |-> "SUCCESS"]

\* The left one of two versions of a job is kept.
Over(f, g) == [i \in DOMAIN f \cup DOMAIN g |-> IF i \in DOMAIN f THEN f[i] ELSE g[i]]
LastJobs(h) == [i \in {i \in 1..Len(h) : i + Window > Len(h)} |-> h[i]]
Snapshot == [p \in Ids |-> LastJobs(history[p])]
Call(phase, policies) == [phase |-> phase, policies |-> policies]
NoCall == Call("none", [p \in Ids |-> NoJobs])

Init ==
  /\ history = [p \in Ids |-> <<>>]
  /\ listedJobs = [p \in Ids |-> NoJobs] /\ storedJobs = listedJobs
  /\ listing = NoCall

-----------------------------------------------------------------------------
(* policy.selector.ts. *)

\* Jobs that came with the policy hide those of the same id in the store.
PolicyJobs(p) == Over(listedJobs[p], storedJobs[p])

InOrderOfLists(p) ==
  Ascending(DOMAIN listedJobs[p]) \o Ascending(DOMAIN storedJobs[p] \ DOMAIN listedJobs[p])
\* jobsResource: sorted by the time of start, the newest first.
JobsResource(p) == Descending(DOMAIN PolicyJobs(p))

FirstOf(s) == {s[k] : k \in 1..(IF Len(s) > Window THEN Window ELSE Len(s))}
FirstTenMerged(p) == FirstOf(InOrderOfLists(p))
\* The list is sorted in place: the last ten are of the sorted one too.
LastTenJobs(p) == FirstOf(JobsResource(p))
LastJob(p) == JobsResource(p)[1]

WithStatus(p, ids, s) == {i \in ids : PolicyJobs(p)[i] = s}
NonCompleted == {p \in Ids : \E i \in DOMAIN PolicyJobs(p) : PolicyJobs(p)[i] # "SUCCESS"}
FailedLastTen == {p \in Ids : \E i \in LastTenJobs(p) : PolicyJobs(p)[i] # "SUCCESS"}
LastFailed(p) == PolicyJobs(p)[LastJob(p)] = "FAILED"

-----------------------------------------------------------------------------
(* The panel and the table. *)

PairsWith(ps, J(_)) == UNION {{p} \X J(p) : p \in ps}

\* getJobsHealth: what a cell of the panel counts, which it can be clicked for.
JobsHealth(f) ==
  CASE f = "IN_PROGRESS" ->
         PairsWith(NonCompleted, LAMBDA p : WithStatus(p, FirstOf(JobsResource(p)), "RUNNING"))
    [] f = "LAST_FAILED" -> {p \in NonCompleted : LastFailed(p)}
    [] f = "LAST_10_FAILED" ->
         PairsWith(NonCompleted, LAMBDA p : WithStatus(p, FirstOf(JobsResource(p)), "FAILED"))
Actionable(f) == JobsHealth(f) # {}

MatchLast(p, f) ==
  f \in StatusFilters =>
    PolicyJobs(p)[LastJob(p)] = (IF f = "IN_PROGRESS" THEN "RUNNING" ELSE "FAILED")
MatchJobStatus(p, f) ==
  CASE f = "IN_PROGRESS" -> WithStatus(p, LastTenJobs(p), "RUNNING") # {}
    [] f = "LAST_FAILED" -> LastFailed(p)
    [] f = "LAST_10_FAILED" -> WithStatus(p, LastTenJobs(p), "FAILED") # {}
    [] OTHER -> TRUE

TableData(f) == {p \in FailedLastTen : MatchJobStatus(p, f)}

\* A job is run again when it is the last and was not successful.  The row offers to
\* abort whenever the policy is active.
CannotRerun(p) == JobsResource(p) = <<>> \/ PolicyJobs(p)[LastJob(p)] \in {"SUCCESS", "RUNNING"}

-----------------------------------------------------------------------------
(* The Beacons. *)

Started == MapThenSumSet(LAMBDA p : Len(history[p]), Ids)
Running(p) == history[p] # <<>> /\ Last(history[p]) = "RUNNING"

Start(p) == /\ Started < MaxJobs /\ ~Running(p)
            /\ history' = [history EXCEPT ![p] = Append(@, "RUNNING")]
End(p, s) == /\ Running(p)
             /\ history' = [history EXCEPT ![p][Len(history[p])] = s]

Run(p) == /\ Start(p) \/ \E s \in {"SUCCESS", "FAILED"} : End(p, s)
          /\ UNCHANGED <<listedJobs, storedJobs, listing>>

\* abortJob, rerunJob: nothing in the store changes until the next list.
AbortJob(p) ==
  /\ p \in TableData("") /\ End(p, "KILLED")
  /\ UNCHANGED <<listedJobs, storedJobs, listing>>
RerunJob(p) ==
  /\ p \in TableData("") /\ ~CannotRerun(p) /\ Start(p)
  /\ UNCHANGED <<listedJobs, storedJobs, listing>>

-----------------------------------------------------------------------------
(* Lists and pages. *)

\* initPolling: at each interval; switchMap forgets the call before.
Poll == listing' = Call("sent", NoCall.policies) /\ UNCHANGED <<history, listedJobs, storedJobs>>

Serve == /\ listing.phase = "sent"
         /\ listing' = Call("served", Snapshot)
         /\ UNCHANGED <<history, listedJobs, storedJobs>>

JobsOnly ==
  /\ listing.phase = "served"
  /\ listedJobs' = [p \in Ids |-> Over(listedJobs[p], listing.policies[p])]
  /\ storedJobs' = [p \in Ids |-> Over(listing.policies[p], storedJobs[p])]
  /\ listing' = NoCall
  /\ UNCHANGED history
\* Both reducers take the list: policies are replaced, jobs are merged.
LoadPoliciesSuccess ==
  /\ listing.phase = "served"
  /\ listedJobs' = listing.policies
  /\ storedJobs' = [p \in Ids |-> Over(listing.policies[p], storedJobs[p])]
  /\ listing' = NoCall
  /\ UNCHANGED history

LoadPoliciesFail == /\ listing # NoCall
                    /\ listing' = NoCall
                    /\ UNCHANGED <<history, listedJobs, storedJobs>>

\* A page of all jobs of a policy, asked for on the page of policies (JobsPanel).
LoadJobsPageSuccess(p) ==
  /\ storedJobs' = [storedJobs EXCEPT ![p] = Over(history[p], @)]
  /\ UNCHANGED <<history, listedJobs, listing>>

Next ==
  \/ \E p \in Ids : Run(p) \/ AbortJob(p) \/ RerunJob(p) \/ LoadJobsPageSuccess(p)
  \/ Poll \/ Serve \/ LoadPoliciesSuccess \/ LoadPoliciesFail

-----------------------------------------------------------------------------

TypeOK ==
  /\ history \in [Ids -> Seq(JobStatus)]
  /\ \A p \in Ids : /\ DOMAIN listedJobs[p] \subseteq DOMAIN storedJobs[p]
                    /\ DOMAIN storedJobs[p] \subseteq DOMAIN history[p]
                    /\ listedJobs[p] \in [DOMAIN listedJobs[p] -> JobStatus]
                    /\ storedJobs[p] \in [DOMAIN storedJobs[p] -> JobStatus]

\* A cell of the panel leads to rows exactly when it can be clicked, and the one that
\* counts policies counts the rows: overview.component.ts and aggregation.selector.ts
\* take the jobs on different ways.
CountsLead ==
  /\ \A f \in StatusFilters : Actionable(f) <=> TableData(f) # {}
  /\ JobsHealth("LAST_FAILED") = TableData("LAST_FAILED")

\* The row of a policy is about the newest job that any answer has brought.
NewestShown ==
  \A p \in Ids : \A i \in DOMAIN storedJobs[p] : JobsResource(p)[1] >= i

\* The last job of each row is the one of the Beacons, with its status.
LastJobShown ==
  \A p \in Ids :
    history[p] # <<>> => /\ JobsResource(p) # <<>>
                         /\ LastJob(p) = Len(history[p])
                         /\ PolicyJobs(p)[LastJob(p)] = Last(history[p])
=============================================================================
