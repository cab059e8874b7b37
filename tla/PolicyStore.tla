----------------------------- MODULE PolicyStore -----------------------------
(***************************************************************************)
(* The policies in the store of the web interface while their page is      *)
(* open: reducers/policy.reducer.ts with its actions and effects, the      *)
(* polling and the workaround for missing jobs of policies.component.ts,   *)
(* and the commands of a row with their confirmation.                      *)
(*                                                                         *)
(* Each effect is START -> switchMap(call) -> SUCCESS | FAILURE: a newer   *)
(* action of the type drops the call of the older.  What the server does   *)
(* with the request of a call that was dropped, or that failed, cannot be  *)
(* told from what other users do.  Only what tells statuses, the missing   *)
(* of jobs and the presence of a policy apart is kept of its data.         *)
(***************************************************************************)
EXTENDS Naturals

CONSTANTS Ids,         \* policies that ever are; an id is never used again
          Initially,   \* those there are at first
          Jobless,     \* those whose jobs may be missing from a list
          MaxChanges,  \* bound: changes by other users
          MaxLogs,     \* bound: logs asked for of policies not in the store
          MaxActions   \* bound: commands chosen

PolicyStoreConstants ==
  /\ Initially \subseteq Ids /\ Jobless \subseteq Ids
  /\ {MaxChanges, MaxLogs, MaxActions} \subseteq Nat

POLICY_STATUS == {"RUNNING", "SUSPENDED", "ENDED"}
Commands == {"DELETE_POLICY", "SUSPEND_POLICY", "RESUME_POLICY"}

VARIABLES server,      \* status of each policy, "" before and "gone" after
          policies,    \* the entities of the store
          known,       \* the policies that have jobs in the job store
          calls,       \* calls whose answer an effect waits for
          postLoad,    \* postLoadPolicyIds
          polling,     \* the loop waits for its timer, or for an answer
          confirming,  \* the action the dialog asks about
          missed,      \* policies a list that was delivered had no more
          changes, logs, actions

vars == <<server, policies, known, calls, postLoad, polling, confirming, missed,
          changes, logs, actions>>

Exists(p) == server[p] \in POLICY_STATUS
NoAction == [op |-> "none"]

Call(op, of) == [op |-> op, of |-> of, phase |-> "sent", answer |-> <<>>]

\* switchMap.
NoneDropped(op) == {}
Dropped(op) == {c \in calls : c.op = op}
Started(op, of) == (calls \ Dropped(op)) \cup {Call(op, of)}

Init ==
  /\ server = [p \in Ids |-> IF p \in Initially THEN "RUNNING" ELSE ""]
  /\ policies = <<>> /\ known = {}
  /\ calls = {Call("LOAD_POLICIES", Ids)}
  /\ postLoad = {} /\ polling = "asked"
  /\ confirming = NoAction /\ missed = {}
  /\ changes = 0 /\ logs = 0 /\ actions = 0

-----------------------------------------------------------------------------
(* The server. *)

Allowed(from, to) ==
  \/ from = "" /\ to = "RUNNING"
  \/ from = "RUNNING" /\ to \in {"SUSPENDED", "ENDED", "gone"}
  \/ from = "SUSPENDED" /\ to \in {"RUNNING", "gone"}
  \/ from = "ENDED" /\ to = "gone"

OtherUser(p, to) ==
  /\ changes < MaxChanges /\ changes' = changes + 1
  /\ Allowed(server[p], to) /\ server' = [server EXCEPT ![p] = to]
  /\ UNCHANGED <<policies, known, calls, postLoad, polling, confirming, missed, logs, actions>>

\* fetchPolicies: each policy with the status it has then; its jobs, but for an error.
Lists(of) ==
  {[p \in {q \in of : Exists(q)} |->
      [status |-> server[p], ui |-> server[p], jobs |-> p \notin lacking]] :
     lacking \in SUBSET Jobless}

Answers(c, a, after) ==
  CASE c.op = "LOAD_POLICIES" -> a \in Lists(c.of) /\ after = server
    \* The error of one policy's request is an answer without jobs.
    [] c.op = "LOAD_JOBS_FOR_POLICY" -> a \in SUBSET {p \in c.of : Exists(p)} /\ after = server
    [] c.op = "DELETE_POLICY" ->
         \E p \in c.of : Exists(p) /\ a = p /\ after = [server EXCEPT ![p] = "gone"]
    [] c.op = "SUSPEND_POLICY" ->
         \E p \in c.of : server[p] \in {"RUNNING", "SUSPENDED"} /\ a = p
                         /\ after = [server EXCEPT ![p] = "SUSPENDED"]
    [] c.op = "RESUME_POLICY" ->
         \E p \in c.of : server[p] \in {"RUNNING", "SUSPENDED"} /\ a = p
                         /\ after = [server EXCEPT ![p] = "RUNNING"]

Candidates(c) ==
  CASE c.op = "LOAD_POLICIES" -> Lists(c.of)
    [] c.op = "LOAD_JOBS_FOR_POLICY" -> SUBSET c.of
    [] OTHER -> c.of

Serve(c) ==
  /\ c.phase = "sent"
  /\ \E a \in Candidates(c) :
       /\ Answers(c, a, server')
       /\ calls' = (calls \ {c}) \cup {[c EXCEPT !.phase = "answered", !.answer = a]}
  /\ UNCHANGED <<policies, known, postLoad, polling, confirming, missed, changes, logs, actions>>

-----------------------------------------------------------------------------
(* Reducers. *)

MergedList(list) ==
  [p \in DOMAIN policies \cup DOMAIN list |-> IF p \in DOMAIN list THEN list[p] ELSE policies[p]]
loadPoliciesSuccess(list) == list

\* The policy is kept: the reducer looks for action.payload, which is not the id.
deletePolicySuccess(p) == policies

\* A policy that is no longer there is made again, of its status alone.
updateEntityField(p, status) ==
  [q \in DOMAIN policies \cup {p} |->
     IF q # p THEN policies[q]
     ELSE IF p \in DOMAIN policies THEN [policies[p] EXCEPT !.status = status]
     ELSE [status |-> status, ui |-> "", jobs |-> FALSE]]

JobsOfAny(ids) ==
  [p \in DOMAIN policies \cup ids |->
     IF p \in ids THEN [status |-> "RUNNING", ui |-> "RUNNING", jobs |-> TRUE]
     ELSE policies[p]]

\* Only policies that are in the store are given their jobs.
loadLastJobsSuccess(ids) ==
  [p \in DOMAIN policies |-> [policies[p] EXCEPT !.jobs = @ \/ p \in ids]]

Reduced(c) ==
  CASE c.op = "LOAD_POLICIES" -> loadPoliciesSuccess(c.answer)
    [] c.op = "DELETE_POLICY" -> deletePolicySuccess(c.answer)
    [] c.op = "SUSPEND_POLICY" -> updateEntityField(c.answer, "SUSPENDED")
    [] c.op = "RESUME_POLICY" -> updateEntityField(c.answer, "RUNNING")
    [] c.op = "LOAD_JOBS_FOR_POLICY" -> loadLastJobsSuccess(c.answer)

\* job.reducer merges what comes.
Known(c) ==
  CASE c.op = "LOAD_POLICIES" -> known \cup {p \in DOMAIN c.answer : c.answer[p].jobs}
    [] c.op = "LOAD_JOBS_FOR_POLICY" -> known \cup c.answer
    [] OTHER -> known

\* A row made of a status has no cluster to ask.
IsStub(ps, p) == ps[p].ui = ""

\* policies$: the policies without jobs that were not asked for just before.
Missing(ps, ks) ==
  {p \in DOMAIN ps : ~ps[p].jobs /\ p \notin ks /\ ~IsStub(ps, p) /\ p \notin postLoad}

Deliver(c) ==
  /\ c.phase = "answered"
  /\ policies' = Reduced(c) /\ known' = Known(c)
  /\ LET lacking == IF policies' = policies /\ known' = known THEN {}
                    ELSE Missing(policies', known')
         rest == calls \ {c}
     IN IF lacking = {} THEN calls' = rest /\ UNCHANGED postLoad
        ELSE /\ postLoad' = lacking
             /\ calls' = {d \in rest : d.op # "LOAD_JOBS_FOR_POLICY"}
                           \cup {Call("LOAD_JOBS_FOR_POLICY", lacking)}
  /\ polling' = IF c.op = "LOAD_POLICIES" THEN "timer" ELSE polling
  /\ missed' = IF c.op = "LOAD_POLICIES"
               THEN missed \cup {p \in c.of : p \notin DOMAIN c.answer /\ server[p] = "gone"}
               ELSE missed
  /\ UNCHANGED <<server, confirming, changes, logs, actions>>

FailStopsLoop(c) ==
  /\ calls' = calls \ {c}
  /\ UNCHANGED <<server, policies, known, postLoad, polling, confirming, missed, changes, logs, actions>>

FailEndsLoop(c) ==
  /\ calls' = calls \ {c} /\ polling' = "ended"
  /\ UNCHANGED <<server, policies, known, postLoad, confirming, missed, changes, logs, actions>>

Fail(c) ==
  /\ calls' = calls \ {c}
  /\ polling' = IF c.op = "LOAD_POLICIES" THEN "timer" ELSE polling
  /\ UNCHANGED <<server, policies, known, postLoad, confirming, missed, changes, logs, actions>>

-----------------------------------------------------------------------------
(* The page. *)

\* The timer of the loop; it is set again when a list, whoever asked for it, ends.
Poll ==
  /\ polling = "timer" /\ polling' = "asked"
  /\ calls' = Started("LOAD_POLICIES", Ids)
  /\ UNCHANGED <<server, policies, known, postLoad, confirming, missed, changes, logs, actions>>

\* showLog of a policy that is not in the store asks for this policy alone.
ShowLog(p) ==
  /\ logs < MaxLogs /\ logs' = logs + 1
  /\ p \notin DOMAIN policies
  /\ calls' = Started("LOAD_POLICIES", {p})
  /\ UNCHANGED <<server, policies, known, postLoad, polling, confirming, missed, changes, actions>>

isEnded(row) == row.ui = "ENDED"
Enabled(op, row) ==
  CASE op = "DELETE_POLICY" -> TRUE
    [] op = "SUSPEND_POLICY" -> row.status # "SUSPENDED" /\ ~isEnded(row)
    [] op = "RESUME_POLICY" -> row.status # "RUNNING" /\ ~isEnded(row)

\* A choice in the menu of a row opens the dialog; the action holds the row as it is.
SelectAction(op, p) ==
  /\ confirming = NoAction /\ actions < MaxActions /\ actions' = actions + 1
  /\ p \in DOMAIN policies /\ ~IsStub(policies, p) /\ Enabled(op, policies[p])
  /\ confirming' = [op |-> op, policy |-> p]
  /\ UNCHANGED <<server, policies, known, calls, postLoad, polling, missed, changes, logs>>

CloseDialog(confirmed) ==
  /\ confirming # NoAction /\ confirming' = NoAction
  /\ calls' = IF confirmed THEN Started(confirming.op, {confirming.policy}) ELSE calls
  /\ UNCHANGED <<server, policies, known, postLoad, polling, missed, changes, logs, actions>>

-----------------------------------------------------------------------------

Next ==
  \/ \E p \in Ids, to \in POLICY_STATUS \cup {"gone"} : OtherUser(p, to)
  \/ \E c \in calls : Serve(c) \/ Deliver(c) \/ Fail(c)
  \/ Poll
  \/ \E p \in Ids : ShowLog(p)
  \/ \E p \in Ids, op \in Commands : SelectAction(op, p)
  \/ \E confirmed \in BOOLEAN : CloseDialog(confirmed)

Spec == Init /\ [][Next]_vars

\* Timers run out; a server that is asked for its list over and over answers, and
\* not every answer is lost.
ServeList == \E c \in calls : c.op = "LOAD_POLICIES" /\ Serve(c)
DeliverList == \E c \in calls : c.op = "LOAD_POLICIES" /\ Deliver(c)
Fairness == WF_vars(Poll) /\ SF_vars(ServeList) /\ SF_vars(DeliverList)

-----------------------------------------------------------------------------
(* Properties. *)

Rows == [status : POLICY_STATUS, ui : POLICY_STATUS \cup {""}, jobs : BOOLEAN]

TypeOK ==
  /\ server \in [Ids -> POLICY_STATUS \cup {"", "gone"}]
  /\ DOMAIN policies \subseteq Ids /\ \A p \in DOMAIN policies : policies[p] \in Rows
  /\ known \subseteq Ids /\ postLoad \subseteq Ids /\ missed \subseteq Ids
  /\ \A c \in calls : c.phase \in {"sent", "answered"} /\ c.of \subseteq Ids
  /\ polling \in {"timer", "asked"}
  /\ confirming = NoAction \/ confirming \in [op : Commands, policy : Ids]

\* A policy that a list showed to be gone does not come back as a row, whatever
\* answers are still to come; at most the answer to a command of this page makes a
\* stub of it.
DeletedStaysAway == \A p \in missed : p \in DOMAIN policies => IsStub(policies, p)

\* The loop that waits for an answer has one to wait for: a call that replaced its
\* own, or a failure, sets its timer again.
PollingWaits == polling = "asked" => \E c \in calls : c.op = "LOAD_POLICIES"

\* The store has the policies of the server, with their statuses.
Agrees == /\ DOMAIN policies = {p \in Ids : Exists(p)}
          /\ \A p \in DOMAIN policies : policies[p].status = server[p]
=============================================================================
