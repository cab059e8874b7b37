------------------------------- MODULE LogViewer -------------------------------
(***************************************************************************)
(* The dialog that shows the log of a policy: services/log.service.ts,     *)
(* components/log-modal-dialog and the logs of the store.  A log needs the *)
(* cluster of its policy, so a policy that is not in the store is loaded   *)
(* first, by its name; the list then replaces the policies of the store.   *)
(* The dialog opens with what the store has of the log, is filled when the *)
(* log comes, and asks for it again and again while it is open.            *)
(*                                                                         *)
(* The logs of the jobs of a policy are taken to be that of the policy. A  *)
(* log is a number that grows, 0 is the empty one.  The clusters are known.*)
(***************************************************************************)
EXTENDS Naturals, FiniteSets

CONSTANTS Ids,       \* policies
          MaxLog,    \* bound: what is written to each log
          MaxShows   \* bound: logs asked for

LogViewerConstants == "" \notin Ids /\ MaxLog \in Nat \ {0} /\ MaxShows \in Nat

VARIABLES exists,      \* the policies there are
          written,     \* their logs
          policies,    \* the policies of the store
          logs,        \* the logs of the store
          waiting,     \* logs whose policy is being loaded
          listFor,     \* the call for policies: of one by its name, or none
          metaInfo,    \* the value of logMetaInfo$
          message,     \* what the dialog shows, and of which log it is
          open,        \* the dialog is open
          polling,     \* its loop, which holds the log it was started for
          call,        \* the call for a log
          shows

vars == <<exists, written, policies, logs, waiting, listFor, metaInfo, message, open,
          polling, call, shows>>

NoCall == [phase |-> "none", of |-> "", answer |-> 0]
loadLogs(p) == [phase |-> "sent", of |-> p, answer |-> 0]

NotPolling == [phase |-> "none", of |-> ""]

\* startPolling: a loop that runs is left as it is.
StartPolling(loop, p) == IF loop = NotPolling THEN [phase |-> "timer", of |-> p] ELSE loop

StillWaiting(loop) == loop

\* Whatever log comes or fails ends the wait of the loop.
Told(loop) == IF loop.phase = "asked" THEN [loop EXCEPT !.phase = "timer"] ELSE loop

Init ==
  /\ exists = Ids /\ written = [p \in Ids |-> 1]
  /\ policies \in SUBSET Ids /\ logs = [p \in Ids |-> 0]
  /\ waiting = {} /\ listFor = ""
  /\ metaInfo = "" /\ message = [of |-> "", text |-> 0] /\ open = FALSE
  /\ polling = NotPolling /\ call = NoCall
  /\ shows = 0

-----------------------------------------------------------------------------
(* The server, and other users. *)

Write(p) ==
  /\ written[p] < MaxLog /\ written' = [written EXCEPT ![p] = @ + 1]
  /\ UNCHANGED <<exists, policies, logs, waiting, listFor, metaInfo, message, open, polling,
                 call, shows>>

Remove(p) ==
  /\ exists' = exists \ {p}
  /\ UNCHANGED <<written, policies, logs, waiting, listFor, metaInfo, message, open, polling,
                 call, shows>>

ServeLog ==
  /\ call.phase = "sent"
  /\ call' = [call EXCEPT !.phase = "answered", !.answer = written[call.of]]
  /\ UNCHANGED <<exists, written, policies, logs, waiting, listFor, metaInfo, message, open,
                 polling, shows>>

-----------------------------------------------------------------------------
(* LogService. *)

\* The value of logMetaInfo$ and the log it selects are shown, and the dialog polls.
Emit(p, text, loop) ==
  /\ message' = [of |-> p, text |-> text] /\ open' = TRUE
  /\ polling' = StartPolling(loop, p)

NoRequests == UNCHANGED <<logs, metaInfo, message, open, polling, call>>

\* showLog once the clusters of the policies are known: first's comes first, last's last.
Request(first, last) ==
  /\ call' = loadLogs(last) /\ metaInfo' = last
  /\ Emit(last, logs[last], StartPolling(polling, first))
  /\ UNCHANGED logs

\* getClusterForRequest when the wait for a list is over: those whose policy is in
\* the store go on, the others are told that it was removed.
Resolved(list) ==
  LET found == waiting \cap list IN
  /\ waiting' = {} /\ listFor' = ""
  /\ IF found = {} THEN NoRequests
     ELSE \E first, last \in found :
            /\ first = last <=> Cardinality(found) = 1
            /\ Request(first, last)

ShowLog(p) ==
  /\ ~open /\ shows < MaxShows /\ shows' = shows + 1
  /\ IF p \in policies THEN Request(p, p) /\ UNCHANGED <<waiting, listFor>>
     ELSE /\ waiting' = waiting \cup {p} /\ listFor' = p
          /\ NoRequests
  /\ UNCHANGED <<exists, written, policies>>

\* The list asked for by name.
LoadPoliciesSuccess ==
  /\ listFor # "" /\ policies' = {listFor} \cap exists
  /\ Resolved(policies')
  /\ UNCHANGED <<exists, written, shows>>

\* A page asks for all policies, and so drops the call for one.
PoliciesListed ==
  /\ policies' = exists
  /\ Resolved(exists)
  /\ UNCHANGED <<exists, written, shows>>

LoadPoliciesFail ==
  /\ listFor # "" /\ Resolved(policies)
  /\ UNCHANGED <<exists, written, policies, shows>>

-----------------------------------------------------------------------------
(* The effect and the reducer of logs. *)

AnyLog(p) == TRUE
IsChosen(p) == p = metaInfo

\* switchMap: only the log that was chosen last is shown; it opens the dialog again
\* if that was closed meanwhile.
LoadLogsSuccess ==
  /\ call.phase = "answered" /\ call' = NoCall
  /\ logs' = [logs EXCEPT ![call.of] = call.answer]
  /\ IF IsChosen(call.of) THEN Emit(call.of, call.answer, Told(polling))
     ELSE /\ polling' = Told(polling)
          /\ UNCHANGED <<message, open>>
  /\ UNCHANGED <<exists, written, policies, waiting, listFor, metaInfo, shows>>

LoadLogsFail ==
  /\ call # NoCall /\ call' = NoCall
  /\ polling' = Told(polling)
  /\ UNCHANGED <<exists, written, policies, logs, waiting, listFor, metaInfo, message, open,
                 shows>>

-----------------------------------------------------------------------------
(* LogModalDialogComponent. *)

Poll ==
  /\ polling.phase = "timer"
  /\ polling' = [polling EXCEPT !.phase = "asked"]
  /\ call' = loadLogs(polling.of)
  /\ UNCHANGED <<exists, written, policies, logs, waiting, listFor, metaInfo, message, open,
                 shows>>

KeepPolling == polling
StopPolling == NotPolling

HideModal ==
  /\ open /\ open' = FALSE
  /\ polling' = StopPolling
  /\ UNCHANGED <<exists, written, policies, logs, waiting, listFor, metaInfo, message, call,
                 shows>>

Next ==
  \/ \E p \in Ids : Write(p) \/ Remove(p) \/ ShowLog(p)
  \/ ServeLog \/ LoadPoliciesSuccess \/ PoliciesListed \/ LoadPoliciesFail
  \/ LoadLogsSuccess \/ LoadLogsFail \/ Poll \/ HideModal

Spec == Init /\ [][Next]_vars

\* The timer runs out, and a log that is asked for over and over comes at last.
Fairness == WF_vars(Poll) /\ SF_vars(ServeLog) /\ SF_vars(LoadLogsSuccess)

-----------------------------------------------------------------------------
(* Properties. *)

TypeOK ==
  /\ exists \subseteq Ids /\ policies \subseteq Ids /\ waiting \subseteq Ids
  /\ written \in [Ids -> 1..MaxLog] /\ logs \in [Ids -> 0..MaxLog]
  /\ {listFor, metaInfo, message.of, polling.of, call.of} \subseteq Ids \cup {""}
  /\ message.text \in 0..MaxLog /\ open \in BOOLEAN
  /\ polling.phase \in {"none", "timer", "asked"}
  /\ call.phase \in {"none", "sent", "answered"} /\ call.answer \in 0..MaxLog

\* The dialog shows the log that was chosen last, as the store has it, and a file that
\* is saved has its name, also when the log of another comes late.
ShowsChosenLog ==
  open => message.of = metaInfo /\ message.text = logs[metaInfo]

\* A loop that asks for logs runs exactly while the dialog is open.
PollsWhileOpen == open <=> polling # NotPolling

\* The dialog polls for the log it is open for; it shows what is written to it.
PollsForOwn == open /\ polling.of = metaInfo
ShowsWhatIsWritten == open => message.text = written[metaInfo]
=============================================================================
