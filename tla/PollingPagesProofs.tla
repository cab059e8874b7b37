--------------------------- MODULE PollingPagesProofs ---------------------------
(***************************************************************************)
(* Proofs about PollingPages, for any policies, pages, logs, Beacons,      *)
(* clusters and bounds.                                                    *)
(*                                                                         *)
(* Every part has an inductive invariant of its own:                       *)
(*   JobsInv   what is loaded is of the row that was selected last         *)
(*   LogInv    while the dialog is open it has a log to show, whose calls  *)
(*             and whose loop are its own                                  *)
(*   StoreInv  a policy that was found gone is gone on the server, at most *)
(*             one list is under way, and none that was answered has it    *)
(*   FeedInv   headId and tailId are the ends of the list, and of a single *)
(*             Beacon every answer under way is in order                   *)
(*   MapInv    a map that is drawn has at each place with clusters of the  *)
(*             store the marker of these, and no other marker              *)
(*   PanelInv  a job that was listed is in the store, and one that is in   *)
(*             the store has happened                                      *)
(* with JobsTypes and StoreTypes for the rest of the types.                *)
(***************************************************************************)
EXTENDS PollingPages, SortedSeqsProofs, FunctionTheorems

\* A step of the pages is one of the part at work, and no other changes.
LEMMA PartSteps ==
  ASSUME [Next]_vars
  PROVE  /\ [Policies!Next]_policyVars /\ [Jobs!Next]_jobVars /\ [Log!Next]_logVars
         /\ [Feed!Next]_eventVars /\ [Map!Next]_mapVars /\ [Panel!Next]_overviewVars
  BY DEF Next, vars, AtWork, PoliciesAtWork, JobsAtWork, LogAtWork, FeedAtWork, MapAtWork,
     PanelAtWork, policyVars, jobVars, logVars, eventVars, mapVars, overviewVars

-----------------------------------------------------------------------------
(* The jobs and the files under a row. *)

\* What is loaded is of the row that was selected last, the store has the page that is
\* shown or would be, and once a page came and none is on its way, both are of that row.
JobsInv ==
  /\ selected \in Ids \cup {""} /\ expanded \in {"", selected}
  /\ emitted.policy = selected /\ jobsPolicyId = queries.policy
  /\ pageCall # Jobs!NoPage => pageCall.policy = selected /\ selected # ""
  /\ pageCall = Jobs!NoPage /\ succeeded =>
       selected # "" /\ queries.policy = selected /\ jobs.policy = selected
  /\ Jobs!FilesOwn /\ Jobs!SpinsForCall

\* A page to load has a policy.
LEMMA Loads ==
  ASSUME JobsInv, NEW p \in Ids, NEW o, NEW f, NEW differs, Jobs!Load(Jobs!Page(p, o, f), differs),
         selected' = p
  PROVE  /\ emitted'.policy = selected'
         /\ pageCall' # Jobs!NoPage => pageCall'.policy = selected' /\ selected' # ""
         /\ pageCall' = Jobs!NoPage => pageCall = Jobs!NoPage /\ selected = p
         /\ loadingJobs' => (loadingJobs /\ pageCall' = pageCall) \/ pageCall' # Jobs!NoPage
<1>. DEFINE new == Jobs!Page(p, o, f)
<1>1. new.policy = p /\ p # "" /\ Jobs!NoPage.policy = ""
  BY PollingPagesConstants DEF Jobs!Page, Jobs!NoPage, Jobs!JobsPanelConstants
<1>2. new # Jobs!NoPage
  BY <1>1
<1>3. /\ emitted' = new
      /\ \/ emitted = new /\ pageCall' = pageCall /\ loadingJobs' = loadingJobs
         \/ pageCall' = new
  BY <1>1 DEF Jobs!Load, Jobs!Unchanged
<1>. HIDE DEF new
<1>4. CASE emitted = new /\ pageCall' = pageCall /\ loadingJobs' = loadingJobs
  <2>1. selected = p
    BY <1>1, <1>4 DEF JobsInv
  <2>. QED  BY <1>1, <1>3, <1>4, <2>1 DEF JobsInv
<1>5. CASE pageCall' = new
  BY <1>1, <1>2, <1>3, <1>5
<1>. QED  BY <1>3, <1>4, <1>5

\* Every step of the page of policies keeps its invariant.
LEMMA JobsInvKept ==
  ASSUME JobsInv, [Jobs!Next]_jobVars
  PROVE  JobsInv'
<1>. USE DEF Jobs!files, Jobs!panel, Jobs!shown
<1>0. "" \notin Ids /\ Hive \subseteq Ids
  BY PollingPagesConstants DEF Jobs!JobsPanelConstants
<1>1. ASSUME NEW p \in Ids, NEW content \in Jobs!PolicyContent, NEW differs \in BOOLEAN,
             Jobs!ToggleRowDetail(p, content, differs)
      PROVE  JobsInv'
  <2>1. /\ selected' = p /\ expanded' \in {"", p} /\ activeContentType' = content
        /\ jobs' = IF jobsPolicyId # p THEN Jobs!NoPage ELSE jobs
        /\ Jobs!Load(Jobs!Page(p, 0, filters), differs)
        /\ UNCHANGED <<jobsPolicyId, queries, succeeded>>
    BY <1>1 DEF Jobs!ToggleRowDetail, Jobs!Toggled
  <2>2. /\ emitted'.policy = selected'
        /\ pageCall' # Jobs!NoPage => pageCall'.policy = selected' /\ selected' # ""
        /\ pageCall' = Jobs!NoPage => pageCall = Jobs!NoPage /\ selected = p
        /\ loadingJobs' => (loadingJobs /\ pageCall' = pageCall) \/ pageCall' # Jobs!NoPage
    BY <2>1, Loads
  <2>3. Jobs!FilesOwn'
    BY <1>0, <1>1 DEF Jobs!ToggleRowDetail, Jobs!Toggled, Jobs!LoadContentDetails, Jobs!FilesOwn
  <2>. QED  BY <2>1, <2>2, <2>3 DEF JobsInv, Jobs!SpinsForCall
<1>2. ASSUME NEW p \in Ids, NEW o, Jobs!HandleJobsPageChange(p, o)
      PROVE  JobsInv'
  <2>1. /\ expanded = p /\ activeContentType = "Jobs"
        /\ Jobs!Load(Jobs!Page(selected, o, filters), FALSE)
        /\ UNCHANGED <<selected, expanded, activeContentType, jobs, jobsPolicyId, queries,
                       sourceCluster, hdfsRootPath, succeeded>>
    BY <1>2 DEF Jobs!HandleJobsPageChange
  <2>2. selected = p /\ selected' = p
    BY <1>0, <2>1 DEF JobsInv
  <2>3. /\ emitted'.policy = selected'
        /\ pageCall' # Jobs!NoPage => pageCall'.policy = selected' /\ selected' # ""
        /\ pageCall' = Jobs!NoPage => pageCall = Jobs!NoPage /\ selected = p
        /\ loadingJobs' => (loadingJobs /\ pageCall' = pageCall) \/ pageCall' # Jobs!NoPage
    BY <2>1, <2>2, Loads
  <2>. QED  BY <2>1, <2>2, <2>3 DEF JobsInv, Jobs!SpinsForCall, Jobs!FilesOwn
<1>3. ASSUME NEW p \in Ids, NEW f, Jobs!HandleOnFilterJobs(p, f)
      PROVE  JobsInv'
  <2>1. /\ expanded = p /\ activeContentType = "Jobs"
        /\ Jobs!Load(Jobs!Page(selected, page, f), FALSE)
        /\ UNCHANGED <<selected, expanded, activeContentType, jobs, jobsPolicyId, queries,
                       sourceCluster, hdfsRootPath, succeeded>>
    BY <1>3 DEF Jobs!HandleOnFilterJobs
  <2>2. selected = p /\ selected' = p
    BY <1>0, <2>1 DEF JobsInv
  <2>3. /\ emitted'.policy = selected'
        /\ pageCall' # Jobs!NoPage => pageCall'.policy = selected' /\ selected' # ""
        /\ pageCall' = Jobs!NoPage => pageCall = Jobs!NoPage /\ selected = p
        /\ loadingJobs' => (loadingJobs /\ pageCall' = pageCall) \/ pageCall' # Jobs!NoPage
    BY <2>1, <2>2, Loads
  <2>. QED  BY <2>1, <2>2, <2>3 DEF JobsInv, Jobs!SpinsForCall, Jobs!FilesOwn
<1>4. ASSUME NEW p \in Ids, Jobs!HandleOnOpenDirectory(p)
      PROVE  JobsInv'
  BY <1>0, <1>4 DEF Jobs!HandleOnOpenDirectory, JobsInv, Jobs!SpinsForCall, Jobs!FilesOwn
<1>5. ASSUME Jobs!Poll
      PROVE  JobsInv'
  <2>1. pageCall'.policy = selected /\ selected # ""
    BY <1>5 DEF Jobs!Poll, Jobs!LoadJobsPage, Jobs!OfRow, Jobs!Page
  <2>2. pageCall' # Jobs!NoPage
    <3>1. Jobs!NoPage.policy = ""
      BY DEF Jobs!NoPage
    <3>. QED  BY <2>1, <3>1
  <2>3. UNCHANGED <<selected, expanded, activeContentType, emitted, sourceCluster, hdfsRootPath,
                    jobs, jobsPolicyId, loadingJobs, queries, succeeded>>
    BY <1>5 DEF Jobs!Poll
  <2>4. Jobs!FilesOwn'
    BY <2>3 DEF JobsInv, Jobs!FilesOwn
  <2>5. Jobs!SpinsForCall'
    BY <2>2 DEF Jobs!SpinsForCall
  <2>. QED
    BY <2>1, <2>2, <2>3, <2>4, <2>5 DEF JobsInv
<1>6. ASSUME Jobs!LoadJobsPageSuccess
      PROVE  JobsInv'
  BY <1>6 DEF Jobs!LoadJobsPageSuccess, Jobs!UpdateJobsPaging, JobsInv, Jobs!SpinsForCall,
     Jobs!FilesOwn
<1>7. ASSUME Jobs!LoadJobsFail
      PROVE  JobsInv'
  BY <1>7 DEF Jobs!LoadJobsFail, JobsInv, Jobs!SpinsForCall, Jobs!FilesOwn
<1>8. ASSUME Jobs!JobsMerged
      PROVE  JobsInv'
  <2>1. /\ UNCHANGED <<selected, expanded, activeContentType, emitted, sourceCluster, hdfsRootPath,
                        queries, pageCall, succeeded>>
        /\ jobs' = queries /\ jobsPolicyId' = queries.policy /\ ~loadingJobs'
    BY <1>8 DEF Jobs!JobsMerged, Jobs!UpdateJobsPaging
  <2>2. Jobs!FilesOwn'
    BY <2>1 DEF JobsInv, Jobs!FilesOwn
  <2>3. Jobs!SpinsForCall'
    BY <2>1 DEF Jobs!SpinsForCall
  <2>. QED
    BY <2>1, <2>2, <2>3 DEF JobsInv
<1>9. CASE UNCHANGED jobVars
  BY <1>9 DEF jobVars, JobsInv, Jobs!SpinsForCall, Jobs!FilesOwn
<1>10. Jobs!UserStep => JobsInv'
  BY <1>1, <1>2, <1>3, <1>4 DEF Jobs!UserStep
<1>. QED
  BY <1>5, <1>6, <1>7, <1>8, <1>9, <1>10 DEF Jobs!Next

\* The invariant of the page of policies holds.
LEMMA JobsInvHolds == Spec => []JobsInv
<1>1. Init => JobsInv
  <2>. SUFFICES ASSUME Jobs!Init
                PROVE  JobsInv
    BY DEF Init
  <2>1. emitted.policy = ""
    BY DEF Jobs!Init, Jobs!NoPage
  <2>. QED
    BY <2>1 DEF Jobs!Init, JobsInv, Jobs!SpinsForCall, Jobs!FilesOwn
<1>2. JobsInv /\ [Next]_vars => JobsInv'
  BY PartSteps, JobsInvKept
<1>. QED  BY <1>1, <1>2, PTL DEF Spec

\* However rows are opened, closed and paged, filtered and polled for while pages come,
\* are lost or are of another row: once the last call ended well, the jobs under the
\* expanded row are its own (policy-table.component.ts, job.reducer.ts).
THEOREM JobsSettled == Spec => []JobsSettle
<1>1. JobsInv => JobsSettle
  BY DEF JobsInv, JobsSettle, Jobs!JobsSettle
<1>. QED  BY <1>1, JobsInvHolds, PTL

-----------------------------------------------------------------------------
(* The dialog of logs. *)

\* The types the invariant needs, and what the dialog shows.
Asked == [phase : {"sent", "answered"}, of : Ids, answer : 0..MaxLog]
Looping == [phase : {"timer", "asked"}, of : Ids]

LogInv ==
  /\ Log!TypeOK
  /\ logCall = Log!NoCall \/ logCall \in Asked
  /\ logPolling = Log!NotPolling \/ logPolling \in Looping
  /\ open => metaInfo \in Ids
  /\ Log!ShowsChosenLog /\ Log!PollsWhileOpen

\* What is no loop and no call.
LEMMA LogRecords ==
  /\ Log!NotPolling.of = "" /\ Log!NotPolling.phase = "none"
  /\ Log!NoCall.of = "" /\ Log!NoCall.phase = "none" /\ Log!NoCall.answer = 0
  /\ Log!NotPolling \notin Looping
  /\ \A loop \in Looping : loop.of \in Ids /\ loop.phase \in {"timer", "asked"}
  /\ \A c \in Asked : /\ c.of \in Ids /\ c.phase \in {"sent", "answered"}
                       /\ c.answer \in 0..MaxLog
<1>1. /\ Log!NotPolling.of = "" /\ Log!NotPolling.phase = "none"
      /\ Log!NoCall.of = "" /\ Log!NoCall.phase = "none" /\ Log!NoCall.answer = 0
  BY DEF Log!NotPolling, Log!NoCall
<1>2. \A loop \in Looping : loop.of \in Ids /\ loop.phase \in {"timer", "asked"}
  BY DEF Looping
<1>3. \A c \in Asked : c.of \in Ids /\ c.phase \in {"sent", "answered"} /\ c.answer \in 0..MaxLog
  BY DEF Asked
<1>. QED  BY <1>1, <1>2, <1>3

\* Lengths of a log.
LEMMA TextBounds == MaxLog \in Nat /\ 0 \in 0..MaxLog /\ 1 \in 1..MaxLog /\ 1..MaxLog \subseteq 0..MaxLog
<1>1. MaxLog \in Nat \ {0}
  BY PollingPagesConstants DEF Log!LogViewerConstants
<1>. QED  BY <1>1

\* A log that has room can grow.
LEMMA OneMore ==
  ASSUME NEW m, m \in Nat, NEW n, n \in 1..m, n < m
  PROVE  n + 1 \in 1..m
  OBVIOUS

\* What is emitted is shown, and the loop runs.
LEMMA Emits ==
  ASSUME LogInv, NEW p \in Ids, NEW text \in 0..MaxLog, NEW loop \in Looping \cup {Log!NotPolling},
         Log!Emit(p, text, loop)
  PROVE  /\ open' = TRUE /\ logPolling' \in Looping /\ logPolling' # Log!NotPolling
         /\ message'.of = p /\ message'.text = text
<1>1. Log!NotPolling \notin Looping
  BY DEF Looping, Log!NotPolling
<1>2. [phase |-> "timer", of |-> p] \in Looping
  BY DEF Looping
<1>3. logPolling' = IF loop = Log!NotPolling THEN [phase |-> "timer", of |-> p] ELSE loop
  BY DEF Log!Emit, Log!StartPolling
<1>4. logPolling' \in Looping
  BY <1>2, <1>3
<1>5. message' = [of |-> p, text |-> text] /\ open' = TRUE
  BY DEF Log!Emit
<1>. QED  BY <1>1, <1>4, <1>5

\* A loop that is told of an answer runs on.
LEMMA Tells ==
  ASSUME NEW loop \in Looping \cup {Log!NotPolling}
  PROVE  /\ Log!Told(loop) \in Looping \cup {Log!NotPolling}
         /\ Log!Told(loop) = Log!NotPolling <=> loop = Log!NotPolling
<1>1. CASE loop = Log!NotPolling
  BY <1>1 DEF Log!Told, Log!NotPolling
<1>2. CASE loop \in Looping
  <2>1. Log!Told(loop) \in Looping
    BY <1>2 DEF Log!Told, Looping
  <2>2. Log!NotPolling \notin Looping
    BY DEF Looping, Log!NotPolling
  <2>. QED  BY <1>2, <2>1, <2>2
<1>. QED  BY <1>1, <1>2

\* The invariant depends on what a loop, a call and the dialog are.
LEMMA LogInvFrom ==
  ASSUME exists' \subseteq Ids, logPolicies' \subseteq Ids, waiting' \subseteq Ids,
         written' \in [Ids -> 1..MaxLog], storedLogs' \in [Ids -> 0..MaxLog],
         {listFor', metaInfo', message'.of} \subseteq Ids \cup {""},
         message'.text \in 0..MaxLog, open' \in BOOLEAN,
         logCall' = Log!NoCall \/ logCall' \in Asked,
         logPolling' = Log!NotPolling \/ logPolling' \in Looping,
         open' => metaInfo' \in Ids, Log!ShowsChosenLog', Log!PollsWhileOpen'
  PROVE  LogInv'
<1>1. logPolling'.of \in Ids \cup {""} /\ logPolling'.phase \in {"none", "timer", "asked"}
  BY LogRecords
<1>2. /\ logCall'.of \in Ids \cup {""} /\ logCall'.phase \in {"none", "sent", "answered"}
      /\ logCall'.answer \in 0..MaxLog
  BY LogRecords, TextBounds
<1>. QED  BY <1>1, <1>2 DEF LogInv, Log!TypeOK

\* Logs are asked for.
LEMMA Requested ==
  ASSUME LogInv, NEW first \in Ids, NEW last \in Ids, Log!Request(first, last),
         exists' \subseteq Ids, logPolicies' \subseteq Ids, waiting' \subseteq Ids,
         listFor' \in Ids \cup {""}, UNCHANGED written
  PROVE  LogInv'
<1>. DEFINE loop == Log!StartPolling(logPolling, first)
<1>1. storedLogs \in [Ids -> 0..MaxLog] /\ storedLogs[last] \in 0..MaxLog /\ 0 \in 0..MaxLog
  BY TextBounds DEF LogInv, Log!TypeOK
<1>2. loop \in Looping
  BY DEF LogInv, Log!StartPolling, Looping
<1>. HIDE DEF loop
<1>3. Log!Emit(last, storedLogs[last], loop) /\ metaInfo' = last /\ UNCHANGED storedLogs
  BY DEF Log!Request, loop
<1>4. /\ open' = TRUE /\ logPolling' \in Looping /\ logPolling' # Log!NotPolling
      /\ message'.of = last /\ message'.text = storedLogs[last]
  BY <1>1, <1>2, <1>3, Emits
<1>5. logCall' \in Asked
  BY <1>1 DEF Log!Request, Log!loadLogs, Asked
<1>6. Log!ShowsChosenLog' /\ Log!PollsWhileOpen'
  BY <1>3, <1>4 DEF Log!ShowsChosenLog, Log!PollsWhileOpen
<1>7. /\ written' \in [Ids -> 1..MaxLog] /\ storedLogs' \in [Ids -> 0..MaxLog]
      /\ {listFor', metaInfo', message'.of} \subseteq Ids \cup {""} /\ message'.text \in 0..MaxLog
  BY <1>1, <1>3, <1>4 DEF LogInv, Log!TypeOK
<1>. QED  BY <1>3, <1>4, <1>5, <1>6, <1>7, LogInvFrom

\* Nothing but the call for policies, the server and the store of policies changes.
LEMMA LogInvRests ==
  ASSUME LogInv, exists' \subseteq Ids, logPolicies' \subseteq Ids, waiting' \subseteq Ids,
         listFor' \in Ids \cup {""}, written' \in [Ids -> 1..MaxLog], Log!NoRequests
  PROVE  LogInv'
<1>1. UNCHANGED <<storedLogs, metaInfo, message, open, logPolling, logCall>>
  BY DEF Log!NoRequests
<1>. QED
  BY <1>1, LogInvFrom DEF LogInv, Log!TypeOK, Log!ShowsChosenLog, Log!PollsWhileOpen

\* What a list of policies that comes keeps.
LEMMA ResolvedKeeps ==
  ASSUME LogInv, NEW list, list \subseteq Ids, Log!Resolved(list),
         exists' \subseteq Ids, logPolicies' \subseteq Ids, UNCHANGED written
  PROVE  LogInv'
<1>1. waiting' = {} /\ listFor' = "" /\ waiting \subseteq Ids /\ written' \in [Ids -> 1..MaxLog]
  BY DEF Log!Resolved, LogInv, Log!TypeOK
<1>2. Log!NoRequests \/ \E first, last \in waiting \cap list : Log!Request(first, last)
  BY DEF Log!Resolved
<1>3. CASE Log!NoRequests
  BY <1>1, <1>3, LogInvRests
<1>4. ASSUME NEW first \in waiting \cap list, NEW last \in waiting \cap list, Log!Request(first, last)
      PROVE  LogInv'
  <2>1. first \in Ids /\ last \in Ids
    BY <1>1
  <2>. QED  BY <1>1, <1>4, <2>1, Requested
<1>. QED  BY <1>2, <1>3, <1>4

\* Every step of the dialog keeps its invariant.
LEMMA LogInvKept ==
  ASSUME LogInv, [Log!Next]_logVars
  PROVE  LogInv'
<1>0. /\ exists \subseteq Ids /\ logPolicies \subseteq Ids /\ waiting \subseteq Ids
      /\ listFor \in Ids \cup {""} /\ written \in [Ids -> 1..MaxLog]
      /\ storedLogs \in [Ids -> 0..MaxLog] /\ MaxLog \in Nat /\ "" \notin Ids
      /\ {metaInfo, message.of} \subseteq Ids \cup {""} /\ message.text \in 0..MaxLog
      /\ open \in BOOLEAN /\ (open => metaInfo \in Ids)
      /\ logPolling \in Looping \cup {Log!NotPolling} /\ (open <=> logPolling # Log!NotPolling)
  BY PollingPagesConstants DEF LogInv, Log!TypeOK, Log!LogViewerConstants, Log!PollsWhileOpen
<1>1. ASSUME NEW p \in Ids, Log!Write(p) \/ Log!Remove(p)
      PROVE  LogInv'
  <2>1. CASE Log!Write(p)
    <3>1. written[p] \in 1..MaxLog /\ written[p] < MaxLog
      BY <1>0, <2>1 DEF Log!Write
    <3>2. written[p] + 1 \in 1..MaxLog
      BY <1>0, <3>1, OneMore
    <3>3. written' \in [Ids -> 1..MaxLog] /\ UNCHANGED exists
      BY <1>0, <2>1, <3>2 DEF Log!Write
    <3>. QED
      BY <1>0, <2>1, <3>3, LogInvRests DEF Log!Write, Log!NoRequests
  <2>2. CASE Log!Remove(p)
    BY <1>0, <2>2, LogInvRests DEF Log!Remove, Log!NoRequests
  <2>. QED  BY <1>1, <2>1, <2>2
<1>2. ASSUME NEW p \in Ids, Log!ShowLog(p)
      PROVE  LogInv'
  <2>1. UNCHANGED <<exists, written, logPolicies>>
    BY <1>2 DEF Log!ShowLog
  <2>2. CASE p \in logPolicies
    BY <1>0, <1>2, <2>1, <2>2, Requested DEF Log!ShowLog
  <2>3. CASE p \notin logPolicies
    BY <1>0, <1>2, <2>1, <2>3, LogInvRests DEF Log!ShowLog
  <2>. QED  BY <2>2, <2>3
<1>3. ASSUME Log!ServeLog
      PROVE  LogInv'
  <2>1. logCall \in Asked
    BY <1>3, LogRecords DEF LogInv, Log!ServeLog
  <2>2. written[logCall.of] \in 0..MaxLog
    BY <1>0, <2>1, LogRecords, TextBounds
  <2>3. logCall' \in Asked
    BY <1>3, <2>1, <2>2 DEF Asked, Log!ServeLog
  <2>. QED
    BY <1>0, <1>3, <2>3, LogInvFrom
       DEF Log!ServeLog, LogInv, Log!ShowsChosenLog, Log!PollsWhileOpen
<1>4. ASSUME Log!LoadPoliciesSuccess \/ Log!PoliciesListed \/ Log!LoadPoliciesFail
      PROVE  LogInv'
  BY <1>0, <1>4, ResolvedKeeps
     DEF Log!LoadPoliciesSuccess, Log!PoliciesListed, Log!LoadPoliciesFail
<1>5. ASSUME Log!LoadLogsSuccess
      PROVE  LogInv'
  <2>1. logCall \in Asked /\ logCall' = Log!NoCall
    BY <1>5, LogRecords DEF LogInv, Log!LoadLogsSuccess
  <2>2. /\ logCall.of \in Ids /\ logCall.answer \in 0..MaxLog
        /\ storedLogs' = [storedLogs EXCEPT ![logCall.of] = logCall.answer]
        /\ storedLogs' \in [Ids -> 0..MaxLog]
        /\ UNCHANGED <<exists, written, logPolicies, waiting, listFor, metaInfo>>
    BY <1>0, <1>5, <2>1 DEF Asked, Log!LoadLogsSuccess
  <2>3. /\ Log!Told(logPolling) \in Looping \cup {Log!NotPolling}
        /\ Log!Told(logPolling) = Log!NotPolling <=> logPolling = Log!NotPolling
    BY <1>0, Tells
  <2>4. CASE logCall.of = metaInfo
    <3>1. Log!Emit(logCall.of, logCall.answer, Log!Told(logPolling))
      BY <1>5, <2>4 DEF Log!LoadLogsSuccess, Log!IsChosen
    <3>2. /\ open' = TRUE /\ logPolling' \in Looping /\ logPolling' # Log!NotPolling
          /\ message'.of = logCall.of /\ message'.text = logCall.answer
      BY <2>2, <2>3, <3>1, Emits
    <3>3. Log!ShowsChosenLog' /\ Log!PollsWhileOpen'
      BY <1>0, <2>2, <2>4, <3>2 DEF Log!ShowsChosenLog, Log!PollsWhileOpen
    <3>. QED  BY <1>0, <2>1, <2>2, <2>4, <3>2, <3>3, LogInvFrom
  <2>5. CASE logCall.of # metaInfo
    <3>1. logPolling' = Log!Told(logPolling) /\ UNCHANGED <<message, open>>
      BY <1>5, <2>5 DEF Log!LoadLogsSuccess, Log!IsChosen
    <3>2. Log!ShowsChosenLog' /\ Log!PollsWhileOpen'
      BY <1>0, <2>2, <2>3, <2>5, <3>1 DEF LogInv, Log!ShowsChosenLog, Log!PollsWhileOpen
    <3>. QED  BY <1>0, <2>1, <2>2, <2>3, <3>1, <3>2, LogInvFrom
  <2>. QED  BY <2>4, <2>5
<1>6. ASSUME Log!LoadLogsFail
      PROVE  LogInv'
  <2>1. /\ Log!Told(logPolling) \in Looping \cup {Log!NotPolling}
        /\ Log!Told(logPolling) = Log!NotPolling <=> logPolling = Log!NotPolling
    BY <1>0, Tells
  <2>2. /\ logCall' = Log!NoCall /\ logPolling' = Log!Told(logPolling)
        /\ UNCHANGED <<exists, written, logPolicies, storedLogs, waiting, listFor, metaInfo,
                       message, open>>
    BY <1>6 DEF Log!LoadLogsFail
  <2>3. Log!ShowsChosenLog' /\ Log!PollsWhileOpen'
    BY <1>0, <2>1, <2>2 DEF LogInv, Log!ShowsChosenLog, Log!PollsWhileOpen
  <2>. QED  BY <1>0, <2>1, <2>2, <2>3, LogInvFrom
<1>7. ASSUME Log!Poll
      PROVE  LogInv'
  <2>1. /\ logPolling.phase = "timer" /\ logPolling' = [logPolling EXCEPT !.phase = "asked"]
        /\ logCall' = Log!loadLogs(logPolling.of)
        /\ UNCHANGED <<exists, written, logPolicies, storedLogs, waiting, listFor, metaInfo,
                       message, open>>
    BY <1>7 DEF Log!Poll
  <2>2. logPolling \in Looping /\ logPolling # Log!NotPolling
    BY <1>0, <2>1, LogRecords
  <2>3. logPolling' \in Looping
    BY <2>1, <2>2 DEF Looping
  <2>4. logPolling' # Log!NotPolling
    BY <2>3, LogRecords
  <2>5. logCall' \in Asked
    <3>1. logPolling.of \in Ids /\ 0 \in 0..MaxLog
      BY <2>2, LogRecords, TextBounds
    <3>. QED  BY <2>1, <3>1 DEF Log!loadLogs, Asked
  <2>6. Log!ShowsChosenLog' /\ Log!PollsWhileOpen'
    BY <1>0, <2>1, <2>2, <2>4 DEF LogInv, Log!ShowsChosenLog, Log!PollsWhileOpen
  <2>. QED  BY <1>0, <2>1, <2>3, <2>5, <2>6, LogInvFrom
<1>8. ASSUME Log!HideModal
      PROVE  LogInv'
  <2>1. /\ open' = FALSE /\ logPolling' = Log!NotPolling
        /\ UNCHANGED <<exists, written, logPolicies, storedLogs, waiting, listFor, metaInfo,
                       message, logCall>>
    BY <1>8 DEF Log!HideModal, Log!StopPolling
  <2>. QED
    BY <1>0, <2>1, LogInvFrom DEF LogInv, Log!ShowsChosenLog, Log!PollsWhileOpen
<1>9. CASE UNCHANGED logVars
  <2>1. UNCHANGED <<exists, written, logPolicies, storedLogs, waiting, listFor, metaInfo,
                    message, open, logPolling, logCall>>
    BY <1>9 DEF logVars
  <2>. QED
    BY <1>0, <2>1, LogInvRests DEF Log!NoRequests
<1>. QED
  BY <1>1, <1>2, <1>3, <1>4, <1>5, <1>6, <1>7, <1>8, <1>9 DEF Log!Next

\* The invariant of the dialog holds.
LEMMA LogInvHolds == Spec => []LogInv
<1>1. Init => LogInv
  <2>. SUFFICES ASSUME Log!Init
                PROVE  LogInv
    BY DEF Init
  <2>1. message.of = "" /\ message.text = 0
    BY DEF Log!Init
  <2>2. Log!TypeOK
    BY <2>1, LogRecords, TextBounds DEF Log!Init, Log!TypeOK
  <2>. QED  BY <2>2 DEF Log!Init, LogInv, Log!ShowsChosenLog, Log!PollsWhileOpen
<1>2. LogInv /\ [Next]_vars => LogInv'
  BY PartSteps, LogInvKept
<1>. QED  BY <1>1, <1>2, PTL DEF Spec

\* What is shown belongs to the row and the log chosen last, whatever comes late: the
\* directory that is browsed, the spinner, and the text and name of a log, for any
\* policies and any number of logs (policy-table, log-modal-dialog, log.service.ts).
THEOREM ShownIsOwn == Spec => []ShowsOwn
<1>1. JobsInv /\ LogInv => ShowsOwn
  BY DEF JobsInv, LogInv, ShowsOwn
<1>. QED  BY <1>1, JobsInvHolds, LogInvHolds, PTL

-----------------------------------------------------------------------------
(* The policies in the store. *)

Ops == {"LOAD_POLICIES", "LOAD_JOBS_FOR_POLICY"} \cup Policies!Commands
Served == {"", "gone"} \cup Policies!POLICY_STATUS

\* A list that is under way does not have what an earlier list showed to be gone: no two
\* are under way, and a policy that is gone is not listed any more.
Without(gone, c) ==
  /\ c \in [op : {c.op}, of : {c.of}, phase : {c.phase}, answer : {c.answer}]
  /\ c.op \in Ops /\ c.of \subseteq Ids
  /\ c.op = "LOAD_POLICIES" /\ c.phase = "answered" =>
       /\ DOMAIN c.answer \subseteq c.of \ gone
       /\ \A p \in DOMAIN c.answer : c.answer[p] \in Policies!Rows
  /\ c.op \in Policies!Commands /\ c.phase = "answered" => c.answer \in Ids

StoreInv ==
  /\ DOMAIN server = Ids /\ \A p \in missed : p \in Ids /\ server[p] = "gone"
  /\ DOMAIN policies \subseteq Ids /\ \A p \in DOMAIN policies : policies[p] \in Policies!Rows
  /\ \A c \in calls : Without(missed, c)
  /\ \A c, d \in calls : c.op = "LOAD_POLICIES" /\ d.op = "LOAD_POLICIES" => c = d
  /\ confirming # Policies!NoAction => confirming.op \in Policies!Commands /\ confirming.policy \in Ids
  /\ Policies!DeletedStaysAway /\ Policies!PollingWaits

\* A call that was made has no answer yet.
LEMMA CallIs ==
  ASSUME NEW op \in Ops, NEW of, of \subseteq Ids, NEW gone
  PROVE  \E c : /\ c = Policies!Call(op, of) /\ c.op = op /\ c.of = of
                /\ Without(gone, c)
<1>. DEFINE c == Policies!Call(op, of)
<1>1. /\ c.op = op /\ c.of = of /\ c.phase = "sent"
      /\ c \in [op : {c.op}, of : {c.of}, phase : {c.phase}, answer : {c.answer}]
  BY DEF Policies!Call
<1>2. c = Policies!Call(op, of)
  OBVIOUS
<1>. HIDE DEF c
<1>3. Without(gone, c)
  BY <1>1 DEF Without
<1>. QED  BY <1>1, <1>2, <1>3

\* A list has policies that there are.
LEMMA Listed ==
  ASSUME StoreInv, NEW of, of \subseteq Ids, NEW a \in Policies!Lists(of)
  PROVE  /\ DOMAIN a \subseteq of \ missed
         /\ \A p \in DOMAIN a : a[p] \in Policies!Rows
<1>1. PICK lacking \in SUBSET Jobless :
        a = [p \in {q \in of : Policies!Exists(q)} |->
               [status |-> server[p], ui |-> server[p], jobs |-> p \notin lacking]]
  BY DEF Policies!Lists
<1>2. DOMAIN a = {q \in of : Policies!Exists(q)}
  BY <1>1
<1>3. \A p \in missed : ~Policies!Exists(p)
  BY DEF StoreInv, Policies!Exists, Policies!POLICY_STATUS
<1>4. ASSUME NEW p \in DOMAIN a
      PROVE  a[p] \in Policies!Rows
  <2>1. a[p] = [status |-> server[p], ui |-> server[p], jobs |-> p \notin lacking]
    BY <1>1, <1>2
  <2>2. server[p] \in Policies!POLICY_STATUS
    BY <1>2 DEF Policies!Exists
  <2>. DEFINE jobless == p \notin lacking
  <2>3. jobless \in BOOLEAN
    OBVIOUS
  <2>. HIDE DEF jobless
  <2>4. [status |-> server[p], ui |-> server[p], jobs |-> jobless] \in Policies!Rows
    BY <2>2, <2>3 DEF Policies!Rows
  <2>. QED  BY <2>1, <2>4 DEF jobless
<1>. QED  BY <1>2, <1>3, <1>4

\* A policy that is gone stays so, whatever the server does for a call.
LEMMA ServeKeeps ==
  ASSUME StoreInv, NEW c \in calls, Policies!Serve(c)
  PROVE  StoreInv'
<1>0. Without(missed, c) /\ DOMAIN server = Ids
  BY DEF StoreInv
<1>1. PICK a \in Policies!Candidates(c) :
        /\ Policies!Answers(c, a, server')
        /\ calls' = (calls \ {c}) \cup {[c EXCEPT !.phase = "answered", !.answer = a]}
  BY DEF Policies!Serve
<1>2. UNCHANGED <<policies, polling, confirming, missed>>
  BY DEF Policies!Serve
<1>. DEFINE d == [c EXCEPT !.phase = "answered", !.answer = a]
<1>3. /\ d \in [op : {d.op}, of : {d.of}, phase : {d.phase}, answer : {d.answer}]
      /\ d.op = c.op /\ d.of = c.of /\ d.answer = a
  <2>1. c \in [op : {c.op}, of : {c.of}, phase : {c.phase}, answer : {c.answer}]
    BY <1>0 DEF Without
  <2>2. /\ d.op = c.op /\ d.of = c.of /\ d.phase = "answered" /\ d.answer = a
        /\ d \in [op : {c.op}, of : {c.of}, phase : {"answered"}, answer : {a}]
    BY <2>1
  <2>. HIDE DEF d
  <2>. QED  BY <2>2
<1>4. calls' = (calls \ {c}) \cup {d}
  BY <1>1
<1>. HIDE DEF d
<1>5. c.op = "LOAD_POLICIES" => a \in Policies!Lists(c.of)
  BY <1>1 DEF Policies!Answers
<1>6. Without(missed, d)
  <2>1. c.op = "LOAD_POLICIES" => /\ DOMAIN a \subseteq c.of \ missed
                                  /\ \A p \in DOMAIN a : a[p] \in Policies!Rows
    BY <1>0, <1>5, Listed DEF Without
  <2>2. c.op \in Policies!Commands => a \in Ids
    BY <1>0, <1>1 DEF Policies!Answers, Without, Policies!Commands
  <2>. QED  BY <1>0, <1>3, <2>1, <2>2 DEF Without
<1>7. DOMAIN server' = Ids /\ \A p \in missed : p \in Ids /\ server'[p] = "gone"
  <2>1. \A p \in missed : p \in Ids /\ server[p] = "gone"
    BY DEF StoreInv
  <2>2. \/ server' = server
        \/ \E p \in Ids : server[p] \in Policies!POLICY_STATUS
             /\ \E to : server' = [server EXCEPT ![p] = to]
    BY <1>0, <1>1 DEF Policies!Answers, Without, Ops, Policies!Commands, Policies!Exists,
       Policies!POLICY_STATUS
  <2>. QED  BY <1>0, <2>1, <2>2 DEF Policies!POLICY_STATUS
<1>8. \A e, g \in calls' : e.op = "LOAD_POLICIES" /\ g.op = "LOAD_POLICIES" => e = g
  <2>1. \A e, g \in calls : e.op = "LOAD_POLICIES" /\ g.op = "LOAD_POLICIES" => e = g
    BY DEF StoreInv
  <2>. QED  BY <1>3, <1>4, <2>1
<1>9. Policies!DeletedStaysAway' /\ Policies!PollingWaits'
  BY <1>2, <1>3, <1>4
     DEF StoreInv, Policies!DeletedStaysAway, Policies!PollingWaits, Policies!IsStub
<1>. QED  BY <1>2, <1>4, <1>6, <1>7, <1>8, <1>9 DEF StoreInv

\* Rows that are changed by an answer keep their kind: what is gone is no row but a stub.
LEMMA ReducedRows ==
  ASSUME StoreInv, NEW c \in calls, c.phase = "answered", NEW p \in DOMAIN Policies!Reduced(c)
  PROVE  /\ p \in Ids /\ Policies!Reduced(c)[p] \in Policies!Rows
         /\ p \in missed => Policies!Reduced(c)[p].ui = ""
         /\ c.op = "LOAD_POLICIES" => p \in DOMAIN c.answer
<1>1. /\ Without(missed, c) /\ DOMAIN policies \subseteq Ids
      /\ \A q \in DOMAIN policies : policies[q] \in Policies!Rows
      /\ \A q \in missed : q \in DOMAIN policies => policies[q].ui = ""
  BY DEF StoreInv, Policies!DeletedStaysAway, Policies!IsStub
<1>2. CASE c.op = "LOAD_POLICIES"
  <2>1. Policies!Reduced(c) = c.answer
    BY <1>2 DEF Policies!Reduced, Policies!loadPoliciesSuccess
  <2>. QED  BY <1>1, <1>2, <2>1 DEF Without
<1>3. CASE c.op = "DELETE_POLICY"
  <2>1. Policies!Reduced(c) = policies
    BY <1>3 DEF Policies!Reduced, Policies!deletePolicySuccess
  <2>. QED  BY <1>1, <1>3, <2>1
<1>4. ASSUME NEW status \in Policies!POLICY_STATUS, c.op \in {"SUSPEND_POLICY", "RESUME_POLICY"},
             Policies!Reduced(c) = Policies!updateEntityField(c.answer, status)
      PROVE  /\ p \in Ids /\ Policies!Reduced(c)[p] \in Policies!Rows
             /\ p \in missed => Policies!Reduced(c)[p].ui = ""
  <2>1. /\ p \in DOMAIN policies \cup {c.answer} /\ c.answer \in Ids
        /\ Policies!Reduced(c)[p] =
             IF p # c.answer THEN policies[p]
             ELSE IF c.answer \in DOMAIN policies THEN [policies[c.answer] EXCEPT !.status = status]
             ELSE [status |-> status, ui |-> "", jobs |-> FALSE]
    BY <1>1, <1>4 DEF Policies!updateEntityField, Without, Policies!Commands
  <2>2. [status |-> status, ui |-> "", jobs |-> FALSE] \in Policies!Rows
    BY DEF Policies!Rows
  <2>3. ASSUME NEW r \in Policies!Rows
        PROVE  /\ [r EXCEPT !.status = status] \in Policies!Rows
               /\ [r EXCEPT !.status = status].ui = r.ui
    BY DEF Policies!Rows
  <2>4. [status |-> status, ui |-> "", jobs |-> FALSE].ui = ""
    OBVIOUS
  <2>5. CASE p = c.answer /\ p \in DOMAIN policies
    <3>1. policies[p] \in Policies!Rows /\ (p \in missed => policies[p].ui = "")
      BY <1>1, <2>5
    <3>2. Policies!Reduced(c)[p] = [policies[p] EXCEPT !.status = status]
      BY <2>1, <2>5
    <3>3. /\ [policies[p] EXCEPT !.status = status] \in Policies!Rows
          /\ [policies[p] EXCEPT !.status = status].ui = policies[p].ui
      BY <2>3, <3>1
    <3>. QED  BY <2>1, <2>5, <3>1, <3>2, <3>3
  <2>6. CASE p = c.answer /\ p \notin DOMAIN policies
    BY <2>1, <2>2, <2>4, <2>6
  <2>7. CASE p # c.answer
    BY <1>1, <2>1, <2>7
  <2>. QED  BY <2>5, <2>6, <2>7
<1>5. CASE c.op = "SUSPEND_POLICY"
  <2>1. Policies!Reduced(c) = Policies!updateEntityField(c.answer, "SUSPENDED")
    BY <1>5 DEF Policies!Reduced
  <2>. QED  BY <1>4, <1>5, <2>1 DEF Policies!POLICY_STATUS
<1>6. CASE c.op = "RESUME_POLICY"
  <2>1. Policies!Reduced(c) = Policies!updateEntityField(c.answer, "RUNNING")
    BY <1>6 DEF Policies!Reduced
  <2>. QED  BY <1>4, <1>6, <2>1 DEF Policies!POLICY_STATUS
<1>7. CASE c.op = "LOAD_JOBS_FOR_POLICY"
  <2>. DEFINE jobs1 == policies[p].jobs \/ p \in c.answer
  <2>1. Policies!Reduced(c) = Policies!loadLastJobsSuccess(c.answer)
    BY <1>7 DEF Policies!Reduced
  <2>2. p \in DOMAIN policies
    BY <2>1 DEF Policies!loadLastJobsSuccess
  <2>3. Policies!Reduced(c)[p] = [policies[p] EXCEPT !.jobs = jobs1]
    BY <2>1, <2>2 DEF Policies!loadLastJobsSuccess
  <2>4. jobs1 \in BOOLEAN /\ policies[p] \in Policies!Rows
    BY <1>1, <2>2
  <2>. HIDE DEF jobs1
  <2>5. /\ [policies[p] EXCEPT !.jobs = jobs1] \in Policies!Rows
        /\ [policies[p] EXCEPT !.jobs = jobs1].ui = policies[p].ui
    BY <2>4 DEF Policies!Rows
  <2>. QED  BY <1>1, <1>7, <2>2, <2>3, <2>5
<1>. QED  BY <1>1, <1>2, <1>3, <1>5, <1>6, <1>7 DEF Without, Ops, Policies!Commands

\* An answer comes.
LEMMA DeliverKeeps ==
  ASSUME StoreInv, NEW c \in calls, Policies!Deliver(c)
  PROVE  StoreInv'
<1>1. /\ c.phase = "answered" /\ policies' = Policies!Reduced(c)
      /\ polling' = IF c.op = "LOAD_POLICIES" THEN "timer" ELSE polling
      /\ missed' = IF c.op = "LOAD_POLICIES"
                   THEN missed \cup {p \in c.of : p \notin DOMAIN c.answer /\ server[p] = "gone"}
                   ELSE missed
      /\ UNCHANGED <<server, confirming>>
  BY DEF Policies!Deliver
<1>2. /\ Without(missed, c) /\ \A d \in calls : Without(missed, d)
      /\ \A d, e \in calls : d.op = "LOAD_POLICIES" /\ e.op = "LOAD_POLICIES" => d = e
  BY DEF StoreInv
<1>3. /\ DOMAIN policies' \subseteq Ids
      /\ \A p \in DOMAIN policies' : policies'[p] \in Policies!Rows
      /\ \A p \in DOMAIN policies' : p \in missed => policies'[p].ui = ""
      /\ c.op = "LOAD_POLICIES" => DOMAIN policies' \subseteq DOMAIN c.answer
  BY <1>1, ReducedRows
<1>4. PICK lacking \in SUBSET Ids :
        \/ calls' = calls \ {c}
        \/ calls' = {d \in calls \ {c} : d.op # "LOAD_JOBS_FOR_POLICY"}
                     \cup {Policies!Call("LOAD_JOBS_FOR_POLICY", lacking)}
  <2>. DEFINE l == IF policies' = policies /\ known' = known THEN {}
                   ELSE Policies!Missing(policies', known')
  <2>1. l \subseteq Ids
    BY <1>3 DEF Policies!Missing
  <2>2. \/ calls' = calls \ {c}
        \/ calls' = {d \in calls \ {c} : d.op # "LOAD_JOBS_FOR_POLICY"}
                     \cup {Policies!Call("LOAD_JOBS_FOR_POLICY", l)}
    BY DEF Policies!Deliver
  <2>. HIDE DEF l
  <2>. QED  BY <2>1, <2>2
<1>5. PICK j : /\ j = Policies!Call("LOAD_JOBS_FOR_POLICY", lacking)
               /\ j.op = "LOAD_JOBS_FOR_POLICY" /\ Without(missed', j)
  BY CallIs DEF Ops
<1>6. /\ calls' \subseteq (calls \ {c}) \cup {j}
      /\ \A d \in calls \ {c} : d.op = "LOAD_POLICIES" => d \in calls'
  BY <1>4, <1>5
<1>7. \A d \in calls \ {c} : Without(missed', d)
  <2>. SUFFICES ASSUME NEW d \in calls \ {c}
                PROVE  Without(missed', d)
    OBVIOUS
  <2>1. Without(missed, d)
    BY <1>2
  <2>2. CASE missed' = missed
    BY <2>1, <2>2
  <2>3. CASE c.op = "LOAD_POLICIES"
    BY <1>2, <2>1, <2>3 DEF Without
  <2>. QED  BY <1>1, <2>2, <2>3
<1>8. \A d, e \in calls' : d.op = "LOAD_POLICIES" /\ e.op = "LOAD_POLICIES" => d = e
  BY <1>2, <1>5, <1>6
<1>9. DOMAIN server' = Ids /\ \A p \in missed' : p \in Ids /\ server'[p] = "gone"
  BY <1>1, <1>2 DEF StoreInv, Without
<1>10. Policies!DeletedStaysAway'
  BY <1>1, <1>3 DEF Policies!DeletedStaysAway, Policies!IsStub
<1>11. Policies!PollingWaits'
  BY <1>1, <1>6 DEF StoreInv, Policies!PollingWaits
<1>12. confirming' # Policies!NoAction => confirming'.op \in Policies!Commands /\ confirming'.policy \in Ids
  BY <1>1 DEF StoreInv
<1>. QED  BY <1>3, <1>5, <1>6, <1>7, <1>8, <1>9, <1>10, <1>11, <1>12 DEF StoreInv

\* A call is made, in place of one of its kind.
LEMMA StartKeeps ==
  ASSUME StoreInv, NEW op \in Ops, NEW of, of \subseteq Ids, calls' = Policies!Started(op, of),
         UNCHANGED <<server, policies, missed>>, op # "LOAD_POLICIES" => polling' = polling,
         confirming' # Policies!NoAction => confirming'.op \in Policies!Commands /\ confirming'.policy \in Ids
  PROVE  StoreInv'
<1>1. PICK c : /\ c = Policies!Call(op, of) /\ c.op = op /\ Without(missed, c)
  BY CallIs
<1>2. calls' = {d \in calls : d.op # op} \cup {c}
  BY <1>1 DEF Policies!Started, Policies!Dropped
<1>3. \A d \in calls' : Without(missed', d)
  BY <1>1, <1>2 DEF StoreInv
<1>4. \A d, e \in calls' : d.op = "LOAD_POLICIES" /\ e.op = "LOAD_POLICIES" => d = e
  <2>1. \A d, e \in calls : d.op = "LOAD_POLICIES" /\ e.op = "LOAD_POLICIES" => d = e
    BY DEF StoreInv
  <2>. QED  BY <1>1, <1>2, <2>1
<1>5. Policies!PollingWaits'
  BY <1>1, <1>2 DEF StoreInv, Policies!PollingWaits
<1>6. Policies!DeletedStaysAway'
  BY DEF StoreInv, Policies!DeletedStaysAway, Policies!IsStub
<1>. QED  BY <1>3, <1>4, <1>5, <1>6 DEF StoreInv

\* Every step of the store of policies keeps its invariant.
LEMMA StoreInvKept ==
  ASSUME StoreInv, [Policies!Next]_policyVars
  PROVE  StoreInv'
<1>1. ASSUME NEW p \in Ids, NEW to, Policies!OtherUser(p, to)
      PROVE  StoreInv'
  <2>1. /\ server' = [server EXCEPT ![p] = to] /\ server[p] # "gone"
        /\ UNCHANGED <<policies, calls, missed, polling, confirming>>
    BY <1>1 DEF Policies!OtherUser, Policies!Allowed
  <2>. QED
    BY <2>1 DEF StoreInv, Policies!DeletedStaysAway, Policies!PollingWaits, Policies!IsStub
<1>2. ASSUME NEW c \in calls, Policies!Fail(c)
      PROVE  StoreInv'
  <2>1. /\ calls' = calls \ {c}
        /\ polling' = IF c.op = "LOAD_POLICIES" THEN "timer" ELSE polling
        /\ UNCHANGED <<server, policies, missed, confirming>>
    BY <1>2 DEF Policies!Fail
  <2>2. Policies!PollingWaits'
    BY <2>1 DEF StoreInv, Policies!PollingWaits
  <2>. QED
    BY <2>1, <2>2 DEF StoreInv, Policies!DeletedStaysAway, Policies!IsStub
<1>3. ASSUME Policies!Poll
      PROVE  StoreInv'
  BY <1>3, StartKeeps DEF Policies!Poll, Ops, StoreInv
<1>4. ASSUME NEW p \in Ids, Policies!ShowLog(p)
      PROVE  StoreInv'
  BY <1>4, StartKeeps DEF Policies!ShowLog, Ops, StoreInv
<1>5. ASSUME NEW p \in Ids, NEW op \in Policies!Commands, Policies!SelectAction(op, p)
      PROVE  StoreInv'
  <2>1. /\ confirming'.op = op /\ confirming'.policy = p
        /\ UNCHANGED <<server, policies, missed, calls, polling>>
    BY <1>5 DEF Policies!SelectAction
  <2>. QED
    BY <2>1 DEF StoreInv, Policies!DeletedStaysAway, Policies!PollingWaits, Policies!IsStub
<1>6. ASSUME NEW confirmed \in BOOLEAN, Policies!CloseDialog(confirmed)
      PROVE  StoreInv'
  <2>1. /\ confirming # Policies!NoAction /\ confirming' = Policies!NoAction
        /\ calls' = IF confirmed THEN Policies!Started(confirming.op, {confirming.policy}) ELSE calls
        /\ UNCHANGED <<server, policies, missed, polling>>
    BY <1>6 DEF Policies!CloseDialog
  <2>2. CASE confirmed
    BY ZenonT(30), <2>1, <2>2, StartKeeps DEF StoreInv, Ops
  <2>3. CASE ~confirmed
    BY <2>1, <2>3 DEF StoreInv, Policies!DeletedStaysAway, Policies!PollingWaits, Policies!IsStub
  <2>. QED  BY <2>2, <2>3
<1>7. CASE UNCHANGED policyVars
  BY <1>7 DEF policyVars, StoreInv, Policies!DeletedStaysAway, Policies!PollingWaits,
     Policies!IsStub
<1>. QED
  BY <1>1, <1>2, <1>3, <1>4, <1>5, <1>6, <1>7, ServeKeeps, DeliverKeeps DEF Policies!Next

\* The invariant of the store of policies holds.
LEMMA StoreInvHolds == Spec => []StoreInv
<1>1. Init => StoreInv
  <2>. SUFFICES ASSUME Policies!Init
                PROVE  StoreInv
    BY DEF Init
  <2>1. PICK c : /\ c = Policies!Call("LOAD_POLICIES", Ids) /\ c.op = "LOAD_POLICIES"
                 /\ Without({}, c)
    BY CallIs DEF Ops
  <2>2. calls = {c} /\ missed = {} /\ policies = <<>> /\ DOMAIN server = Ids
        /\ confirming = Policies!NoAction
    BY <2>1 DEF Policies!Init
  <2>3. DOMAIN policies = {}
    BY <2>2
  <2>. QED
    BY <2>1, <2>2, <2>3 DEF StoreInv, Policies!DeletedStaysAway, Policies!PollingWaits
<1>2. StoreInv /\ [Next]_vars => StoreInv'
  BY PartSteps, StoreInvKept
<1>. QED  BY <1>1, <1>2, PTL DEF Spec

\* A policy that a list showed to be gone comes back as a stub at most, whatever answers
\* to commands, lists and job pages are still to come (policy.reducer.ts, policy.effect.ts).
THEOREM GoneStaysAway == Spec => []DeletedStaysAway
<1>1. StoreInv => DeletedStaysAway
  BY DEF StoreInv, DeletedStaysAway
<1>. QED  BY <1>1, StoreInvHolds, PTL

\* A loop that waits has a call to wait for, and the loop of the dialog runs exactly while
\* it is open: no order of failures, replaced calls and closed dialogs stops the polling
\* of the page or leaves that of the dialog running (policies.component.ts,
\* log-modal-dialog.component.ts).
THEOREM LoopsKeepRunning == Spec => []LoopsRun
<1>1. StoreInv /\ LogInv => LoopsRun
  BY DEF StoreInv, LogInv, LoopsRun
<1>. QED  BY <1>1, StoreInvHolds, LogInvHolds, PTL

-----------------------------------------------------------------------------
(* Types. *)

JobsTypes == Jobs!TypeOK

\* A page is a record of pages.
LEMMA PageIs ==
  ASSUME NEW p \in Ids \cup {""}, NEW o \in Pages, NEW f \in Filters
  PROVE  Jobs!Page(p, o, f) \in Jobs!PageRecords
BY DEF Jobs!Page, Jobs!PageRecords

\* Types of what a load of jobs changes.
LEMMA LoadTypes ==
  ASSUME JobsTypes, NEW new \in Jobs!PageRecords, NEW differs, Jobs!Load(new, differs)
  PROVE  {emitted', pageCall'} \subseteq Jobs!PageRecords /\ loadingJobs' \in BOOLEAN
BY DEF JobsTypes, Jobs!TypeOK, Jobs!Load

\* Every step keeps the types of the page of policies.
LEMMA JobsTypesKept ==
  ASSUME JobsTypes, [Jobs!Next]_jobVars
  PROVE  JobsTypes'
<1>. USE DEF Jobs!files, Jobs!panel, Jobs!shown
<1>0. /\ "" \in Filters /\ 0 \in Pages /\ Hive \subseteq Ids
      /\ Jobs!NoPage \in Jobs!PageRecords
  <2>1. "" \in Filters /\ 0 \in Pages /\ Hive \subseteq Ids
    BY PollingPagesConstants DEF Jobs!JobsPanelConstants
  <2>. QED  BY <2>1 DEF Jobs!NoPage, Jobs!PageRecords
<1>9. /\ {selected, expanded, jobsPolicyId, sourceCluster, hdfsRootPath} \subseteq Ids \cup {""}
      /\ activeContentType \in Jobs!PolicyContent /\ page \in Pages /\ filters \in Filters
      /\ pageOf \in [Ids -> Pages] /\ filtersOf \in [Ids -> Filters]
      /\ {emitted, jobs, queries, pageCall} \subseteq Jobs!PageRecords
      /\ {loadingJobs, succeeded} \subseteq BOOLEAN
  BY DEF JobsTypes, Jobs!TypeOK
<1>1. ASSUME NEW p \in Ids, NEW content \in Jobs!PolicyContent, NEW differs \in BOOLEAN,
             Jobs!ToggleRowDetail(p, content, differs)
      PROVE  JobsTypes'
  <2>1. /\ selected' = p /\ expanded' \in {"", p} /\ activeContentType' = content
        /\ jobs' \in {Jobs!NoPage, jobs} /\ page' = 0 /\ pageOf' = [pageOf EXCEPT ![p] = 0]
        /\ Jobs!Load(Jobs!Page(p, 0, filters), differs)
        /\ UNCHANGED <<filters, filtersOf, jobsPolicyId, queries, succeeded>>
    BY <1>1 DEF Jobs!ToggleRowDetail, Jobs!Toggled
  <2>2. {sourceCluster', hdfsRootPath'} \subseteq Ids \cup {""}
    <3>1. sourceCluster' \in {sourceCluster, "", p} /\ hdfsRootPath' \in {hdfsRootPath, p}
      BY <1>1 DEF Jobs!ToggleRowDetail, Jobs!LoadContentDetails
    <3>2. sourceCluster \in Ids \cup {""} /\ hdfsRootPath \in Ids \cup {""}
      BY <1>9
    <3>3. sourceCluster' \in Ids \cup {""} /\ hdfsRootPath' \in Ids \cup {""}
      BY <3>1, <3>2
    <3>. QED  BY <3>3
  <2>3. Jobs!Page(p, 0, filters) \in Jobs!PageRecords
    BY <1>0, <1>9, PageIs
  <2>4. {emitted', pageCall'} \subseteq Jobs!PageRecords /\ loadingJobs' \in BOOLEAN
    BY <2>1, <2>3, LoadTypes
  <2>5. pageOf' \in [Ids -> Pages]
    BY <1>0, <1>9, <2>1
  <2>. QED  BY <1>0, <1>9, <2>1, <2>2, <2>4, <2>5 DEF JobsTypes, Jobs!TypeOK
<1>2. ASSUME NEW p \in Ids, NEW o \in Pages, Jobs!HandleJobsPageChange(p, o)
      PROVE  JobsTypes'
  <2>1. /\ Jobs!Load(Jobs!Page(selected, o, filters), FALSE)
        /\ page' = o /\ pageOf' = [pageOf EXCEPT ![p] = o]
        /\ UNCHANGED <<selected, expanded, activeContentType, filters, filtersOf, jobs, jobsPolicyId,
                       sourceCluster, hdfsRootPath, queries, succeeded>>
    BY <1>2 DEF Jobs!HandleJobsPageChange
  <2>2. Jobs!Page(selected, o, filters) \in Jobs!PageRecords
    BY <1>9, PageIs
  <2>3. {emitted', pageCall'} \subseteq Jobs!PageRecords /\ loadingJobs' \in BOOLEAN
    BY <2>1, <2>2, LoadTypes
  <2>4. pageOf' \in [Ids -> Pages]
    BY <1>9, <2>1
  <2>. QED  BY <1>9, <2>1, <2>3, <2>4 DEF JobsTypes, Jobs!TypeOK
<1>3. ASSUME NEW p \in Ids, NEW f \in Filters, Jobs!HandleOnFilterJobs(p, f)
      PROVE  JobsTypes'
  <2>1. /\ Jobs!Load(Jobs!Page(selected, page, f), FALSE)
        /\ filters' = f /\ filtersOf' = [filtersOf EXCEPT ![p] = f]
        /\ UNCHANGED <<selected, expanded, activeContentType, page, pageOf, jobs, jobsPolicyId,
                       sourceCluster, hdfsRootPath, queries, succeeded>>
    BY <1>3 DEF Jobs!HandleOnFilterJobs
  <2>2. Jobs!Page(selected, page, f) \in Jobs!PageRecords
    BY <1>9, PageIs
  <2>3. {emitted', pageCall'} \subseteq Jobs!PageRecords /\ loadingJobs' \in BOOLEAN
    BY <2>1, <2>2, LoadTypes
  <2>4. filtersOf' \in [Ids -> Filters]
    BY <1>9, <2>1
  <2>. QED  BY <1>9, <2>1, <2>3, <2>4 DEF JobsTypes, Jobs!TypeOK
<1>4. ASSUME NEW p \in Ids, Jobs!HandleOnOpenDirectory(p)
      PROVE  JobsTypes'
  BY <1>9, <1>4 DEF Jobs!HandleOnOpenDirectory, JobsTypes, Jobs!TypeOK
<1>5. ASSUME Jobs!Poll
      PROVE  JobsTypes'
  <2>1. /\ selected # "" /\ pageCall' = Jobs!Page(selected, pageOf[selected], filtersOf[selected])
        /\ UNCHANGED <<selected, expanded, activeContentType, page, filters, pageOf, filtersOf,
                       emitted, sourceCluster, hdfsRootPath, jobs, jobsPolicyId, loadingJobs,
                       queries, succeeded>>
    BY <1>5 DEF Jobs!Poll, Jobs!LoadJobsPage, Jobs!OfRow
  <2>2. selected \in Ids /\ pageOf[selected] \in Pages /\ filtersOf[selected] \in Filters
    BY <1>9, <2>1
  <2>3. pageCall' \in Jobs!PageRecords
    BY <2>1, <2>2, PageIs
  <2>. QED  BY <1>9, <2>1, <2>3 DEF JobsTypes, Jobs!TypeOK
<1>6. ASSUME Jobs!LoadJobsPageSuccess \/ Jobs!LoadJobsFail \/ Jobs!JobsMerged
      PROVE  JobsTypes'
  <2>1. /\ UNCHANGED <<selected, expanded, activeContentType, page, filters, pageOf, filtersOf,
                       emitted, sourceCluster, hdfsRootPath>>
        /\ queries' \in {queries, pageCall} /\ pageCall' \in {pageCall, Jobs!NoPage}
        /\ \/ jobs' = jobs /\ jobsPolicyId' = jobsPolicyId
           \/ jobs' = queries' /\ jobsPolicyId' = queries'.policy
        /\ loadingJobs' \in {loadingJobs, FALSE} /\ succeeded' \in {succeeded, TRUE, FALSE}
    BY <1>6 DEF Jobs!LoadJobsPageSuccess, Jobs!LoadJobsFail, Jobs!JobsMerged,
       Jobs!UpdateJobsPaging
  <2>2. \A q \in Jobs!PageRecords : q.policy \in Ids \cup {""}
    BY DEF Jobs!PageRecords
  <2>3. /\ queries' \in Jobs!PageRecords /\ pageCall' \in Jobs!PageRecords
        /\ jobs' \in Jobs!PageRecords /\ jobsPolicyId' \in Ids \cup {""}
    BY <1>0, <1>9, <2>1, <2>2
  <2>. QED  BY <1>9, <2>1, <2>3 DEF JobsTypes, Jobs!TypeOK
<1>7. CASE UNCHANGED jobVars
  BY <1>7 DEF jobVars, JobsTypes, Jobs!TypeOK, Jobs!PageRecords
<1>8. Jobs!UserStep => JobsTypes'
  BY <1>1, <1>2, <1>3, <1>4 DEF Jobs!UserStep
<1>. QED  BY <1>5, <1>6, <1>7, <1>8 DEF Jobs!Next

\* At first the page of policies has its types.
LEMMA JobsTypesStart == ASSUME Jobs!Init PROVE JobsTypes
<1>1. "" \in Filters /\ 0 \in Pages
  BY PollingPagesConstants DEF Jobs!JobsPanelConstants
<1>2. Jobs!NoPage \in Jobs!PageRecords /\ \A p \in Ids : Jobs!Page(p, 0, "") \in Jobs!PageRecords
  BY <1>1, PageIs DEF Jobs!NoPage, Jobs!PageRecords
<1>3. queries \in Jobs!PageRecords /\ queries.policy \in Ids \cup {""}
  <2>1. queries \in Jobs!PageRecords
    BY <1>2 DEF Jobs!Init
  <2>. QED  BY <2>1 DEF Jobs!PageRecords
<1>. QED  BY <1>1, <1>2, <1>3 DEF Jobs!Init, JobsTypes, Jobs!TypeOK, Jobs!PolicyContent

-----------------------------------------------------------------------------
(* Types of the store of policies. *)

StoreTypes ==
  /\ server \in [Ids -> Served] /\ known \subseteq Ids /\ postLoad \subseteq Ids
  /\ \A c \in calls : /\ c.phase \in {"sent", "answered"}
                      /\ c.op = "LOAD_JOBS_FOR_POLICY" /\ c.phase = "answered" => c.answer \subseteq Ids
  /\ polling \in {"timer", "asked"}
  /\ confirming = Policies!NoAction \/ confirming \in [op : Policies!Commands, policy : Ids]

\* A call that starts has been sent; no other is new.
LEMMA StartedCalls ==
  ASSUME NEW op, NEW of
  PROVE  /\ \A c \in Policies!Started(op, of) : c \in calls \/ c = Policies!Call(op, of)
         /\ Policies!Call(op, of).phase = "sent"
BY DEF Policies!Started, Policies!Call

\* Every step keeps the types of the store of policies.
LEMMA StoreTypesKept ==
  ASSUME StoreInv, StoreTypes, [Policies!Next]_policyVars
  PROVE  StoreTypes'
<1>1. ASSUME NEW p \in Ids, NEW to \in Policies!POLICY_STATUS \cup {"gone"}, Policies!OtherUser(p, to)
      PROVE  StoreTypes'
  <2>1. /\ server' = [server EXCEPT ![p] = to]
        /\ UNCHANGED <<known, postLoad, calls, polling, confirming>>
    BY <1>1 DEF Policies!OtherUser
  <2>2. to \in Served
    BY DEF Served
  <2>3. server' \in [Ids -> Served]
    BY <2>1, <2>2 DEF StoreTypes
  <2>. QED  BY <2>1, <2>3 DEF StoreTypes
<1>2. ASSUME NEW c \in calls, Policies!Serve(c)
      PROVE  StoreTypes'
  <2>1. PICK a \in Policies!Candidates(c) :
          /\ Policies!Answers(c, a, server')
          /\ calls' = (calls \ {c}) \cup {[c EXCEPT !.phase = "answered", !.answer = a]}
    BY <1>2 DEF Policies!Serve
  <2>2. UNCHANGED <<known, postLoad, polling, confirming>>
    BY <1>2 DEF Policies!Serve
  <2>3. Without(missed, c) /\ c.of \subseteq Ids /\ c.op \in Ops
    BY DEF StoreInv, Without
  <2>. DEFINE d == [c EXCEPT !.phase = "answered", !.answer = a]
  <2>4. d.phase = "answered" /\ d.op = c.op /\ d.answer = a
    <3>1. c \in [op : {c.op}, of : {c.of}, phase : {c.phase}, answer : {c.answer}]
      BY <2>3 DEF Without
    <3>. QED  BY <3>1
  <2>5. calls' = (calls \ {c}) \cup {d}
    BY <2>1
  <2>. HIDE DEF d
  <2>6. c.op = "LOAD_JOBS_FOR_POLICY" => a \subseteq Ids
    BY <2>1, <2>3 DEF Policies!Answers
  <2>7. \A e \in calls' : /\ e.phase \in {"sent", "answered"}
                          /\ e.op = "LOAD_JOBS_FOR_POLICY" /\ e.phase = "answered" => e.answer \subseteq Ids
    BY <2>4, <2>5, <2>6 DEF StoreTypes
  <2>8. server' \in [Ids -> Served]
    <3>1. \/ server' = server
          \/ \E p \in Ids : \E to \in Served : server' = [server EXCEPT ![p] = to]
      <4>1. "gone" \in Served /\ "SUSPENDED" \in Served /\ "RUNNING" \in Served
        BY DEF Served, Policies!POLICY_STATUS
      <4>. QED
        BY <2>1, <2>3, <4>1 DEF Policies!Answers, Ops, Policies!Commands
    <3>. QED  BY <3>1 DEF StoreTypes
  <2>. QED  BY <2>2, <2>7, <2>8 DEF StoreTypes
<1>3. ASSUME NEW c \in calls, Policies!Deliver(c)
      PROVE  StoreTypes'
  <2>1. /\ c.phase = "answered" /\ policies' = Policies!Reduced(c) /\ known' = Policies!Known(c)
        /\ polling' = IF c.op = "LOAD_POLICIES" THEN "timer" ELSE polling
        /\ UNCHANGED <<server, confirming>>
    BY <1>3 DEF Policies!Deliver
  <2>2. known' \subseteq Ids
    <3>1. Without(missed, c)
      BY DEF StoreInv
    <3>2. CASE c.op = "LOAD_POLICIES"
      <4>1. DOMAIN c.answer \subseteq Ids
        BY <2>1, <3>1, <3>2 DEF Without
      <4>2. known' = known \cup {p \in DOMAIN c.answer : c.answer[p].jobs}
        BY <2>1, <3>2 DEF Policies!Known
      <4>. QED  BY <4>1, <4>2 DEF StoreTypes
    <3>3. CASE c.op = "LOAD_JOBS_FOR_POLICY"
      <4>1. known' = known \cup c.answer
        BY <2>1, <3>3 DEF Policies!Known
      <4>. QED  BY <2>1, <3>3, <4>1 DEF StoreTypes
    <3>4. CASE c.op # "LOAD_POLICIES" /\ c.op # "LOAD_JOBS_FOR_POLICY"
      <4>1. known' = known
        BY <2>1, <3>4 DEF Policies!Known
      <4>. QED  BY <4>1 DEF StoreTypes
    <3>. QED  BY <3>2, <3>3, <3>4
  <2>3. DOMAIN policies' \subseteq Ids
    BY <2>1, ReducedRows
  <2>. DEFINE lacking == IF policies' = policies /\ known' = known THEN {}
                         ELSE Policies!Missing(policies', known')
  <2>4. lacking \subseteq Ids
    BY <2>3 DEF Policies!Missing
  <2>5. \/ calls' = calls \ {c} /\ UNCHANGED postLoad
        \/ /\ postLoad' = lacking
           /\ calls' = {d \in calls \ {c} : d.op # "LOAD_JOBS_FOR_POLICY"}
                         \cup {Policies!Call("LOAD_JOBS_FOR_POLICY", lacking)}
    BY <1>3 DEF Policies!Deliver
  <2>. HIDE DEF lacking
  <2>6. \A d \in calls' : d \in calls \/ d.phase = "sent"
    BY <2>5, StartedCalls
  <2>7. postLoad' \subseteq Ids
    BY <2>4, <2>5 DEF StoreTypes
  <2>. QED  BY <2>1, <2>2, <2>6, <2>7 DEF StoreTypes
<1>4. ASSUME NEW c \in calls, Policies!Fail(c)
      PROVE  StoreTypes'
  BY <1>4 DEF Policies!Fail, StoreTypes
<1>5. ASSUME NEW op, NEW of, calls' = Policies!Started(op, of),
             UNCHANGED <<server, known, postLoad>>, polling' \in {polling, "asked"},
             confirming' \in {confirming, Policies!NoAction}
      PROVE  StoreTypes'
  <2>1. \A d \in calls' : d \in calls \/ d.phase = "sent"
    BY <1>5, StartedCalls
  <2>. QED  BY <1>5, <2>1 DEF StoreTypes
<1>6. ASSUME Policies!Poll \/ \E p \in Ids : Policies!ShowLog(p)
      PROVE  StoreTypes'
  BY <1>5, <1>6 DEF Policies!Poll, Policies!ShowLog
<1>7. ASSUME NEW p \in Ids, NEW op \in Policies!Commands, Policies!SelectAction(op, p)
      PROVE  StoreTypes'
  <2>1. /\ confirming' \in [op : Policies!Commands, policy : Ids]
        /\ UNCHANGED <<server, known, postLoad, calls, polling>>
    BY <1>7 DEF Policies!SelectAction
  <2>. QED  BY <2>1 DEF StoreTypes
<1>8. ASSUME NEW confirmed \in BOOLEAN, Policies!CloseDialog(confirmed)
      PROVE  StoreTypes'
  <2>1. /\ confirming' = Policies!NoAction
        /\ calls' = IF confirmed THEN Policies!Started(confirming.op, {confirming.policy}) ELSE calls
        /\ UNCHANGED <<server, known, postLoad, polling>>
    BY <1>8 DEF Policies!CloseDialog
  <2>2. CASE confirmed
    BY <1>5, <2>1, <2>2
  <2>3. CASE ~confirmed
    BY <2>1, <2>3 DEF StoreTypes
  <2>. QED  BY <2>2, <2>3
<1>9. CASE UNCHANGED policyVars
  BY <1>9 DEF policyVars, StoreTypes
<1>. QED
  BY <1>1, <1>2, <1>3, <1>4, <1>6, <1>7, <1>8, <1>9 DEF Policies!Next

\* At first the store of policies has its types.
LEMMA StoreTypesStart == ASSUME Policies!Init PROVE StoreTypes
<1>1. /\ server = [p \in Ids |-> IF p \in Initially THEN "RUNNING" ELSE ""]
      /\ known = {} /\ postLoad = {} /\ polling = "asked" /\ confirming = Policies!NoAction
      /\ calls = {Policies!Call("LOAD_POLICIES", Ids)}
  BY DEF Policies!Init
<1>2. server \in [Ids -> Served]
  BY <1>1 DEF Served, Policies!POLICY_STATUS
<1>3. Policies!Call("LOAD_POLICIES", Ids).phase = "sent"
  BY DEF Policies!Call
<1>. QED  BY <1>1, <1>2, <1>3 DEF StoreTypes

\* The types of the store of policies, and what its invariant says of them.
LEMMA StoreTyped == ASSUME StoreInv, StoreTypes PROVE Policies!TypeOK
<1>1. missed \subseteq Ids /\ \A c \in calls : c.of \subseteq Ids
  BY DEF StoreInv, Without
<1>2. server \in [Ids -> Policies!POLICY_STATUS \cup {"", "gone"}]
  BY DEF StoreTypes, Served
<1>. QED  BY <1>1, <1>2 DEF StoreInv, StoreTypes, Policies!TypeOK

-----------------------------------------------------------------------------
(* The feed of events. *)

Descends(s) == \A i, j \in 1..Len(s) : i < j => s[i] > s[j]

\* Events that happened, those of a single Beacon from the newest to the oldest.
Comes(s) == s \in Seq(1..Len(happened)) /\ (BeaconsCount = 1 => Descends(s))

FeedCalls == [numResults : Nat, phase : {"sent", "answered"}, events : Seq(Nat)]

\* headId and tailId are the ends of the list.
FeedInv ==
  /\ happened \in Seq(Feed!BeaconIds) /\ asked \in BOOLEAN
  /\ Comes(events)
  /\ events = <<>> => headId = 0 /\ tailId = 0
  /\ events # <<>> => headId = events[1] /\ tailId = events[Len(events)]
  /\ eventCalls \in Seq(FeedCalls)
  /\ \A i \in 1..Len(eventCalls) : Comes(eventCalls[i].events)

\* The feed selects by the same operator.
LEMMA FeedThose ==
  ASSUME NEW s, NEW S
  PROVE  Feed!Those(s, S) = Those(s, S)
BY DEF Those, Ascending, InOrder, Cardinality, Feed!Those, Feed!Ascending, Feed!InOrder,
   Feed!Cardinality

\* Beacons are numbers, and a single one is the first.
LEMMA NumbersOfBeacons ==
  /\ BeaconsCount \in Nat \ {0} /\ PageSize \in Nat \ {0} /\ EventsBefore \in Nat
  /\ Feed!BeaconIds \subseteq Int /\ (BeaconsCount = 1 => Feed!BeaconIds = {1})
BY PollingPagesConstants DEF Feed!EventFeedConstants, Feed!BeaconIds

\* What the Beacons answer.
LEMMA AnswerComes ==
  ASSUME happened \in Seq(Feed!BeaconIds), NEW n, NEW answering
  PROVE  Comes(Feed!Answer(n, answering))
<1>. DEFINE told == {i \in DOMAIN happened : /\ happened[i] \in answering
                                             /\ Feed!Cardinality(Feed!After(i)) < n}
            b == [i \in told |-> {j \in told : happened[j] < happened[i] \/ j \in Feed!After(i)}]
            s == InOrder(b)
<1>1. Feed!Answer(n, answering) = s
  BY DEF Feed!Answer, Feed!InOrder, InOrder, Feed!Cardinality, Cardinality
<1>2. told \in SUBSET (1..Len(happened)) /\ Len(happened) \in Nat
  OBVIOUS
<1>3. b \in [told -> SUBSET told]
  OBVIOUS
<1>4. \A i, j \in told :
        j \in b[i] <=> happened[j] < happened[i] \/ (happened[j] = happened[i] /\ j > i)
  BY DEF Feed!After
<1>. HIDE DEF told, b
<1>5. IsFiniteSet(told)
  <2>1. IsFiniteSet(1..Len(happened))
    BY <1>2, FS_Interval
  <2>. QED  BY <1>2, <2>1, FS_Subset
<1>6. \A i \in told : i \in Int /\ happened[i] \in Feed!BeaconIds /\ happened[i] \in Int
  <2>1. \A i \in 1..Len(happened) : happened[i] \in Feed!BeaconIds
    OBVIOUS
  <2>2. ASSUME NEW i \in told
        PROVE  i \in Int /\ happened[i] \in Feed!BeaconIds
    <3>1. i \in 1..Len(happened)
      BY <1>2
    <3>. QED  BY <2>1, <3>1
  <2>. QED  BY <2>2, NumbersOfBeacons
<1>7. \A i \in told : i \notin b[i]
  BY <1>4, <1>6
<1>8. \A i, j \in told : j \in b[i] => b[j] \subseteq b[i]
  <2>1. ASSUME NEW i \in told, NEW j \in told, j \in b[i], NEW k \in b[j]
        PROVE  k \in b[i]
    <3>1. k \in told
      BY <1>3
    <3>2. /\ happened[j] < happened[i] \/ (happened[j] = happened[i] /\ j > i)
          /\ happened[k] < happened[j] \/ (happened[k] = happened[j] /\ k > j)
      BY <1>4, <2>1, <3>1
    <3>3. {i, j, k, happened[i], happened[j], happened[k]} \subseteq Int
      BY <1>6, <3>1
    <3>4. happened[k] < happened[i] \/ (happened[k] = happened[i] /\ k > i)
      BY <3>2, <3>3
    <3>. QED  BY <1>4, <3>1, <3>4
  <2>. QED  BY <2>1
<1>9. \A i, j \in told : i = j \/ i \in b[j] \/ j \in b[i]
  BY <1>4, <1>6
<1>10. /\ s \in Seq(told)
       /\ \A i, j \in 1..Len(s) : i < j => s[i] \in b[s[j]]
  <2>1. StrictOrder(b, told)
    BY <1>3, <1>5, <1>7, <1>8, <1>9 DEF StrictOrder
  <2>2. StandsInOrder(s, b, told)
    BY <2>1, InOrderIs
  <2>. HIDE DEF s
  <2>. QED  BY <2>2 DEF StandsInOrder
<1>. HIDE DEF s
<1>11. s \in Seq(1..Len(happened)) /\ \A i \in 1..Len(s) : s[i] \in told
  <2>1. told \subseteq 1..Len(happened) /\ s \in Seq(told)
    BY <1>2, <1>10
  <2>2. s \in Seq(1..Len(happened))
    BY <2>1, SeqMonotonic
  <2>. QED  BY <2>1, <2>2, ElementOfSeq
<1>12. ASSUME BeaconsCount = 1, NEW i \in 1..Len(s), NEW j \in 1..Len(s), i < j
       PROVE  s[i] > s[j]
  <2>1. s[i] \in told /\ s[j] \in told /\ s[i] \in b[s[j]]
    BY <1>10, <1>11, <1>12
  <2>2. happened[s[i]] = 1 /\ happened[s[j]] = 1
    BY <1>6, <1>12, <2>1, NumbersOfBeacons
  <2>. QED  BY <1>4, <2>1, <2>2
<1>. QED  BY <1>1, <1>11, <1>12 DEF Comes, Descends

\* Lists that descend, one below the other, descend as one list.
LEMMA DescendsOn ==
  ASSUME NEW s \in Seq(Int), NEW t \in Seq(Int), Descends(s), Descends(t),
         \A i \in 1..Len(s), j \in 1..Len(t) : s[i] > t[j]
  PROVE  Descends(s \o t)
<1>1. /\ Len(s \o t) = Len(s) + Len(t) /\ Len(s) \in Nat /\ Len(t) \in Nat
      /\ \A i \in 1..(Len(s) + Len(t)) : (s \o t)[i] = IF i <= Len(s) THEN s[i] ELSE t[i - Len(s)]
  BY ConcatProperties, LenProperties
<1>2. ASSUME NEW i \in 1..(Len(s) + Len(t)), NEW j \in 1..(Len(s) + Len(t)), i < j
      PROVE  (s \o t)[i] > (s \o t)[j]
  <2>1. CASE j <= Len(s)
    <3>1. i \in 1..Len(s) /\ j \in 1..Len(s) /\ i <= Len(s)
      BY <1>1, <1>2, <2>1
    <3>. QED  BY <1>1, <1>2, <2>1, <3>1 DEF Descends
  <2>2. CASE i <= Len(s) /\ ~(j <= Len(s))
    <3>1. i \in 1..Len(s) /\ j - Len(s) \in 1..Len(t)
      BY <1>1, <1>2, <2>2
    <3>. QED  BY <1>1, <2>2, <3>1
  <2>3. CASE ~(i <= Len(s)) /\ ~(j <= Len(s))
    <3>1. i - Len(s) \in 1..Len(t) /\ j - Len(s) \in 1..Len(t) /\ i - Len(s) < j - Len(s)
      BY <1>1, <1>2, <2>3
    <3>. QED  BY <1>1, <2>3, <3>1 DEF Descends
  <2>. QED  BY <1>1, <1>2, <2>1, <2>2, <2>3
<1>. QED  BY <1>1, <1>2 DEF Descends

\* Of events that come, those with some ids.
LEMMA SomeCome ==
  ASSUME NEW s, Comes(s), NEW S
  PROVE  /\ Comes(Feed!Those(s, S))
         /\ \A i \in 1..Len(Feed!Those(s, S)) : Feed!Those(s, S)[i] \in S
<1>. DEFINE t == Those(s, S)
<1>1. s \in Seq(1..Len(happened))
  BY DEF Comes
<1>2. /\ t \in Seq((1..Len(happened)) \cap S)
      /\ \A i, j \in 1..Len(t) : i < j =>
           \E k, l \in 1..Len(s) : k < l /\ t[i] = s[k] /\ t[j] = s[l]
  <2>1. t \in Seq((1..Len(happened)) \cap S) /\ Selects(t, s, S)
    BY <1>1, ThoseAre
  <2>. HIDE DEF t
  <2>. QED  BY <2>1 DEF Selects
<1>. HIDE DEF t
<1>3. t \in Seq(1..Len(happened)) /\ \A i \in 1..Len(t) : t[i] \in S
  BY <1>2, SeqMonotonic
<1>4. BeaconsCount = 1 => Descends(t)
  BY <1>2 DEF Comes, Descends
<1>5. Feed!Those(s, S) = t
  BY FeedThose DEF t
<1>. QED  BY <1>3, <1>4, <1>5 DEF Comes

\* What a list of events that comes makes of the feed.
LEMMA LoadsEvents ==
  ASSUME FeedInv, NEW s, Comes(s), Feed!LoadEventsSuccess(s)
  PROVE  /\ events' \in Seq(1..Len(happened)) /\ (BeaconsCount = 1 => Descends(events'))
         /\ events' = <<>> => headId' = 0 /\ tailId' = 0
         /\ events' # <<>> => headId' = events'[1] /\ tailId' = events'[Len(events')]
<1>0. /\ events \in Seq(1..Len(happened)) /\ s \in Seq(1..Len(happened))
      /\ BeaconsCount = 1 => Descends(events) /\ Descends(s)
  BY DEF FeedInv, Comes
<1>1. Len(events) \in Nat /\ Len(s) \in Nat /\ Len(happened) \in Nat
      /\ \A i \in 1..Len(events) : events[i] \in 1..Len(happened)
  BY <1>0 DEF FeedInv
<1>2. CASE events = <<>>
  <2>1. headId = 0 /\ tailId = 0
    BY <1>2 DEF FeedInv
  <2>2. /\ events' = s
        /\ headId' = IF s = <<>> THEN 0 ELSE Head(s)
        /\ tailId' = IF s = <<>> THEN 0 ELSE s[Len(s)]
    BY <2>1 DEF Feed!LoadEventsSuccess, Feed!FirstId, Feed!LastId, Feed!Last
  <2>3. s # <<>> => Head(s) = s[1]
    BY <1>0
  <2>. QED  BY <1>0, <2>2, <2>3
<1>3. CASE events # <<>>
  <2>. DEFINE a == Feed!Newer(s)
              z == Feed!Older(s)
  <2>1. /\ headId = events[1] /\ tailId = events[Len(events)] /\ Len(events) \in Nat \ {0}
        /\ headId \in 1..Len(happened) /\ tailId \in 1..Len(happened)
    <3>1. Len(events) \in Nat \ {0}
      BY <1>0, <1>3, EmptySeq
    <3>2. 1 \in 1..Len(events) /\ Len(events) \in 1..Len(events)
      BY <3>1
    <3>3. headId = events[1] /\ tailId = events[Len(events)]
      BY <1>3 DEF FeedInv
    <3>. QED  BY <1>1, <3>1, <3>2, <3>3
  <2>2. ~(headId = 0 /\ tailId = 0)
    BY <1>1, <2>1
  <2>3. /\ a \in Seq(1..Len(happened)) /\ (BeaconsCount = 1 => Descends(a))
        /\ \A i \in 1..Len(a) : a[i] > headId
    BY SomeCome DEF Comes, Feed!Newer
  <2>4. /\ z \in Seq(1..Len(happened)) /\ (BeaconsCount = 1 => Descends(z))
        /\ \A i \in 1..Len(z) : z[i] < tailId
    BY SomeCome DEF Comes, Feed!Older
  <2>. HIDE DEF a, z
  <2>5. /\ events' = (a \o events) \o z
        /\ headId' = IF a = <<>> THEN headId ELSE Head(a)
        /\ tailId' = IF z = <<>> THEN tailId ELSE z[Len(z)]
    BY <2>2 DEF Feed!LoadEventsSuccess, Feed!FirstId, Feed!LastId, Feed!Last, a, z
  <2>. DEFINE ae == a \o events
              all == ae \o z
  <2>6. /\ ae \in Seq(1..Len(happened)) /\ Len(ae) = Len(a) + Len(events)
        /\ \A i \in 1..(Len(a) + Len(events)) :
             ae[i] = IF i <= Len(a) THEN a[i] ELSE events[i - Len(a)]
    BY <1>0, <2>3, ConcatProperties
  <2>7. /\ Len(a) \in Nat /\ Len(z) \in Nat /\ Len(ae) \in Nat
        /\ \A i \in 1..Len(a) : a[i] \in 1..Len(happened)
        /\ \A i \in 1..Len(z) : z[i] \in 1..Len(happened)
        /\ \A i \in 1..Len(ae) : ae[i] \in 1..Len(happened)
    BY <2>3, <2>4, <2>6, LenProperties, ElementOfSeq
  <2>. HIDE DEF ae
  <2>8. /\ all \in Seq(1..Len(happened)) /\ Len(all) = Len(ae) + Len(z)
        /\ \A i \in 1..(Len(ae) + Len(z)) :
             all[i] = IF i <= Len(ae) THEN ae[i] ELSE z[i - Len(ae)]
    <3>1. ae \in Seq(1..Len(happened)) /\ z \in Seq(1..Len(happened))
      BY <2>4, <2>6
    <3>. HIDE DEF all
    <3>2. all = ae \o z
      BY DEF all
    <3>. QED  BY <3>1, <3>2, ConcatProperties
  <2>9. events' = all
    BY <2>5 DEF ae
  <2>. HIDE DEF all
  <2>10. all # <<>> /\ Len(all) \in 1..Len(all) /\ 1 \in 1..Len(all)
    <3>1. Len(all) \in Nat \ {0}
      BY <2>1, <2>6, <2>7, <2>8
    <3>. QED  BY <3>1
  <2>11. headId' = all[1]
    <3>1. all[1] = ae[1] /\ 1 \in 1..(Len(a) + Len(events))
      <4>1. 1 \in 1..(Len(ae) + Len(z)) /\ 1 <= Len(ae) /\ 1 \in 1..(Len(a) + Len(events))
        BY <2>1, <2>6, <2>7
      <4>. QED  BY <2>8, <4>1
    <3>2. CASE a = <<>>
      <4>1. Len(a) = 0 /\ headId' = events[1]
        BY <2>1, <2>5, <3>2
      <4>2. ae[1] = events[1 - Len(a)] /\ 1 - Len(a) = 1
        BY <2>6, <3>1, <4>1
      <4>. QED  BY <3>1, <4>1, <4>2
    <3>3. CASE a # <<>>
      <4>1. 1 <= Len(a) /\ Head(a) = a[1]
        BY <2>3, <3>3, EmptySeq
      <4>. QED  BY <2>5, <2>6, <3>1, <3>3, <4>1
    <3>. QED  BY <3>2, <3>3
  <2>12. tailId' = all[Len(all)]
    <3>1. CASE z = <<>>
      <4>1. Len(z) = 0 /\ tailId' = events[Len(events)]
        BY <2>1, <2>5, <3>1
      <4>2. Len(all) = Len(ae) /\ Len(ae) \in 1..(Len(ae) + Len(z))
        BY <2>1, <2>6, <2>7, <2>8, <4>1
      <4>3. all[Len(all)] = ae[Len(ae)]
        BY <2>8, <4>2
      <4>4. Len(ae) \in 1..(Len(a) + Len(events)) /\ ~(Len(ae) <= Len(a)) /\ Len(ae) - Len(a) = Len(events)
        BY <2>1, <2>6, <2>7
      <4>. QED  BY <2>6, <4>1, <4>3, <4>4
    <3>2. CASE z # <<>>
      <4>1. Len(z) \in Nat \ {0}
        BY <2>4, <3>2, EmptySeq
      <4>2. /\ Len(all) \in 1..(Len(ae) + Len(z)) /\ ~(Len(all) <= Len(ae))
            /\ Len(all) - Len(ae) = Len(z)
        BY <2>7, <2>8, <4>1
      <4>. QED  BY <2>5, <2>8, <3>2, <4>2
    <3>. QED  BY <3>1, <3>2
  <2>13. ASSUME BeaconsCount = 1
         PROVE  Descends(all)
    <3>1. a \in Seq(Int) /\ events \in Seq(Int) /\ ae \in Seq(Int) /\ z \in Seq(Int)
      <4>1. 1..Len(happened) \subseteq Int
        OBVIOUS
      <4>. QED  BY <1>0, <2>3, <2>4, <2>6, <4>1, SeqMonotonic
    <3>2. Descends(events) /\ Descends(a) /\ Descends(z)
      BY <1>0, <2>3, <2>4, <2>13
    <3>3. \A i \in 1..Len(events) : headId >= events[i] /\ events[i] >= tailId
      <4>1. ASSUME NEW i \in 1..Len(events)
            PROVE  headId >= events[i] /\ events[i] >= tailId
        <5>1. (i = 1 \/ 1 < i) /\ (i = Len(events) \/ i < Len(events))
          BY <2>1
        <5>2. 1 \in 1..Len(events) /\ Len(events) \in 1..Len(events)
          BY <2>1
        <5>3. /\ events[1] = events[i] \/ events[1] > events[i]
              /\ events[i] = events[Len(events)] \/ events[i] > events[Len(events)]
          BY <3>2, <5>1, <5>2 DEF Descends
        <5>. QED  BY <1>1, <2>1, <5>2, <5>3
      <4>. QED  BY <4>1
    <3>4. \A i \in 1..Len(a), j \in 1..Len(events) : a[i] > events[j]
      <4>1. ASSUME NEW i \in 1..Len(a), NEW j \in 1..Len(events)
            PROVE  a[i] > events[j]
        <5>1. a[i] \in Int /\ events[j] \in Int /\ headId \in Int
          <6>1. a[i] \in Int /\ events[j] \in Int
            BY <3>1, ElementOfSeq
          <6>. QED  BY <2>1, <6>1
        <5>2. a[i] > headId /\ headId >= events[j]
          BY <2>3, <3>3
        <5>. QED  BY <5>1, <5>2
      <4>. QED  BY <4>1
    <3>5. Descends(ae)
      BY <3>1, <3>2, <3>4, DescendsOn DEF ae
    <3>6. \A i \in 1..Len(ae) : ae[i] >= tailId
      <4>1. ASSUME NEW i \in 1..Len(ae)
            PROVE  ae[i] >= tailId
        <5>1. CASE i <= Len(a)
          <6>1. i \in 1..Len(a) /\ ae[i] = a[i] /\ Len(events) \in 1..Len(events)
            BY <2>1, <2>6, <2>7, <5>1
          <6>2. ae[i] > tailId
            BY <2>1, <3>4, <6>1
          <6>3. ae[i] \in Int /\ tailId \in Int
            BY <2>1, <2>7
          <6>. QED  BY <6>2, <6>3
        <5>2. CASE ~(i <= Len(a))
          <6>1. i - Len(a) \in 1..Len(events) /\ ae[i] = events[i - Len(a)]
            BY <2>1, <2>6, <2>7, <5>2
          <6>. QED  BY <3>3, <6>1
        <5>. QED  BY <5>1, <5>2
      <4>. QED  BY <4>1
    <3>7. \A i \in 1..Len(ae), j \in 1..Len(z) : ae[i] > z[j]
      <4>1. ASSUME NEW i \in 1..Len(ae), NEW j \in 1..Len(z)
            PROVE  ae[i] > z[j]
        <5>1. ae[i] \in Int /\ z[j] \in Int /\ tailId \in Int
          BY <2>1, <2>7
        <5>2. ae[i] >= tailId /\ z[j] < tailId
          BY <2>4, <3>6
        <5>. QED  BY <5>1, <5>2
      <4>. QED  BY <4>1
    <3>. QED  BY <3>1, <3>2, <3>5, <3>7, DescendsOn DEF all
  <2>. QED  BY <2>8, <2>9, <2>10, <2>11, <2>12, <2>13
<1>. QED  BY <1>2, <1>3

\* A sequence without one of its elements has elements of it only.
LEMMA RemovedAt ==
  ASSUME NEW S, NEW s \in Seq(S), NEW i \in 1..Len(s)
  PROVE  /\ Feed!RemoveAt(s, i) \in Seq(S)
         /\ \A j \in 1..Len(Feed!RemoveAt(s, i)) :
              \E k \in 1..Len(s) : Feed!RemoveAt(s, i)[j] = s[k]
<1>. DEFINE before == SubSeq(s, 1, i - 1)
            after == SubSeq(s, i + 1, Len(s))
            both == before \o after
            T == {s[k] : k \in 1..Len(s)}
<1>1. \A k \in 1..Len(s) : s[k] \in T /\ s[k] \in S
  OBVIOUS
<1>2. T \subseteq S /\ \A x \in T : \E k \in 1..Len(s) : x = s[k]
  BY <1>1
<1>3. Len(s) \in Nat /\ i \in Int
  OBVIOUS
<1>. HIDE DEF T
<1>4. before \in Seq(T)
  <2>1. \A j \in 1..(i - 1) : s[j] \in T
    BY <1>1, <1>3
  <2>. QED  BY <2>1, SubSeqProperties
<1>5. after \in Seq(T)
  <2>1. \A j \in (i + 1)..Len(s) : s[j] \in T
    BY <1>1, <1>3
  <2>. QED  BY <2>1, SubSeqProperties
<1>. HIDE DEF before, after
<1>6. both \in Seq(T)
  BY <1>4, <1>5, ConcatProperties
<1>7. Feed!RemoveAt(s, i) = both
  BY DEF Feed!RemoveAt, before, after
<1>. HIDE DEF both
<1>8. both \in Seq(S)
  BY <1>2, <1>6, SeqMonotonic
<1>9. \A j \in 1..Len(both) : both[j] \in T
  BY <1>6, ElementOfSeq
<1>. QED  BY <1>2, <1>7, <1>8, <1>9

\* What came stays what happened.
LEMMA FeedGrows ==
  ASSUME happened \in Seq(Feed!BeaconIds), happened' \in Seq(Feed!BeaconIds),
         Len(happened) <= Len(happened'), NEW s, Comes(s)
  PROVE  s \in Seq(1..Len(happened')) /\ (BeaconsCount = 1 => Descends(s))
<1>1. 1..Len(happened) \subseteq 1..Len(happened')
  <2>1. Len(happened) \in Nat /\ Len(happened') \in Nat
    OBVIOUS
  <2>. QED  BY <2>1
<1>. QED  BY <1>1, SeqMonotonic DEF Comes

\* A call that has no answer yet.
LEMMA CallOfNone ==
  ASSUME NEW n \in Nat
  PROVE  Feed!Call(n) \in FeedCalls /\ Comes(Feed!Call(n).events)
<1>1. Feed!Call(n).events = <<>> /\ Feed!Call(n) = [numResults |-> n, phase |-> "sent", events |-> <<>>]
  BY DEF Feed!Call
<1>2. <<>> \in Seq(Nat) /\ <<>> \in Seq(1..Len(happened)) /\ Len(<<>>) = 0
  BY EmptySeq
<1>. QED  BY <1>1, <1>2 DEF FeedCalls, Comes, Descends

\* A call more, or a call less.
LEMMA FeedCallsChange ==
  ASSUME FeedInv, UNCHANGED <<happened, events, headId, tailId>>, asked' \in BOOLEAN,
         \/ \E n \in Nat : eventCalls' = Append(eventCalls, Feed!Call(n))
         \/ \E i \in DOMAIN eventCalls : eventCalls' = Feed!RemoveAt(eventCalls, i)
  PROVE  FeedInv'
<1>0. eventCalls \in Seq(FeedCalls) /\ \A i \in 1..Len(eventCalls) : Comes(eventCalls[i].events)
  BY DEF FeedInv
<1>1. eventCalls' \in Seq(FeedCalls) /\ \A i \in 1..Len(eventCalls') : Comes(eventCalls'[i].events)
  <2>1. ASSUME NEW n \in Nat, eventCalls' = Append(eventCalls, Feed!Call(n))
        PROVE  eventCalls' \in Seq(FeedCalls) /\ \A i \in 1..Len(eventCalls') : Comes(eventCalls'[i].events)
    <3>1. Feed!Call(n) \in FeedCalls /\ Comes(Feed!Call(n).events)
      BY CallOfNone
    <3>2. /\ eventCalls' \in Seq(FeedCalls) /\ Len(eventCalls') = Len(eventCalls) + 1
          /\ \A i \in 1..Len(eventCalls) : eventCalls'[i] = eventCalls[i]
          /\ eventCalls'[Len(eventCalls) + 1] = Feed!Call(n) /\ Len(eventCalls) \in Nat
      BY <1>0, <2>1, <3>1, AppendProperties
    <3>. QED  BY <1>0, <3>1, <3>2
  <2>2. ASSUME NEW i \in DOMAIN eventCalls, eventCalls' = Feed!RemoveAt(eventCalls, i)
        PROVE  eventCalls' \in Seq(FeedCalls) /\ \A j \in 1..Len(eventCalls') : Comes(eventCalls'[j].events)
    <3>1. i \in 1..Len(eventCalls)
      BY <1>0
    <3>2. /\ eventCalls' \in Seq(FeedCalls)
          /\ \A j \in 1..Len(eventCalls') : \E k \in 1..Len(eventCalls) : eventCalls'[j] = eventCalls[k]
      BY <1>0, <2>2, <3>1, RemovedAt
    <3>. QED  BY <1>0, <3>2
  <2>. QED  BY <2>1, <2>2
<1>. QED  BY <1>1 DEF FeedInv, Comes

\* Every step of the feed keeps its invariant.
LEMMA FeedInvKept ==
  ASSUME FeedInv, [Feed!Next]_eventVars
  PROVE  FeedInv'
<1>0. eventCalls \in Seq(FeedCalls) /\ \A i \in 1..Len(eventCalls) : Comes(eventCalls[i].events)
  BY DEF FeedInv
<1>1. ASSUME NEW b \in Feed!BeaconIds, Feed!Happen(b)
      PROVE  FeedInv'
  <2>1. /\ happened' = Append(happened, b) /\ UNCHANGED <<events, headId, tailId, eventCalls, asked>>
        /\ happened \in Seq(Feed!BeaconIds)
    BY <1>1 DEF Feed!Happen, FeedInv
  <2>2. happened' \in Seq(Feed!BeaconIds) /\ Len(happened) <= Len(happened')
    <3>1. happened' \in Seq(Feed!BeaconIds) /\ Len(happened') = Len(happened) + 1 /\ Len(happened) \in Nat
      BY <2>1, AppendProperties
    <3>. QED  BY <3>1
  <2>4. Comes(events)'
    <3>1. events \in Seq(1..Len(happened')) /\ (BeaconsCount = 1 => Descends(events))
      BY <2>1, <2>2, FeedGrows DEF FeedInv
    <3>. QED  BY <2>1, <3>1 DEF Comes, Descends
  <2>5. \A i \in 1..Len(eventCalls) :
          /\ eventCalls[i].events \in Seq(1..Len(happened'))
          /\ BeaconsCount = 1 => Descends(eventCalls[i].events)
    <3>1. ASSUME NEW i \in 1..Len(eventCalls)
          PROVE  /\ eventCalls[i].events \in Seq(1..Len(happened'))
                 /\ BeaconsCount = 1 => Descends(eventCalls[i].events)
      <4>. DEFINE s == eventCalls[i].events
      <4>1. Comes(s)
        BY <1>0
      <4>. HIDE DEF s
      <4>2. s \in Seq(1..Len(happened')) /\ (BeaconsCount = 1 => Descends(s))
        BY <2>1, <2>2, <4>1, FeedGrows
      <4>. QED  BY <4>2 DEF s
    <3>. QED  BY <3>1
  <2>. QED  BY <2>1, <2>2, <2>4, <2>5 DEF FeedInv, Comes, Descends
<1>2. ASSUME Feed!LoadAllEvents \/ Feed!Poll
      PROVE  FeedInv'
  <2>1. /\ UNCHANGED <<happened, events, headId, tailId>> /\ asked' \in BOOLEAN
        /\ \E n \in {PageSize, Feed!NumResults} : eventCalls' = Append(eventCalls, Feed!Call(n))
    BY <1>2 DEF Feed!LoadAllEvents, Feed!Poll, FeedInv
  <2>2. {PageSize, Feed!NumResults} \subseteq Nat
    BY NumbersOfBeacons DEF Feed!NumResults
  <2>. QED  BY <2>1, <2>2, FeedCallsChange
<1>3. ASSUME NEW i \in DOMAIN eventCalls, Feed!Fail(i)
      PROVE  FeedInv'
  BY <1>3, FeedCallsChange DEF Feed!Fail, FeedInv
<1>4. ASSUME NEW i \in DOMAIN eventCalls, NEW answering, Feed!Serve(i, answering)
      PROVE  FeedInv'
  <2>. DEFINE told == Feed!Answer(eventCalls[i].numResults, answering)
              new == [eventCalls[i] EXCEPT !.phase = "answered", !.events = told]
  <2>1. Comes(told)
    BY AnswerComes DEF FeedInv
  <2>. HIDE DEF told
  <2>2. i \in 1..Len(eventCalls) /\ eventCalls[i] \in FeedCalls /\ Len(eventCalls) \in Nat
    BY <1>0
  <2>3. told \in Seq(Nat)
    <3>1. 1..Len(happened) \subseteq Nat
      OBVIOUS
    <3>. QED  BY <2>1, <3>1, SeqMonotonic DEF Comes
  <2>4. new \in FeedCalls /\ new.events = told
    BY <2>2, <2>3 DEF FeedCalls
  <2>5. /\ eventCalls' = [eventCalls EXCEPT ![i].phase = "answered", ![i].events = told]
        /\ UNCHANGED <<happened, events, headId, tailId, asked>>
    BY <1>4 DEF Feed!Serve, told
  <2>6. eventCalls' = [eventCalls EXCEPT ![i] = new]
    BY <2>5, Zenon
  <2>. HIDE DEF new
  <2>7. /\ eventCalls' \in Seq(FeedCalls) /\ Len(eventCalls') = Len(eventCalls)
        /\ \A j \in 1..Len(eventCalls) : eventCalls'[j] = IF j = i THEN new ELSE eventCalls[j]
    BY <1>0, <2>2, <2>4, <2>6, ExceptSeq
  <2>8. \A j \in 1..Len(eventCalls') : Comes(eventCalls'[j].events)
    BY <1>0, <2>1, <2>4, <2>7
  <2>. QED  BY <2>5, <2>7, <2>8 DEF FeedInv, Comes
<1>5. ASSUME NEW i \in DOMAIN eventCalls, Feed!Deliver(i)
      PROVE  FeedInv'
  <2>1. /\ eventCalls' = Feed!RemoveAt(eventCalls, i)
        /\ Feed!LoadEventsSuccess(eventCalls[i].events)
        /\ UNCHANGED <<happened, asked>>
    BY <1>5 DEF Feed!Deliver
  <2>2. i \in 1..Len(eventCalls)
    BY <1>0
  <2>3. /\ events' \in Seq(1..Len(happened)) /\ (BeaconsCount = 1 => Descends(events'))
        /\ events' = <<>> => headId' = 0 /\ tailId' = 0
        /\ events' # <<>> => headId' = events'[1] /\ tailId' = events'[Len(events')]
    BY <1>0, <2>1, <2>2, LoadsEvents
  <2>4. /\ eventCalls' \in Seq(FeedCalls)
        /\ \A j \in 1..Len(eventCalls') : \E k \in 1..Len(eventCalls) : eventCalls'[j] = eventCalls[k]
    <3>1. eventCalls \in Seq(FeedCalls) /\ eventCalls' = Feed!RemoveAt(eventCalls, i)
      BY <1>0, <2>1
    <3>. QED  BY <2>2, <3>1, RemovedAt
  <2>5. \A j \in 1..Len(eventCalls') : Comes(eventCalls'[j].events)
    BY <1>0, <2>4
  <2>. QED  BY <2>1, <2>3, <2>4, <2>5 DEF FeedInv, Comes, Descends
<1>6. CASE UNCHANGED eventVars
  BY <1>6 DEF eventVars, FeedInv, Comes, Descends
<1>. QED  BY <1>1, <1>2, <1>3, <1>4, <1>5, <1>6, Zenon DEF Feed!Next

\* The invariant of the feed gives its types and its property.
LEMMA FeedShows ==
  ASSUME FeedInv
  PROVE  Feed!TypeOK /\ Feed!NewestFirst
<1>1. events \in Seq(1..Len(happened)) /\ Len(happened) \in Nat
  BY DEF FeedInv, Comes
<1>2. Len(events) \in Nat /\ \A i \in 1..Len(events) : events[i] \in 1..Len(happened)
  BY <1>1, ElementOfSeq
<1>3. Feed!Range(events) \subseteq 1..Len(happened)
  BY <1>1, <1>2 DEF Feed!Range
<1>4. headId \in 0..Len(happened) /\ tailId \in 0..Len(happened)
  <2>1. CASE events = <<>>
    BY <1>1, <2>1 DEF FeedInv
  <2>2. CASE events # <<>>
    <3>1. Len(events) \in Nat \ {0}
      BY <1>1, <2>2, EmptySeq
    <3>2. 1 \in 1..Len(events) /\ Len(events) \in 1..Len(events)
      BY <3>1
    <3>3. headId \in 1..Len(happened) /\ tailId \in 1..Len(happened)
      BY <1>2, <2>2, <3>2 DEF FeedInv
    <3>. QED  BY <1>1, <3>3
  <2>. QED  BY <2>1, <2>2
<1>5. \A i \in DOMAIN eventCalls : eventCalls[i].phase \in {"sent", "answered"}
  <2>1. ASSUME NEW c \in FeedCalls
        PROVE  c.phase \in {"sent", "answered"}
    BY DEF FeedCalls
  <2>2. eventCalls \in Seq(FeedCalls)
    BY DEF FeedInv
  <2>3. \A i \in DOMAIN eventCalls : eventCalls[i] \in FeedCalls
    BY <2>2
  <2>. QED  BY <2>1, <2>3
<1>6. Feed!TypeOK
  BY <1>3, <1>4, <1>5 DEF Feed!TypeOK, FeedInv
<1>7. Feed!NewestFirst
  <2>1. ASSUME BeaconsCount = 1, NEW i \in 1..Len(events) - 1
        PROVE  events[i] > events[i + 1]
    <3>1. i \in 1..Len(events) /\ i + 1 \in 1..Len(events) /\ i < i + 1
      BY <1>2
    <3>. QED  BY <2>1, <3>1 DEF FeedInv, Comes, Descends
  <2>. QED  BY <2>1 DEF Feed!NewestFirst
<1>. QED  BY <1>6, <1>7

\* The invariant of the feed holds at first.
LEMMA FeedStarts == ASSUME Feed!Init PROVE FeedInv
<1>1. /\ happened \in [1..EventsBefore -> Feed!BeaconIds] /\ events = <<>> /\ headId = 0 /\ tailId = 0
      /\ eventCalls = <<Feed!Call(PageSize)>> /\ asked = FALSE
  BY DEF Feed!Init
<1>2. happened \in Seq(Feed!BeaconIds)
  BY <1>1, NumbersOfBeacons
<1>3. Comes(events)
  BY <1>1, EmptySeq DEF Comes, Descends
<1>4. Feed!Call(PageSize) \in FeedCalls /\ Comes(Feed!Call(PageSize).events)
  BY CallOfNone, NumbersOfBeacons
<1>5. /\ eventCalls \in Seq(FeedCalls) /\ Len(eventCalls) = 1 /\ eventCalls[1] = Feed!Call(PageSize)
  BY <1>1, <1>4
<1>6. \A i \in 1..Len(eventCalls) : Comes(eventCalls[i].events)
  BY <1>4, <1>5
<1>. QED  BY <1>1, <1>2, <1>3, <1>5, <1>6 DEF FeedInv

-----------------------------------------------------------------------------
(* The map of clusters. *)

Colors == Map!Health \cup {"WARNING"}
Places == {Place[c] : c \in MapClusters}
Shown == [c \in MapClusters |-> Map!Marked(c, healthStatus[c])]
Here(p) == {c \in clusters : Place[c] = p}

\* The marker of a place.
Fits(p) ==
  /\ Here(p) = {} => markers[p] = Map!NoMarker
  /\ Here(p) # {} => /\ markers[p].listed = Map!SortByStatus(Here(p), Shown)
                     /\ markers[p].color = Shown[markers[p].listed[1]]
                     /\ markers[p].clicked \in Seq(MapClusters)

MapTypes ==
  /\ registered \subseteq MapClusters /\ clusters \subseteq MapClusters
  /\ healthOf \in [MapClusters -> Map!Health] /\ healthStatus \in [MapClusters -> Map!Health]
  /\ statusCall.phase \in {"none", "sent", "served"}
  /\ statusCall.phase = "served" => \A c \in DOMAIN statusCall.of : statusCall.of[c] \in Map!Health
  /\ selectedCluster \in MapClusters \cup {Map!None}
  /\ DOMAIN markers = Places

\* Until it is drawn a map has no markers, and then they fit.
MapInv ==
  /\ MapTypes
  /\ ~drawn => markers = Map!NoMarkers
  /\ drawn => \A p \in Places : Fits(p)

\* Every status has a priority of its own.
LEMMA Priorities ==
  /\ \A s \in Colors : Map!Priority(s) \in 1..4
  /\ \A s, t \in Colors : Map!Priority(s) = Map!Priority(t) => s = t
<1>1. /\ Map!statusPriority[1] = "UNHEALTHY" /\ Map!statusPriority[2] = "UNKNOWN"
      /\ Map!statusPriority[3] = "WARNING" /\ Map!statusPriority[4] = "HEALTHY"
  BY DEF Map!statusPriority
<1>2. \A s \in Colors : \E i \in 1..4 : Map!statusPriority[i] = s
  BY <1>1 DEF Colors, Map!Health
<1>3. \A s \in Colors : Map!Priority(s) \in 1..4 /\ Map!statusPriority[Map!Priority(s)] = s
  BY <1>2 DEF Map!Priority
<1>. QED  BY <1>3

\* Clusters in the order of their status: each once, the worst first.
LEMMA Sorts ==
  ASSUME NEW S, S \subseteq MapClusters, NEW status \in [MapClusters -> Colors]
  PROVE  LET s == Map!SortByStatus(S, status)
         IN /\ s \in Seq(S) /\ Map!ToSet(s) = S /\ Map!IsInjective(s)
            /\ S = {} => s = <<>>
            /\ S # {} => /\ s # <<>> /\ s[1] \in S
                         /\ \A c \in S : Map!Priority(status[s[1]]) <= Map!Priority(status[c])
<1>. DEFINE P(c) == Map!Priority(status[c])
            b == [c \in S |-> {d \in S : P(d) < P(c) \/ (status[d] = status[c] /\ d < c)}]
            s == InOrder(b)
<1>1. Map!SortByStatus(S, status) = s
  BY DEF Map!SortByStatus, Map!InOrder, InOrder, Map!Cardinality, Cardinality
<1>2. IsFiniteSet(MapClusters) /\ MapClusters \subseteq Nat
  <2>1. Map!IsFiniteSet(MapClusters) /\ MapClusters \subseteq Nat
    BY PollingPagesConstants, Zenon DEF Map!ClustersMapConstants
  <2>. QED  BY <2>1, Zenon DEF Map!IsFiniteSet, IsFiniteSet
<1>3. IsFiniteSet(S) /\ \A c \in S : c \in Int /\ status[c] \in Colors
  <2>1. S \in SUBSET MapClusters
    OBVIOUS
  <2>2. IsFiniteSet(S)
    BY <1>2, <2>1, FS_Subset
  <2>. QED  BY <1>2, <2>2
<1>4. \A c \in S : P(c) \in Int
  BY <1>3, Priorities
<1>5. \A c, d \in S : P(c) = P(d) => status[c] = status[d]
  BY <1>3, Priorities
<1>6. b \in [S -> SUBSET S]
  OBVIOUS
<1>7. \A c, d \in S : d \in b[c] <=> P(d) < P(c) \/ (status[d] = status[c] /\ d < c)
  OBVIOUS
<1>8. \A c, d \in S : status[c] = status[d] => P(c) = P(d)
  OBVIOUS
<1>. HIDE DEF P, b
<1>9. \A c \in S : c \notin b[c]
  BY <1>3, <1>4, <1>7
<1>10. \A c, d \in S : d \in b[c] => b[d] \subseteq b[c]
  <2>1. ASSUME NEW c \in S, NEW d \in S, d \in b[c], NEW e \in b[d]
        PROVE  e \in b[c]
    <3>1. e \in S
      BY <1>6
    <3>2. /\ P(d) < P(c) \/ (status[d] = status[c] /\ d < c)
          /\ P(e) < P(d) \/ (status[e] = status[d] /\ e < d)
      BY <1>7, <2>1, <3>1
    <3>3. {c, d, e, P(c), P(d), P(e)} \subseteq Int
      BY <1>3, <1>4, <3>1
    <3>4. P(e) < P(c) \/ (status[e] = status[c] /\ e < c)
      BY <1>8, <3>1, <3>2, <3>3
    <3>. QED  BY <1>7, <3>1, <3>4
  <2>. QED  BY <2>1
<1>11. \A c, d \in S : c = d \/ c \in b[d] \/ d \in b[c]
  BY <1>3, <1>4, <1>5, <1>7
<1>12. /\ s \in Seq(S) /\ Len(s) = Cardinality(S) /\ Cardinality(S) \in Nat
       /\ \A x \in S : \E k \in 1..Len(s) : s[k] = x
       /\ \A i, j \in 1..Len(s) : i < j => s[i] \in b[s[j]]
  <2>1. StrictOrder(b, S)
    BY <1>3, <1>6, <1>9, <1>10, <1>11 DEF StrictOrder
  <2>2. StandsInOrder(s, b, S)
    BY <2>1, InOrderIs
  <2>. HIDE DEF s
  <2>. QED  BY <2>2 DEF StandsInOrder
<1>. HIDE DEF s
<1>13. DOMAIN s = 1..Len(s) /\ Len(s) \in Nat /\ \A i \in 1..Len(s) : s[i] \in S
  BY <1>12
<1>14. Map!ToSet(s) = S
  BY <1>12, <1>13 DEF Map!ToSet
<1>15. Map!IsInjective(s)
  <2>1. ASSUME NEW i \in 1..Len(s), NEW j \in 1..Len(s), s[i] = s[j]
        PROVE  i = j
    <3>1. ~(i < j) /\ ~(j < i)
      BY <1>9, <1>12, <1>13, <2>1
    <3>. QED  BY <3>1
  <2>. QED  BY <1>13, <2>1 DEF Map!IsInjective
<1>16. S = {} => s = <<>>
  BY <1>12
<1>17. ASSUME S # {}
       PROVE  /\ s # <<>> /\ s[1] \in S
              /\ \A c \in S : P(s[1]) <= P(c)
  <2>1. 1 \in 1..Len(s)
    BY <1>12, <1>13, <1>17
  <2>2. ASSUME NEW c \in S
        PROVE  P(s[1]) <= P(c)
    <3>1. PICK k \in 1..Len(s) : s[k] = c
      BY <1>12
    <3>2. k = 1 \/ s[1] \in b[c]
      BY <1>12, <1>13, <2>1, <3>1
    <3>3. s[1] \in S
      BY <1>13, <2>1
    <3>. QED  BY <1>4, <1>7, <1>8, <3>1, <3>2, <3>3
  <2>. QED  BY <1>13, <2>1, <2>2
<1>. QED  BY <1>1, <1>12, <1>14, <1>15, <1>16, <1>17 DEF P

\* A cluster is shown with a status there is.
LEMMA ShownTypes ==
  ASSUME healthStatus \in [MapClusters -> Map!Health]
  PROVE  Shown \in [MapClusters -> Colors]
BY DEF Shown, Map!Marked, Colors, Map!Health

\* A marker that fits lists the clusters at its place.
LEMMA FitsShows ==
  ASSUME clusters \subseteq MapClusters, healthStatus \in [MapClusters -> Map!Health],
         NEW p, Fits(p)
  PROVE  /\ Map!ToSet(markers[p].listed) = Here(p) /\ Map!IsInjective(markers[p].listed)
         /\ markers[p].listed \in Seq(MapClusters) /\ markers[p].clicked \in Seq(MapClusters)
         /\ Here(p) # {} => markers[p].color \in {Shown[c] : c \in Here(p)}
                            /\ \A c \in Here(p) : Map!Priority(markers[p].color) <= Map!Priority(Shown[c])
         /\ markers[p].color \in Colors \cup {"none"}
<1>1. Here(p) \subseteq MapClusters /\ Shown \in [MapClusters -> Colors]
  BY ShownTypes DEF Here
<1>2. CASE Here(p) = {}
  <2>1. markers[p].listed = <<>> /\ markers[p].clicked = <<>> /\ markers[p].color = "none"
    BY <1>2 DEF Fits, Map!NoMarker
  <2>2. DOMAIN <<>> = {}
    OBVIOUS
  <2>3. Map!ToSet(<<>>) = {} /\ Map!IsInjective(<<>>)
    BY <2>2 DEF Map!ToSet, Map!IsInjective
  <2>. QED  BY <1>2, <2>1, <2>3
<1>3. CASE Here(p) # {}
  <2>. DEFINE s == Map!SortByStatus(Here(p), Shown)
  <2>1. /\ s \in Seq(Here(p)) /\ Map!ToSet(s) = Here(p) /\ Map!IsInjective(s)
        /\ s # <<>> /\ s[1] \in Here(p)
        /\ \A c \in Here(p) : Map!Priority(Shown[s[1]]) <= Map!Priority(Shown[c])
    BY <1>1, <1>3, Sorts
  <2>. HIDE DEF s
  <2>2. markers[p].listed = s /\ markers[p].color = Shown[s[1]] /\ markers[p].clicked \in Seq(MapClusters)
    BY <1>3 DEF Fits, s
  <2>3. s \in Seq(MapClusters)
    BY <1>1, <2>1, SeqMonotonic
  <2>. QED  BY <1>1, <1>3, <2>1, <2>2, <2>3
<1>. QED  BY <1>2, <1>3

\* The map is drawn, or drawn again with the clusters and statuses that came.
LEMMA Plots ==
  ASSUME MapInv, clusters \subseteq clusters', clusters' \subseteq MapClusters,
         healthStatus' \in [MapClusters -> Map!Health], UNCHANGED mapPage,
         Map!PlotPoints(clusters', healthStatus')
  PROVE  DOMAIN markers' = Places /\ \A p \in Places : Fits(p)'
<1>. DEFINE sorted(p) == Map!SortByStatus(Here(p)', Shown')
<1>1. Shown' \in [MapClusters -> Colors]
  BY DEF Shown, Map!Marked, Colors, Map!Health
<1>2. Shown' = [c \in MapClusters |-> Map!Marked(c, healthStatus'[c])]
  BY DEF Shown, Map!Marked
<1>3. /\ DOMAIN markers = Places
      /\ markers' = [p \in Places |-> Map!CreateMarker(markers[p], sorted(p), Shown')]
  BY <1>2 DEF MapInv, MapTypes, Map!PlotPoints, Here
<1>4. ASSUME NEW p \in Places
      PROVE  Fits(p)'
  <2>1. /\ sorted(p) \in Seq(Here(p)')
        /\ Here(p)' = {} => sorted(p) = <<>>
        /\ Here(p)' # {} => sorted(p) # <<>>
    BY <1>1, Sorts DEF Here
  <2>. HIDE DEF sorted
  <2>2. markers'[p] = Map!CreateMarker(markers[p], sorted(p), Shown')
    BY <1>3
  <2>3. CASE Here(p)' = {}
    <3>1. Here(p) = {}
      BY <2>3 DEF Here
    <3>2. markers[p] = Map!NoMarker
      BY <3>1 DEF MapInv, Fits, Map!NoMarkers, Places
    <3>. QED  BY <2>1, <2>2, <2>3, <3>2 DEF Fits, Map!CreateMarker, Map!NoMarker
  <2>4. CASE Here(p)' # {}
    <3>1. /\ markers'[p].listed = sorted(p) /\ markers'[p].color = Shown'[sorted(p)[1]]
          /\ markers'[p].clicked = IF markers[p] = Map!NoMarker THEN sorted(p) ELSE markers[p].clicked
      BY <2>1, <2>2, <2>4 DEF Map!CreateMarker
    <3>2. sorted(p) \in Seq(MapClusters)
      BY <2>1, SeqMonotonic DEF Here
    <3>3. markers[p] # Map!NoMarker => markers[p].clicked \in Seq(MapClusters)
      <4>1. CASE ~drawn
        BY <4>1 DEF MapInv, Map!NoMarkers, Places
      <4>2. CASE drawn
        BY <4>2 DEF MapInv, Fits
      <4>. QED  BY <4>1, <4>2
    <3>. QED  BY <2>4, <3>1, <3>2, <3>3 DEF Fits, sorted
  <2>. QED  BY <2>3, <2>4
<1>. QED  BY <1>3, <1>4

\* What came is drawn when the map is.
LEMMA PlottedKeeps ==
  ASSUME MapInv, clusters \subseteq clusters', clusters' \subseteq MapClusters,
         healthStatus' \in [MapClusters -> Map!Health], UNCHANGED <<mapPage, drawn>>,
         Map!Plotted(clusters', healthStatus')
  PROVE  /\ DOMAIN markers' = Places
         /\ ~drawn' => markers' = Map!NoMarkers
         /\ drawn' => \A p \in Places : Fits(p)'
<1>1. CASE drawn
  BY <1>1, Plots DEF Map!Plotted
<1>2. CASE ~drawn
  BY <1>2 DEF Map!Plotted, MapInv, MapTypes
<1>. QED  BY <1>1, <1>2

\* What leaves the map and the store of clusters alone keeps the invariant.
LEMMA MapInvRests ==
  ASSUME MapInv, MapTypes', UNCHANGED <<clusters, healthStatus, mapPage, drawn, markers>>
  PROVE  MapInv'
BY DEF MapInv, Fits, Shown, Here, Map!Marked

\* Every step of the map keeps its invariant.
LEMMA MapInvKept ==
  ASSUME MapInv, [Map!Next]_mapVars
  PROVE  MapInv'
<1>1. ASSUME Map!Happen
      PROVE  MapInv'
  <2>1. /\ registered' \subseteq MapClusters /\ healthOf' \in [MapClusters -> Map!Health]
        /\ UNCHANGED <<clusters, healthStatus, statusCall, mapPage, drawn, markers, selectedCluster>>
    <3>1. PICK c \in MapClusters :
            \/ /\ registered' = IF c \in registered THEN registered \ {c} ELSE registered \cup {c}
               /\ UNCHANGED healthOf
            \/ \E h \in Map!Health \ {healthOf[c]} :
                 healthOf' = [healthOf EXCEPT ![c] = h] /\ UNCHANGED registered
      BY <1>1, Zenon DEF Map!Happen
    <3>2. UNCHANGED <<clusters, healthStatus, statusCall, mapPage, drawn, markers, selectedCluster>>
      BY <1>1, Zenon DEF Map!Happen
    <3>. QED  BY <3>1, <3>2 DEF MapInv, MapTypes
  <2>2. MapTypes'
    BY <2>1 DEF MapInv, MapTypes
  <2>. QED  BY <2>1, <2>2, MapInvRests
<1>2. ASSUME Map!Draw
      PROVE  MapInv'
  <2>1. /\ drawn' = TRUE /\ Map!PlotPoints(clusters', healthStatus')
        /\ UNCHANGED <<registered, healthOf, clusters, healthStatus, statusCall, mapPage, selectedCluster>>
    BY <1>2 DEF Map!Draw, Map!PlotPoints
  <2>2. /\ clusters \subseteq clusters' /\ clusters' \subseteq MapClusters
        /\ healthStatus' \in [MapClusters -> Map!Health]
    BY <2>1 DEF MapInv, MapTypes
  <2>3. DOMAIN markers' = Places /\ \A p \in Places : Fits(p)'
    BY <2>1, <2>2, Plots
  <2>. QED  BY <2>1, <2>3 DEF MapInv, MapTypes
<1>3. ASSUME NEW s \in Seq(MapClusters), Map!Select(s)
      PROVE  MapInv'
  <2>1. /\ s # <<>> /\ selectedCluster' = Map!Following(s)
        /\ UNCHANGED <<registered, healthOf, clusters, healthStatus, statusCall, mapPage, drawn, markers>>
    BY <1>3 DEF Map!Select
  <2>2. Map!Following(s) \in MapClusters
    <3>. DEFINE at == {i \in DOMAIN s : s[i] = selectedCluster /\ i < Len(s)}
                k == CHOOSE i \in at : TRUE
    <3>1. DOMAIN s = 1..Len(s) /\ Len(s) \in Nat \ {0} /\ \A i \in 1..Len(s) : s[i] \in MapClusters
      BY <2>1, EmptySeq
    <3>2. Map!Following(s) = IF at = {} THEN s[1] ELSE s[k + 1]
      BY DEF Map!Following
    <3>3. at # {} => k \in 1..Len(s) /\ k < Len(s)
      <4>1. at # {} => k \in at
        OBVIOUS
      <4>. QED  BY <3>1, <4>1
    <3>. HIDE DEF at, k
    <3>. QED  BY <3>1, <3>2, <3>3
  <2>3. MapTypes'
    BY <2>1, <2>2 DEF MapInv, MapTypes
  <2>. QED  BY <2>1, <2>3, MapInvRests
<1>4. ASSUME NEW p \in DOMAIN markers, Map!ClickMarker(p) \/ Map!TooltipItemClick(p)
      PROVE  MapInv'
  <2>1. markers[p].listed \in Seq(MapClusters) /\ markers[p].clicked \in Seq(MapClusters)
    <3>0. p \in Places
      BY DEF MapInv, MapTypes
    <3>1. CASE drawn
      BY <3>0, <3>1, FitsShows DEF MapInv, MapTypes
    <3>2. CASE ~drawn
      <4>1. markers[p] = Map!NoMarker
        BY <3>0, <3>2 DEF MapInv, Map!NoMarkers, Places
      <4>2. markers[p].listed = <<>> /\ markers[p].clicked = <<>>
        BY <4>1 DEF Map!NoMarker
      <4>. QED  BY <4>2, EmptySeq
    <3>. QED  BY <3>1, <3>2
  <2>2. \E s \in Seq(MapClusters) : Map!Select(s)
    <3>1. ASSUME NEW i \in DOMAIN markers[p].listed
          PROVE  <<markers[p].listed[i]>> \in Seq(MapClusters)
      BY <2>1
    <3>. QED  BY <1>4, <2>1, <3>1 DEF Map!ClickMarker, Map!TooltipItemClick
  <2>. QED  BY <1>3, <2>2
<1>5. ASSUME Map!HandleLegendClose
      PROVE  MapInv'
  <2>1. MapTypes'
    BY <1>5 DEF Map!HandleLegendClose, MapInv, MapTypes
  <2>. QED  BY <1>5, <2>1, MapInvRests DEF Map!HandleLegendClose
<1>6. ASSUME NEW p, Map!OpenPage(p)
      PROVE  MapInv'
  BY <1>6 DEF Map!OpenPage, MapInv, MapTypes, Map!NoMarkers, Places
<1>7. ASSUME Map!LoadClustersSuccess
      PROVE  MapInv'
  <2>1. /\ clusters' = clusters \cup registered
        /\ healthStatus' = [c \in MapClusters |-> Map!WithStatus(c)]
        /\ Map!Plotted(clusters', healthStatus')
        /\ UNCHANGED <<registered, healthOf, statusCall, mapPage, drawn, selectedCluster>>
    BY <1>7, Zenon DEF Map!LoadClustersSuccess
  <2>2. healthStatus' \in [MapClusters -> Map!Health]
    BY <2>1 DEF MapInv, MapTypes, Map!WithStatus, Map!Health
  <2>3. clusters \subseteq clusters' /\ clusters' \subseteq MapClusters
    BY <2>1 DEF MapInv, MapTypes
  <2>4. /\ DOMAIN markers' = Places /\ (~drawn' => markers' = Map!NoMarkers)
        /\ drawn' => \A p \in Places : Fits(p)'
    BY <2>1, <2>2, <2>3, PlottedKeeps
  <2>. QED  BY <2>1, <2>2, <2>3, <2>4 DEF MapInv, MapTypes
<1>8. ASSUME Map!LoadClustersStatuses
      PROVE  MapInv'
  <2>1. statusCall'.phase = "sent"
    BY <1>8 DEF Map!LoadClustersStatuses, Map!Idle
  <2>2. MapTypes'
    BY <1>8, <2>1 DEF Map!LoadClustersStatuses, MapInv, MapTypes
  <2>. QED  BY <1>8, <2>2, MapInvRests DEF Map!LoadClustersStatuses
<1>9. ASSUME Map!ServeStatuses
      PROVE  MapInv'
  <2>. DEFINE answering == {c \in registered : healthOf[c] # "UNKNOWN"}
              told == [c \in answering |-> healthOf[c]]
  <2>1. /\ statusCall' = [phase |-> "served", of |-> told]
        /\ UNCHANGED <<registered, healthOf, clusters, healthStatus, mapPage, drawn, markers,
                       selectedCluster>>
    BY <1>9 DEF Map!ServeStatuses
  <2>2. \A c \in DOMAIN told : told[c] \in Map!Health
    BY DEF MapInv, MapTypes
  <2>. HIDE DEF told
  <2>3. statusCall'.phase = "served" /\ statusCall'.of = told
    BY <2>1
  <2>4. MapTypes'
    BY <2>1, <2>2, <2>3 DEF MapInv, MapTypes
  <2>. QED  BY <2>1, <2>4, MapInvRests
<1>10. ASSUME Map!LoadClustersStatusesSuccess
       PROVE  MapInv'
  <2>1. /\ statusCall.phase = "served" /\ statusCall' = Map!Idle
        /\ healthStatus' = [c \in MapClusters |->
             IF c \in clusters \cap DOMAIN statusCall.of THEN statusCall.of[c] ELSE "UNKNOWN"]
        /\ Map!Plotted(clusters', healthStatus')
        /\ UNCHANGED <<registered, healthOf, clusters, mapPage, drawn, selectedCluster>>
    BY <1>10 DEF Map!LoadClustersStatusesSuccess, Map!Plotted, Map!PlotPoints
  <2>2. healthStatus' \in [MapClusters -> Map!Health]
    BY <2>1 DEF MapInv, MapTypes, Map!Health
  <2>3. clusters \subseteq clusters' /\ clusters' \subseteq MapClusters
    BY <2>1 DEF MapInv, MapTypes
  <2>4. /\ DOMAIN markers' = Places /\ (~drawn' => markers' = Map!NoMarkers)
        /\ drawn' => \A p \in Places : Fits(p)'
    BY <2>1, <2>2, <2>3, PlottedKeeps
  <2>5. statusCall'.phase = "none"
    BY <2>1 DEF Map!Idle
  <2>. QED  BY <2>1, <2>2, <2>3, <2>4, <2>5 DEF MapInv, MapTypes
<1>11. ASSUME Map!LoadClustersStatusesFail
       PROVE  MapInv'
  <2>1. statusCall'.phase = "none"
    BY <1>11 DEF Map!LoadClustersStatusesFail, Map!Idle
  <2>2. MapTypes'
    BY <1>11, <2>1 DEF Map!LoadClustersStatusesFail, MapInv, MapTypes
  <2>. QED  BY <1>11, <2>2, MapInvRests DEF Map!LoadClustersStatusesFail
<1>12. CASE UNCHANGED mapVars
  <2>1. MapTypes'
    BY <1>12 DEF mapVars, MapInv, MapTypes
  <2>. QED  BY <1>12, <2>1, MapInvRests DEF mapVars
<1>. QED
  BY <1>1, <1>2, <1>4, <1>5, <1>6, <1>7, <1>8, <1>9, <1>10, <1>11, <1>12, Zenon DEF Map!Next

\* The invariant of the map gives its types and its property.
LEMMA MapShows ==
  ASSUME MapInv
  PROVE  Map!TypeOK /\ Map!MarkersFit
<1>0. /\ clusters \subseteq MapClusters /\ healthStatus \in [MapClusters -> Map!Health]
      /\ DOMAIN markers = Places
  BY DEF MapInv, MapTypes
<1>1. ASSUME NEW p \in Places
      PROVE  markers[p].color \in Colors \cup {"none"}
  <2>1. CASE drawn
    BY <1>0, <2>1, FitsShows DEF MapInv
  <2>2. CASE ~drawn
    BY <2>2 DEF MapInv, Map!NoMarkers, Map!NoMarker, Places
  <2>. QED  BY <2>1, <2>2
<1>2. Colors = {Map!statusPriority[i] : i \in 1..4}
  BY DEF Colors, Map!Health, Map!statusPriority
<1>3. Map!TypeOK
  BY <1>0, <1>1, <1>2 DEF Map!TypeOK, MapInv, MapTypes
<1>4. ASSUME drawn, NEW p \in Places
      PROVE  /\ Map!ToSet(markers[p].listed) = Here(p) /\ Map!IsInjective(markers[p].listed)
             /\ Here(p) # {} =>
                  /\ markers[p].color \in {Map!Marked(c, healthStatus[c]) : c \in Here(p)}
                  /\ \A c \in Here(p) :
                       Map!Priority(markers[p].color) <= Map!Priority(Map!Marked(c, healthStatus[c]))
  <2>1. \A c \in Here(p) : Shown[c] = Map!Marked(c, healthStatus[c])
    BY <1>0 DEF Shown, Here
  <2>2. Fits(p)
    BY <1>4 DEF MapInv
  <2>3. /\ Map!ToSet(markers[p].listed) = Here(p) /\ Map!IsInjective(markers[p].listed)
        /\ Here(p) # {} => markers[p].color \in {Shown[c] : c \in Here(p)}
                           /\ \A c \in Here(p) : Map!Priority(markers[p].color) <= Map!Priority(Shown[c])
    BY <1>0, <2>2, FitsShows
  <2>. QED  BY <2>1, <2>3
<1>5. Map!MarkersFit
  BY <1>0, <1>4 DEF Map!MarkersFit, Here
<1>. QED  BY <1>3, <1>5

\* The invariant of the map holds at first.
LEMMA MapStarts == ASSUME Map!Init PROVE MapInv
<1>1. statusCall.phase = "none"
  BY DEF Map!Init, Map!Idle
<1>. QED  BY <1>1 DEF Map!Init, MapInv, MapTypes, Map!NoMarkers, Places, Map!Health

-----------------------------------------------------------------------------
(* The jobs of the overview. *)

PanelInv ==
  /\ history \in [Watched -> Seq(Panel!JobStatus)]
  /\ DOMAIN listedJobs = Watched /\ DOMAIN storedJobs = Watched
  /\ \A p \in Watched : /\ DOMAIN listedJobs[p] \subseteq DOMAIN storedJobs[p]
                        /\ DOMAIN storedJobs[p] \subseteq DOMAIN history[p]
                        /\ listedJobs[p] \in [DOMAIN listedJobs[p] -> Panel!JobStatus]
                        /\ storedJobs[p] \in [DOMAIN storedJobs[p] -> Panel!JobStatus]
  /\ listing.phase = "served" => DOMAIN listing.policies = Watched
  /\ listing.phase = "served" => \A p \in Watched :
       /\ DOMAIN listing.policies[p] \subseteq DOMAIN history[p]
       /\ listing.policies[p] \in [DOMAIN listing.policies[p] -> Panel!JobStatus]

\* A change of the jobs that are kept, by an answer that has jobs of the history only.
LEMMA OverIs ==
  ASSUME NEW f, NEW g, f \in [DOMAIN f -> Panel!JobStatus], g \in [DOMAIN g -> Panel!JobStatus]
  PROVE  /\ DOMAIN Panel!Over(f, g) = DOMAIN f \cup DOMAIN g
         /\ Panel!Over(f, g) \in [DOMAIN f \cup DOMAIN g -> Panel!JobStatus]
         /\ \A i \in DOMAIN f : Panel!Over(f, g)[i] = f[i]
BY DEF Panel!Over

\* The history of jobs grows, or its last job gets another status.
LEMMA HistoryGrows ==
  ASSUME PanelInv, NEW p \in Watched,
         Panel!Start(p) \/ \E s \in Panel!JobStatus : Panel!End(p, s)
  PROVE  /\ history' \in [Watched -> Seq(Panel!JobStatus)]
         /\ \A q \in Watched : DOMAIN history[q] \subseteq DOMAIN history'[q]
<1>. DEFINE h == history[p]
<1>1. h \in Seq(Panel!JobStatus) /\ Len(h) \in Nat /\ history \in [Watched -> Seq(Panel!JobStatus)]
  BY DEF PanelInv
<1>2. \E g \in Seq(Panel!JobStatus) : history' = [history EXCEPT ![p] = g] /\ DOMAIN h \subseteq DOMAIN g
  <2>1. CASE Panel!Start(p)
    <3>1. history' = [history EXCEPT ![p] = Append(h, "RUNNING")]
      BY <2>1 DEF Panel!Start
    <3>2. Append(h, "RUNNING") \in Seq(Panel!JobStatus) /\ DOMAIN h \subseteq DOMAIN Append(h, "RUNNING")
      BY <1>1 DEF Panel!JobStatus
    <3>. QED  BY <3>1, <3>2
  <2>2. ASSUME NEW s \in Panel!JobStatus, Panel!End(p, s)
        PROVE  \E g \in Seq(Panel!JobStatus) :
                 history' = [history EXCEPT ![p] = g] /\ DOMAIN h \subseteq DOMAIN g
    <3>. DEFINE g == [h EXCEPT ![Len(h)] = s]
    <3>1. history' = [history EXCEPT ![p] = g]
      BY <2>2 DEF Panel!End
    <3>2. Len(h) \in 1..Len(h)
      BY <1>1, <2>2, EmptySeq DEF Panel!End, Panel!Running
    <3>3. g \in Seq(Panel!JobStatus) /\ DOMAIN g = DOMAIN h
      BY <1>1, <3>2, ExceptSeq
    <3>. HIDE DEF g
    <3>. QED  BY <3>1, <3>3
  <2>. QED  BY <2>1, <2>2
<1>. QED  BY <1>1, <1>2

\* Every step of the panel of jobs keeps its invariant.
LEMMA PanelInvKept ==
  ASSUME PanelInv, [Panel!Next]_overviewVars
  PROVE  PanelInv'
<1>1. ASSUME NEW p \in Watched,
             Panel!Start(p) \/ \E s \in Panel!JobStatus : Panel!End(p, s),
             UNCHANGED <<listedJobs, storedJobs, listing>>
      PROVE  PanelInv'
  <2>1. /\ history' \in [Watched -> Seq(Panel!JobStatus)]
        /\ \A q \in Watched : DOMAIN history[q] \subseteq DOMAIN history'[q]
    BY <1>1, HistoryGrows
  <2>. QED  BY <1>1, <2>1 DEF PanelInv
<1>2. ASSUME NEW p \in Watched,
             Panel!Run(p) \/ Panel!AbortJob(p) \/ Panel!RerunJob(p)
      PROVE  PanelInv'
  <2>1. /\ Panel!Start(p) \/ \E s \in Panel!JobStatus : Panel!End(p, s)
        /\ UNCHANGED <<listedJobs, storedJobs, listing>>
    BY <1>2 DEF Panel!Run, Panel!AbortJob, Panel!RerunJob, Panel!JobStatus
  <2>. QED  BY <1>1, <2>1
<1>3. ASSUME NEW p \in Watched, Panel!LoadJobsPageSuccess(p)
      PROVE  PanelInv'
  <2>. DEFINE new == Panel!Over(history[p], storedJobs[p])
  <2>1. storedJobs' = [storedJobs EXCEPT ![p] = new] /\ UNCHANGED <<history, listedJobs, listing>>
    BY <1>3 DEF Panel!LoadJobsPageSuccess
  <2>2. history[p] \in [DOMAIN history[p] -> Panel!JobStatus]
    BY DEF PanelInv
  <2>3. /\ DOMAIN new = DOMAIN history[p] \cup DOMAIN storedJobs[p]
        /\ new \in [DOMAIN new -> Panel!JobStatus]
    BY <2>2, OverIs DEF PanelInv
  <2>. HIDE DEF new
  <2>4. \A q \in Watched : storedJobs'[q] = IF q = p THEN new ELSE storedJobs[q]
    BY <2>1 DEF PanelInv
  <2>5. DOMAIN storedJobs' = Watched
    BY <2>1 DEF PanelInv
  <2>. QED  BY <2>1, <2>3, <2>4, <2>5 DEF PanelInv
<1>4. ASSUME Panel!Poll
      PROVE  PanelInv'
  <2>1. listing'.phase = "sent" /\ UNCHANGED <<history, listedJobs, storedJobs>>
    BY <1>4 DEF Panel!Poll, Panel!Call
  <2>. QED  BY <2>1 DEF PanelInv
<1>5. ASSUME Panel!Serve
      PROVE  PanelInv'
  <2>1. listing' = Panel!Call("served", Panel!Snapshot) /\ UNCHANGED <<history, listedJobs, storedJobs>>
    BY <1>5 DEF Panel!Serve
  <2>2. listing'.policies = [p \in Watched |-> Panel!LastJobs(history[p])]
    BY <2>1 DEF Panel!Call, Panel!Snapshot
  <2>3. ASSUME NEW p \in Watched
        PROVE  /\ DOMAIN Panel!LastJobs(history[p]) \subseteq DOMAIN history[p]
               /\ Panel!LastJobs(history[p]) \in [DOMAIN Panel!LastJobs(history[p]) -> Panel!JobStatus]
    BY DEF PanelInv, Panel!LastJobs
  <2>. QED  BY <2>1, <2>2, <2>3 DEF PanelInv
<1>6. ASSUME Panel!LoadPoliciesSuccess
      PROVE  PanelInv'
  <2>. DEFINE new == [p \in Watched |-> Panel!Over(listing.policies[p], storedJobs[p])]
  <2>1. /\ listing.phase = "served" /\ listing' = Panel!NoCall /\ listedJobs' = listing.policies
        /\ storedJobs' = new /\ history' = history
    BY <1>6 DEF Panel!LoadPoliciesSuccess
  <2>2. listing'.phase = "none"
    BY <2>1 DEF Panel!NoCall, Panel!Call
  <2>3. ASSUME NEW p \in Watched
        PROVE  /\ DOMAIN new[p] = DOMAIN listing.policies[p] \cup DOMAIN storedJobs[p]
               /\ new[p] \in [DOMAIN new[p] -> Panel!JobStatus]
    <3>1. /\ listing.policies[p] \in [DOMAIN listing.policies[p] -> Panel!JobStatus]
          /\ storedJobs[p] \in [DOMAIN storedJobs[p] -> Panel!JobStatus]
      BY <2>1 DEF PanelInv
    <3>2. new[p] = Panel!Over(listing.policies[p], storedJobs[p])
      OBVIOUS
    <3>3. /\ DOMAIN new[p] = DOMAIN listing.policies[p] \cup DOMAIN storedJobs[p]
          /\ \A i \in DOMAIN new[p] :
               new[p][i] = IF i \in DOMAIN listing.policies[p] THEN listing.policies[p][i]
                           ELSE storedJobs[p][i]
      BY <3>2 DEF Panel!Over
    <3>4. new[p] = [i \in DOMAIN new[p] |-> new[p][i]]
      BY <3>2 DEF Panel!Over
    <3>. HIDE DEF new
    <3>. QED  BY <3>1, <3>3, <3>4
  <2>4. DOMAIN new = Watched /\ DOMAIN listing.policies = Watched
    BY <2>1 DEF PanelInv
  <2>. HIDE DEF new
  <2>5. /\ DOMAIN listedJobs' = Watched /\ DOMAIN storedJobs' = Watched
        /\ \A p \in Watched : listedJobs'[p] = listing.policies[p] /\ storedJobs'[p] = new[p]
    BY <2>1, <2>4
  <2>6. \A p \in Watched : /\ DOMAIN listing.policies[p] \subseteq DOMAIN history[p]
                           /\ DOMAIN storedJobs[p] \subseteq DOMAIN history[p]
                           /\ listing.policies[p] \in [DOMAIN listing.policies[p] -> Panel!JobStatus]
    BY <2>1 DEF PanelInv
  <2>. QED  BY <2>1, <2>2, <2>3, <2>5, <2>6 DEF PanelInv
<1>7. ASSUME Panel!LoadPoliciesFail
      PROVE  PanelInv'
  <2>1. listing'.phase = "none" /\ UNCHANGED <<history, listedJobs, storedJobs>>
    BY <1>7 DEF Panel!LoadPoliciesFail, Panel!NoCall, Panel!Call
  <2>. QED  BY <2>1 DEF PanelInv
<1>8. CASE UNCHANGED overviewVars
  BY <1>8 DEF overviewVars, PanelInv
<1>. QED  BY <1>2, <1>3, <1>4, <1>5, <1>6, <1>7, <1>8 DEF Panel!Next

\* The newest job comes first, and is among those the panel looks at.
LEMMA JobsAre ==
  ASSUME PanelInv, NEW p \in Watched
  PROVE  /\ DOMAIN storedJobs[p] \subseteq DOMAIN Panel!PolicyJobs(p)
         /\ Panel!LastTenJobs(p) \subseteq DOMAIN Panel!PolicyJobs(p)
         /\ \A i \in DOMAIN Panel!PolicyJobs(p) : /\ Panel!LastJob(p) \in Panel!LastTenJobs(p)
                                                  /\ Panel!LastJob(p) >= i
<1>. DEFINE S == DOMAIN Panel!PolicyJobs(p)
            s == Descending(S)
<1>1. S = DOMAIN listedJobs[p] \cup DOMAIN storedJobs[p]
  BY DEF Panel!PolicyJobs, Panel!Over
<1>2. history[p] \in Seq(Panel!JobStatus) /\ S \in SUBSET (1..Len(history[p])) /\ Len(history[p]) \in Nat
  <2>1. history[p] \in Seq(Panel!JobStatus)
    BY DEF PanelInv
  <2>2. DOMAIN history[p] = 1..Len(history[p]) /\ Len(history[p]) \in Nat
    BY <2>1
  <2>3. S \subseteq DOMAIN history[p]
    <3>1. /\ DOMAIN listedJobs[p] \subseteq DOMAIN storedJobs[p]
          /\ DOMAIN storedJobs[p] \subseteq DOMAIN history[p]
      BY DEF PanelInv
    <3>. HIDE DEF S
    <3>. QED  BY <1>1, <3>1
  <2>. QED  BY <2>1, <2>2, <2>3
<1>3. IsFiniteSet(1..Len(history[p]))
  BY <1>2, FS_Interval
<1>4. IsFiniteSet(S) /\ S \subseteq Int
  BY <1>2, <1>3, FS_Subset
<1>5. /\ s \in Seq(S) /\ \A x \in S : \E k \in 1..Len(s) : s[k] = x
      /\ \A i, j \in 1..Len(s) : i < j => s[i] > s[j]
  BY <1>4, DescendingIs
<1>6. Panel!JobsResource(p) = s
  BY DEF Panel!JobsResource, Panel!Descending, Panel!InOrder, Descending, InOrder, Cardinality, Panel!Cardinality
<1>7. /\ Panel!LastJob(p) = s[1]
      /\ Panel!LastTenJobs(p) = {s[k] : k \in 1..(IF Len(s) > Window THEN Window ELSE Len(s))}
  BY <1>6 DEF Panel!LastJob, Panel!LastTenJobs, Panel!FirstOf
<1>8. Window \in Nat \ {0}
  BY PollingPagesConstants DEF Panel!OverviewConstants
<1>. HIDE DEF s
<1>9. S \subseteq Int /\ Len(s) \in Nat
  BY <1>4, <1>5
<1>10. ASSUME NEW i \in S
       PROVE  Panel!LastJob(p) \in Panel!LastTenJobs(p) /\ Panel!LastJob(p) >= i
  <2>1. PICK k \in 1..Len(s) : s[k] = i
    BY <1>5
  <2>2. 1 \in 1..Len(s) /\ 1 \in 1..(IF Len(s) > Window THEN Window ELSE Len(s)) /\ (k = 1 \/ 1 < k)
    BY <1>8, <1>9, <2>1
  <2>3. s[1] \in S /\ (s[1] = i \/ s[1] > i)
    BY <1>5, <2>1, <2>2
  <2>. QED  BY <1>7, <1>9, <2>2, <2>3
<1>11. Panel!LastTenJobs(p) \subseteq S
  BY <1>5, <1>7, <1>8, <1>9
<1>. QED  BY <1>1, <1>10, <1>11

\* The invariant of the panel gives its types and its properties.
LEMMA PanelShows ==
  ASSUME PanelInv
  PROVE  Panel!TypeOK /\ Panel!CountsLead /\ Panel!NewestShown
<1>1. Panel!TypeOK
  BY DEF PanelInv, Panel!TypeOK
<1>2. Panel!NewestShown
  BY JobsAre DEF Panel!NewestShown, Panel!LastJob
<1>3. ASSUME NEW p \in Watched, NEW s, s # "SUCCESS"
      PROVE  Panel!WithStatus(p, Panel!LastTenJobs(p), s) # {}
               => p \in Panel!NonCompleted /\ p \in Panel!FailedLastTen
  BY <1>3, JobsAre DEF Panel!WithStatus, Panel!NonCompleted, Panel!FailedLastTen
<1>4. ASSUME NEW s, s # "SUCCESS"
      PROVE  (UNION {{p} \X Panel!WithStatus(p, Panel!LastTenJobs(p), s) : p \in Panel!NonCompleted} # {})
               <=> {p \in Panel!FailedLastTen : Panel!WithStatus(p, Panel!LastTenJobs(p), s) # {}} # {}
  <2>1. Panel!NonCompleted \subseteq Watched /\ Panel!FailedLastTen \subseteq Watched
    BY DEF Panel!NonCompleted, Panel!FailedLastTen
  <2>. DEFINE W(p) == Panel!WithStatus(p, Panel!LastTenJobs(p), s)
  <2>2. \A p \in Watched : W(p) # {} => p \in Panel!NonCompleted /\ p \in Panel!FailedLastTen
    BY <1>3, <1>4
  <2>. HIDE DEF W
  <2>3. (UNION {{p} \X W(p) : p \in Panel!NonCompleted} # {})
          <=> \E p \in Panel!NonCompleted : W(p) # {}
    <3>1. ASSUME NEW p \in Panel!NonCompleted, NEW i \in W(p)
          PROVE  UNION {{q} \X W(q) : q \in Panel!NonCompleted} # {}
      <4>1. <<p, i>> \in {p} \X W(p)
        OBVIOUS
      <4>. QED  BY <4>1
    <3>2. ASSUME NEW x \in UNION {{q} \X W(q) : q \in Panel!NonCompleted}
          PROVE  \E p \in Panel!NonCompleted : W(p) # {}
      OBVIOUS
    <3>. QED  BY <3>1, <3>2
  <2>4. (UNION {{p} \X W(p) : p \in Panel!NonCompleted} # {})
          <=> {p \in Panel!FailedLastTen : W(p) # {}} # {}
    BY <2>1, <2>2, <2>3
  <2>. QED  BY <2>4 DEF W
<1>5. Panel!JobsHealth("LAST_FAILED") = Panel!TableData("LAST_FAILED")
  <2>1. /\ Panel!JobsHealth("LAST_FAILED") = {p \in Panel!NonCompleted : Panel!LastFailed(p)}
        /\ Panel!TableData("LAST_FAILED") = {p \in Panel!FailedLastTen : Panel!LastFailed(p)}
    BY DEF Panel!JobsHealth, Panel!TableData, Panel!MatchJobStatus
  <2>2. ASSUME NEW p \in Watched, Panel!LastFailed(p)
        PROVE  p \in Panel!NonCompleted <=> p \in Panel!FailedLastTen
    <3>1. Panel!PolicyJobs(p)[Panel!LastJob(p)] # "SUCCESS"
      BY <2>2 DEF Panel!LastFailed
    <3>. QED  BY <3>1, JobsAre DEF Panel!NonCompleted, Panel!FailedLastTen
  <2>. QED  BY <2>1, <2>2 DEF Panel!NonCompleted, Panel!FailedLastTen
<1>6. Panel!Actionable("IN_PROGRESS") <=> Panel!TableData("IN_PROGRESS") # {}
  <2>1. Panel!JobsHealth("IN_PROGRESS") =
          UNION {{p} \X Panel!WithStatus(p, Panel!LastTenJobs(p), "RUNNING") : p \in Panel!NonCompleted}
    BY DEF Panel!JobsHealth, Panel!PairsWith, Panel!LastTenJobs
  <2>2. Panel!TableData("IN_PROGRESS") =
          {p \in Panel!FailedLastTen : Panel!WithStatus(p, Panel!LastTenJobs(p), "RUNNING") # {}}
    BY DEF Panel!TableData, Panel!MatchJobStatus
  <2>. QED  BY <1>4, <2>1, <2>2 DEF Panel!Actionable
<1>7. Panel!Actionable("LAST_10_FAILED") <=> Panel!TableData("LAST_10_FAILED") # {}
  <2>1. Panel!JobsHealth("LAST_10_FAILED") =
          UNION {{p} \X Panel!WithStatus(p, Panel!LastTenJobs(p), "FAILED") : p \in Panel!NonCompleted}
    BY DEF Panel!JobsHealth, Panel!PairsWith, Panel!LastTenJobs
  <2>2. Panel!TableData("LAST_10_FAILED") =
          {p \in Panel!FailedLastTen : Panel!WithStatus(p, Panel!LastTenJobs(p), "FAILED") # {}}
    BY DEF Panel!TableData, Panel!MatchJobStatus
  <2>. QED  BY <1>4, <2>1, <2>2 DEF Panel!Actionable
<1>8. Panel!Actionable("LAST_FAILED") <=> Panel!TableData("LAST_FAILED") # {}
  BY <1>5 DEF Panel!Actionable
<1>. QED  BY <1>1, <1>2, <1>5, <1>6, <1>7, <1>8 DEF Panel!CountsLead, Panel!StatusFilters

\* The invariant of the panel holds at first.
LEMMA PanelStarts == ASSUME Panel!Init PROVE PanelInv
<1>1. listing.phase = "none"
  BY DEF Panel!Init, Panel!NoCall, Panel!Call
<1>2. history \in [Watched -> Seq(Panel!JobStatus)] /\ \A p \in Watched : history[p] = <<>>
  BY DEF Panel!Init
<1>3. /\ DOMAIN listedJobs = Watched /\ DOMAIN storedJobs = Watched
      /\ \A p \in Watched : listedJobs[p] = Panel!NoJobs /\ storedJobs[p] = Panel!NoJobs
  BY DEF Panel!Init
<1>4. DOMAIN Panel!NoJobs = {} /\ Panel!NoJobs \in [DOMAIN Panel!NoJobs -> Panel!JobStatus]
  BY DEF Panel!NoJobs
<1>. QED  BY <1>1, <1>2, <1>3, <1>4 DEF PanelInv

-----------------------------------------------------------------------------
(* The feed, the map and the panel together, and all types. *)

\* The invariants of the feed, of the map and of the panel hold.
LEMMA ListsHold == Spec => [](FeedInv /\ MapInv /\ PanelInv)
<1>1. Init => FeedInv /\ MapInv /\ PanelInv
  BY FeedStarts, MapStarts, PanelStarts DEF Init
<1>2. FeedInv /\ MapInv /\ PanelInv /\ [Next]_vars => (FeedInv /\ MapInv /\ PanelInv)'
  BY PartSteps, FeedInvKept, MapInvKept, PanelInvKept
<1>. QED  BY <1>1, <1>2, PTL DEF Spec

\* Whatever is answered late, twice or never: a Beacon's events stand once in the list,
\* the newest first; a map that is drawn marks the clusters of the store with the color of
\* the worst; and a cell of the panel of jobs leads to rows when it can be clicked, each
\* about its newest job (event.reducer.ts, map.component.ts, overview.component.ts,
\* policy.selector.ts).
THEOREM ListedIsFit == Spec => []ListedFits
<1>1. FeedInv /\ MapInv /\ PanelInv => ListedFits
  BY FeedShows, MapShows, PanelShows DEF ListedFits
<1>. QED  BY <1>1, ListsHold, PTL

\* The types of the page of policies and of the store of policies hold.
LEMMA TypesHold == Spec => [](JobsTypes /\ StoreTypes)
<1>1. Init => JobsTypes /\ StoreTypes
  BY JobsTypesStart, StoreTypesStart DEF Init
<1>2. StoreInv /\ JobsTypes /\ StoreTypes /\ [Next]_vars => (JobsTypes /\ StoreTypes)'
  BY PartSteps, JobsTypesKept, StoreTypesKept
<1>. QED  BY <1>1, <1>2, StoreInvHolds, PTL DEF Spec

\* The variables of all parts have their types: among them, that the loop of the page of
\* policies never ends, and a call is for policies, pages and clusters that there are.
THEOREM TypeCorrect == Spec => []TypeOK
<1>1. JobsTypes /\ StoreInv /\ StoreTypes /\ LogInv /\ FeedInv /\ MapInv /\ PanelInv => TypeOK
  BY StoreTyped, FeedShows, MapShows, PanelShows DEF TypeOK, JobsTypes, LogInv
<1>. QED  BY <1>1, TypesHold, StoreInvHolds, LogInvHolds, ListsHold, PTL
=============================================================================
