----------------------------- MODULE ScheduleForm -----------------------------
(***************************************************************************)
(* The form of the wizard's schedule step: step-schedule.component.ts.     *)
(* Days are numbers, day n is a Sunday when n % 7 = 0; a time of day is    *)
(* before or after the present one.  Angular validates a control when it   *)
(* or its group is updated, so an error is as old as that.  getFormValue   *)
(* changes the value of the group startTime, not its controls; it stays    *)
(* changed until the group is updated.                                     *)
(***************************************************************************)
EXTENDS Integers

CONSTANTS Today,        \* number of the present day
          Dates,        \* days that may be picked as the start, from today on
          EndDates,     \* days that may be picked as the end
          Frequencies,  \* what may be typed as the frequency, beside nothing
          Units, Days,  \* units and days of the week that are picked
          LastDate      \* bound of the start dates that are saved again

NoDate == -1
InvalidDate == -2

POLICY_DAYS == 0..6
POLICY_TIME_UNITS == {"MINUTES", "HOURS", "DAYS", "WEEKS"}
POLICY_START == {"START_NOW", "ON_SCHEDULE"}

ScheduleConstants ==
  /\ Today \in Nat /\ Frequencies \subseteq Nat
  /\ Dates \cup EndDates \subseteq Today..LastDate
  /\ Units \subseteq POLICY_TIME_UNITS /\ Days \subseteq POLICY_DAYS

FrequencyMap ==
  [u \in POLICY_TIME_UNITS |->
     CASE u = "MINUTES" -> 60 [] u = "HOURS" -> 3600
       [] u = "DAYS" -> 86400 [] u = "WEEKS" -> 604800]

VARIABLES job,        \* the values of the controls
          startTime,  \* the date in the value of the group startTime
          required,   \* the start date is required
          errors,     \* controls that have an error
          given       \* the value that the last event gave to the wizard

vars == <<job, startTime, required, errors, given>>

NotGiven == [unit |-> "none"]

Init ==
  /\ job = [start |-> "ON_SCHEDULE", frequency |-> 0, day |-> 1, unit |-> "DAYS",
            startDate |-> NoDate, endDate |-> NoDate, late |-> FALSE]
  /\ startTime = NoDate /\ required = FALSE
  /\ errors = {"frequency"}
  /\ given = NotGiven

-----------------------------------------------------------------------------
(* Validators. *)

\* freqValidator, integerValidator and required, for the unit of the moment;
\* 0 is what is not a positive integer.  frequency * seconds < 2147472000.
FrequencyLimit == 2147472000
FitsLimit(n, unit) == n <= (FrequencyLimit - 1) \div FrequencyMap[unit]
FrequencyValid(j) == j.frequency > 0 /\ FitsLimit(j.frequency, j.unit)

WeekDay(n) == n % 7
IsoWeekDay(n) == IF WeekDay(n) = 0 THEN 7 ELSE WeekDay(n)

\* The first day of a weekly policy, as validateTime estimates it.
EstimatedDay(date, j) ==
  IF j.unit # "WEEKS" THEN date
  ELSE IF j.day > WeekDay(date) THEN date + j.day - WeekDay(date)
  ELSE date + 7 - j.day

IsPast(date, j) == date < Today \/ (date = Today /\ ~j.late)

\* validateTime, run for the date of the group that was updated: the error of the
\* time of the start.
TimeError(date, start, j) ==
  /\ date # NoDate /\ j.start = "ON_SCHEDULE"
  /\ \/ IsPast(EstimatedDay(date, j), j)
     \/ start # NoDate /\ j.endDate # NoDate /\ j.endDate < start

With(E, name, wrong) == IF wrong THEN E \cup {name} ELSE E \ {name}

\* The group startTime is updated, with the start date in it.
UpdateStart(j, req, E) ==
  /\ job' = j /\ required' = req
  /\ startTime' = j.startDate
  /\ errors' = With(With(E, "startDate", req /\ j.startDate = NoDate),
                    "time", TimeError(j.startDate, j.startDate, j))
  /\ given' = NotGiven

-----------------------------------------------------------------------------
(* What the user changes. *)

ChangeFrequency(n) ==
  /\ job' = [job EXCEPT !.frequency = n]
  /\ errors' = With(errors, "frequency", ~FrequencyValid(job'))
  /\ given' = NotGiven
  /\ UNCHANGED <<startTime, required>>

\* updateDateControlValidators, for unit and start as they are now.
DateRequired(j) == j.unit = "WEEKS" /\ j.start # "START_NOW"

ChangeUnit(u) ==
  LET j == [job EXCEPT !.unit = u] IN UpdateStart(j, DateRequired(j), errors)

\* handleStartChange; the day becomes today's when the policy starts now.
ChangeStart(s) ==
  LET j == [job EXCEPT !.start = s, !.late = FALSE,
              !.day = IF s = "START_NOW" THEN WeekDay(Today) ELSE @]
  IN UpdateStart(j, DateRequired(j), errors)

ChangeDay(d) ==
  /\ job' = [job EXCEPT !.day = d]
  /\ given' = NotGiven
  /\ UNCHANGED <<startTime, required, errors>>

ChangeStartDate(d) == UpdateStart([job EXCEPT !.startDate = d], required, errors)

ChangeTime(late) == UpdateStart([job EXCEPT !.late = late], required, errors)

\* The group endTime is updated; its date is taken for the one of the start.
ChangeEndDate(d) ==
  /\ job' = [job EXCEPT !.endDate = d]
  /\ errors' = With(errors, "time", TimeError(d, startTime, job')) \ {"endDate"}
  /\ given' = NotGiven
  /\ UNCHANGED <<startTime, required>>

\* handleDateInputChange: what is typed is no date, or is empty again.
TypeDate(control, empty) ==
  /\ errors' = With(errors, control, ~empty)
  /\ given' = NotGiven
  /\ UNCHANGED <<job, startTime, required>>

-----------------------------------------------------------------------------
(* getFormValue. *)

\* moment(n).isoWeekday(d)
SetIsoWeekDay(n, d) == n - WeekDay(n) + (IF WeekDay(n) # 0 THEN d ELSE d - 7)

SameWeek(n, d) == SetIsoWeekDay(n, d)
FirstDay(n, d) ==
  IF IsoWeekDay(n) <= d THEN SetIsoWeekDay(n, d) ELSE SetIsoWeekDay(n + 7, d)

\* handleSubmit, of a form that is valid.
Submit ==
  /\ errors = {} /\ startTime <= LastDate
  /\ startTime' = IF job.start = "START_NOW" THEN NoDate
                  ELSE IF job.unit # "WEEKS" THEN startTime
                  ELSE IF startTime < 0 THEN InvalidDate
                  ELSE FirstDay(startTime, job.day)
  /\ given' = [unit |-> job.unit, frequency |-> job.frequency, start |-> startTime',
               again |-> startTime # job.startDate]
  /\ UNCHANGED <<job, required, errors>>

Next ==
  \/ \E n \in Frequencies \cup {0} : ChangeFrequency(n)
  \/ \E u \in Units : ChangeUnit(u)
  \/ \E s \in POLICY_START : ChangeStart(s)
  \/ \E d \in Days : ChangeDay(d)
  \/ \E d \in Dates \cup {NoDate} : ChangeStartDate(d)
  \/ \E late \in BOOLEAN : ChangeTime(late)
  \/ \E d \in EndDates \cup {NoDate} : ChangeEndDate(d)
  \/ \E control \in {"startDate", "endDate"}, empty \in BOOLEAN : TypeDate(control, empty)
  \/ Submit

Spec == Init /\ [][Next]_vars

-----------------------------------------------------------------------------
(* Properties. *)

\* A weekly policy starts on the chosen day of the week, not before the date that
\* is shown, and, the first time its step is saved, on the first such day: on any
\* day of the week, Sundays included, which moment counts as 7 and the form as 0.
ChosenDay ==
  given # NotGiven /\ given.unit = "WEEKS" /\ given.start >= 0
    => /\ WeekDay(given.start) = job.day
       /\ given.start >= job.startDate
       /\ given.again \/ given.start < job.startDate + 7
=============================================================================
