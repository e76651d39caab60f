-------------------------- MODULE SessionCalendar --------------------------
(***************************************************************************)
(* The lessons of a class: how generate_sessions (apps/catalog/models.py)  *)
(* lays them out over the term, how a change of the school holidays takes  *)
(* them along, and what the office, the MCP tools and the provider do to   *)
(* single lessons: call off, restore, edit by hand, take the register.     *)
(*                                                                         *)
(* Days are numbered; a week has Week days.  One term and its school year  *)
(* are modelled, the year being all of Day.  A step is one request; only   *)
(* the manual regeneration is opened up into its two loops, which other    *)
(* requests can come between.  The roster is never empty here: who is in   *)
(* it is Enrollments.tla's business.                                       *)
(***************************************************************************)
EXTENDS Integers, FiniteSets

CONSTANTS
  Class,         \* the activity classes of the term
  MaxDay,        \* bound: the last day of the school year
  Week,          \* days in a week
  HolidayName,   \* names the office gives its holidays
  HolidayDates,  \* the <<first, last>> periods a holiday is given
  MaxHolidays,   \* bound: holidays in the year
  MaxEdits,      \* bound: rows edited by hand and admin actions begun
  MaxPlans,      \* bound: edits of the schedule and the term
  Terms,         \* what the term is set to: its dates, and whether it is in the year
  Lookback       \* UNTAKEN_LOOKBACK_DAYS

Day == 1..MaxDay
Period == {p \in Day \X Day : p[1] <= p[2]}

ASSUME CalendarAssumption ==
  /\ MaxDay \in Nat \ {0}
  /\ Week \in Nat \ {0}
  /\ HolidayDates \subseteq Period
  /\ MaxHolidays \in Nat
  /\ MaxEdits \in Nat /\ MaxPlans \in Nat
  /\ Lookback \in Nat
  /\ Terms \subseteq [first : Day, last : Day, linked : BOOLEAN]
  /\ \A t \in Terms : t.first <= t.last

VARIABLES
  today,      \* timezone.localdate()
  term,       \* the Term row
  holidays,   \* the Holiday rows of its school year
  class,      \* the ActivityClass rows, as far as the calendar reads them
  lesson,     \* the ClassSession rows, by class and date
  marked,     \* the lessons with Attendance rows
  told,       \* e-mails a family had about a lesson being off, since it was last on
  edits,      \* rows edited by hand and admin actions begun so far
  plans,      \* schedules and terms edited so far
  pass,       \* a manual regeneration between its two loops
  synced      \* classes reconciled since anything but a holiday changed under them

vars == <<today, term, holidays, class, lesson, marked, told, edits, plans, pass, synced>>

NoLesson == [state |-> "none", keep |-> FALSE]
NewLesson == [state |-> "on", keep |-> FALSE]
Lesson == {NoLesson} \cup [state : {"on", "off"}, keep : BOOLEAN]
Schedule == [weekday : 0..(Week - 1), runs : BOOLEAN, status : {"DRAFT", "PUBLISHED"}]
Holiday == [name : HolidayName, first : Day, last : Day]
Lessons == Class \X Day

(* A called-off row that was moved to another date: nobody is told again. *)
Quiet == 3

NoPass == [class |-> "none"]
Passes ==
  [class : Class, closed : SUBSET Day, weekday : 0..(Week - 1), raced : BOOLEAN]

TypeOK ==
  /\ today \in Day
  /\ term \in Terms
  /\ holidays \in SUBSET Holiday /\ Cardinality(holidays) <= MaxHolidays
  /\ class \in [Class -> Schedule]
  /\ lesson \in [Class -> [Day -> Lesson]]
  /\ marked \subseteq {l \in Lessons : lesson[l[1]][l[2]] # NoLesson}
  /\ told \in [Lessons -> 0..Quiet]
  /\ edits \in 0..MaxEdits /\ plans \in 0..MaxPlans
  /\ pass \in Passes \cup {NoPass}
  /\ synced \subseteq Class

(***************************************************************************)
(* generate_sessions.                                                      *)
(***************************************************************************)

Weekday(d) == d % Week

Covers(h, d) == h.first <= d /\ d <= h.last

TermHolidays(hs) ==
  {h \in hs : term.linked /\ h.first <= term.last /\ h.last >= term.first}

(* The days class k must skip: holiday_periods. *)
Closed(k, hs) ==
  {d \in Day : ~k.runs /\ \E h \in TermHolidays(hs) : Covers(h, d)}

TermDates(weekday) == {d \in term.first..term.last : Weekday(d) = weekday}

Created(ls, weekday, closed) ==
  [d \in Day |->
     IF ls[d] = NoLesson /\ d \in TermDates(weekday) \ closed THEN NewLesson ELSE ls[d]]

(* Mutant: the dates kept through a holiday are not looked at. *)
StillFitsNoOverride(l, d, weekday, closed) == Weekday(d) = weekday /\ d \notin closed

StillFits(l, d, weekday, closed) ==
  Weekday(d) = weekday /\ (l.keep \/ d \notin closed)

Pruned(c, ls, weekday, closed) ==
  [d \in Day |->
     IF d < today \/ <<c, d>> \in marked \/ StillFits(ls[d], d, weekday, closed)
     THEN ls[d] ELSE NoLesson]

generate_sessions(c, k, hs) ==
  Pruned(c, Created(lesson[c], k.weekday, Closed(k, hs)), k.weekday, Closed(k, hs))

HasLessons(c) == \E d \in Day : lesson[c][d] # NoLesson

(* The counter of a lesson starts again when the lesson is on or gone. *)
ToldOnly(ls) ==
  [l \in Lessons |-> IF ls[l[1]][l[2]].state = "off" THEN told[l] ELSE 0]

SetLessons(ls) == lesson' = ls /\ told' = ToldOnly(ls)

Edit == edits < MaxEdits /\ edits' = edits + 1 /\ UNCHANGED plans
Plan == plans < MaxPlans /\ plans' = plans + 1 /\ UNCHANGED edits

(* Something a reconciliation reads changed: one under way has read the old. *)
Race == pass' = IF pass = NoPass THEN pass ELSE [pass EXCEPT !.raced = TRUE]

(***************************************************************************)
(* The holidays.  Every save or delete of a Holiday row ends in            *)
(* apply_holidays, which reconciles the classes that have lessons.         *)
(***************************************************************************)

(* A class whose lessons are all gone, to a holiday over the whole term    *)
(* say, is not touched when the days open again.                           *)
Overlooked(hs) ==
  {c \in Class : ~HasLessons(c) /\ Closed(class[c], hs) # Closed(class[c], holidays)}

apply_holidays(hs) ==
  LET touched == {c \in Class : term.linked /\ HasLessons(c)}
  IN  /\ Cardinality(hs) <= MaxHolidays
      /\ holidays' = hs
      /\ SetLessons([c \in Class |->
           IF c \in touched THEN generate_sessions(c, class[c], hs) ELSE lesson[c]])
      /\ synced' = synced \ Overlooked(hs)
      /\ Race
      /\ UNCHANGED <<today, term, class, marked, edits, plans>>

Named(name) == {h \in holidays : h.name = name}
Holidays(name, p) == [name |-> name, first |-> p[1], last |-> p[2]]

(* uniq_holiday_per_year *)
Unique(hs) == \A g, h \in hs : g.name = h.name /\ g.first = h.first => g = h

AddHoliday(name, p) ==
  LET hs == holidays \cup {Holidays(name, p)}
  IN  hs # holidays /\ Unique(hs) /\ apply_holidays(hs)

MoveHoliday(h, p) ==
  LET hs == (holidays \ {h}) \cup {Holidays(h.name, p)}
  IN  hs # holidays /\ Unique(hs) /\ Cardinality(hs) = Cardinality(holidays) /\ apply_holidays(hs)

(* Mutant: deleted rows reconcile nothing. *)
DeleteWithoutSignal(h) ==
  /\ holidays' = holidays \ {h}
  /\ UNCHANGED <<today, term, class, lesson, marked, told, edits, plans, pass, synced>>

DeleteHoliday(h) == apply_holidays(holidays \ {h})

(* The MCP tool looks a holiday up by its name alone: two of one name, and *)
(* get_or_create raises.                                                   *)
upsert_holiday(name, p) ==
  /\ Cardinality(Named(name)) <= 1
  /\ apply_holidays((holidays \ Named(name)) \cup {Holidays(name, p)})

(* The admin action, for the year the holidays are copied into: a holiday  *)
(* that is there already, by name and first day, keeps its own last day.   *)
copy_holidays(copies) ==
  LET fresh == {n \in copies : \A h \in holidays : h.name # n.name \/ h.first # n.first}
  IN  /\ fresh # {} /\ Unique(copies)
      /\ apply_holidays(holidays \cup fresh)

(***************************************************************************)
(* The term and the schedule.  Neither form reconciles anything.           *)
(***************************************************************************)

SaveTerm(t) ==
  /\ term' = t /\ t # term
  /\ synced' = {}
  /\ Plan /\ Race
  /\ UNCHANGED <<today, holidays, class, lesson, marked, told>>

SaveSchedule(c, weekday, runs) ==
  LET k == [class[c] EXCEPT !.weekday = weekday, !.runs = runs]
  IN  /\ k # class[c]
      /\ class' = [class EXCEPT ![c] = k]
      /\ synced' = synced \ {c}
      /\ Plan /\ Race
      /\ UNCHANGED <<today, term, holidays, lesson, marked, told>>

(* upsert_class with rebuild_sessions. *)
RebuildSchedule(c, weekday, runs) ==
  LET k == [class[c] EXCEPT !.weekday = weekday, !.runs = runs]
  IN  /\ HasLessons(c)
      /\ class' = [class EXCEPT ![c] = k]
      /\ SetLessons([lesson EXCEPT ![c] = generate_sessions(c, k, holidays)])
      /\ synced' = synced \cup {c}
      /\ Plan /\ Race
      /\ UNCHANGED <<today, term, holidays, marked>>

(* publish_class and regenerate_sessions of the MCP server, each in the    *)
(* transaction of its tool.                                                *)
Reconcile(c, status) ==
  /\ class' = [class EXCEPT ![c].status = status]
  /\ SetLessons([lesson EXCEPT ![c] = generate_sessions(c, class[c], holidays)])
  /\ synced' = synced \cup {c}
  /\ Race
  /\ UNCHANGED <<today, term, holidays, marked, edits, plans>>

publish_class(c) == Reconcile(c, "PUBLISHED")

regenerate_sessions(c) == Reconcile(c, class[c].status)

(* The admin actions of those names run in no transaction: the periods are *)
(* read and the missing lessons created ...                                *)
BeginAction(c, status) ==
  LET closed == Closed(class[c], holidays)
  IN  /\ pass = NoPass
      /\ class' = [class EXCEPT ![c].status = status]
      /\ SetLessons([lesson EXCEPT ![c] = Created(@, class[c].weekday, closed)])
      /\ pass' = [class |-> c, closed |-> closed, weekday |-> class[c].weekday, raced |-> FALSE]
      /\ Edit
      /\ UNCHANGED <<today, term, holidays, marked, synced>>

publish_classes(c) == BeginAction(c, "PUBLISHED")

regenerate_classes(c) == BeginAction(c, class[c].status)

(* ... then those that no longer belong are removed. *)
EndAction ==
  /\ pass # NoPass
  /\ SetLessons([lesson EXCEPT ![pass.class] = Pruned(pass.class, @, pass.weekday, pass.closed)])
  /\ synced' = IF pass.raced THEN synced \ {pass.class} ELSE synced \cup {pass.class}
  /\ pass' = NoPass
  /\ UNCHANGED <<today, term, holidays, class, marked, edits, plans>>

(***************************************************************************)
(* Single lessons.                                                         *)
(***************************************************************************)

(* notify_lessons_cancelled: one e-mail for the dates not yet past. *)
notify_lessons_cancelled(ls, fresh) ==
  told' = [l \in Lessons |->
             IF l \in fresh /\ l[2] >= today
             THEN IF ToldOnly(ls)[l] = 0 THEN 1 ELSE 2
             ELSE ToldOnly(ls)[l]]

On(l) == lesson[l[1]][l[2]].state = "on"
There(l) == lesson[l[1]][l[2]] # NoLesson

Marked(c, dates, state) ==
  [lesson EXCEPT ![c] = [d \in Day |-> IF d \in dates THEN [@[d] EXCEPT !.state = state] ELSE @[d]]]

(* Mutant: lessons already off are announced again. *)
CancelAnnouncingAll(c, dates) ==
  /\ dates # {} /\ \A l \in {c} \X dates : There(l) /\ l \notin marked
  /\ lesson' = Marked(c, dates, "off")
  /\ notify_lessons_cancelled(Marked(c, dates, "off"), {c} \X dates)
  /\ UNCHANGED <<today, term, holidays, class, marked, pass, synced, edits, plans>>

cancel_sessions(c, dates) ==
  LET off == {c} \X dates
  IN  /\ dates # {}
      /\ \A l \in off : There(l) /\ l \notin marked
      /\ lesson' = Marked(c, dates, "off")
      /\ notify_lessons_cancelled(Marked(c, dates, "off"), {l \in off : On(l)})
      /\ UNCHANGED <<today, term, holidays, class, marked, pass, synced, edits, plans>>

restore_sessions(c, dates) ==
  LET back == {c} \X dates
  IN  /\ dates # {}
      /\ \A l \in back : There(l)
      /\ SetLessons(Marked(c, dates, "on"))
      /\ UNCHANGED <<today, term, holidays, class, marked, pass, synced, edits, plans>>

(* The sessions inline of the class form, and the one-row screen: a row is *)
(* added, ticked, unticked or deleted, its register going with it.         *)
SaveRow(c, d, new) ==
  LET ls == [lesson EXCEPT ![c][d] = new]
      fresh == {<<c, d>>} \cap {l \in Lessons : new.state = "off" /\ lesson[c][d].state # "off"}
  IN  /\ new # lesson[c][d]
      /\ lesson' = ls
      /\ notify_lessons_cancelled(ls, fresh)
      /\ marked' = IF new = NoLesson THEN marked \ {<<c, d>>} ELSE marked
      /\ synced' = synced \ {c}
      /\ Edit /\ Race
      /\ UNCHANGED <<today, term, holidays, class>>

(* The date of a row is edited: register, tick and note travel with it. *)
MoveRow(c, d, e) ==
  LET ls == [lesson EXCEPT ![c][d] = NoLesson, ![c][e] = lesson[c][d]]
      Moves(S) == IF <<c, d>> \in S THEN (S \ {<<c, d>>}) \cup {<<c, e>>} ELSE S \ {<<c, e>>}
  IN  /\ There(<<c, d>>) /\ ~There(<<c, e>>)
      /\ lesson' = ls
      /\ told' = [ToldOnly(ls) EXCEPT ![<<c, e>>] = IF On(<<c, d>>) THEN 0 ELSE Quiet]
      /\ marked' = Moves(marked)
      /\ synced' = synced \ {c}
      /\ Edit /\ Race
      /\ UNCHANGED <<today, term, holidays, class>>

(* The provider saves the register of a lesson: of any lesson of theirs,   *)
(* whatever its date, and called off or not.                               *)
TakeAttendance(c, d) ==
  /\ There(<<c, d>>)
  /\ marked' = marked \cup {<<c, d>>}
  /\ UNCHANGED <<today, term, holidays, class, lesson, told, pass, synced, edits, plans>>

(* A super admin deletes a register: the lesson is an ordinary one again. *)
DeleteRegister(c, d) ==
  /\ <<c, d>> \in marked
  /\ marked' = marked \ {<<c, d>>}
  /\ synced' = synced \ {c}
  /\ Edit
  /\ UNCHANGED <<today, term, holidays, class, lesson, told, pass>>

DayPasses ==
  /\ today < MaxDay
  /\ today' = today + 1
  /\ UNCHANGED <<term, holidays, class, lesson, marked, told, pass, synced, edits, plans>>

(***************************************************************************)
(* What the pages show of it.                                              *)
(***************************************************************************)

Live(c) == {d \in Day : On(<<c, d>>)}

(* The holidays a page names as interrupting the class. *)
skipped_holidays(c) == IF class[c].runs THEN {} ELSE TermHolidays(holidays)

(* The assistant's get_class: the dates, and why others are missing. *)
get_class(c) ==
  [sessions |-> [d \in {e \in Day : There(<<c, e>>)} |->
                   [cancelled |-> ~On(<<c, d>>), runs_despite_holiday |-> lesson[c][d].keep]],
   skipped_holidays |-> skipped_holidays(c)]

(* with_next_session, of the catalogue. *)
next_session_date(c) == {d \in Live(c) : d >= today /\ \A e \in Live(c) : e >= today => d <= e}

(* The provider's home page: _live_sessions, split by the day. *)
LiveSessions == {l \in Lessons : class[l[1]].status = "PUBLISHED" /\ On(l)}
todays_sessions == {l \in LiveSessions : l[2] = today}
(* Mutant: the oldest day of the look-back is lost. *)
UntakenShort == {l \in LiveSessions : l[2] < today /\ l[2] > today - Lookback /\ l \notin marked}
untaken_sessions == {l \in LiveSessions : l[2] < today /\ l[2] >= today - Lookback /\ l \notin marked}
next_session ==
  {l \in LiveSessions : todays_sessions = {} /\ l[2] > today
                         /\ \A k \in LiveSessions : k[2] > today => l[2] <= k[2]}

(* The parent's attendance page, for a child enrolled all along. *)
AttendanceState(l) ==
  IF l \in marked THEN "taken" ELSE IF l[2] > today THEN "upcoming" ELSE "not_taken"

(***************************************************************************)
(* The specification.                                                      *)
(***************************************************************************)

Init ==
  /\ today = 1
  /\ term \in Terms
  /\ holidays = {}
  /\ class \in [Class -> [weekday : {0}, runs : {FALSE}, status : {"DRAFT"}]]
  /\ lesson = [c \in Class |-> [d \in Day |-> NoLesson]]
  /\ marked = {}
  /\ told = [l \in Lessons |-> 0]
  /\ edits = 0 /\ plans = 0
  /\ pass = NoPass
  /\ synced = {}

HolidayEdit ==
  \/ \E name \in HolidayName, p \in HolidayDates : AddHoliday(name, p) \/ upsert_holiday(name, p)
  \/ \E h \in holidays : DeleteHoliday(h) \/ \E p \in HolidayDates : MoveHoliday(h, p)
  \/ \E S \in SUBSET (HolidayName \X HolidayDates) : copy_holidays({Holidays(x[1], x[2]) : x \in S})

ScheduleEdit ==
  \/ \E t \in Terms : SaveTerm(t)
  \/ \E c \in Class, w \in 0..(Week - 1), r \in BOOLEAN : SaveSchedule(c, w, r) \/ RebuildSchedule(c, w, r)

Reconciliation ==
  \/ \E c \in Class :
       publish_class(c) \/ regenerate_sessions(c) \/ publish_classes(c) \/ regenerate_classes(c)
  \/ EndAction

LessonEdit ==
  \E c \in Class :
    \/ \E dates \in SUBSET Day : cancel_sessions(c, dates) \/ restore_sessions(c, dates)
    \/ \E d \in Day, new \in Lesson : SaveRow(c, d, new)
    \/ \E d, e \in Day : MoveRow(c, d, e)
    \/ \E d \in Day : TakeAttendance(c, d) \/ DeleteRegister(c, d)

Next == HolidayEdit \/ ScheduleEdit \/ Reconciliation \/ LessonEdit \/ DayPasses

Spec == Init /\ [][Next]_vars

(***************************************************************************)
(* Properties.                                                             *)
(***************************************************************************)

(* A class reconciled since its term, its schedule and its rows were last  *)
(* edited has a lesson on every open weekday of the term, and no coming    *)
(* lesson without a register that falls on a closed day or another         *)
(* weekday -- whatever the holidays did to it meanwhile: a holiday the     *)
(* page names is why a date is missing, and runs_despite_holiday why one   *)
(* is not.                                                                 *)
Reconciled ==
  \A c \in synced :
    LET page == get_class(c)
        Interrupts(d) == \E h \in page.skipped_holidays : Covers(h, d)
    IN  /\ \A d \in TermDates(class[c].weekday) \ DOMAIN page.sessions : Interrupts(d)
        /\ \A d \in DOMAIN page.sessions :
             \/ d < today \/ <<c, d>> \in marked
             \/ /\ Weekday(d) = class[c].weekday
                /\ page.sessions[d].runs_despite_holiday \/ ~Interrupts(d)

(* Steps that work on the whole calendar rather than on a lesson. *)
CalendarStep ==
  \/ holidays' # holidays \/ class' # class
  \/ (pass' # pass /\ NoPass \in {pass, pass'})

(* No reconciliation, of any trigger, takes away a lesson that is past or  *)
(* has its register, or one kept through the holidays on the weekday it    *)
(* works with; and none calls a lesson off or back on.                     *)
CalendarKeeps ==
  [][CalendarStep =>
       \A l \in Lessons :
         There(l) =>
           LET new == lesson'[l[1]][l[2]] IN
           \/ new = lesson[l[1]][l[2]]
           \/ /\ new = NoLesson
              /\ l[2] >= today /\ l \notin marked
              /\ lesson[l[1]][l[2]].keep =>
                   Weekday(l[2]) # class'[l[1]].weekday
                   \/ (pass # NoPass /\ Weekday(l[2]) # pass.weekday)]_vars

(* However a lesson that is still to come got called off, by date, by row  *)
(* or by being moved, no family is told twice, and only a moved row is     *)
(* called off on a date nobody was told about.                             *)
OneEmail ==
  \A l \in Lessons :
    lesson[l[1]][l[2]].state = "off" => told[l] # 2 /\ (l[2] >= today => told[l] \in {1, Quiet})

(* The catalogue and the provider's home page name the same next lesson,   *)
(* and a register the home page chases is one the parent's page calls not  *)
(* taken: it drops off the list only by age, or with the class.            *)
PagesAgree ==
  /\ LET dates == UNION {next_session_date(c) : c \in {k \in Class : class[k].status = "PUBLISHED"}}
     IN  {l[2] : l \in todays_sessions \cup next_session} =
           {d \in dates : \A e \in dates : d <= e}
  /\ \A l \in untaken_sessions : AttendanceState(l) = "not_taken"
  /\ \A l \in Lessons :
       On(l) /\ AttendanceState(l) = "not_taken" /\ l[2] >= today - Lookback =>
         l \in untaken_sessions \cup todays_sessions \/ class[l[1]].status # "PUBLISHED"

=============================================================================
