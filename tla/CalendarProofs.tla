--------------------------- MODULE CalendarProofs ---------------------------
(***************************************************************************)
(* Proofs about SessionCalendar, for any classes, any term, any holidays   *)
(* and any number of edits: the types, that a reconciliation spares what   *)
(* is past, marked or kept, that nobody is told twice of a lesson called   *)
(* off, that a class once reconciled stays so whatever the holidays do,    *)
(* and that the pages name the same next lesson.                           *)
(***************************************************************************)
EXTENDS SessionCalendar, WellFoundedInduction, FiniteSetTheorems, TLAPS

-----------------------------------------------------------------------------
(* Rows *)

LEMMA LessonFields ==
  /\ NoLesson \in Lesson /\ NoLesson.state = "none" /\ NoLesson.keep = FALSE
  /\ NewLesson \in Lesson /\ NewLesson.state = "on" /\ NewLesson # NoLesson
  /\ \A r \in Lesson : /\ r # NoLesson <=> r.state \in {"on", "off"}
                       /\ r.keep \in BOOLEAN
                       /\ r.state \in {"none", "on", "off"}
<1>1. NoLesson \in Lesson /\ NoLesson.state = "none" /\ NoLesson.keep = FALSE
  BY DEF NoLesson, Lesson
<1>2. NewLesson \in Lesson /\ NewLesson.state = "on"
  BY DEF NewLesson, Lesson
<1>3. \A r \in [state : {"on", "off"}, keep : BOOLEAN] : r.state \in {"on", "off"} /\ r.keep \in BOOLEAN
  OBVIOUS
<1> QED
  BY <1>1, <1>2, <1>3 DEF Lesson

LEMMA PassFields ==
  ASSUME NEW p \in Passes
  PROVE  /\ p # NoPass /\ p.class \in Class /\ p.closed \in SUBSET Day /\ p.weekday \in 0..(Week - 1)
         /\ p.raced \in BOOLEAN
         /\ [p EXCEPT !.raced = TRUE] \in Passes /\ [p EXCEPT !.raced = TRUE].raced = TRUE
<1>1. p.class \in Class /\ p.closed \in SUBSET Day /\ p.weekday \in 0..(Week - 1)
      /\ p.raced \in BOOLEAN
  BY DEF Passes
<1>2. [p EXCEPT !.raced = TRUE] \in Passes /\ [p EXCEPT !.raced = TRUE].raced = TRUE
  BY DEF Passes
<1>3. "raced" \in DOMAIN p /\ DOMAIN NoPass = {"class"}
  BY DEF Passes, NoPass
<1>4. "raced" \notin {"class"}
  OBVIOUS
<1> QED
  BY <1>1, <1>2, <1>3, <1>4

LEMMA TermDays ==
  ASSUME TypeOK, CalendarAssumption
  PROVE  /\ MaxDay \in Nat /\ today \in Nat /\ Day \subseteq Nat
         /\ \A w : TermDates(w) \subseteq Day
<1>1. MaxDay \in Nat /\ today \in Nat /\ Day \subseteq Nat
  BY DEF TypeOK, CalendarAssumption, Day
<1>2. term.first \in Day /\ term.last \in Day
  BY DEF TypeOK, CalendarAssumption
<1>3. term.first..term.last \subseteq Day
  BY <1>1, <1>2 DEF Day
<1> QED
  BY <1>1, <1>3 DEF TermDates

(* What generate_sessions makes of the rows of a class. *)
LEMMA CreatedFacts ==
  ASSUME NEW ls \in [Day -> Lesson], NEW w, NEW closed
  PROVE  /\ Created(ls, w, closed) \in [Day -> Lesson]
         /\ \A d \in Day : \/ Created(ls, w, closed)[d] = ls[d]
                           \/ ls[d] = NoLesson /\ Created(ls, w, closed)[d] = NewLesson
                              /\ d \in TermDates(w) \ closed
         /\ \A d \in Day : d \in TermDates(w) \ closed => Created(ls, w, closed)[d] # NoLesson
BY LessonFields DEF Created

LEMMA PrunedFacts ==
  ASSUME NEW c, NEW ls \in [Day -> Lesson], NEW w, NEW closed
  PROVE  /\ Pruned(c, ls, w, closed) \in [Day -> Lesson]
         /\ \A d \in Day : \/ Pruned(c, ls, w, closed)[d] = ls[d]
                           \/ /\ Pruned(c, ls, w, closed)[d] = NoLesson
                              /\ ~(d < today) /\ <<c, d>> \notin marked
                              /\ ~StillFits(ls[d], d, w, closed)
         /\ \A d \in Day : Pruned(c, ls, w, closed)[d] # NoLesson =>
              /\ Pruned(c, ls, w, closed)[d] = ls[d]
              /\ d < today \/ <<c, d>> \in marked \/ StillFits(ls[d], d, w, closed)
BY LessonFields DEF Pruned

(* A class and its rows fit: a lesson on every open weekday of the term,   *)
(* and none coming, without a register, on another day.                    *)
FitsWith(c, ls, w, closed) ==
  /\ \A d \in TermDates(w) \ closed : ls[d] # NoLesson
  /\ \A d \in Day : ls[d] # NoLesson =>
       d < today \/ <<c, d>> \in marked \/ StillFits(ls[d], d, w, closed)

LEMMA PrunedFits ==
  ASSUME TypeOK, CalendarAssumption,
         NEW c \in Class, NEW ls \in [Day -> Lesson], NEW w, NEW closed,
         \A d \in TermDates(w) \ closed : ls[d] # NoLesson
  PROVE  FitsWith(c, Pruned(c, ls, w, closed), w, closed)
<1>1. ASSUME NEW d \in TermDates(w) \ closed PROVE Pruned(c, ls, w, closed)[d] # NoLesson
  <2>1. d \in Day /\ StillFits(ls[d], d, w, closed) /\ ls[d] # NoLesson
    BY TermDays DEF StillFits, TermDates
  <2>2. Pruned(c, ls, w, closed)[d] = ls[d]
    BY <2>1 DEF Pruned
  <2> QED
    BY <2>1, <2>2
<1>2. ASSUME NEW d \in Day, Pruned(c, ls, w, closed)[d] # NoLesson
      PROVE  d < today \/ <<c, d>> \in marked \/ StillFits(Pruned(c, ls, w, closed)[d], d, w, closed)
  BY <1>2, PrunedFacts
<1> QED
  BY <1>1, <1>2 DEF FitsWith

(* A step is gentle to a row that it leaves alone, adds, or takes away     *)
(* from a coming day without a register, if it is not kept there.          *)
Gentle(c, d) ==
  \/ lesson'[c][d] = lesson[c][d]
  \/ lesson[c][d] = NoLesson /\ lesson'[c][d] = NewLesson
  \/ /\ lesson'[c][d] = NoLesson
     /\ ~(d < today) /\ <<c, d>> \notin marked
     /\ lesson[c][d].keep =>
          Weekday(d) # class'[c].weekday \/ (pass # NoPass /\ Weekday(d) # pass.weekday)

GentleStep == \A c \in Class, d \in Day : Gentle(c, d)

LEMMA GenerateFacts ==
  ASSUME TypeOK, CalendarAssumption, NEW c \in Class, NEW k \in Schedule, NEW hs
  PROVE  /\ generate_sessions(c, k, hs) \in [Day -> Lesson]
         /\ FitsWith(c, generate_sessions(c, k, hs), k.weekday, Closed(k, hs))
         /\ \A d \in Day :
              \/ generate_sessions(c, k, hs)[d] = lesson[c][d]
              \/ lesson[c][d] = NoLesson /\ generate_sessions(c, k, hs)[d] = NewLesson
              \/ /\ generate_sessions(c, k, hs)[d] = NoLesson
                 /\ ~(d < today) /\ <<c, d>> \notin marked
                 /\ lesson[c][d].keep => Weekday(d) # k.weekday
<1> DEFINE w == k.weekday
           closed == Closed(k, hs)
           made == Created(lesson[c], w, closed)
           left == Pruned(c, made, w, closed)
<1>1. generate_sessions(c, k, hs) = left
  BY DEF generate_sessions
<1>2. lesson[c] \in [Day -> Lesson]
  BY DEF TypeOK
<1> HIDE DEF w, closed
<1>3. /\ made \in [Day -> Lesson]
      /\ \A d \in Day : \/ made[d] = lesson[c][d]
                        \/ lesson[c][d] = NoLesson /\ made[d] = NewLesson /\ d \in TermDates(w) \ closed
      /\ \A d \in Day : d \in TermDates(w) \ closed => made[d] # NoLesson
  BY <1>2, CreatedFacts
<1>4. \A d \in TermDates(w) \ closed : made[d] # NoLesson
  BY <1>3, TermDays
<1> HIDE DEF made
<1>5. /\ left \in [Day -> Lesson]
      /\ \A d \in Day : \/ left[d] = made[d]
                        \/ /\ left[d] = NoLesson
                           /\ ~(d < today) /\ <<c, d>> \notin marked
                           /\ ~StillFits(made[d], d, w, closed)
  BY <1>3, PrunedFacts
<1>6. FitsWith(c, left, w, closed)
  BY <1>3, <1>4, PrunedFits
<1> HIDE DEF left
<1>7. ASSUME NEW d \in Day
      PROVE  \/ left[d] = lesson[c][d]
             \/ lesson[c][d] = NoLesson /\ left[d] = NewLesson
             \/ /\ left[d] = NoLesson
                /\ ~(d < today) /\ <<c, d>> \notin marked
                /\ lesson[c][d].keep => Weekday(d) # w
  BY <1>3, <1>5, LessonFields DEF StillFits
<1> QED
  BY <1>1, <1>5, <1>6, <1>7 DEF w, closed

-----------------------------------------------------------------------------
(* The parts of the invariant. *)

(* The counter of a lesson that is not off is at its start, and that of    *)
(* one called off says: one e-mail, or a moved row; none for days past.    *)
ToldRight ==
  \A l \in Lessons :
    /\ lesson[l[1]][l[2]].state # "off" => told[l] = 0
    /\ lesson[l[1]][l[2]].state = "off" => told[l] # 2 /\ (l[2] >= today => told[l] \in {1, Quiet})

Fits(c) == FitsWith(c, lesson[c], class[c].weekday, Closed(class[c], holidays))

(* A manual regeneration that nothing came between has the schedule and    *)
(* the holidays of now, and its lessons.                                   *)
PassFresh ==
  pass # NoPass /\ ~pass.raced =>
    /\ pass.closed = Closed(class[pass.class], holidays)
    /\ pass.weekday = class[pass.class].weekday
    /\ \A d \in TermDates(pass.weekday) \ pass.closed : lesson[pass.class][d] # NoLesson

SyncedFit == \A c \in synced : Fits(c)

CalendarOK == TypeOK /\ ToldRight /\ SyncedFit /\ PassFresh

(* What a step must do for a reconciliation to spare what it should.       *)
KeepsStep ==
  CalendarStep =>
    \A l \in Lessons :
      There(l) =>
        LET new == lesson'[l[1]][l[2]] IN
        \/ new = lesson[l[1]][l[2]]
        \/ /\ new = NoLesson
           /\ l[2] >= today /\ l \notin marked
           /\ lesson[l[1]][l[2]].keep =>
                Weekday(l[2]) # class'[l[1]].weekday
                \/ (pass # NoPass /\ Weekday(l[2]) # pass.weekday)

LEMMA LessonsFields ==
  ASSUME TypeOK, CalendarAssumption, NEW l \in Lessons
  PROVE  /\ l[1] \in Class /\ l[2] \in Day /\ l = <<l[1], l[2]>>
         /\ l[2] \in Nat /\ today \in Nat
         /\ lesson[l[1]][l[2]] \in Lesson
<1>1. l[1] \in Class /\ l[2] \in Day /\ l = <<l[1], l[2]>>
  BY DEF Lessons
<1> QED
  BY <1>1, TermDays DEF TypeOK

LEMMA GentleKeeps ==
  ASSUME TypeOK, CalendarAssumption, GentleStep
  PROVE  KeepsStep
<1> SUFFICES ASSUME NEW l \in Lessons, There(l)
             PROVE  \/ lesson'[l[1]][l[2]] = lesson[l[1]][l[2]]
                    \/ /\ lesson'[l[1]][l[2]] = NoLesson
                       /\ l[2] >= today /\ l \notin marked
                       /\ lesson[l[1]][l[2]].keep =>
                            Weekday(l[2]) # class'[l[1]].weekday
                            \/ (pass # NoPass /\ Weekday(l[2]) # pass.weekday)
  BY DEF KeepsStep
<1>1. Gentle(l[1], l[2])
  BY LessonsFields DEF GentleStep
<1> QED
  BY <1>1, LessonsFields DEF Gentle, There

LEMMA GentleTold ==
  ASSUME TypeOK, CalendarAssumption, ToldRight, GentleStep, UNCHANGED today,
         told' = ToldOnly(lesson')
  PROVE  ToldRight' /\ told' \in [Lessons -> 0..Quiet]
<1>1. ASSUME NEW l \in Lessons
      PROVE  /\ told'[l] \in 0..Quiet
             /\ lesson'[l[1]][l[2]].state # "off" => told'[l] = 0
             /\ lesson'[l[1]][l[2]].state = "off" =>
                  told'[l] # 2 /\ (l[2] >= today => told'[l] \in {1, Quiet})
  <2>1. told'[l] = IF lesson'[l[1]][l[2]].state = "off" THEN told[l] ELSE 0
    BY DEF ToldOnly
  <2>2. lesson'[l[1]][l[2]].state = "off" => lesson[l[1]][l[2]].state = "off"
    BY LessonsFields, LessonFields DEF GentleStep, Gentle
  <2>3. told[l] \in 0..Quiet /\ 0 \in 0..Quiet
    BY DEF TypeOK, Quiet
  <2> QED
    BY <2>1, <2>2, <2>3 DEF ToldRight
<1>2. told' \in [Lessons -> 0..Quiet]
  BY <1>1 DEF ToldOnly
<1> QED
  BY <1>1, <1>2 DEF ToldRight

LEMMA GentleMarked ==
  ASSUME TypeOK, CalendarAssumption, GentleStep
  PROVE  \A l \in marked : l \in Lessons /\ lesson'[l[1]][l[2]] # NoLesson
<1> SUFFICES ASSUME NEW l \in marked
             PROVE  l \in Lessons /\ lesson'[l[1]][l[2]] # NoLesson
  OBVIOUS
<1>1. l \in Lessons /\ lesson[l[1]][l[2]] # NoLesson
  BY DEF TypeOK
<1>2. Gentle(l[1], l[2]) /\ l = <<l[1], l[2]>>
  BY <1>1, LessonsFields DEF GentleStep
<1> QED
  BY <1>1, <1>2, LessonFields DEF Gentle

(* Whether a class fits depends on little; more registers and a later day  *)
(* do no harm.                                                             *)
LEMMA FitsStays ==
  ASSUME TypeOK, CalendarAssumption, NEW c \in Class, Fits(c), UNCHANGED term,
         \A d \in Day : /\ lesson'[c][d] # NoLesson <=> lesson[c][d] # NoLesson
                        /\ lesson'[c][d].keep = lesson[c][d].keep,
         class'[c].weekday = class[c].weekday,
         Closed(class[c], holidays)' = Closed(class[c], holidays),
         \A d \in Day : <<c, d>> \in marked => <<c, d>> \in marked',
         today' \in Nat, today <= today'
  PROVE  Fits(c)'
<1> DEFINE w == class[c].weekday
           closed == Closed(class[c], holidays)
<1>1. TermDates(w)' = TermDates(w) /\ TermDates(w) \subseteq Day /\ Day \subseteq Nat /\ today \in Nat
  BY TermDays DEF TermDates
<1>2. /\ \A d \in TermDates(w) \ closed : lesson[c][d] # NoLesson
      /\ \A d \in Day : lesson[c][d] # NoLesson =>
           d < today \/ <<c, d>> \in marked \/ StillFits(lesson[c][d], d, w, closed)
  BY DEF Fits, FitsWith
<1>3. ASSUME NEW d \in TermDates(w)' \ closed' PROVE lesson'[c][d] # NoLesson
  BY <1>1, <1>2
<1>4. ASSUME NEW d \in Day, lesson'[c][d] # NoLesson
      PROVE  d < today' \/ <<c, d>> \in marked' \/ StillFits(lesson'[c][d], d, w', closed')
  <2>1. d < today \/ <<c, d>> \in marked \/ StillFits(lesson[c][d], d, w, closed)
    BY <1>2, <1>4
  <2>2. CASE d < today
    BY <1>1, <2>2
  <2>3. CASE StillFits(lesson[c][d], d, w, closed)
    BY <2>3 DEF StillFits
  <2> QED
    BY <2>1, <2>2, <2>3
<1> QED
  BY <1>3, <1>4 DEF Fits, FitsWith, StillFits

LEMMA FitsMade ==
  ASSUME NEW c \in Class, UNCHANGED <<today, term, marked>>,
         NEW ls, ls = lesson'[c], NEW w, w = class'[c].weekday,
         NEW closed, closed = Closed(class[c], holidays)',
         FitsWith(c, ls, w, closed)
  PROVE  Fits(c)'
<1>1. TermDates(w)' = TermDates(w)
  BY DEF TermDates
<1>2. /\ \A d \in TermDates(w) \ closed : ls[d] # NoLesson
      /\ \A d \in Day : ls[d] # NoLesson =>
           d < today \/ <<c, d>> \in marked \/ StillFits(ls[d], d, w, closed)
  BY DEF FitsWith
<1>3. FitsWith(c, ls, w, closed)'
  BY <1>1, <1>2 DEF FitsWith, StillFits
<1> QED
  BY <1>3 DEF Fits, FitsWith, StillFits

LEMMA Raced ==
  ASSUME TypeOK, Race
  PROVE  /\ pass' \in Passes \cup {NoPass} /\ PassFresh'
         /\ pass = NoPass <=> pass' = NoPass
         /\ pass' = pass \/ NoPass \notin {pass, pass'}
<1>1. CASE pass = NoPass
  BY <1>1 DEF Race, PassFresh
<1>2. CASE pass # NoPass
  <2>1. pass \in Passes /\ pass' = [pass EXCEPT !.raced = TRUE]
    BY <1>2 DEF TypeOK, Race
  <2> QED
    BY <1>2, <2>1, PassFields DEF PassFresh
<1> QED
  BY <1>1, <1>2

LEMMA ApplyHolidaysOK ==
  ASSUME CalendarOK, CalendarAssumption, NEW hs \in SUBSET Holiday, apply_holidays(hs)
  PROVE  CalendarOK' /\ KeepsStep
<1> DEFINE touched == {c \in Class : term.linked /\ HasLessons(c)}
<1>1. /\ Cardinality(hs) <= MaxHolidays /\ holidays' = hs
      /\ lesson' = [c \in Class |->
            IF c \in touched THEN generate_sessions(c, class[c], hs) ELSE lesson[c]]
      /\ told' = ToldOnly(lesson') /\ synced' = synced \ Overlooked(hs) /\ Race
      /\ UNCHANGED <<today, term, class, marked, edits, plans>>
  BY DEF apply_holidays, SetLessons
<1>2. TypeOK
  BY DEF CalendarOK
<1>3. \A c \in Class : class[c] \in Schedule /\ lesson[c] \in [Day -> Lesson]
  BY <1>2 DEF TypeOK
<1>4. lesson' \in [Class -> [Day -> Lesson]]
  BY <1>1, <1>2, <1>3, GenerateFacts
<1>5. GentleStep
  <2> SUFFICES ASSUME NEW c \in Class, NEW d \in Day PROVE Gentle(c, d)
    BY DEF GentleStep
  <2>1. CASE c \in touched
    <3>1. lesson'[c] = generate_sessions(c, class[c], hs) /\ class' = class
      BY <1>1, <2>1
    <3> QED
      BY <1>2, <1>3, <3>1, GenerateFacts DEF Gentle
  <2>2. CASE c \notin touched
    BY <1>1, <2>2 DEF Gentle
  <2> QED
    BY <2>1, <2>2
<1>6. ToldRight' /\ told' \in [Lessons -> 0..Quiet]
  BY <1>1, <1>2, <1>5, GentleTold DEF CalendarOK
<1>7. marked' \subseteq {l \in Lessons : lesson'[l[1]][l[2]] # NoLesson}
  BY <1>1, <1>2, <1>5, GentleMarked
<1>8. TypeOK'
  BY <1>1, <1>2, <1>4, <1>6, <1>7, Raced DEF TypeOK
<1>9. ASSUME NEW c \in synced' PROVE Fits(c)'
  <2>1. c \in Class /\ c \in synced /\ c \notin Overlooked(hs) /\ Fits(c)
    BY <1>1, <1>2 DEF CalendarOK, SyncedFit, TypeOK
  <2>2. Closed(class[c], holidays)' = Closed(class[c], hs)
    BY <1>1 DEF Closed, TermHolidays
  <2>3. CASE c \in touched
    <3>1. lesson'[c] = generate_sessions(c, class[c], hs) /\ class'[c].weekday = class[c].weekday
      BY <1>1, <2>1, <2>3
    <3>2. FitsWith(c, lesson'[c], class'[c].weekday, Closed(class[c], hs))
      BY <1>2, <1>3, <2>1, <3>1, GenerateFacts
    <3> QED
      BY <1>1, <2>1, <2>2, <3>2, FitsMade
  <2>4. CASE c \notin touched
    <3>1. lesson'[c] = lesson[c] /\ class' = class
      BY <1>1, <2>1, <2>4
    <3>2. Closed(class[c], hs) = Closed(class[c], holidays)
      BY <2>1, <2>4 DEF Overlooked, Closed, TermHolidays
    <3> QED
      BY <1>1, <1>2, <2>1, <2>2, <3>1, <3>2, FitsStays, TermDays
  <2> QED
    BY <2>3, <2>4
<1> QED
  BY <1>1, <1>2, <1>5, <1>6, <1>8, <1>9, Raced, GentleKeeps DEF CalendarOK, SyncedFit

LEMMA HolidayEditOK ==
  ASSUME CalendarOK, CalendarAssumption, HolidayEdit
  PROVE  CalendarOK' /\ KeepsStep
<1>1. holidays \subseteq Holiday
  BY DEF CalendarOK, TypeOK
<1>2. \A name \in HolidayName, p \in HolidayDates : Holidays(name, p) \in Holiday
  BY DEF CalendarAssumption, Period, Holidays, Holiday
<1>3. ASSUME NEW name \in HolidayName, NEW p \in HolidayDates,
             AddHoliday(name, p) \/ upsert_holiday(name, p)
      PROVE  \E hs \in SUBSET Holiday : apply_holidays(hs)
  BY <1>1, <1>2, <1>3 DEF AddHoliday, upsert_holiday
<1>4. ASSUME NEW h \in holidays, DeleteHoliday(h)
      PROVE  \E hs \in SUBSET Holiday : apply_holidays(hs)
  BY <1>1, <1>4 DEF DeleteHoliday
<1>5. ASSUME NEW h \in holidays, NEW p \in HolidayDates, MoveHoliday(h, p)
      PROVE  \E hs \in SUBSET Holiday : apply_holidays(hs)
  <2>1. h.name \in HolidayName
    BY <1>1 DEF Holiday
  <2> QED
    BY <1>1, <1>2, <1>5, <2>1 DEF MoveHoliday
<1>6. ASSUME NEW S \in SUBSET (HolidayName \X HolidayDates),
             copy_holidays({Holidays(x[1], x[2]) : x \in S})
      PROVE  \E hs \in SUBSET Holiday : apply_holidays(hs)
  <2> DEFINE copies == {Holidays(x[1], x[2]) : x \in S}
  <2>1. copies \subseteq Holiday
    BY <1>2
  <2> HIDE DEF copies
  <2> QED
    BY <1>1, <1>6, <2>1 DEF copy_holidays, copies
<1> QED
  BY <1>3, <1>4, <1>5, <1>6, ApplyHolidaysOK DEF HolidayEdit

LEMMA ScheduleFields ==
  ASSUME NEW k \in Schedule
  PROVE  /\ k.weekday \in 0..(Week - 1) /\ k.runs \in BOOLEAN /\ k.status \in {"DRAFT", "PUBLISHED"}
         /\ \A s \in {"DRAFT", "PUBLISHED"} :
              /\ [k EXCEPT !.status = s] \in Schedule
              /\ [k EXCEPT !.status = s].weekday = k.weekday /\ [k EXCEPT !.status = s].runs = k.runs
         /\ \A w \in 0..(Week - 1), r \in BOOLEAN : [k EXCEPT !.weekday = w, !.runs = r] \in Schedule
BY DEF Schedule

(* The classes other than the one a step works on fit as they did.         *)
LEMMA OthersFit ==
  ASSUME TypeOK, CalendarAssumption, SyncedFit, UNCHANGED <<term, holidays>>,
         NEW c \in synced,
         lesson'[c] = lesson[c], class'[c].weekday = class[c].weekday,
         class'[c].runs = class[c].runs,
         \A d \in Day : <<c, d>> \in marked => <<c, d>> \in marked',
         today' \in Nat, today <= today'
  PROVE  Fits(c)'
<1>1. c \in Class /\ Fits(c)
  BY DEF TypeOK, SyncedFit
<1>2. Closed(class[c], holidays)' = Closed(class[c], holidays)
  BY DEF Closed, TermHolidays
<1> QED
  BY <1>1, <1>2, FitsStays

LEMMA Counters ==
  ASSUME TypeOK, CalendarAssumption
  PROVE  /\ Edit => edits' \in 0..MaxEdits /\ plans' \in 0..MaxPlans
         /\ Plan => edits' \in 0..MaxEdits /\ plans' \in 0..MaxPlans
BY DEF TypeOK, CalendarAssumption, Edit, Plan

(* A class reconciled in one step, its status changed with it perhaps.     *)
LEMMA RowsReconciled ==
  ASSUME CalendarOK, CalendarAssumption, NEW c \in Class,
         NEW k \in Schedule, NEW k2 \in Schedule, k2.weekday = k.weekday, k2.runs = k.runs,
         class' = [class EXCEPT ![c] = k2],
         lesson' = [lesson EXCEPT ![c] = generate_sessions(c, k, holidays)],
         told' = ToldOnly(lesson'), synced' = synced \cup {c}, Race,
         edits' \in 0..MaxEdits, plans' \in 0..MaxPlans,
         UNCHANGED <<today, term, holidays, marked>>
  PROVE  CalendarOK' /\ KeepsStep
<1>1. TypeOK /\ ToldRight /\ SyncedFit
  BY DEF CalendarOK
<1> DEFINE new == generate_sessions(c, k, holidays)
<1>2. /\ new \in [Day -> Lesson]
      /\ FitsWith(c, new, k.weekday, Closed(k, holidays))
      /\ \A d \in Day :
              \/ new[d] = lesson[c][d]
              \/ lesson[c][d] = NoLesson /\ new[d] = NewLesson
              \/ /\ new[d] = NoLesson
                 /\ ~(d < today) /\ <<c, d>> \notin marked
                 /\ lesson[c][d].keep => Weekday(d) # k.weekday
  BY <1>1, GenerateFacts
<1>3. lesson' = [lesson EXCEPT ![c] = new]
  OBVIOUS
<1> HIDE DEF new
<1>4. class \in [Class -> Schedule] /\ lesson \in [Class -> [Day -> Lesson]] /\ synced \subseteq Class
  BY <1>1 DEF TypeOK
<1>5. /\ class' \in [Class -> Schedule] /\ class'[c] = k2
      /\ lesson' \in [Class -> [Day -> Lesson]] /\ lesson'[c] = new
      /\ \A x \in Class \ {c} : class'[x] = class[x] /\ lesson'[x] = lesson[x]
  BY <1>2, <1>3, <1>4
<1>6. GentleStep
  <2> SUFFICES ASSUME NEW x \in Class, NEW d \in Day PROVE Gentle(x, d)
    BY DEF GentleStep
  <2>1. CASE x = c
    BY <1>2, <1>5, <2>1 DEF Gentle
  <2>2. CASE x # c
    BY <1>5, <2>2 DEF Gentle
  <2> QED
    BY <2>1, <2>2
<1>7. ToldRight' /\ told' \in [Lessons -> 0..Quiet]
  BY <1>1, <1>6, GentleTold
<1>8. marked' \subseteq {l \in Lessons : lesson'[l[1]][l[2]] # NoLesson}
  BY <1>1, <1>6, GentleMarked
<1>9. TypeOK'
  BY <1>1, <1>4, <1>5, <1>7, <1>8, Raced DEF TypeOK
<1>10. ASSUME NEW x \in synced' PROVE Fits(x)'
  <2>1. CASE x = c
    <3>1. Closed(class[c], holidays)' = Closed(k, holidays)
      BY <1>5 DEF Closed, TermHolidays
    <3>2. FitsWith(c, new, k.weekday, Closed(k, holidays))
      BY <1>2
    <3>3. new = lesson'[c] /\ k.weekday = class'[c].weekday
      BY <1>5
    <3>4. Fits(c)'
      BY <3>1, <3>2, <3>3, FitsMade
    <3> QED
      BY <2>1, <3>4
  <2>2. CASE x # c
    <3>1. x \in synced /\ x \in Class /\ lesson'[x] = lesson[x] /\ class'[x] = class[x]
      BY <1>4, <1>5, <2>2
    <3>2. today' \in Nat /\ today <= today'
      BY <1>1, TermDays
    <3> QED
      BY <1>1, <3>1, <3>2, OthersFit
  <2> QED
    BY <2>1, <2>2
<1> QED
  BY <1>1, <1>6, <1>7, <1>9, <1>10, Raced, GentleKeeps DEF CalendarOK, SyncedFit

LEMMA ReconcileOK ==
  ASSUME CalendarOK, CalendarAssumption, NEW c \in Class,
         publish_class(c) \/ regenerate_sessions(c)
  PROVE  CalendarOK' /\ KeepsStep
<1>1. TypeOK /\ class \in [Class -> Schedule] /\ class[c] \in Schedule
  BY DEF CalendarOK, TypeOK
<1>2. PICK s \in {"DRAFT", "PUBLISHED"} : Reconcile(c, s)
  BY <1>1, ScheduleFields DEF publish_class, regenerate_sessions
<1> DEFINE k2 == [class[c] EXCEPT !.status = s]
<1>3. k2 \in Schedule /\ k2.weekday = class[c].weekday /\ k2.runs = class[c].runs
  BY <1>1, ScheduleFields
<1>4. /\ class' = [class EXCEPT ![c] = k2]
      /\ lesson' = [lesson EXCEPT ![c] = generate_sessions(c, class[c], holidays)]
      /\ told' = ToldOnly(lesson') /\ synced' = synced \cup {c} /\ Race
      /\ UNCHANGED <<today, term, holidays, marked, edits, plans>>
  BY <1>2 DEF Reconcile, SetLessons
<1>5. edits' \in 0..MaxEdits /\ plans' \in 0..MaxPlans
  BY <1>1, <1>4 DEF TypeOK
<1> HIDE DEF k2
<1> QED
  BY <1>1, <1>3, <1>4, <1>5, RowsReconciled

LEMMA RebuildScheduleOK ==
  ASSUME CalendarOK, CalendarAssumption, NEW c \in Class, NEW w \in 0..(Week - 1), NEW r \in BOOLEAN,
         RebuildSchedule(c, w, r)
  PROVE  CalendarOK' /\ KeepsStep
<1>1. TypeOK /\ class[c] \in Schedule
  BY DEF CalendarOK, TypeOK
<1> DEFINE k == [class[c] EXCEPT !.weekday = w, !.runs = r]
<1>2. k \in Schedule
  BY <1>1, ScheduleFields
<1>3. /\ class' = [class EXCEPT ![c] = k]
      /\ lesson' = [lesson EXCEPT ![c] = generate_sessions(c, k, holidays)]
      /\ told' = ToldOnly(lesson') /\ synced' = synced \cup {c} /\ Race
      /\ UNCHANGED <<today, term, holidays, marked>>
      /\ edits' \in 0..MaxEdits /\ plans' \in 0..MaxPlans
  BY <1>1, Counters DEF RebuildSchedule, SetLessons
<1> HIDE DEF k
<1> QED
  BY <1>2, <1>3, RowsReconciled

(* A step that leaves the rows and their counters alone.                   *)
LEMMA RowsStay ==
  ASSUME TypeOK, CalendarAssumption, ToldRight, UNCHANGED <<lesson, told>>,
         today' \in Nat, today <= today'
  PROVE  /\ ToldRight' /\ told' \in [Lessons -> 0..Quiet] /\ GentleStep
         /\ lesson' \in [Class -> [Day -> Lesson]]
<1>1. ASSUME NEW l \in Lessons, l[2] >= today' PROVE l[2] >= today
  BY <1>1, LessonsFields
<1> QED
  BY <1>1 DEF ToldRight, TypeOK, GentleStep, Gentle

LEMMA SaveTermOK ==
  ASSUME CalendarOK, CalendarAssumption, NEW t \in Terms, SaveTerm(t)
  PROVE  CalendarOK' /\ KeepsStep
<1>1. TypeOK /\ ToldRight /\ today' \in Nat /\ today <= today'
  BY TermDays DEF CalendarOK, SaveTerm
<1>2. ToldRight' /\ GentleStep
  BY <1>1, RowsStay DEF SaveTerm
<1>3. TypeOK'
  BY <1>1, Raced, Counters DEF TypeOK, SaveTerm
<1> QED
  BY <1>1, <1>2, <1>3, Raced, GentleKeeps DEF CalendarOK, SyncedFit, SaveTerm

LEMMA SaveScheduleOK ==
  ASSUME CalendarOK, CalendarAssumption, NEW c \in Class, NEW w \in 0..(Week - 1), NEW r \in BOOLEAN,
         SaveSchedule(c, w, r)
  PROVE  CalendarOK' /\ KeepsStep
<1> DEFINE k == [class[c] EXCEPT !.weekday = w, !.runs = r]
<1>1. TypeOK /\ ToldRight /\ SyncedFit /\ today' \in Nat /\ today <= today'
  BY TermDays DEF CalendarOK, SaveSchedule
<1>2. class \in [Class -> Schedule] /\ k \in Schedule /\ synced \subseteq Class
  BY <1>1, ScheduleFields DEF TypeOK
<1>3. /\ class' = [class EXCEPT ![c] = k] /\ synced' = synced \ {c} /\ Race
      /\ UNCHANGED <<today, term, holidays, lesson, marked, told>>
      /\ edits' \in 0..MaxEdits /\ plans' \in 0..MaxPlans
  BY <1>1, Counters DEF SaveSchedule
<1> HIDE DEF k
<1>4. class' \in [Class -> Schedule] /\ \A x \in Class \ {c} : class'[x] = class[x]
  BY <1>2, <1>3
<1>5. ToldRight' /\ GentleStep
  BY <1>1, <1>3, RowsStay
<1>6. TypeOK'
  BY <1>1, <1>3, <1>4, Raced DEF TypeOK
<1>7. ASSUME NEW x \in synced' PROVE Fits(x)'
  <2>1. x \in synced /\ class'[x] = class[x] /\ lesson'[x] = lesson[x]
    BY <1>2, <1>3, <1>4
  <2> QED
    BY <1>1, <1>3, <2>1, OthersFit
<1> QED
  BY <1>1, <1>3, <1>5, <1>6, <1>7, Raced, GentleKeeps DEF CalendarOK, SyncedFit

LEMMA DayPassesOK ==
  ASSUME CalendarOK, CalendarAssumption, DayPasses
  PROVE  CalendarOK' /\ KeepsStep
<1>1. TypeOK /\ ToldRight /\ SyncedFit /\ PassFresh
  BY DEF CalendarOK
<1>2. today' \in Nat /\ today <= today' /\ today' \in Day
  BY <1>1, TermDays DEF DayPasses, TypeOK, Day
<1>3. UNCHANGED <<term, holidays, class, lesson, marked, told, pass, synced, edits, plans>>
  BY DEF DayPasses
<1>4. ToldRight' /\ GentleStep
  BY <1>1, <1>2, <1>3, RowsStay
<1>5. TypeOK'
  BY <1>1, <1>2, <1>3 DEF TypeOK
<1>6. ASSUME NEW x \in synced' PROVE Fits(x)'
  BY <1>1, <1>2, <1>3, <1>6, OthersFit
<1>7. PassFresh'
  BY <1>1, <1>3 DEF PassFresh, Closed, TermHolidays, TermDates
<1> QED
  BY <1>1, <1>4, <1>5, <1>6, <1>7, GentleKeeps DEF CalendarOK, SyncedFit

LEMMA NothingOK ==
  ASSUME CalendarOK, CalendarAssumption, UNCHANGED vars
  PROVE  CalendarOK' /\ KeepsStep
<1>1. TypeOK /\ ToldRight /\ SyncedFit /\ PassFresh
  BY DEF CalendarOK
<1>2. UNCHANGED <<today, term, holidays, class, lesson, marked, told, edits, plans, pass, synced>>
  BY DEF vars
<1>3. today' \in Nat /\ today <= today'
  BY <1>1, <1>2, TermDays
<1>4. TypeOK' /\ ToldRight' /\ GentleStep
  BY <1>1, <1>2, <1>3, RowsStay DEF TypeOK
<1>5. ASSUME NEW x \in synced' PROVE Fits(x)'
  BY <1>1, <1>2, <1>3, <1>5, OthersFit
<1>6. PassFresh'
  BY <1>1, <1>2 DEF PassFresh, Closed, TermHolidays, TermDates
<1> QED
  BY <1>1, <1>4, <1>5, <1>6, GentleKeeps DEF CalendarOK, SyncedFit

(* The first loop of a manual regeneration adds nothing to a class that    *)
(* fits; the second removes what no longer belongs.                        *)
LEMMA BeginActionOK ==
  ASSUME CalendarOK, CalendarAssumption, NEW c \in Class, NEW s \in {"DRAFT", "PUBLISHED"},
         BeginAction(c, s)
  PROVE  CalendarOK' /\ KeepsStep
<1>0. PICK w, closed : w = class[c].weekday /\ closed = Closed(class[c], holidays)
  OBVIOUS
<1> DEFINE k == [class[c] EXCEPT !.status = s]
           new == Created(lesson[c], w, closed)
           p == [class |-> c, closed |-> closed, weekday |-> w, raced |-> FALSE]
<1>1. TypeOK /\ ToldRight /\ SyncedFit
  BY DEF CalendarOK
<1>2. /\ class \in [Class -> Schedule] /\ class[c] \in Schedule
      /\ lesson \in [Class -> [Day -> Lesson]] /\ lesson[c] \in [Day -> Lesson] /\ synced \subseteq Class
  BY <1>1 DEF TypeOK
<1>3. k \in Schedule /\ k.weekday = class[c].weekday /\ k.runs = class[c].runs
      /\ w \in 0..(Week - 1)
  BY <1>0, <1>2, ScheduleFields
<1>4. /\ class' = [class EXCEPT ![c] = k] /\ lesson' = [lesson EXCEPT ![c] = new]
      /\ told' = ToldOnly(lesson') /\ pass' = p
      /\ edits' \in 0..MaxEdits /\ plans' \in 0..MaxPlans
      /\ UNCHANGED <<today, term, holidays, marked, synced>>
  BY <1>0, <1>1, Counters DEF BeginAction, SetLessons
<1>5. closed \subseteq Day
  BY <1>0 DEF Closed
<1>6. p \in Passes
  BY <1>3, <1>5 DEF Passes
<1>7. p.class = c /\ p.closed = closed /\ p.weekday = w
  OBVIOUS
<1> HIDE DEF k, p
<1>8. /\ new \in [Day -> Lesson]
      /\ \A d \in Day : \/ new[d] = lesson[c][d]
                        \/ lesson[c][d] = NoLesson /\ new[d] = NewLesson
      /\ \A d \in Day : d \in TermDates(w) \ closed => new[d] # NoLesson
  BY <1>2, CreatedFacts
<1>9. ASSUME c \in synced PROVE new = lesson[c]
  <2>1. \A d \in TermDates(w) \ closed : lesson[c][d] # NoLesson
    BY <1>0, <1>1, <1>9 DEF SyncedFit, Fits, FitsWith
  <2> QED
    BY <1>2, <2>1 DEF Created
<1> HIDE DEF new
<1>10. /\ class' \in [Class -> Schedule] /\ class'[c] = k
       /\ lesson' \in [Class -> [Day -> Lesson]] /\ lesson'[c] = new
       /\ \A x \in Class \ {c} : class'[x] = class[x] /\ lesson'[x] = lesson[x]
  BY <1>2, <1>3, <1>4, <1>8
<1>11. GentleStep
  <2> SUFFICES ASSUME NEW x \in Class, NEW d \in Day PROVE Gentle(x, d)
    BY DEF GentleStep
  <2>1. CASE x = c
    BY <1>8, <1>10, <2>1 DEF Gentle
  <2>2. CASE x # c
    BY <1>10, <2>2 DEF Gentle
  <2> QED
    BY <2>1, <2>2
<1>12. ToldRight' /\ told' \in [Lessons -> 0..Quiet]
       /\ marked' \subseteq {l \in Lessons : lesson'[l[1]][l[2]] # NoLesson}
  BY <1>1, <1>4, <1>11, GentleTold, GentleMarked
<1>13. TypeOK'
  BY <1>1, <1>2, <1>4, <1>6, <1>10, <1>12 DEF TypeOK
<1>14. ASSUME NEW x \in synced' PROVE Fits(x)'
  <2>1. x \in synced /\ x \in Class /\ today' \in Nat /\ today <= today'
    BY <1>1, <1>2, <1>4, TermDays
  <2>2. class'[x].weekday = class[x].weekday /\ class'[x].runs = class[x].runs /\ lesson'[x] = lesson[x]
    BY <1>3, <1>9, <1>10, <2>1
  <2> QED
    BY <1>1, <1>4, <2>1, <2>2, OthersFit
<1>15. PassFresh'
  <2>1. Closed(class[c], holidays)' = closed /\ class'[c].weekday = w
    BY <1>0, <1>3, <1>4, <1>10 DEF Closed, TermHolidays
  <2>2. TermDates(w)' = TermDates(w) /\ TermDates(w) \subseteq Day
    BY <1>1, <1>4, TermDays DEF TermDates
  <2>3. pass'.closed = closed /\ pass'.weekday = w /\ pass'.class = c
    BY <1>4, <1>7
  <2>4. ASSUME NEW d \in TermDates(w)' \ closed PROVE lesson'[c][d] # NoLesson
    BY <1>8, <1>10, <2>2
  <2>5. TermDates(pass.weekday)' = TermDates(w)'
    BY <2>3 DEF TermDates
  <2> QED
    BY <2>1, <2>3, <2>4, <2>5 DEF PassFresh
<1> QED
  BY <1>1, <1>11, <1>12, <1>13, <1>14, <1>15, GentleKeeps DEF CalendarOK, SyncedFit

LEMMA EndActionOK ==
  ASSUME CalendarOK, CalendarAssumption, EndAction
  PROVE  CalendarOK' /\ KeepsStep
<1>0. PICK c, w, closed : c = pass.class /\ w = pass.weekday /\ closed = pass.closed
  OBVIOUS
<1> DEFINE new == Pruned(c, lesson[c], w, closed)
<1>1. TypeOK /\ ToldRight /\ SyncedFit /\ PassFresh /\ pass # NoPass
  BY DEF CalendarOK, EndAction
<1>2. c \in Class /\ pass.raced \in BOOLEAN
  BY <1>0, <1>1, PassFields DEF TypeOK
<1>3. /\ class \in [Class -> Schedule]
      /\ lesson \in [Class -> [Day -> Lesson]] /\ lesson[c] \in [Day -> Lesson] /\ synced \subseteq Class
  BY <1>1, <1>2 DEF TypeOK
<1>4. /\ lesson' = [lesson EXCEPT ![c] = new] /\ told' = ToldOnly(lesson')
      /\ synced' = (IF pass.raced THEN synced \ {c} ELSE synced \cup {c}) /\ pass' = NoPass
      /\ UNCHANGED <<today, term, holidays, class, marked, edits, plans>>
  BY <1>0 DEF EndAction, SetLessons
<1>5. /\ new \in [Day -> Lesson]
      /\ \A d \in Day : \/ new[d] = lesson[c][d]
                        \/ /\ new[d] = NoLesson
                           /\ ~(d < today) /\ <<c, d>> \notin marked
                           /\ ~StillFits(lesson[c][d], d, w, closed)
  BY <1>3, PrunedFacts
<1>6. ASSUME \A d \in TermDates(w) \ closed : lesson[c][d] # NoLesson
      PROVE  FitsWith(c, new, w, closed)
  BY <1>1, <1>2, <1>3, <1>6, PrunedFits
<1> HIDE DEF new
<1>7. /\ lesson' \in [Class -> [Day -> Lesson]] /\ lesson'[c] = new
      /\ \A x \in Class \ {c} : lesson'[x] = lesson[x]
  BY <1>2, <1>3, <1>4, <1>5
<1>8. GentleStep
  <2> SUFFICES ASSUME NEW x \in Class, NEW d \in Day PROVE Gentle(x, d)
    BY DEF GentleStep
  <2>1. CASE x = c
    <3>1. ~StillFits(lesson[c][d], d, w, closed) /\ lesson[c][d].keep => Weekday(d) # pass.weekday
      BY <1>0 DEF StillFits
    <3> QED
      BY <1>1, <1>5, <1>7, <2>1, <3>1 DEF Gentle
  <2>2. CASE x # c
    BY <1>7, <2>2 DEF Gentle
  <2> QED
    BY <2>1, <2>2
<1>9. ToldRight' /\ told' \in [Lessons -> 0..Quiet]
      /\ marked' \subseteq {l \in Lessons : lesson'[l[1]][l[2]] # NoLesson}
  BY <1>1, <1>4, <1>8, GentleTold, GentleMarked
<1>10. TypeOK'
  BY <1>1, <1>2, <1>3, <1>4, <1>7, <1>9 DEF TypeOK
<1>11. ASSUME NEW x \in synced' PROVE Fits(x)'
  <2>1. today' \in Nat /\ today <= today'
    BY <1>1, <1>4, TermDays
  <2>2. CASE x = c
    <3>1. ~pass.raced
      BY <1>2, <1>4, <2>2
    <3>2. /\ closed = Closed(class[c], holidays) /\ w = class[c].weekday
          /\ \A d \in TermDates(w) \ closed : lesson[c][d] # NoLesson
      BY <1>0, <1>1, <3>1 DEF PassFresh
    <3>3. FitsWith(c, new, w, closed)
      BY <1>6, <3>2
    <3>4. Closed(class[c], holidays)' = closed
      BY <1>4, <3>2 DEF Closed, TermHolidays
    <3>5. class'[c].weekday = w /\ UNCHANGED <<today, term, marked>>
      BY <1>4, <3>2
    <3>6. Fits(c)'
      BY <1>2, <1>7, <3>3, <3>4, <3>5, FitsMade
    <3> QED
      BY <2>2, <3>6
  <2>3. CASE x # c
    <3>1. x \in synced /\ x \in Class /\ lesson'[x] = lesson[x] /\ class'[x] = class[x]
      BY <1>3, <1>4, <1>7, <2>3
    <3> QED
      BY <1>1, <1>4, <2>1, <3>1, OthersFit
  <2> QED
    BY <2>2, <2>3
<1>12. PassFresh'
  BY <1>4 DEF PassFresh
<1> QED
  BY <1>1, <1>8, <1>9, <1>10, <1>11, <1>12, GentleKeeps DEF CalendarOK, SyncedFit

(* Steps on single lessons.                                                *)
LEMMA Notified ==
  ASSUME TypeOK, CalendarAssumption, ToldRight, UNCHANGED today,
         NEW fresh, notify_lessons_cancelled(lesson', fresh),
         \A l \in Lessons : l \in fresh => /\ lesson[l[1]][l[2]].state # "off"
                                           /\ lesson'[l[1]][l[2]].state = "off",
         \A l \in Lessons : lesson'[l[1]][l[2]].state = "off" =>
                              l \in fresh \/ lesson[l[1]][l[2]].state = "off"
  PROVE  ToldRight' /\ told' \in [Lessons -> 0..Quiet]
<1>1. told' = [l \in Lessons |->
                 IF l \in fresh /\ l[2] >= today
                 THEN IF ToldOnly(lesson')[l] = 0 THEN 1 ELSE 2
                 ELSE ToldOnly(lesson')[l]]
  BY DEF notify_lessons_cancelled
<1>2. ASSUME NEW l \in Lessons
      PROVE  /\ told'[l] \in 0..Quiet
             /\ lesson'[l[1]][l[2]].state # "off" => told'[l] = 0
             /\ lesson'[l[1]][l[2]].state = "off" =>
                  told'[l] # 2 /\ (l[2] >= today => told'[l] \in {1, Quiet})
  <2>1. ToldOnly(lesson')[l] = IF lesson'[l[1]][l[2]].state = "off" THEN told[l] ELSE 0
    BY DEF ToldOnly
  <2>2. told[l] \in 0..Quiet /\ 0 \in 0..Quiet /\ 1 \in 0..Quiet /\ Quiet = 3
    BY DEF TypeOK, Quiet
  <2>3. /\ lesson[l[1]][l[2]].state # "off" => told[l] = 0
        /\ lesson[l[1]][l[2]].state = "off" => told[l] # 2 /\ (l[2] >= today => told[l] \in {1, Quiet})
    BY DEF ToldRight
  <2>4. CASE l \in fresh /\ l[2] >= today
    <3>1. told'[l] = IF ToldOnly(lesson')[l] = 0 THEN 1 ELSE 2
      BY <1>1, <2>4
    <3>2. ToldOnly(lesson')[l] = 0
      BY <2>1, <2>3, <2>4
    <3> QED
      BY <2>2, <2>4, <3>1, <3>2
  <2>5. CASE ~(l \in fresh /\ l[2] >= today)
    <3>1. told'[l] = ToldOnly(lesson')[l]
      BY <1>1, <2>5
    <3>2. CASE lesson'[l[1]][l[2]].state = "off" /\ lesson[l[1]][l[2]].state = "off"
      BY <2>1, <2>2, <2>3, <3>1, <3>2
    <3>3. CASE lesson'[l[1]][l[2]].state = "off" /\ lesson[l[1]][l[2]].state # "off"
      BY <2>1, <2>2, <2>3, <2>5, <3>1, <3>3
    <3>4. CASE lesson'[l[1]][l[2]].state # "off"
      BY <2>1, <2>2, <3>1, <3>4
    <3> QED
      BY <3>2, <3>3, <3>4
  <2> QED
    BY <2>4, <2>5
<1>3. told' \in [Lessons -> 0..Quiet]
  BY <1>1, <1>2
<1> QED
  BY <1>2, <1>3 DEF ToldRight

LEMMA MarkedFacts ==
  ASSUME TypeOK, CalendarAssumption, NEW c \in Class, NEW dates \in SUBSET Day,
         NEW s \in {"on", "off"}, \A l \in {c} \X dates : There(l)
  PROVE  /\ Marked(c, dates, s) \in [Class -> [Day -> Lesson]]
         /\ \A x \in Class, d \in Day :
              /\ x = c /\ d \in dates =>
                   /\ Marked(c, dates, s)[x][d].state = s
                   /\ lesson[x][d].state \in {"on", "off"}
              /\ ~(x = c /\ d \in dates) => Marked(c, dates, s)[x][d] = lesson[x][d]
              /\ Marked(c, dates, s)[x][d] # NoLesson <=> lesson[x][d] # NoLesson
              /\ Marked(c, dates, s)[x][d].keep = lesson[x][d].keep
<1> DEFINE row == [d \in Day |-> IF d \in dates THEN [lesson[c][d] EXCEPT !.state = s] ELSE lesson[c][d]]
<1>1. lesson \in [Class -> [Day -> Lesson]] /\ lesson[c] \in [Day -> Lesson]
  BY DEF TypeOK
<1>2. Marked(c, dates, s) = [lesson EXCEPT ![c] = row]
  BY <1>1 DEF Marked
<1>3. ASSUME NEW d \in dates
      PROVE  /\ lesson[c][d].state \in {"on", "off"}
             /\ [lesson[c][d] EXCEPT !.state = s] \in Lesson
             /\ [lesson[c][d] EXCEPT !.state = s] # NoLesson
             /\ [lesson[c][d] EXCEPT !.state = s].state = s
             /\ [lesson[c][d] EXCEPT !.state = s].keep = lesson[c][d].keep
  <2>1. <<c, d>> \in {c} \X dates /\ d \in Day
    OBVIOUS
  <2>2. lesson[c][d] # NoLesson /\ lesson[c][d] \in Lesson
    BY <1>1, <2>1 DEF There
  <2>3. lesson[c][d] \in [state : {"on", "off"}, keep : BOOLEAN]
    BY <2>2 DEF Lesson
  <2>4. /\ [lesson[c][d] EXCEPT !.state = s] \in [state : {"on", "off"}, keep : BOOLEAN]
        /\ [lesson[c][d] EXCEPT !.state = s].state = s
        /\ [lesson[c][d] EXCEPT !.state = s].keep = lesson[c][d].keep
    BY <2>3
  <2>5. [lesson[c][d] EXCEPT !.state = s] \in Lesson
    BY <2>4 DEF Lesson
  <2> QED
    BY <2>3, <2>4, <2>5, LessonFields
<1>4. row \in [Day -> Lesson]
  BY <1>1, <1>3
<1>5. \A d \in Day : row[d] = IF d \in dates THEN [lesson[c][d] EXCEPT !.state = s] ELSE lesson[c][d]
  OBVIOUS
<1> HIDE DEF row
<1>6. [lesson EXCEPT ![c] = row] \in [Class -> [Day -> Lesson]]
  BY <1>1, <1>4
<1>7. ASSUME NEW x \in Class, NEW d \in Day
      PROVE  [lesson EXCEPT ![c] = row][x][d] = IF x = c /\ d \in dates
               THEN [lesson[c][d] EXCEPT !.state = s] ELSE lesson[x][d]
  BY <1>1, <1>5
<1>8. ASSUME NEW x \in Class, NEW d \in Day
      PROVE  LET m == [lesson EXCEPT ![c] = row][x][d]
             IN  /\ x = c /\ d \in dates => m.state = s /\ lesson[x][d].state \in {"on", "off"}
                 /\ ~(x = c /\ d \in dates) => m = lesson[x][d]
                 /\ m # NoLesson <=> lesson[x][d] # NoLesson
                 /\ m.keep = lesson[x][d].keep
  <2>1. CASE x = c /\ d \in dates
    <3>1. lesson[x][d] # NoLesson
      BY <1>1, <1>3, <2>1, LessonFields
    <3> DEFINE m == [lesson[c][d] EXCEPT !.state = s]
    <3>2. m # NoLesson /\ m.state = s /\ m.keep = lesson[c][d].keep /\ lesson[c][d].state \in {"on", "off"}
      BY <1>3, <2>1
    <3>3. [lesson EXCEPT ![c] = row][x][d] = m
      BY <1>7, <2>1
    <3> HIDE DEF m
    <3> QED
      BY <2>1, <3>1, <3>2, <3>3
  <2>2. CASE ~(x = c /\ d \in dates)
    BY <1>7, <2>2
  <2> QED
    BY <2>1, <2>2
<1> QED
  BY <1>2, <1>6, <1>8

(* The lessons of some dates called off or restored. *)
LEMMA LessonsMarked ==
  ASSUME CalendarOK, CalendarAssumption, NEW c \in Class, NEW dates \in SUBSET Day,
         NEW s \in {"on", "off"}, \A l \in {c} \X dates : There(l),
         lesson' = Marked(c, dates, s), told' \in [Lessons -> 0..Quiet], ToldRight',
         UNCHANGED <<today, term, holidays, class, marked, pass, synced, edits, plans>>
  PROVE  CalendarOK' /\ KeepsStep
<1>1. TypeOK /\ SyncedFit /\ PassFresh /\ synced \subseteq Class
  BY DEF CalendarOK, TypeOK
<1>2. /\ lesson' \in [Class -> [Day -> Lesson]]
      /\ \A x \in Class, d \in Day : /\ lesson'[x][d] # NoLesson <=> lesson[x][d] # NoLesson
                                     /\ lesson'[x][d].keep = lesson[x][d].keep
  BY <1>1, MarkedFacts
<1>3. ASSUME NEW l \in marked PROVE l \in Lessons /\ lesson'[l[1]][l[2]] # NoLesson
  <2>1. l \in Lessons /\ lesson[l[1]][l[2]] # NoLesson
    BY <1>1 DEF TypeOK
  <2> QED
    BY <1>1, <1>2, <2>1, LessonsFields
<1>4. TypeOK'
  BY <1>1, <1>2, <1>3 DEF TypeOK
<1>5. ASSUME NEW x \in synced PROVE Fits(x)'
  <2>1. x \in Class /\ Fits(x) /\ today' \in Nat /\ today <= today'
    BY <1>1, TermDays DEF SyncedFit
  <2>2. Closed(class[x], holidays)' = Closed(class[x], holidays)
    BY DEF Closed, TermHolidays
  <2> QED
    BY <1>1, <1>2, <2>1, <2>2, FitsStays
<1>6. PassFresh'
  <2> SUFFICES ASSUME pass # NoPass, ~pass.raced PROVE PassFresh'
    BY DEF PassFresh
  <2>1. pass.class \in Class /\ TermDates(pass.weekday) \subseteq Day
    BY <1>1, PassFields, TermDays DEF TypeOK
  <2>2. TermDates(pass.weekday)' = TermDates(pass.weekday)
        /\ Closed(class[pass.class], holidays)' = Closed(class[pass.class], holidays)
    BY DEF TermDates, Closed, TermHolidays
  <2> QED
    BY <1>1, <1>2, <2>1, <2>2 DEF PassFresh
<1>7. KeepsStep
  BY DEF KeepsStep, CalendarStep
<1> QED
  BY <1>1, <1>4, <1>5, <1>6, <1>7 DEF CalendarOK, SyncedFit

LEMMA CancelOK ==
  ASSUME CalendarOK, CalendarAssumption, NEW c \in Class, NEW dates \in SUBSET Day,
         cancel_sessions(c, dates)
  PROVE  CalendarOK' /\ KeepsStep
<1> DEFINE fresh == {l \in {c} \X dates : On(l)}
<1>1. TypeOK /\ ToldRight
  BY DEF CalendarOK
<1>2. /\ \A l \in {c} \X dates : There(l)
      /\ lesson' = Marked(c, dates, "off") /\ notify_lessons_cancelled(lesson', fresh)
      /\ UNCHANGED <<today, term, holidays, class, marked, pass, synced, edits, plans>>
  BY DEF cancel_sessions
<1>3. \A x \in Class, d \in Day :
              /\ x = c /\ d \in dates => lesson'[x][d].state = "off" /\ lesson[x][d].state \in {"on", "off"}
              /\ ~(x = c /\ d \in dates) => lesson'[x][d] = lesson[x][d]
  BY <1>1, <1>2, MarkedFacts
<1>4. ASSUME NEW l \in Lessons
      PROVE  /\ l \in fresh <=> l[1] = c /\ l[2] \in dates /\ lesson[l[1]][l[2]].state = "on"
             /\ l[1] \in Class /\ l[2] \in Day
  BY <1>1, LessonsFields DEF On
<1> HIDE DEF fresh
<1>5. ToldRight' /\ told' \in [Lessons -> 0..Quiet]
  BY <1>1, <1>2, <1>3, <1>4, Notified
<1> QED
  BY <1>2, <1>5, LessonsMarked

LEMMA RestoreOK ==
  ASSUME CalendarOK, CalendarAssumption, NEW c \in Class, NEW dates \in SUBSET Day,
         restore_sessions(c, dates)
  PROVE  CalendarOK' /\ KeepsStep
<1>1. TypeOK /\ ToldRight
  BY DEF CalendarOK
<1>2. /\ \A l \in {c} \X dates : There(l)
      /\ lesson' = Marked(c, dates, "on") /\ told' = ToldOnly(lesson')
      /\ UNCHANGED <<today, term, holidays, class, marked, pass, synced, edits, plans>>
  BY DEF restore_sessions, SetLessons
<1>3. \A x \in Class, d \in Day : lesson'[x][d].state = "off" => lesson[x][d].state = "off"
  BY <1>1, <1>2, MarkedFacts
<1>4. notify_lessons_cancelled(lesson', {})
  BY <1>2 DEF notify_lessons_cancelled, ToldOnly
<1>5. ToldRight' /\ told' \in [Lessons -> 0..Quiet]
  BY <1>1, <1>2, <1>3, <1>4, Notified, LessonsFields
<1> QED
  BY <1>2, <1>5, LessonsMarked

LEMMA TakeAttendanceOK ==
  ASSUME CalendarOK, CalendarAssumption, NEW c \in Class, NEW d \in Day, TakeAttendance(c, d)
  PROVE  CalendarOK' /\ KeepsStep
<1>1. TypeOK /\ ToldRight /\ SyncedFit /\ PassFresh
  BY DEF CalendarOK
<1>2. /\ lesson[c][d] # NoLesson /\ marked' = marked \cup {<<c, d>>}
      /\ UNCHANGED <<today, term, holidays, class, lesson, told, pass, synced, edits, plans>>
  BY DEF TakeAttendance, There
<1>3. today' \in Nat /\ today <= today'
  BY <1>1, <1>2, TermDays
<1>4. ToldRight'
  BY <1>1, <1>2, <1>3, RowsStay
<1>5. <<c, d>> \in {l \in Lessons : lesson[l[1]][l[2]] # NoLesson}
  BY <1>2 DEF Lessons
<1>6. TypeOK'
  BY <1>1, <1>2, <1>5 DEF TypeOK
<1>7. ASSUME NEW x \in synced' PROVE Fits(x)'
  BY <1>1, <1>2, <1>3, <1>7, OthersFit
<1>8. PassFresh' /\ KeepsStep
  BY <1>1, <1>2 DEF PassFresh, Closed, TermHolidays, TermDates, KeepsStep, CalendarStep
<1> QED
  BY <1>4, <1>6, <1>7, <1>8 DEF CalendarOK, SyncedFit

LEMMA DeleteRegisterOK ==
  ASSUME CalendarOK, CalendarAssumption, NEW c \in Class, NEW d \in Day, DeleteRegister(c, d)
  PROVE  CalendarOK' /\ KeepsStep
<1>1. TypeOK /\ ToldRight /\ SyncedFit /\ PassFresh
  BY DEF CalendarOK
<1>2. /\ marked' = marked \ {<<c, d>>} /\ synced' = synced \ {c}
      /\ UNCHANGED <<today, term, holidays, class, lesson, told, pass>>
      /\ edits' \in 0..MaxEdits /\ plans' \in 0..MaxPlans
  BY <1>1, Counters DEF DeleteRegister
<1>3. today' \in Nat /\ today <= today'
  BY <1>1, <1>2, TermDays
<1>4. ToldRight'
  BY <1>1, <1>2, <1>3, RowsStay
<1>5. TypeOK'
  BY <1>1, <1>2 DEF TypeOK
<1>6. ASSUME NEW x \in synced' PROVE Fits(x)'
  <2>1. x \in synced /\ x # c
    BY <1>2
  <2>2. \A n \in Day : <<x, n>> \in marked => <<x, n>> \in marked'
    BY <1>2, <2>1
  <2> QED
    BY <1>1, <1>2, <1>3, <2>1, <2>2, OthersFit
<1>7. PassFresh' /\ KeepsStep
  BY <1>1, <1>2 DEF PassFresh, Closed, TermHolidays, TermDates, KeepsStep, CalendarStep
<1> QED
  BY <1>4, <1>5, <1>6, <1>7 DEF CalendarOK, SyncedFit

(* A row edited by hand: its class no longer counts as reconciled.         *)
LEMMA RowEdited ==
  ASSUME CalendarOK, CalendarAssumption, NEW c \in Class,
         lesson' \in [Class -> [Day -> Lesson]], \A x \in Class \ {c} : lesson'[x] = lesson[x],
         told' \in [Lessons -> 0..Quiet], ToldRight',
         marked' \subseteq {l \in Lessons : lesson'[l[1]][l[2]] # NoLesson},
         \A x \in Class \ {c}, d \in Day : <<x, d>> \in marked => <<x, d>> \in marked',
         synced' = synced \ {c}, Edit, Race,
         UNCHANGED <<today, term, holidays, class>>
  PROVE  CalendarOK' /\ KeepsStep
<1>1. TypeOK /\ SyncedFit /\ synced \subseteq Class /\ today' \in Nat /\ today <= today'
  BY TermDays DEF CalendarOK, TypeOK
<1>2. /\ edits' \in 0..MaxEdits /\ plans' \in 0..MaxPlans
      /\ pass' \in Passes \cup {NoPass} /\ PassFresh' /\ ~(pass' # pass /\ NoPass \in {pass, pass'})
  BY <1>1, Counters, Raced
<1>3. TypeOK'
  BY <1>1, <1>2 DEF TypeOK
<1>4. ASSUME NEW x \in synced' PROVE Fits(x)'
  <2>1. x \in synced /\ x \in Class \ {c}
    BY <1>1
  <2> QED
    BY <1>1, <2>1, OthersFit
<1>5. KeepsStep
  BY <1>2 DEF KeepsStep, CalendarStep
<1> QED
  BY <1>2, <1>3, <1>4, <1>5 DEF CalendarOK, SyncedFit

LEMMA SaveRowOK ==
  ASSUME CalendarOK, CalendarAssumption, NEW c \in Class, NEW d \in Day, NEW new \in Lesson,
         SaveRow(c, d, new)
  PROVE  CalendarOK' /\ KeepsStep
<1> DEFINE fresh == {<<c, d>>} \cap {l \in Lessons : new.state = "off" /\ lesson[c][d].state # "off"}
<1>1. TypeOK /\ ToldRight /\ lesson \in [Class -> [Day -> Lesson]]
  BY DEF CalendarOK, TypeOK
<1>2. /\ lesson' = [lesson EXCEPT ![c][d] = new] /\ notify_lessons_cancelled(lesson', fresh)
      /\ marked' = (IF new = NoLesson THEN marked \ {<<c, d>>} ELSE marked)
      /\ synced' = synced \ {c} /\ Edit /\ Race
      /\ UNCHANGED <<today, term, holidays, class>>
  BY DEF SaveRow
<1>3. /\ lesson' \in [Class -> [Day -> Lesson]] /\ \A x \in Class \ {c} : lesson'[x] = lesson[x]
      /\ \A x \in Class, e \in Day :
           lesson'[x][e] = IF x = c /\ e = d THEN new ELSE lesson[x][e]
  BY <1>1, <1>2
<1>4. ASSUME NEW l \in Lessons
      PROVE  l \in fresh <=> /\ l[1] = c /\ l[2] = d
                             /\ new.state = "off" /\ lesson[c][d].state # "off"
  BY <1>1, LessonsFields
<1> HIDE DEF fresh
<1>5. ToldRight' /\ told' \in [Lessons -> 0..Quiet]
  <2>1. ASSUME NEW l \in Lessons
        PROVE  /\ l \in fresh => /\ lesson[l[1]][l[2]].state # "off"
                                 /\ lesson'[l[1]][l[2]].state = "off"
               /\ lesson'[l[1]][l[2]].state = "off" =>
                              l \in fresh \/ lesson[l[1]][l[2]].state = "off"
    <3>1. l[1] \in Class /\ l[2] \in Day
      BY <1>1, LessonsFields
    <3> QED
      BY <1>3, <1>4, <3>1
  <2> QED
    BY <1>1, <1>2, <2>1, Notified
<1>6. ASSUME NEW l \in marked' PROVE l \in Lessons /\ lesson'[l[1]][l[2]] # NoLesson
  <2>1. l \in marked /\ l \in Lessons /\ lesson[l[1]][l[2]] # NoLesson
    BY <1>1, <1>2 DEF TypeOK
  <2>2. l[1] \in Class /\ l[2] \in Day /\ l = <<l[1], l[2]>>
    BY <1>1, <2>1, LessonsFields
  <2> QED
    BY <1>2, <1>3, <2>1, <2>2
<1>7. ASSUME NEW x \in Class \ {c}, NEW e \in Day, <<x, e>> \in marked PROVE <<x, e>> \in marked'
  BY <1>2, <1>7
<1> QED
  BY <1>2, <1>3, <1>5, <1>6, <1>7, RowEdited

LEMMA MoveRowOK ==
  ASSUME CalendarOK, CalendarAssumption, NEW c \in Class, NEW d \in Day, NEW e \in Day,
         MoveRow(c, d, e)
  PROVE  CalendarOK' /\ KeepsStep
<1>1. TypeOK /\ ToldRight /\ lesson \in [Class -> [Day -> Lesson]]
  BY DEF CalendarOK, TypeOK
<1>2. /\ lesson[c][d] # NoLesson /\ lesson[c][e] = NoLesson /\ d # e
      /\ lesson' = [lesson EXCEPT ![c][d] = NoLesson, ![c][e] = lesson[c][d]]
      /\ told' = [ToldOnly(lesson') EXCEPT ![<<c, e>>] = IF On(<<c, d>>) THEN 0 ELSE Quiet]
      /\ marked' = (IF <<c, d>> \in marked THEN (marked \ {<<c, d>>}) \cup {<<c, e>>}
                                           ELSE marked \ {<<c, e>>})
      /\ synced' = synced \ {c} /\ Edit /\ Race
      /\ UNCHANGED <<today, term, holidays, class>>
  BY DEF MoveRow, There
<1>3. \A x \in Class, n \in Day :
           lesson'[x][n] = IF x = c /\ n = d THEN NoLesson
                           ELSE IF x = c /\ n = e THEN lesson[c][d] ELSE lesson[x][n]
  BY <1>1, <1>2
<1>4. /\ lesson' \in [Class -> [Day -> Lesson]] /\ \A x \in Class \ {c} : lesson'[x] = lesson[x]
  BY <1>1, <1>2, LessonFields
<1>5. ASSUME NEW l \in Lessons
      PROVE  /\ told'[l] \in 0..Quiet
             /\ lesson'[l[1]][l[2]].state # "off" => told'[l] = 0
             /\ lesson'[l[1]][l[2]].state = "off" =>
                  told'[l] # 2 /\ (l[2] >= today' => told'[l] \in {1, Quiet})
  <2>1. l[1] \in Class /\ l[2] \in Day /\ l = <<l[1], l[2]>> /\ lesson[c][d] \in Lesson
    BY <1>1, LessonsFields
  <2>2. ToldOnly(lesson')[l] = IF lesson'[l[1]][l[2]].state = "off" THEN told[l] ELSE 0
    BY DEF ToldOnly
  <2>3. told[l] \in 0..Quiet /\ 0 \in 0..Quiet /\ Quiet \in 0..Quiet /\ Quiet = 3
    BY <1>1 DEF TypeOK, Quiet
  <2>4. told'[l] = IF l = <<c, e>> THEN (IF On(<<c, d>>) THEN 0 ELSE Quiet) ELSE ToldOnly(lesson')[l]
    BY <1>2 DEF ToldOnly
  <2>5. CASE l = <<c, e>>
    <3>1. lesson'[l[1]][l[2]] = lesson[c][d]
      BY <1>2, <1>3, <2>1, <2>5
    <3>2. lesson[c][d].state \in {"on", "off"}
      BY <1>2, <2>1, LessonFields
    <3> QED
      BY <2>3, <2>4, <2>5, <3>1, <3>2 DEF On
  <2>6. CASE l # <<c, e>>
    <3>1. told'[l] = ToldOnly(lesson')[l]
      BY <2>4, <2>6
    <3>2. lesson'[l[1]][l[2]].state = "off" => lesson[l[1]][l[2]].state = "off"
      BY <1>3, <2>1, <2>6, LessonFields
    <3>3. lesson'[l[1]][l[2]].state = "off" => told'[l] = told[l]
      BY <2>2, <3>1
    <3>4. /\ lesson[l[1]][l[2]].state = "off" =>
               told[l] # 2 /\ (l[2] >= today => told[l] \in {1, Quiet})
      BY <1>1 DEF ToldRight
    <3> QED
      BY <1>2, <2>2, <2>3, <3>1, <3>2, <3>3, <3>4
  <2> QED
    BY <2>5, <2>6
<1>6. told' \in [Lessons -> 0..Quiet]
  BY <1>2, <1>5 DEF ToldOnly
<1>7. ToldRight'
  BY <1>5 DEF ToldRight
<1>8. ASSUME NEW l \in marked' PROVE l \in Lessons /\ lesson'[l[1]][l[2]] # NoLesson
  <2>1. CASE l = <<c, e>>
    BY <1>2, <1>3, <2>1 DEF Lessons
  <2>2. CASE l # <<c, e>>
    <3>1. l \in marked /\ l # <<c, d>>
      BY <1>2, <2>2
    <3>2. l \in Lessons /\ lesson[l[1]][l[2]] # NoLesson
      BY <1>1, <3>1 DEF TypeOK
    <3>3. l[1] \in Class /\ l[2] \in Day /\ l = <<l[1], l[2]>>
      BY <1>1, <3>2, LessonsFields
    <3> QED
      BY <1>3, <2>2, <3>1, <3>2, <3>3
  <2> QED
    BY <2>1, <2>2
<1>9. ASSUME NEW x \in Class \ {c}, NEW n \in Day, <<x, n>> \in marked PROVE <<x, n>> \in marked'
  BY <1>2, <1>9
<1> QED
  BY <1>2, <1>4, <1>6, <1>7, <1>8, <1>9, RowEdited

-----------------------------------------------------------------------------
(* The invariant. *)

LEMMA InitCalendar ==
  ASSUME CalendarAssumption, Init PROVE CalendarOK
<1>1. 1 \in Day /\ Cardinality({}) = 0 /\ 0 \in 0..(Week - 1)
  BY FS_EmptySet DEF CalendarAssumption, Day
<1>2. class \in [Class -> Schedule]
  BY <1>1 DEF Init, Schedule
<1>3. lesson \in [Class -> [Day -> Lesson]]
  BY LessonFields DEF Init
<1>4. told \in [Lessons -> 0..Quiet]
  BY DEF Init, Quiet
<1>5. TypeOK
  BY <1>1, <1>2, <1>3, <1>4 DEF Init, TypeOK, CalendarAssumption
<1>6. ToldRight
  BY LessonFields DEF Init, ToldRight, Lessons
<1> QED
  BY <1>5, <1>6 DEF CalendarOK, SyncedFit, PassFresh, Init

LEMMA NextCalendar ==
  ASSUME CalendarOK, CalendarAssumption, [Next]_vars
  PROVE  CalendarOK' /\ KeepsStep
<1>1. CASE HolidayEdit
  BY <1>1, HolidayEditOK
<1>2. CASE ScheduleEdit
  BY <1>2, SaveTermOK, SaveScheduleOK, RebuildScheduleOK DEF ScheduleEdit
<1>3. CASE Reconciliation
  <2>1. ASSUME NEW c \in Class, publish_classes(c) \/ regenerate_classes(c)
        PROVE  \E s \in {"DRAFT", "PUBLISHED"} : BeginAction(c, s)
    <3>1. class[c].status \in {"DRAFT", "PUBLISHED"}
      BY ScheduleFields DEF CalendarOK, TypeOK
    <3> QED
      BY <2>1, <3>1 DEF publish_classes, regenerate_classes
  <2> QED
    BY <1>3, <2>1, ReconcileOK, BeginActionOK, EndActionOK DEF Reconciliation
<1>4. CASE LessonEdit
  BY <1>4, CancelOK, RestoreOK, SaveRowOK, MoveRowOK, TakeAttendanceOK, DeleteRegisterOK
  DEF LessonEdit
<1>5. CASE DayPasses
  BY <1>5, DayPassesOK
<1>6. CASE UNCHANGED vars
  BY <1>6, NothingOK
<1> QED
  BY <1>1, <1>2, <1>3, <1>4, <1>5, <1>6 DEF Next

LEMMA CalendarInvariant == Spec => []CalendarOK
<1>1. CalendarAssumption
  BY CalendarAssumption DEF CalendarAssumption
<1>2. Init => CalendarOK
  BY <1>1, InitCalendar
<1>3. CalendarOK /\ [Next]_vars => CalendarOK'
  BY <1>1, NextCalendar
<1> QED
  BY <1>2, <1>3, PTL DEF Spec

(* A non-empty set of days has a first one. *)
LEMMA FirstDay ==
  ASSUME NEW S \in SUBSET Nat, S # {}
  PROVE  \E m \in S : \A n \in S : m <= n
<1>1. PICK m \in S : \A n \in S : ~(<<n, m>> \in OpToRel(<, Nat))
  BY NatLessThanWellFounded, WFMin
<1>2. \A n \in S : ~(n < m)
  BY <1>1 DEF OpToRel
<1>3. \A n \in S : m \in Nat /\ n \in Nat /\ (~(n < m) => m <= n)
  OBVIOUS
<1> QED
  BY <1>2, <1>3

-----------------------------------------------------------------------------
(* The theorems. *)

(* The variables keep their types. *)
THEOREM TypeCorrect == Spec => []TypeOK
<1>1. CalendarOK => TypeOK
  BY DEF CalendarOK
<1> QED
  BY <1>1, CalendarInvariant, PTL

(* generate_sessions spares what is past, has its register or is kept      *)
(* through the holidays, whatever sets it off, in one go or in two loops.  *)
THEOREM CalendarKept == Spec => CalendarKeeps
<1>1. CalendarAssumption
  BY CalendarAssumption DEF CalendarAssumption
<1>2. CalendarOK /\ [Next]_vars => [KeepsStep]_vars
  BY <1>1, NextCalendar
<1>3. CalendarOK /\ [Next]_vars =>
        [CalendarStep =>
       \A l \in Lessons :
         There(l) =>
           LET new == lesson'[l[1]][l[2]] IN
           \/ new = lesson[l[1]][l[2]]
           \/ /\ new = NoLesson
              /\ l[2] >= today /\ l \notin marked
              /\ lesson[l[1]][l[2]].keep =>
                   Weekday(l[2]) # class'[l[1]].weekday
                   \/ (pass # NoPass /\ Weekday(l[2]) # pass.weekday)]_vars
  BY <1>2 DEF KeepsStep
<1> QED
  BY <1>3, CalendarInvariant, PTL DEF Spec, CalendarKeeps

(* One e-mail per lesson called off, however it was called off.            *)
THEOREM ToldOnce == Spec => []OneEmail
<1>1. CalendarOK => OneEmail
  BY DEF CalendarOK, ToldRight, OneEmail
<1> QED
  BY <1>1, CalendarInvariant, PTL

(* A reconciled class has the lessons it should, and the page that lists   *)
(* them says why a date is missing or runs all the same.                   *)
THEOREM ReconciledStays == Spec => []Reconciled
<1>1. CalendarAssumption
  BY CalendarAssumption DEF CalendarAssumption
<1>2. ASSUME CalendarOK PROVE Reconciled
  <2> DEFINE Interrupts(c, d) == \E h \in skipped_holidays(c) : Covers(h, d)
             dates(c) == {e \in Day : There(<<c, e>>)}
  <2>1. ASSUME NEW c \in synced
        PROVE  /\ \A d \in TermDates(class[c].weekday) \ dates(c) : Interrupts(c, d)
               /\ \A d \in dates(c) :
                    \/ d < today \/ <<c, d>> \in marked
                    \/ /\ Weekday(d) = class[c].weekday
                       /\ lesson[c][d].keep \/ ~Interrupts(c, d)
    <3>1. TypeOK /\ c \in Class /\ Fits(c)
      BY <1>2 DEF CalendarOK, TypeOK, SyncedFit
    <3>2. \A d \in Day : d \in dates(c) <=> lesson[c][d] # NoLesson
      BY DEF There
    <3>3. class[c].runs \in BOOLEAN
      BY <3>1, ScheduleFields DEF TypeOK
    <3>4. \A d \in Day : d \in Closed(class[c], holidays) <=> Interrupts(c, d)
      BY <3>3 DEF Closed, skipped_holidays
    <3>5. \A d \in TermDates(class[c].weekday) : d \in Day
      BY <1>1, <3>1, TermDays
    <3> DEFINE w == class[c].weekday
               closed == Closed(class[c], holidays)
    <3>6. /\ \A d \in TermDates(w) \ closed : lesson[c][d] # NoLesson
          /\ \A d \in Day : lesson[c][d] # NoLesson =>
               \/ d < today \/ <<c, d>> \in marked
               \/ /\ Weekday(d) = w
                  /\ lesson[c][d].keep \/ d \notin closed
      BY <3>1 DEF Fits, FitsWith, StillFits
    <3> HIDE DEF closed, Interrupts
    <3>7. \A d \in Day : d \in closed <=> Interrupts(c, d)
      BY <3>4 DEF closed
    <3> QED
      BY <3>2, <3>5, <3>6, <3>7
  <2>2. ASSUME NEW c \in synced
        PROVE  /\ DOMAIN get_class(c).sessions = dates(c)
               /\ get_class(c).skipped_holidays = skipped_holidays(c)
               /\ \A d \in dates(c) : get_class(c).sessions[d].runs_despite_holiday = lesson[c][d].keep
    BY DEF get_class
  <2>3. ASSUME NEW c \in synced
        PROVE  /\ \A d \in TermDates(class[c].weekday) \ DOMAIN get_class(c).sessions :
                    \E h \in get_class(c).skipped_holidays : Covers(h, d)
               /\ \A d \in DOMAIN get_class(c).sessions :
                    \/ d < today \/ <<c, d>> \in marked
                    \/ /\ Weekday(d) = class[c].weekday
                       /\ \/ get_class(c).sessions[d].runs_despite_holiday
                          \/ ~ \E h \in get_class(c).skipped_holidays : Covers(h, d)
    <3> DEFINE page == get_class(c)
    <3>1. /\ DOMAIN page.sessions = dates(c)
          /\ page.skipped_holidays = skipped_holidays(c)
          /\ \A d \in dates(c) : page.sessions[d].runs_despite_holiday = lesson[c][d].keep
      BY <2>2
    <3> HIDE DEF page, dates
    <3>2. \A d : Interrupts(c, d) <=> \E h \in page.skipped_holidays : Covers(h, d)
      BY <3>1
    <3> HIDE DEF Interrupts
    <3>3. /\ \A d \in TermDates(class[c].weekday) \ DOMAIN page.sessions : Interrupts(c, d)
          /\ \A d \in DOMAIN page.sessions :
                    \/ d < today \/ <<c, d>> \in marked
                    \/ /\ Weekday(d) = class[c].weekday
                       /\ page.sessions[d].runs_despite_holiday \/ ~Interrupts(c, d)
      BY <2>1, <3>1
    <3> QED
      BY <3>2, <3>3 DEF page
  <2> QED
    BY <2>3 DEF Reconciled
<1> QED
  BY <1>1, <1>2, CalendarInvariant, PTL

(* The days the home page names are those of the first lesson to come.     *)
LEMMA HomePage ==
  ASSUME TypeOK, CalendarAssumption
  PROVE  LET coming == {l \in LiveSessions : l[2] >= today}
         IN  {l[2] : l \in todays_sessions \cup next_session} =
               {d \in Day : \E l \in coming : l[2] = d /\ \A k \in coming : d <= k[2]}
<1> DEFINE coming == {l \in LiveSessions : l[2] >= today}
           named == todays_sessions \cup next_session
<1>1. \A l \in LiveSessions : l \in Lessons /\ l[2] \in Day /\ l[2] \in Nat /\ today \in Nat
  BY LessonsFields DEF LiveSessions
<1>2. ASSUME NEW l \in named PROVE l \in coming /\ \A k \in coming : l[2] <= k[2]
  <2>1. CASE l \in todays_sessions
    BY <1>1, <2>1 DEF todays_sessions
  <2>2. CASE l \in next_session
    <3>1. /\ todays_sessions = {} /\ l \in LiveSessions /\ l[2] > today
          /\ \A k \in LiveSessions : k[2] > today => l[2] <= k[2]
      BY <2>2 DEF next_session
    <3>2. \A k \in coming : k[2] # today
      BY <3>1 DEF todays_sessions
    <3> QED
      BY <1>1, <3>1, <3>2
  <2> QED
    BY <2>1, <2>2
<1>3. ASSUME NEW l \in coming, \A k \in coming : l[2] <= k[2] PROVE l \in named
  <2>1. CASE l[2] = today
    BY <2>1 DEF todays_sessions
  <2>2. CASE l[2] # today
    <3>1. l[2] > today /\ l \in LiveSessions
      BY <1>1, <2>2
    <3>2. todays_sessions = {}
      BY <1>1, <1>3, <3>1 DEF todays_sessions
    <3>3. \A k \in LiveSessions : k[2] > today => l[2] <= k[2]
      BY <1>1, <1>3
    <3> QED
      BY <3>1, <3>2, <3>3 DEF next_session
  <2> QED
    BY <2>1, <2>2
<1> HIDE DEF named
<1>4. \A l \in coming : l[2] \in Day
  BY <1>1
<1> HIDE DEF coming
<1>5. {l[2] : l \in named} = {d \in Day : \E l \in coming : l[2] = d /\ \A k \in coming : d <= k[2]}
  BY <1>2, <1>3, <1>4
<1> QED
  BY <1>5 DEF named, coming

(* The catalogue's next date of each class, the first of them all.         *)
LEMMA Catalogue ==
  ASSUME TypeOK, CalendarAssumption
  PROVE  LET coming == {l \in LiveSessions : l[2] >= today}
             dates == UNION {next_session_date(c) : c \in {k \in Class : class[k].status = "PUBLISHED"}}
         IN  {d \in dates : \A e \in dates : d <= e} =
               {d \in Day : \E l \in coming : l[2] = d /\ \A k \in coming : d <= k[2]}
<1> DEFINE coming == {l \in LiveSessions : l[2] >= today}
           public == {k \in Class : class[k].status = "PUBLISHED"}
           dates == UNION {next_session_date(c) : c \in public}
<1>1. Day \subseteq Nat /\ today \in Nat
  BY TermDays
<1>2. ASSUME NEW c \in public, NEW d \in Live(c), d >= today
      PROVE  <<c, d>> \in coming /\ <<c, d>>[2] = d /\ d \in Day
  BY <1>2 DEF LiveSessions, Live, Lessons
<1>3. ASSUME NEW l \in coming
      PROVE  /\ l[1] \in public /\ l[2] \in Live(l[1]) /\ l[2] >= today /\ l[2] \in Day
             /\ \E m \in next_session_date(l[1]) : m <= l[2]
  <2>1. l[1] \in public /\ l[2] \in Day /\ l = <<l[1], l[2]>> /\ l[2] >= today
    BY LessonsFields DEF LiveSessions
  <2>2. l[2] \in Live(l[1])
    BY <2>1 DEF Live, LiveSessions
  <2> DEFINE S == {e \in Live(l[1]) : e >= today}
  <2>3. S \in SUBSET Nat /\ S # {}
    BY <1>1, <2>1, <2>2 DEF Live
  <2>4. PICK m \in S : \A n \in S : m <= n
    BY <2>3, FirstDay
  <2>5. m \in next_session_date(l[1])
    BY <2>4 DEF next_session_date
  <2> QED
    BY <2>1, <2>2, <2>4, <2>5
<1>4. ASSUME NEW d \in dates
      PROVE  /\ d \in Day /\ \E l \in coming : l[2] = d
  <2>1. PICK c \in public : d \in next_session_date(c)
    OBVIOUS
  <2>2. d \in Live(c) /\ d >= today
    BY <2>1 DEF next_session_date
  <2> QED
    BY <1>2, <2>2
<1>5. ASSUME NEW l \in coming, \A k \in coming : l[2] <= k[2] PROVE l[2] \in dates
  <2>1. l[1] \in public /\ l[2] \in Live(l[1]) /\ l[2] >= today
    BY <1>3
  <2>2. ASSUME NEW e \in Live(l[1]), e >= today PROVE l[2] <= e
    <3>1. <<l[1], e>> \in coming /\ <<l[1], e>>[2] = e
      BY <1>2, <2>1, <2>2
    <3> QED
      BY <1>5, <3>1
  <2>3. l[2] \in next_session_date(l[1])
    BY <2>1, <2>2 DEF next_session_date
  <2> QED
    BY <2>1, <2>3
<1>6. ASSUME NEW l \in coming PROVE \E e \in dates : e <= l[2] /\ e \in Nat /\ l[2] \in Nat
  <2>1. PICK m \in next_session_date(l[1]) : m <= l[2]
    BY <1>3
  <2>2. m \in dates
    BY <1>3, <2>1
  <2> QED
    BY <1>1, <1>3, <1>4, <2>1, <2>2
<1> HIDE DEF coming, dates
<1>7. ASSUME NEW d \in dates, \A e \in dates : d <= e
      PROVE  d \in Day /\ \E l \in coming : l[2] = d /\ \A k \in coming : d <= k[2]
  <2>1. ASSUME NEW k \in coming PROVE d <= k[2]
    <3>1. PICK e \in dates : e <= k[2] /\ e \in Nat /\ k[2] \in Nat
      BY <1>6
    <3>2. d <= e /\ d \in Nat
      BY <1>1, <1>4, <1>7
    <3> QED
      BY <3>1, <3>2
  <2> QED
    BY <1>4, <2>1
<1>8. ASSUME NEW l \in coming, \A k \in coming : l[2] <= k[2]
      PROVE  l[2] \in dates /\ \A e \in dates : l[2] <= e
  <2>1. ASSUME NEW e \in dates PROVE l[2] <= e
    <3>1. PICK k \in coming : k[2] = e
      BY <1>4
    <3> QED
      BY <1>8, <3>1
  <2> QED
    BY <1>5, <1>8, <2>1
<1>9. {d \in dates : \A e \in dates : d <= e} =
        {d \in Day : \E l \in coming : l[2] = d /\ \A k \in coming : d <= k[2]}
  BY <1>7, <1>8
<1> QED
  BY <1>9 DEF coming, dates

(* The home page and the catalogue name the same next lesson, and the      *)
(* home page chases the registers that the parent's page calls not taken.  *)
THEOREM PagesAlike == Spec => []PagesAgree
<1>1. CalendarAssumption
  BY CalendarAssumption DEF CalendarAssumption
<1>2. ASSUME TypeOK PROVE PagesAgree
  <2>1. LET dates == UNION {next_session_date(c) : c \in {k \in Class : class[k].status = "PUBLISHED"}}
        IN  {l[2] : l \in todays_sessions \cup next_session} =
              {d \in dates : \A e \in dates : d <= e}
    BY <1>1, <1>2, HomePage, Catalogue
  <2>2. ASSUME NEW l \in Lessons
        PROVE  l[2] \in Nat /\ today \in Nat /\ today - Lookback \in Int
    BY <1>1, <1>2, LessonsFields DEF CalendarAssumption
  <2>3. \A l \in untaken_sessions : l \in Lessons /\ l[2] < today /\ l \notin marked
    BY DEF untaken_sessions, LiveSessions
  <2>4. \A l \in untaken_sessions : AttendanceState(l) = "not_taken"
    BY <2>2, <2>3 DEF AttendanceState
  <2>5. ASSUME NEW l \in Lessons, On(l), AttendanceState(l) = "not_taken", l[2] >= today - Lookback,
               class[l[1]].status = "PUBLISHED"
        PROVE  l \in untaken_sessions \cup todays_sessions
    <3>1. l \notin marked /\ ~(l[2] > today) /\ l \in LiveSessions
      BY <2>5 DEF AttendanceState, LiveSessions
    <3> QED
      BY <2>2, <2>5, <3>1 DEF untaken_sessions, todays_sessions
  <2> QED
    BY <2>1, <2>4, <2>5 DEF PagesAgree
<1>3. TypeOK => PagesAgree
  BY <1>2
<1> QED
  BY <1>3, TypeCorrect, PTL
=============================================================================
