----------------------------- MODULE DeskProofs -----------------------------
(***************************************************************************)
(* Proofs about Pages and Desk: what the pages show is what the services   *)
(* do, and the office is never surprised.                                  *)
(***************************************************************************)
EXTENDS Desk, EnrollmentsSafety, SequenceTheorems

-----------------------------------------------------------------------------
(* Counting rows. *)

LEMMA RowsFinite ==
  ASSUME NEW S \in SUBSET Id
  PROVE  IsFiniteSet(S) /\ Cardinality(S) \in Nat
<1>1. IsFiniteSet(Id)
  BY BoundsAssumption, FS_Interval DEF Id
<1> QED
  BY <1>1, FS_Subset, FS_CardinalityType

LEMMA CountDisjoint ==
  ASSUME NEW S \in SUBSET Id, NEW T \in SUBSET Id, S \cap T = {}
  PROVE  Cardinality(S \cup T) = Cardinality(S) + Cardinality(T)
<1>1. IsFiniteSet(S) /\ IsFiniteSet(T) /\ Cardinality(S) \in Nat /\ Cardinality(T) \in Nat
  BY RowsFinite
<1>2. Cardinality(S \cup T) = Cardinality(S) + Cardinality(T) - Cardinality(S \cap T)
  BY <1>1, FS_Union
<1>3. Cardinality(S \cap T) = 0
  BY FS_EmptySet
<1> QED
  BY <1>1, <1>2, <1>3

LiveOffers(c) == {e \in RowsOf(c, {"OFFERED"}) : LiveOffer(e)}
LeftOf(c, n) == IF n < capacity[c] THEN capacity[c] - n ELSE 0

(* The numbers of a class, each a count of its own, come down to three.    *)
LEMMA Numbers ==
  ASSUME TypeOK, NEW c \in Class
  PROVE  /\ with_counts(c).enrolled_count = SeatsTaken(c)
         /\ with_counts(c).confirmed_count = CountOf(c, {"ENROLLED"})
         /\ with_counts(c).offered_count = Cardinality(LiveOffers(c))
         /\ with_counts(c).waitlist_count = CountOf(c, {"WAITLISTED"})
         /\ with_counts(c).requested_count = CountOf(c, {"REQUESTED"})
         /\ with_counts(c).registrations_count = Cardinality(registrations(c))
         /\ with_counts(c).places_free = LeftOf(c, SeatsTaken(c))
         /\ with_counts(c).places_available = LeftOf(c, Cardinality(registrations(c)))
         /\ SeatsTaken(c) = CountOf(c, {"ENROLLED"}) + Cardinality(LiveOffers(c))
         /\ Cardinality(registrations(c)) = SeatsTaken(c) + CountOf(c, {"REQUESTED", "WAITLISTED"})
         /\ CountOf(c, {"REQUESTED", "WAITLISTED"}) =
              CountOf(c, {"REQUESTED"}) + CountOf(c, {"WAITLISTED"})
<1> DEFINE L == LiveOffers(c)
           En == RowsOf(c, {"ENROLLED"})
           Re == RowsOf(c, {"REQUESTED"})
           Wa == RowsOf(c, {"WAITLISTED"})
<1>1. /\ L \in SUBSET Id /\ En \in SUBSET Id /\ Re \in SUBSET Id /\ Wa \in SUBSET Id
      /\ En \cap L = {} /\ Re \cap Wa = {} /\ (En \cup L) \cap (Re \cup Wa) = {}
      /\ En \cap (Re \cup Wa) = {}
  BY DEF LiveOffers, RowsOf
<1>2. SeatHolders(c) = En \cup L
  BY DEF SeatHolders, LiveOffers, RowsOf
<1>3. RowsOf(c, {"REQUESTED", "WAITLISTED"}) = Re \cup Wa
  BY DEF RowsOf
<1>4. registrations(c) = (En \cup L) \cup (Re \cup Wa)
  BY DEF registrations, LiveOffers, LiveOffer, RowsOf, Active, TypeOK, Row
<1>5. RowsOf(c, {"REQUESTED", "ENROLLED", "WAITLISTED"}) = En \cup (Re \cup Wa)
  BY DEF RowsOf
<1>6. {e \in RowsOf(c, {"OFFERED"}) : enrollments[e].offer_expires_at >= now} = L
  BY DEF LiveOffers, LiveOffer
<1> HIDE DEF L, En, Re, Wa
<1>7. /\ Cardinality(L) \in Nat /\ Cardinality(En) \in Nat
      /\ Cardinality(Re) \in Nat /\ Cardinality(Wa) \in Nat
  BY <1>1, RowsFinite
<1>8. /\ Cardinality(En \cup L) = Cardinality(En) + Cardinality(L)
      /\ Cardinality(Re \cup Wa) = Cardinality(Re) + Cardinality(Wa)
      /\ Cardinality(En \cup (Re \cup Wa)) = Cardinality(En) + Cardinality(Re \cup Wa)
      /\ Cardinality((En \cup L) \cup (Re \cup Wa)) = Cardinality(En \cup L) + Cardinality(Re \cup Wa)
  BY <1>1, CountDisjoint
<1>9. /\ SeatsTaken(c) = Cardinality(En) + Cardinality(L)
      /\ Cardinality(registrations(c)) = SeatsTaken(c) + CountOf(c, {"REQUESTED", "WAITLISTED"})
      /\ CountOf(c, {"REQUESTED", "WAITLISTED"}) = Cardinality(Re) + Cardinality(Wa)
      /\ CountOf(c, {"REQUESTED", "ENROLLED", "WAITLISTED"}) + Cardinality(L)
           = Cardinality(registrations(c))
  <2>1. SeatsTaken(c) = Cardinality(En \cup L)
    BY <1>2 DEF SeatsTaken
  <2>2. CountOf(c, {"REQUESTED", "WAITLISTED"}) = Cardinality(Re \cup Wa)
    BY <1>3 DEF CountOf
  <2>3. CountOf(c, {"REQUESTED", "ENROLLED", "WAITLISTED"}) = Cardinality(En \cup (Re \cup Wa))
    BY <1>5 DEF CountOf
  <2>4. Cardinality(registrations(c)) = Cardinality((En \cup L) \cup (Re \cup Wa))
    BY <1>4
  <2> QED
    BY <1>7, <1>8, <2>1, <2>2, <2>3, <2>4
<1>10. /\ CountOf(c, {"ENROLLED"}) = Cardinality(En) /\ CountOf(c, {"REQUESTED"}) = Cardinality(Re)
       /\ CountOf(c, {"WAITLISTED"}) = Cardinality(Wa)
  BY DEF CountOf, En, Re, Wa
<1>11. /\ with_counts(c).enrolled_count = CountOf(c, {"ENROLLED"}) + Cardinality(L)
       /\ with_counts(c).confirmed_count = CountOf(c, {"ENROLLED"})
       /\ with_counts(c).offered_count = Cardinality(L)
       /\ with_counts(c).waitlist_count = CountOf(c, {"WAITLISTED"})
       /\ with_counts(c).requested_count = CountOf(c, {"REQUESTED"})
       /\ with_counts(c).registrations_count =
            CountOf(c, {"REQUESTED", "ENROLLED", "WAITLISTED"}) + Cardinality(L)
       /\ with_counts(c).places_free = LeftOf(c, CountOf(c, {"ENROLLED"}) + Cardinality(L))
       /\ with_counts(c).places_available =
            LeftOf(c, CountOf(c, {"REQUESTED", "ENROLLED", "WAITLISTED"}) + Cardinality(L))
  BY <1>6 DEF with_counts, LeftOf
<1> QED
  BY <1>9, <1>10, <1>11 DEF L

(* What the desk shows beside a request is what an approval goes by.       *)
LEMMA FreeIsFree ==
  ASSUME TypeOK, NEW c \in Class
  PROVE  with_counts(c).places_free > 0 <=> HasFreeSeat(c)
<1>1. with_counts(c).places_free = LeftOf(c, SeatsTaken(c))
  BY Numbers
<1>2. SeatsTaken(c) \in Nat /\ capacity[c] \in Nat
  BY SeatsFinite DEF TypeOK
<1> QED
  BY <1>1, <1>2 DEF LeftOf, HasFreeSeat

(* What the desk shows beside a request is what the service then does,     *)
(* whoever approves and whatever lapses.                                   *)
THEOREM ForetoldRight == Spec => PagesForetell
<1>1. TypeOK /\ [Next]_vars =>
        [\A e \in DOMAIN requests_view.pending :
           enrollments'[e].status \in {"ENROLLED", "WAITLISTED"} =>
             (enrollments'[e].status = "ENROLLED") = (requests_view.pending[e] > 0)]_vars
  <2> SUFFICES ASSUME TypeOK, [Next]_vars, NEW e \in DOMAIN requests_view.pending,
                      enrollments'[e].status \in {"ENROLLED", "WAITLISTED"}
               PROVE  (enrollments'[e].status = "ENROLLED") = (requests_view.pending[e] > 0)
    OBVIOUS
  <2> DEFINE c == enrollments[e].activity_class
  <2>1. e \in Id /\ enrollments[e].status = "REQUESTED" /\ c \in Class
    BY DEF requests_view, pending_for, TypeOK
  <2>2. requests_view.pending[e] = with_counts(c).places_free
    BY <2>1 DEF requests_view, pending_for
  <2>3. Lives(e)
    BY <2>1, RowLife
  <2>4. Changed(e)
    BY <2>1, <2>3 DEF Lives, Born, NextId
  <2>5. enrollments'[e].status = IF HasFreeSeat(c) THEN "ENROLLED" ELSE "WAITLISTED"
    BY <2>1, <2>4 DEF Changed, Onward
  <2> HIDE DEF c
  <2> QED
    BY <2>1, <2>2, <2>5, FreeIsFree
<1> QED
  BY <1>1, TypeCorrect, PTL DEF Spec, PagesForetell

LEMMA PlacesAgree ==
  ASSUME TypeOK
  PROVE  PlacesAvailable
<1> SUFFICES ASSUME NEW c \in published
             PROVE  /\ catalogue[c] > 0 =>
                         CountOf(c, {"REQUESTED", "WAITLISTED"}) <
                           list_classes("PUBLISHED")[c].counts.places_free
                    /\ places_available_now(c) = catalogue[c]
  BY DEF PlacesAvailable
<1>1. c \in Class /\ class_status[c] = "PUBLISHED"
  BY DEF published
<1>2. /\ catalogue[c] = LeftOf(c, Cardinality(registrations(c)))
      /\ list_classes("PUBLISHED")[c].counts.places_free = LeftOf(c, SeatsTaken(c))
  BY <1>1, Numbers DEF catalogue, list_classes, class_dict
<1>3. places_available_now(c) = LeftOf(c, Cardinality(registrations(c)))
  BY DEF places_available_now, LeftOf
<1>4. Cardinality(registrations(c)) = SeatsTaken(c) + CountOf(c, {"REQUESTED", "WAITLISTED"})
  BY <1>1, Numbers
<1>5. /\ SeatsTaken(c) \in Nat /\ CountOf(c, {"REQUESTED", "WAITLISTED"}) \in Nat
      /\ capacity[c] \in Nat
  BY <1>1, SeatsFinite, RowsFinite DEF CountOf, RowsOf, TypeOK
<1> QED
  BY <1>2, <1>3, <1>4, <1>5 DEF LeftOf

LEMMA RegistersAddUp ==
  ASSUME TypeOK
  PROVE  RegisterAddsUp
<1> SUFFICES ASSUME NEW c \in Class
             PROVE  LET register == register_of(c)
                        columns == changelist(c)
                        held == {e \in DOMAIN register.rows :
                                   register.rows[e].status \in SeatHolding /\ ~register.rows[e].offer_expired}
                        lapsed == {e \in DOMAIN register.rows : register.rows[e].offer_expired}
                    IN  /\ Cardinality(held) = register.class.counts.enrolled_count
                        /\ columns.confirmed + columns.offered = Cardinality(held)
                        /\ columns.confirmed + columns.offered + columns.waiting + columns.pending
                              = columns.registrations
                        /\ columns.registrations + Cardinality(lapsed) = Cardinality(DOMAIN register.rows)
  BY DEF RegisterAddsUp
<1> DEFINE register == register_of(c)
           columns == changelist(c)
           held == {e \in DOMAIN register.rows :
                      register.rows[e].status \in SeatHolding /\ ~register.rows[e].offer_expired}
           lapsed == {e \in DOMAIN register.rows : register.rows[e].offer_expired}
<1>1. /\ DOMAIN register.rows = RowsOf(c, Active) /\ register.class.counts = with_counts(c)
      /\ \A e \in RowsOf(c, Active) :
           /\ register.rows[e].status = enrollments[e].status
           /\ register.rows[e].offer_expired =
                (enrollments[e].status = "OFFERED" /\ enrollments[e].offer_expires_at < now)
  BY DEF register_of, registration_dict, class_dict
<1>2. /\ columns.confirmed = with_counts(c).confirmed_count
      /\ columns.offered = with_counts(c).offered_count
      /\ columns.waiting = with_counts(c).waitlist_count
      /\ columns.pending = with_counts(c).requested_count
      /\ columns.registrations = with_counts(c).registrations_count
  BY DEF changelist
<1> HIDE DEF register, columns
<1>3. \A e \in Id : now \in Nat /\ enrollments[e].offer_expires_at \in Nat
  BY DEF TypeOK, Row
<1>4. held = SeatHolders(c)
  <2>1. \A e : e \in held <=> /\ e \in RowsOf(c, Active) /\ enrollments[e].status \in SeatHolding
                              /\ ~(enrollments[e].status = "OFFERED" /\ enrollments[e].offer_expires_at < now)
    BY <1>1
  <2>2. \A e : e \in SeatHolders(c) <=>
                /\ e \in RowsOf(c, Active) /\ enrollments[e].status \in SeatHolding
                /\ ~(enrollments[e].status = "OFFERED" /\ enrollments[e].offer_expires_at < now)
    BY <1>3 DEF SeatHolders, RowsOf, LiveOffer, Active, SeatHolding
  <2> HIDE DEF held
  <2> QED
    BY <2>1, <2>2
<1>5. lapsed = StaleOffers(c)
  BY <1>1, <1>3 DEF StaleOffers, RowsOf, Active
<1>6. /\ registrations(c) \cap StaleOffers(c) = {}
      /\ registrations(c) \cup StaleOffers(c) = RowsOf(c, Active)
      /\ registrations(c) \in SUBSET Id /\ StaleOffers(c) \in SUBSET Id
  BY <1>3 DEF registrations, StaleOffers, RowsOf, Active
<1>7. Cardinality(RowsOf(c, Active)) = Cardinality(registrations(c)) + Cardinality(StaleOffers(c))
  BY <1>6, CountDisjoint
<1> HIDE DEF held, lapsed
<1>8. /\ CountOf(c, {"REQUESTED"}) \in Nat /\ CountOf(c, {"WAITLISTED"}) \in Nat
      /\ CountOf(c, {"ENROLLED"}) \in Nat /\ Cardinality(LiveOffers(c)) \in Nat
  BY RowsFinite DEF CountOf, RowsOf, LiveOffers
<1>9. /\ Cardinality(held) = register.class.counts.enrolled_count
      /\ columns.confirmed + columns.offered = Cardinality(held)
  BY <1>1, <1>2, <1>4, <1>8, Numbers DEF SeatsTaken
<1>10. columns.confirmed + columns.offered + columns.waiting + columns.pending = columns.registrations
  BY <1>2, <1>8, Numbers
<1>11. columns.registrations + Cardinality(lapsed) = Cardinality(DOMAIN register.rows)
  BY <1>1, <1>2, <1>5, <1>7, Numbers
<1> QED
  BY <1>9, <1>10, <1>11 DEF register, columns, held, lapsed

LEMMA Recipients ==
  ASSUME NEW C, NEW audience, NEW c \in C, NEW e \in RowsOf(c, audience_statuses(audience))
  PROVE  enrollments[e].child \in broadcast_recipients(C, audience)
<1>1. e \in UNION {RowsOf(d, audience_statuses(audience)) : d \in C}
  OBVIOUS
<1> QED
  BY <1>1 DEF broadcast_recipients

LEMMA NobodyIsMissing ==
  ASSUME TypeOK, ActiveOnlyInPublished, AskedOnceIn
  PROVE  NobodyMissing
<1> SUFFICES ASSUME NEW e \in Id, enrollments[e].status \in Active
             PROVE  LET r == enrollments[e] IN
                    /\ \A w \in Windows : e \in DOMAIN home(r.child, w)
                    /\ e \in registered_for(r.child)
                    /\ r.status = "REQUESTED" \/ r.cancel_requested_at # Unset =>
                         e \in DOMAIN requests_view.pending \cup DOMAIN requests_view.cancellations
                    /\ r.status = "ENROLLED" /\ term_active[r.activity_class] => e \in participants_by_day
                    /\ Open(r.activity_class) => r.child \in queue_broadcast("ALL_CLASSES", {}, "EVERYONE")
  BY DEF NobodyMissing
<1> DEFINE r == enrollments[e]
           c == r.activity_class
<1>1. c \in Class /\ e \in RowsOf(c, Active)
  BY DEF TypeOK, Active, RowsOf
<1>2. class_status[c] = "PUBLISHED"
  BY <1>1 DEF ActiveOnlyInPublished
<1>3. /\ \A w \in Windows : e \in DOMAIN home(r.child, w)
      /\ e \in registered_for(r.child)
  BY DEF home, registered_for
<1>4. ASSUME r.status = "REQUESTED" \/ r.cancel_requested_at # Unset
      PROVE  e \in DOMAIN requests_view.pending \cup DOMAIN requests_view.cancellations
  <2>1. /\ DOMAIN requests_view.pending = pending_for
        /\ DOMAIN requests_view.cancellations = cancellation_requests_for
    BY DEF requests_view
  <2> QED
    BY <1>4, <2>1 DEF pending_for, cancellation_requests_for, AskedOnceIn, Active
<1>5. r.status = "ENROLLED" /\ term_active[c] => e \in participants_by_day
  BY <1>2 DEF participants_by_day
<1>6. ASSUME Open(c) PROVE r.child \in queue_broadcast("ALL_CLASSES", {}, "EVERYONE")
  <2>1. c \in published
    BY <1>1, <1>6 DEF Open, published
  <2>2. queue_broadcast("ALL_CLASSES", {}, "EVERYONE") = broadcast_recipients(published, "EVERYONE")
    BY DEF queue_broadcast
  <2>3. audience_statuses("EVERYONE") = Active
    BY DEF audience_statuses
  <2> QED
    BY <1>1, <2>1, <2>2, <2>3, Recipients
<1> QED
  BY <1>3, <1>4, <1>5, <1>6

LEMMA FamiliesReachable ==
  ASSUME TypeOK, ActiveOnlyInPublished, BlankUnsaved
  PROVE  StillReachable
<1> SUFFICES ASSUME NEW e \in Id, enrollments[e].cancel_reason = "CLASS_CANCELLED"
             PROVE  LET r == enrollments[e]
                        c == r.activity_class IN
      /\ r.child \in queue_broadcast("SELECTED_CLASSES", {c} \cap announce_view, "EVER_REGISTERED")
      /\ class_status[c] = "CANCELLED" =>
           /\ queue_broadcast("SELECTED_CLASSES", {c}, "EVERYONE") = {}
           /\ c \in ProviderBroadcastForm
      /\ term_active[c] => c \in SelectedClasses
  BY DEF StillReachable
<1> DEFINE r == enrollments[e]
           c == r.activity_class
<1>1. Saved(e)
  <2>1. Unsaved.cancel_reason # "CLASS_CANCELLED"
    BY DEF Unsaved
  <2> QED
    BY <2>1 DEF BlankUnsaved
<1>2. c \in Class /\ e \in RowsOf(c, Active \cup {"CANCELLED"})
  BY <1>1 DEF TypeOK, Saved, RowsOf, Row, Status
<1>3. r.child \in queue_broadcast("SELECTED_CLASSES", {c} \cap announce_view, "EVER_REGISTERED")
  <2>1. {c} \cap announce_view = {c}
    BY <1>2 DEF announce_view
  <2>2. \A C, a : queue_broadcast("SELECTED_CLASSES", C, a) = broadcast_recipients(C, a)
    BY DEF queue_broadcast
  <2>3. audience_statuses("EVER_REGISTERED") = Active \cup {"CANCELLED"}
    BY DEF audience_statuses
  <2> QED
    <3>1. r.child \in broadcast_recipients({c}, "EVER_REGISTERED")
      BY <1>2, <2>3, Recipients
    <3> HIDE DEF r, c
    <3> QED
      BY <2>1, <2>2, <3>1
<1>4. ASSUME class_status[c] = "CANCELLED"
      PROVE  /\ queue_broadcast("SELECTED_CLASSES", {c}, "EVERYONE") = {}
             /\ c \in ProviderBroadcastForm
  <2>1. RowsOf(c, Active) = {}
    BY <1>2, <1>4 DEF ActiveOnlyInPublished
  <2>2. audience_statuses("EVERYONE") = Active
    BY DEF audience_statuses
  <2>3. queue_broadcast("SELECTED_CLASSES", {c}, "EVERYONE") = broadcast_recipients({c}, "EVERYONE")
    BY DEF queue_broadcast
  <2>4. UNION {RowsOf(d, Active) : d \in {c}} = {}
    BY <2>1
  <2> QED
    BY <1>2, <1>4, <2>2, <2>3, <2>4 DEF broadcast_recipients, ProviderBroadcastForm
<1>5. term_active[c] => c \in SelectedClasses
  BY <1>2 DEF SelectedClasses
<1> QED
  BY <1>3, <1>4, <1>5

(* The catalogue, the register, the desk, the home page, the workbook and  *)
(* the announcements tell the same story of every class.                   *)
THEOREM PagesSameStory == Spec => []EveryPageAgrees
<1>1. TypeOK /\ ActiveOnlyInPublished /\ NewsOK => EveryPageAgrees
  BY PlacesAgree, RegistersAddUp, NobodyIsMissing, FamiliesReachable DEF EveryPageAgrees, NewsOK
<1> QED
  BY <1>1, TypeCorrect, OnlyPublishedHold, NewsAlways, PTL

-----------------------------------------------------------------------------
(* The desk: what the office does is what the services do, one at a time.  *)

LEMMA DeskTypeInit == DeskInit => TypeOK /\ DeskTypeOK
<1> SUFFICES ASSUME DeskInit PROVE TypeOK /\ DeskTypeOK
  OBVIOUS
<1>1. Unsaved \in Row /\ Unsaved.status = "UNSAVED"
  BY DEF Unsaved, Unset, Row, Status, CancelReason
<1>2. enrollments \in [Id -> Row] /\ \A e \in Id : enrollments[e].status = "UNSAVED"
  BY <1>1 DEF DeskInit
<1>3. capacity \in [Class -> Nat]
  BY SettingsAssumption DEF DeskInit
<1>4. news \in [Child \X Class -> Event \cup {NoNews}]
  BY DEF DeskInit
<1>5. class_status \in [Class -> ClassStatus] /\ term_active \in [Class -> BOOLEAN]
  BY DEF DeskInit, ClassStatus
<1>6. now \in Nat \ {Unset} /\ alerted \subseteq Class /\ over_allocated \subseteq Class
  BY DEF DeskInit, Unset
<1>7. DeskTypeOK
  BY DEF DeskInit, DeskTypeOK, Unset
<1> QED
  BY <1>2, <1>3, <1>4, <1>5, <1>6, <1>7 DEF TypeOK

(* The office's requests, and what each of them is about. *)
LEMMA DeskKinds ==
  ASSUME DeskTypeOK, NEW q \in Office
  PROVE  /\ desk[q].at = "move" => desk[q].row \in Id /\ desk[q].target \in Class
         /\ desk[q].at = "answer" => desk[q].class \in Class /\ desk[q].capacity \in Nat
         /\ desk[q].at = "roster" => desk[q] \in Roster
<1>1. desk[q] \in {Free} \cup Move \cup Answer \cup Roster
  BY DEF DeskTypeOK
<1>2. Free.at = "free" /\ (\A a \in Move : a.at = "move") /\ (\A a \in Answer : a.at = "answer")
      /\ \A a \in Roster : a.at = "roster"
  BY DEF Free, Move, Answer, Roster
<1>3. \A a \in Move : a.row \in Id /\ a.target \in Class
  BY DEF Move
<1>4. \A a \in Answer : a.class \in Class /\ a.capacity \in Nat
  BY DEF Answer
<1> QED
  BY <1>1, <1>2, <1>3, <1>4

(* A step of the desk calls a service, or changes none of its tables.      *)
LEMMA DeskServes ==
  ASSUME TypeOK, DeskTypeOK, [DeskNext]_deskVars
  PROVE  /\ [Next]_vars
         /\ \/ waitlisted_at' = Stamped
            \/ waitlisted_at' = waitlisted_at /\ UNCHANGED vars
<1>1. CASE UNCHANGED deskVars
  BY <1>1 DEF deskVars
<1>2. ASSUME NEW q \in Office, NEW ch \in Child, NEW c \in Class, register_view(q, ch, c)
      PROVE  Next /\ waitlisted_at' = Stamped
  BY <1>2 DEF register_view, StepTelling, Next, RegistrationStep
<1>3. ASSUME NEW q \in Office, NEW e \in Id, offer_view(q, e)
      PROVE  Next /\ waitlisted_at' = Stamped
  BY <1>3 DEF offer_view, StepTelling, Next, DecisionStep
<1>4. ASSUME NEW q \in Office, MoveChild(q), Transfer(desk[q].row, desk[q].target)
      PROVE  Next
  BY <1>4, DeskKinds DEF MoveChild, Next, RegistrationStep
<1>5. ASSUME NEW q \in Office, MoveChild(q)
      PROVE  \/ Next /\ waitlisted_at' = Stamped
             \/ waitlisted_at' = waitlisted_at /\ UNCHANGED vars
  BY <1>4, <1>5 DEF MoveChild, StepTelling, NoService
<1>6. ASSUME NEW q \in Office,
             \/ \E e \in Id, c \in Class : move_view(q, e, c)
             \/ Note(q) \/ (\E c \in Class : OpenRoster(q, c)) \/ ReadList(q)
      PROVE  waitlisted_at' = waitlisted_at /\ UNCHANGED vars
  BY <1>6 DEF move_view, Note, OpenRoster, ReadList, NoService
<1>7. ASSUME NEW c \in Class, NEW n \in Capacities, upsert_class(c, n)
      PROVE  Next /\ waitlisted_at' = Stamped
  BY <1>7 DEF upsert_class, StepTelling, Next, ClassStep
<1>8. ASSUME Elsewhere
      PROVE  Next /\ waitlisted_at' = Stamped
  BY <1>8 DEF Elsewhere, enroll, family_action, transition, bulk_actions, StepTelling, Next,
              RegistrationStep, DecisionStep, ClassStep
<1> QED
  BY <1>1, <1>2, <1>3, <1>5, <1>6, <1>7, <1>8 DEF DeskNext

LEMMA StampedType ==
  ASSUME DeskTypeOK
  PROVE  Stamped \in [Id -> Nat]
<1>1. {e \in Id : waitlisted_at[e] # Unset} \in SUBSET Id
  OBVIOUS
<1>2. Cardinality({e \in Id : waitlisted_at[e] # Unset}) \in Nat
  BY <1>1, RowsFinite
<1> QED
  BY <1>2 DEF DeskTypeOK, Stamped

(* One query of the roster. *)
LEMMA RosterRead ==
  ASSUME NEW r \in Roster, r.lists # 4, NEW found \in SUBSET Id
  PROVE  LET s == [r EXCEPT !.lists = @ + 1, !.rows = @ \cup found, !.twice = @ \cup (r.rows \cap found)]
         IN  /\ s \in Roster /\ s.at = "roster" /\ s.class = r.class /\ s.lists = r.lists + 1
             /\ s.rows = r.rows \cup found /\ s.twice = r.twice \cup (r.rows \cap found)
<1> DEFINE s == [r EXCEPT !.lists = @ + 1, !.rows = @ \cup found, !.twice = @ \cup (r.rows \cap found)]
<1>1. PICK n, rows, twice : n = r.lists + 1 /\ rows = r.rows \cup found /\ twice = r.twice \cup (r.rows \cap found)
  OBVIOUS
<1>2. n \in 0..4 /\ rows \in SUBSET Id /\ twice \in SUBSET Id
  BY <1>1 DEF Roster
<1>3. s = [r EXCEPT !.lists = n, !.rows = rows, !.twice = twice]
  BY <1>1
<1>4. [r EXCEPT !.lists = n, !.rows = rows, !.twice = twice] \in Roster
  BY <1>2 DEF Roster
<1>5. s.at = "roster" /\ s.class = r.class /\ s.lists = n /\ s.rows = rows /\ s.twice = twice
  BY <1>3 DEF Roster
<1> QED
  BY <1>1, <1>3, <1>4, <1>5

LEMMA DeskTypeStep == TypeOK /\ TypeOK' /\ DeskTypeOK /\ [DeskNext]_deskVars => DeskTypeOK'
<1> SUFFICES ASSUME TypeOK, TypeOK', DeskTypeOK, [DeskNext]_deskVars PROVE DeskTypeOK'
  OBVIOUS
<1>1. waitlisted_at' \in [Id -> Nat]
  BY DeskServes, StampedType DEF DeskTypeOK
<1>2. told' \subseteq Class
  <2>1. \A S \in SUBSET Class : Knowing(S) => told' \subseteq Class
    BY DEF Knowing, DeskTypeOK
  <2>2. told' = told \/ \E S \in SUBSET Class : Knowing(S)
    <3>1. \A q \in Office : Note(q) => \E S \in SUBSET Class : Knowing(S)
      BY DeskKinds DEF Note
    <3>2. \A c \in Class : {c} \in SUBSET Class /\ {} \in SUBSET Class
      OBVIOUS
    <3>3. \A q \in Office, ch \in Child, c \in Class : register_view(q, ch, c) => Knowing({})
      BY DEF register_view, StepTelling
    <3>4. \A q \in Office, e \in Id : offer_view(q, e) => Knowing({})
      BY DEF offer_view, StepTelling
    <3>5. \A q \in Office : MoveChild(q) => told' = told \/ Knowing({})
      BY DEF MoveChild, StepTelling
    <3>6. \A q \in Office, e \in Id, c \in Class :
            move_view(q, e, c) \/ OpenRoster(q, c) \/ ReadList(q) => told' = told
      BY DEF move_view, OpenRoster, ReadList
    <3>7. \A q \in Office : ReadList(q) => told' = told
      BY DEF ReadList
    <3>8. \A q \in Office, c \in Class : OpenRoster(q, c) => told' = told
      BY DEF OpenRoster
    <3>9. \A c \in Class, n \in Capacities : upsert_class(c, n) => Knowing({c})
      BY DEF upsert_class, StepTelling
    <3>10. Elsewhere => Knowing({})
      BY DEF Elsewhere, StepTelling
    <3>11. (UNCHANGED deskVars) => told' = told
      BY DEF deskVars
    <3>12. {} \in SUBSET Class
      OBVIOUS
    <3> QED
      BY <3>1, <3>2, <3>3, <3>4, <3>5, <3>6, <3>7, <3>8, <3>9, <3>10, <3>11, <3>12 DEF DeskNext
  <2> QED
    BY <2>1, <2>2 DEF DeskTypeOK
<1> DEFINE Kinds == {Free} \cup Move \cup Answer \cup Roster
<1>3. desk' \in [Office -> Kinds]
  <2>1. \A c \in Class : [at |-> "answer", class |-> c, capacity |-> capacity[c]] \in Kinds
    BY DEF Answer, TypeOK
  <2>2. \A e \in Id, c \in Class : [at |-> "move", row |-> e, target |-> c] \in Kinds
    BY DEF Move
  <2>3. \A c \in Class : [at |-> "roster", class |-> c, lists |-> 0, rows |-> {}, twice |-> {}] \in Kinds
    BY DEF Roster
  <2>4. Free \in Kinds
    OBVIOUS
  <2>5. ASSUME NEW q \in Office, desk[q].at = "roster", NEW found \in SUBSET Id, desk[q].lists # 4
        PROVE  [desk[q] EXCEPT !.lists = @ + 1, !.rows = @ \cup found,
                               !.twice = @ \cup (desk[q].rows \cap found)] \in Kinds
    <3>1. desk[q] \in Roster
      BY <2>5, DeskKinds
    <3> QED
      BY <2>5, <3>1, RosterRead
  <2>6. desk \in [Office -> Kinds]
    BY DEF DeskTypeOK
  <2> HIDE DEF Kinds
  <2>7. ASSUME NEW q \in Office, NEW c \in Class, Answering(q, c)
        PROVE  desk' \in [Office -> Kinds]
    BY <2>1, <2>6, <2>7 DEF Answering
  <2>8. ASSUME NEW q \in Office, ReadList(q)
        PROVE  desk' \in [Office -> Kinds]
    <3> DEFINE found == RowsOf(desk[q].class, {ReadingOrder[desk[q].lists + 1]})
    <3>1. found \in SUBSET Id
      BY DEF RowsOf
    <3>2. desk[q].at = "roster" /\
          desk' = [desk EXCEPT ![q] =
                   IF desk[q].lists = 4 THEN Free
                   ELSE [desk[q] EXCEPT !.lists = @ + 1, !.rows = @ \cup found,
                                        !.twice = @ \cup (desk[q].rows \cap found)]]
      BY <2>8 DEF ReadList
    <3> HIDE DEF found
    <3> QED
      BY <2>4, <2>5, <2>6, <3>1, <3>2
  <2>9. ASSUME NEW q \in Office, NEW ch \in Child, NEW c \in Class, register_view(q, ch, c)
        PROVE  desk' \in [Office -> Kinds]
    BY <2>7, <2>9 DEF register_view
  <2>10. ASSUME NEW q \in Office, NEW e \in Id, offer_view(q, e)
         PROVE  desk' \in [Office -> Kinds]
    <3>1. enrollments[e].activity_class \in Class
      BY <2>10 DEF offer_view, OfferSeat, TypeOK
    <3> QED
      BY <2>7, <2>10, <3>1 DEF offer_view
  <2>11. ASSUME NEW q \in Office, NEW e \in Id, NEW c \in Class, move_view(q, e, c)
         PROVE  desk' \in [Office -> Kinds]
    BY <2>2, <2>6, <2>11 DEF move_view
  <2>12. ASSUME NEW q \in Office, MoveChild(q)
         PROVE  desk' \in [Office -> Kinds]
    BY <2>4, <2>6, <2>7, <2>12, DeskKinds DEF MoveChild
  <2>13. ASSUME NEW q \in Office, Note(q)
         PROVE  desk' \in [Office -> Kinds]
    BY <2>4, <2>6, <2>13 DEF Note
  <2>14. ASSUME NEW q \in Office, NEW c \in Class, OpenRoster(q, c)
         PROVE  desk' \in [Office -> Kinds]
    BY <2>3, <2>6, <2>14 DEF OpenRoster
  <2>15. ASSUME Elsewhere \/ (\E c \in Class, n \in Capacities : upsert_class(c, n)) \/ UNCHANGED deskVars
         PROVE  desk' \in [Office -> Kinds]
    BY <2>6, <2>15 DEF Elsewhere, upsert_class, deskVars
  <2> QED
    BY <2>8, <2>9, <2>10, <2>11, <2>12, <2>13, <2>14, <2>15 DEF DeskNext
<1> QED
  BY <1>1, <1>2, <1>3 DEF DeskTypeOK

-----------------------------------------------------------------------------
(* What holds between the steps of the desk's requests: a roster has seen  *)
(* each row at or before the list the row is in, whoever took a class over *)
(* its capacity has told or will, with no larger capacity in mind than the *)
(* class has, and no row has a later stamp than the last.                  *)

SeenBy(k) == {"CANCELLED"} \cup {Lists[i] : i \in 1..k}
StampedRows == {e \in Id : waitlisted_at[e] # Unset}

RostersRead ==
  \A q \in Office : desk[q].at = "roster" =>
    /\ desk[q].twice = {}
    /\ \A e \in desk[q].rows : enrollments[e].status \in SeenBy(desk[q].lists)

Answers(q, c) ==
  desk[q].at = "answer" /\ desk[q].class = c /\ desk[q].capacity <= capacity[c]
ToldOrTelling ==
  \A c \in Class : OverCapacity(c) => c \in told \/ \E q \in Office : Answers(q, c)

StampsInOrder ==
  \A e \in Id : /\ waitlisted_at[e] <= Cardinality(StampedRows)
                /\ waitlisted_at[e] # Unset => enrollments[e].status \notin {"UNSAVED", "REQUESTED"}

LEMMA SeenSets ==
  /\ SeenBy(0) = {"CANCELLED"}
  /\ SeenBy(1) = {"CANCELLED", "ENROLLED"}
  /\ SeenBy(2) = {"CANCELLED", "ENROLLED", "OFFERED"}
  /\ SeenBy(3) = {"CANCELLED", "ENROLLED", "OFFERED", "WAITLISTED"}
  /\ SeenBy(4) = {"CANCELLED", "ENROLLED", "OFFERED", "WAITLISTED", "REQUESTED"}
<1>1. Lists[1] = "ENROLLED" /\ Lists[2] = "OFFERED" /\ Lists[3] = "WAITLISTED" /\ Lists[4] = "REQUESTED"
  BY DEF Lists
<1>2. /\ \A i : i \in 1..0 <=> FALSE
      /\ \A i : i \in 1..1 <=> i = 1
      /\ \A i : i \in 1..2 <=> i \in {1, 2}
      /\ \A i : i \in 1..3 <=> i \in {1, 2, 3}
      /\ \A i : i \in 1..4 <=> i \in {1, 2, 3, 4}
  OBVIOUS
<1> HIDE DEF Lists
<1> QED
  BY <1>1, <1>2 DEF SeenBy

(* A row already seen stays seen: registrations move against the order in  *)
(* which the lists are read.                                               *)
LEMMA SeenStays ==
  ASSUME NEW k \in 0..4, NEW e \in Id, Lives(e), enrollments[e].status \in SeenBy(k)
  PROVE  enrollments'[e].status \in SeenBy(k)
<1>1. enrollments[e].status # "UNSAVED"
  BY SeenSets
<1>2. enrollments'[e].status = enrollments[e].status \/ Changed(e)
  BY <1>1 DEF Lives, Born, NextId
<1>3. CASE Changed(e)
  BY <1>3, SeenSets DEF Changed, Onward
<1> QED
  BY <1>2, <1>3

(* What is read next has not been seen. *)
LEMMA NextUnseen ==
  ASSUME NEW k \in 0..3
  PROVE  Lists[k + 1] \notin SeenBy(k) /\ SeenBy(k + 1) = SeenBy(k) \cup {Lists[k + 1]}
<1>1. Lists[1] = "ENROLLED" /\ Lists[2] = "OFFERED" /\ Lists[3] = "WAITLISTED" /\ Lists[4] = "REQUESTED"
  BY DEF Lists
<1>2. k = 0 \/ k = 1 \/ k = 2 \/ k = 3
  OBVIOUS
<1> HIDE DEF Lists
<1>3. CASE k = 0
  BY <1>1, <1>3, SeenSets
<1>4. CASE k = 1
  BY <1>1, <1>4, SeenSets
<1>5. CASE k = 2
  BY <1>1, <1>5, SeenSets
<1>6. CASE k = 3
  BY <1>1, <1>6, SeenSets
<1> QED
  BY <1>2, <1>3, <1>4, <1>5, <1>6

(* What a step of the desk does to the requests that read a roster.        *)
LEMMA RosterLife ==
  ASSUME DeskTypeOK, [DeskNext]_deskVars, NEW q \in Office, desk'[q].at = "roster"
  PROVE  \/ desk'[q] = desk[q]
         \/ desk'[q].twice = {} /\ desk'[q].rows = {}
         \/ /\ desk[q].at = "roster" /\ desk[q].lists # 4 /\ UNCHANGED vars
            /\ desk' = [desk EXCEPT ![q] =
                 [desk[q] EXCEPT !.lists = @ + 1,
                    !.rows = @ \cup RowsOf(desk[q].class, {ReadingOrder[desk[q].lists + 1]}),
                    !.twice = @ \cup (desk[q].rows \cap RowsOf(desk[q].class, {ReadingOrder[desk[q].lists + 1]}))]]
<1>1. Free.at # "roster"
  BY DEF Free
<1>2. ASSUME NEW x \in Office, NEW c, Answering(x, c)
      PROVE  desk'[q] = desk[q]
  <2>1. [at |-> "answer", class |-> c, capacity |-> capacity[c]].at # "roster"
    OBVIOUS
  <2> QED
    BY <1>2, <2>1 DEF Answering, DeskTypeOK
<1>3. ASSUME NEW x \in Office, desk' = [desk EXCEPT ![x] = Free]
      PROVE  desk'[q] = desk[q]
  BY <1>1, <1>3 DEF DeskTypeOK
<1>4. ASSUME NEW x \in Office, NEW e \in Id, NEW c \in Class, move_view(x, e, c)
      PROVE  desk'[q] = desk[q]
  <2>1. [at |-> "move", row |-> e, target |-> c].at # "roster"
    OBVIOUS
  <2> QED
    BY <1>4, <2>1 DEF move_view, DeskTypeOK
<1>5. ASSUME NEW x \in Office, NEW c \in Class, OpenRoster(x, c)
      PROVE  desk'[q] = desk[q] \/ (desk'[q].twice = {} /\ desk'[q].rows = {})
  <2>1. CASE x = q
    <3>1. desk'[q] = [at |-> "roster", class |-> c, lists |-> 0, rows |-> {}, twice |-> {}]
      BY <1>5, <2>1 DEF OpenRoster, DeskTypeOK
    <3> QED
      BY <3>1
  <2>2. CASE x # q
    BY <1>5, <2>2 DEF OpenRoster, DeskTypeOK
  <2> QED
    BY <2>1, <2>2
<1>6. ASSUME NEW x \in Office, ReadList(x), x # q
      PROVE  desk'[q] = desk[q]
  BY <1>6 DEF ReadList, DeskTypeOK
<1>7. ASSUME ReadList(q), desk[q].lists = 4
      PROVE  FALSE
  BY <1>1, <1>7 DEF ReadList, DeskTypeOK
<1>8. ASSUME ReadList(q), desk[q].lists # 4
      PROVE  /\ desk[q].at = "roster" /\ UNCHANGED vars
             /\ desk' = [desk EXCEPT ![q] =
                 [desk[q] EXCEPT !.lists = @ + 1,
                    !.rows = @ \cup RowsOf(desk[q].class, {ReadingOrder[desk[q].lists + 1]}),
                    !.twice = @ \cup (desk[q].rows \cap RowsOf(desk[q].class, {ReadingOrder[desk[q].lists + 1]}))]]
  BY <1>8 DEF ReadList, NoService
<1>9. ASSUME Elsewhere \/ (\E c \in Class, n \in Capacities : upsert_class(c, n)) \/ UNCHANGED deskVars
       PROVE  desk'[q] = desk[q]
  BY <1>9 DEF Elsewhere, upsert_class, deskVars
<1>10. \A x \in Office : \/ \E ch \in Child, c \in Class : register_view(x, ch, c)
                         \/ \E e \in Id : offer_view(x, e)
                         \/ MoveChild(x)
                         => \/ \E c : Answering(x, c)
                            \/ desk' = [desk EXCEPT ![x] = Free]
  BY DEF register_view, offer_view, MoveChild
<1>11. \A x \in Office : Note(x) => desk' = [desk EXCEPT ![x] = Free]
  BY DEF Note
<1> QED
  BY <1>2, <1>3, <1>4, <1>5, <1>6, <1>7, <1>8, <1>9, <1>10, <1>11 DEF DeskNext

LEMMA RostersStep ==
  TypeOK /\ DeskTypeOK /\ DeskTypeOK' /\ RostersRead /\ [DeskNext]_deskVars => RostersRead'
<1> SUFFICES ASSUME TypeOK, DeskTypeOK, DeskTypeOK', RostersRead, [DeskNext]_deskVars,
                    NEW q \in Office, desk'[q].at = "roster"
             PROVE  /\ desk'[q].twice = {}
                    /\ \A e \in desk'[q].rows : enrollments'[e].status \in SeenBy(desk'[q].lists)
  BY DEF RostersRead
<1>1. \A e \in Id : Lives(e)
  BY DeskServes, RowLife
<1>2. CASE desk'[q] = desk[q]
  <2>1. desk[q] \in Roster
    BY <1>2, DeskKinds
  <2>2. desk[q].lists \in 0..4 /\ desk[q].rows \subseteq Id
    BY <2>1 DEF Roster
  <2> QED
    BY <1>1, <1>2, <2>2, SeenStays DEF RostersRead
<1>3. CASE desk'[q].twice = {} /\ desk'[q].rows = {}
  BY <1>3
<1>4. CASE desk[q].at = "roster" /\ desk[q].lists # 4 /\ UNCHANGED vars
            /\ desk' = [desk EXCEPT ![q] =
                 [desk[q] EXCEPT !.lists = @ + 1,
                    !.rows = @ \cup RowsOf(desk[q].class, {ReadingOrder[desk[q].lists + 1]}),
                    !.twice = @ \cup (desk[q].rows \cap RowsOf(desk[q].class, {ReadingOrder[desk[q].lists + 1]}))]]
  <2> DEFINE k == desk[q].lists
             found == RowsOf(desk[q].class, {ReadingOrder[k + 1]})
  <2>1. desk[q] \in Roster /\ found \in SUBSET Id
    BY <1>4, DeskKinds DEF RowsOf
  <2>2. k \in 0..3 /\ desk[q].rows \subseteq Id
    BY <1>4, <2>1 DEF Roster
  <2>3. \A e \in found : enrollments[e].status = Lists[k + 1]
    BY DEF RowsOf, ReadingOrder
  <2>4. desk'[q] = [desk[q] EXCEPT !.lists = @ + 1, !.rows = @ \cup found,
                                   !.twice = @ \cup (desk[q].rows \cap found)]
    BY <1>4 DEF DeskTypeOK
  <2> HIDE DEF found
  <2>5. /\ desk'[q].lists = k + 1 /\ desk'[q].rows = desk[q].rows \cup found
        /\ desk'[q].twice = desk[q].twice \cup (desk[q].rows \cap found)
    <3>1. PICK r \in Roster : r = desk[q]
      BY <2>1
    <3> DEFINE s == [r EXCEPT !.lists = @ + 1, !.rows = @ \cup found,
                              !.twice = @ \cup (r.rows \cap found)]
    <3>2. desk'[q] = s
      BY <2>4, <3>1
    <3>3. r.lists # 4
      BY <1>4, <3>1
    <3>4. /\ s.lists = r.lists + 1 /\ s.rows = r.rows \cup found
          /\ s.twice = r.twice \cup (r.rows \cap found)
      BY <2>1, <3>3, RosterRead
    <3> HIDE DEF s
    <3> QED
      BY <3>1, <3>2, <3>4
  <2>6. desk[q].twice = {} /\ \A e \in desk[q].rows : enrollments[e].status \in SeenBy(k)
    BY <1>4 DEF RostersRead
  <2>7. Lists[k + 1] \notin SeenBy(k) /\ SeenBy(k + 1) = SeenBy(k) \cup {Lists[k + 1]}
    BY <2>2, NextUnseen
  <2>8. enrollments' = enrollments
    BY <1>4 DEF vars
  <2> HIDE DEF k
  <2> QED
    BY <2>3, <2>5, <2>6, <2>7, <2>8
<1> QED
  BY <1>2, <1>3, <1>4, RosterLife

(* A service that the office answers for: it may take its own class over,  *)
(* and the answer has the capacity it went by.                             *)
LEMMA AnsweredTold ==
  ASSUME TypeOK, DeskTypeOK, ToldOrTelling, NEW q \in Office, NEW d \in Class, desk[q].at # "answer",
         Within({d}), capacity' = capacity, Answering(q, d), Knowing({})
  PROVE  ToldOrTelling'
<1> SUFFICES ASSUME NEW c \in Class, OverCapacity(c)'
             PROVE  c \in told' \/ \E p \in Office : Answers(p, c)'
  BY DEF ToldOrTelling
<1>1. CASE c = d
  <2>1. desk'[q] = [at |-> "answer", class |-> d, capacity |-> capacity[d]]
    BY DEF Answering, DeskTypeOK
  <2>2. capacity[d] \in Nat
    BY DEF TypeOK
  <2> QED
    BY <1>1, <2>1, <2>2 DEF Answers
<1>2. CASE c # d
  <2>1. OverCapacity(c)
    BY <1>2 DEF Within
  <2>2. c \in told \/ \E p \in Office : Answers(p, c)
    BY <2>1 DEF ToldOrTelling
  <2>3. c \in told => c \in told'
    BY DEF Knowing
  <2>4. ASSUME NEW p \in Office, Answers(p, c) PROVE Answers(p, c)'
    <3>1. p # q
      BY <2>4 DEF Answers
    <3>2. desk'[p] = desk[p]
      BY <3>1 DEF Answering, DeskTypeOK
    <3> QED
      BY <2>4, <3>2 DEF Answers
  <2> QED
    BY <2>2, <2>3, <2>4
<1> QED
  BY <1>1, <1>2

(* A service nobody answers for. *)
LEMMA OthersTold ==
  ASSUME TypeOK, DeskTypeOK, ToldOrTelling, UNCHANGED desk, NEW S, Knowing(S),
         \A c \in Class : OverCapacity(c)' => \/ c \in S
                                              \/ OverCapacity(c) /\ capacity'[c] = capacity[c]
  PROVE  ToldOrTelling'
<1> SUFFICES ASSUME NEW c \in Class, OverCapacity(c)'
             PROVE  c \in told' \/ \E p \in Office : Answers(p, c)'
  BY DEF ToldOrTelling
<1>1. CASE c \in S
  BY <1>1 DEF Knowing
<1>2. CASE OverCapacity(c) /\ capacity'[c] = capacity[c]
  <2>1. c \in told \/ \E p \in Office : Answers(p, c)
    BY <1>2 DEF ToldOrTelling
  <2>2. c \in told => c \in told'
    BY DEF Knowing
  <2>3. \A p \in Office : Answers(p, c) => Answers(p, c)'
    BY <1>2 DEF Answers
  <2> QED
    BY <2>1, <2>2, <2>3
<1> QED
  BY <1>1, <1>2

(* The answer itself counts the seats as they are, against the capacity    *)
(* the service has read, which is no larger than the class's.              *)
LEMMA NoteTold ==
  ASSUME TypeOK, DeskTypeOK, ToldOrTelling, NEW q \in Office, Note(q)
  PROVE  ToldOrTelling'
<1> SUFFICES ASSUME NEW c \in Class, OverCapacity(c)'
             PROVE  c \in told' \/ \E p \in Office : Answers(p, c)'
  BY DEF ToldOrTelling
<1>1. /\ UNCHANGED vars /\ desk' = [desk EXCEPT ![q] = Free]
      /\ Knowing({d \in {desk[q].class} : seats_over_capacity(d, desk[q].capacity)})
  BY DEF Note, NoService
<1>2. OverCapacity(c) /\ capacity' = capacity
  BY <1>1 DEF vars, OverCapacity, SeatsTaken, SeatHolders, RowsOf, LiveOffer
<1>3. c \in told \/ \E p \in Office : Answers(p, c)
  BY <1>2 DEF ToldOrTelling
<1>4. c \in told => c \in told'
  BY <1>1 DEF Knowing
<1>5. ASSUME Answers(q, c) PROVE c \in told'
  <2>1. desk[q].class = c /\ desk[q].capacity <= capacity[c] /\ desk[q].capacity \in Nat
    BY <1>5, DeskKinds DEF Answers
  <2>2. SeatsTaken(c) > capacity[c] /\ SeatsTaken(c) \in Nat /\ capacity[c] \in Nat
    BY <1>2, SeatsFinite DEF OverCapacity, TypeOK
  <2>3. seats_over_capacity(c, desk[q].capacity)
    BY <2>1, <2>2 DEF seats_over_capacity
  <2> QED
    BY <1>1, <2>1, <2>3 DEF Knowing
<1>6. ASSUME NEW p \in Office, p # q, Answers(p, c) PROVE Answers(p, c)'
  BY <1>1, <1>2, <1>6 DEF Answers, DeskTypeOK
<1> QED
  BY <1>3, <1>4, <1>5, <1>6

(* A request that starts, reads or gives up. *)
LEMMA ReadingTold ==
  ASSUME TypeOK, DeskTypeOK, ToldOrTelling, UNCHANGED <<vars, told>>, NEW q \in Office,
         desk[q].at # "answer", NEW v, desk' = [desk EXCEPT ![q] = v]
  PROVE  ToldOrTelling'
<1> SUFFICES ASSUME NEW c \in Class, OverCapacity(c)'
             PROVE  c \in told' \/ \E p \in Office : Answers(p, c)'
  BY DEF ToldOrTelling
<1>1. OverCapacity(c) /\ capacity' = capacity
  BY DEF vars, OverCapacity, SeatsTaken, SeatHolders, RowsOf, LiveOffer
<1>2. c \in told \/ \E p \in Office : Answers(p, c)
  BY <1>1 DEF ToldOrTelling
<1>3. ASSUME NEW p \in Office, Answers(p, c) PROVE Answers(p, c)'
  <2>1. p # q
    BY <1>3 DEF Answers
  <2> QED
    BY <1>1, <1>3, <2>1 DEF Answers, DeskTypeOK
<1> QED
  BY <1>2, <1>3

(* The services of the others take no class over its capacity; the form    *)
(* that saves a class refuses to.                                          *)
LEMMA ElsewhereWithin ==
  ASSUME TypeOK, TypeOK', Elsewhere, NEW c \in Class, OverCapacity(c)'
  PROVE  OverCapacity(c) /\ capacity'[c] = capacity[c]
<1>1. ASSUME NEW ch \in Child, NEW d \in Class, Register(ch, d)
      PROVE  Decides({}) /\ capacity' = capacity
  BY <1>1, RegistrationOver DEF Register, catalog
<1>2. ASSUME NEW e \in Id, ApproveRequest(e) \/ ConfirmOffer(e)
      PROVE  Decides({}) /\ capacity' = capacity
  BY <1>2, ApproveOver, ConfirmOver DEF ApproveRequest, ConfirmOffer, catalog
<1>3. ASSUME NEW e \in Id,
             \/ RejectRequest(e) \/ DeclineOffer(e) \/ CancelByAdmin(e) \/ ParentCancel(e)
             \/ ConfirmCancellation(e) \/ DeclineCancellation(e)
      PROVE  Decides({}) /\ capacity' = capacity
  <2>1. \/ RejectRequest(e) \/ DeclineOffer(e) \/ RequestCancellation(e) \/ DeclineCancellation(e)
        \/ \E reason \in CancelReason : Cancel(e, reason)
    BY <1>3, ParentCancelCases DEF CancelByAdmin, ConfirmCancellation, CancelReason
  <2>2. capacity' = capacity
    BY <2>1 DEF RejectRequest, DeclineOffer, RequestCancellation, DeclineCancellation, Cancel, catalog
  <2> QED
    BY <2>1, <2>2, CancelOver, OneRowOver
<1>4. ASSUME NEW d \in Class, CancelClass(d)
      PROVE  Decides({}) /\ capacity' = capacity
  BY <1>4, ClassStepOver DEF CancelClass
<1>5. ASSUME NEW d \in Class, NEW n \in Capacities, EditCapacity(d, n), c = d
      PROVE  FALSE
  <2>1. n >= SeatsTaken(c) /\ SeatsTaken(c)' = SeatsTaken(c) /\ capacity'[c] = n
    BY <1>5 DEF EditCapacity, SaveCapacity, SeatsTaken, SeatHolders, RowsOf, LiveOffer, TypeOK
  <2>2. SeatsTaken(c) \in Nat /\ n \in Nat
    BY SeatsFinite, SettingsAssumption
  <2> QED
    BY <2>1, <2>2 DEF OverCapacity
<1>6. ASSUME NEW d \in Class, NEW n \in Capacities, EditCapacity(d, n), c # d
      PROVE  OverCapacity(c) /\ capacity'[c] = capacity[c]
  <2>1. SaveCapacity(d, n)
    BY <1>6 DEF EditCapacity
  <2>2. Within({d}) /\ capacity'[c] = capacity[c]
    BY <1>6, <2>1, CapacityOver DEF Decides, SaveCapacity, TypeOK
  <2> QED
    BY <1>6, <2>2 DEF Within
<1>7. ASSUME Decides({}), capacity' = capacity PROVE OverCapacity(c) /\ capacity'[c] = capacity[c]
  BY <1>7 DEF Decides, Within
<1> QED
  BY <1>1, <1>2, <1>3, <1>4, <1>5, <1>6, <1>7
     DEF Elsewhere, enroll, family_action, transition, bulk_actions

LEMMA ToldStep ==
  TypeOK /\ TypeOK' /\ DeskTypeOK /\ ToldOrTelling /\ [DeskNext]_deskVars => ToldOrTelling'
<1> SUFFICES ASSUME TypeOK, TypeOK', DeskTypeOK, ToldOrTelling, [DeskNext]_deskVars
             PROVE  ToldOrTelling'
  OBVIOUS
<1>1. ASSUME NEW q \in Office, NEW ch \in Child, NEW c \in Class, register_view(q, ch, c)
      PROVE  ToldOrTelling'
  <2>1. AdminRegister(ch, c) /\ ~Register(ch, c)
    BY <1>1 DEF register_view, AdminRegister, Register, TypeOK
  <2>2. Within({c}) /\ capacity' = capacity
    BY <2>1, RegistrationOver DEF Decides, AdminRegister, catalog
  <2> QED
    BY <1>1, <2>2, AnsweredTold DEF register_view, StepTelling, Free
<1>2. ASSUME NEW q \in Office, NEW e \in Id, offer_view(q, e)
      PROVE  ToldOrTelling'
  <2>1. OfferSeat(e) /\ enrollments[e].activity_class \in Class
    BY <1>2 DEF offer_view, OfferSeat, TypeOK
  <2>2. Within({enrollments[e].activity_class}) /\ capacity' = capacity
    BY <2>1, OfferOver DEF Decides, OfferSeat, catalog
  <2> QED
    BY <1>2, <2>1, <2>2, AnsweredTold DEF offer_view, StepTelling, Free
<1>3. ASSUME NEW q \in Office, MoveChild(q)
      PROVE  ToldOrTelling'
  <2>1. desk[q].at = "move" /\ desk[q].row \in Id /\ desk[q].target \in Class
    BY <1>3, DeskKinds DEF MoveChild
  <2>2. CASE Transfer(desk[q].row, desk[q].target) /\ Answering(q, desk[q].target) /\ StepTelling({})
    <3>1. Within({desk[q].target}) /\ capacity' = capacity
      BY <2>1, <2>2, TransferOver DEF Decides, Transfer, catalog
    <3> QED
      BY <2>1, <2>2, <3>1, AnsweredTold DEF StepTelling
  <2>3. CASE desk' = [desk EXCEPT ![q] = Free] /\ UNCHANGED told /\ NoService
    BY <2>1, <2>3, ReadingTold DEF NoService
  <2> QED
    BY <1>3, <2>2, <2>3 DEF MoveChild
<1>4. ASSUME NEW q \in Office, Note(q)
      PROVE  ToldOrTelling'
  BY <1>4, NoteTold
<1>5. ASSUME NEW q \in Office,
             (\E e \in Id, c \in Class : move_view(q, e, c)) \/ (\E c \in Class : OpenRoster(q, c)) \/ ReadList(q)
      PROVE  ToldOrTelling'
  <2>1. UNCHANGED <<vars, told>>
    BY <1>5 DEF move_view, OpenRoster, ReadList, NoService
  <2>2. desk[q].at # "answer"
    BY <1>5 DEF move_view, OpenRoster, ReadList, Free
  <2>3. \E v : desk' = [desk EXCEPT ![q] = v]
    BY <1>5 DEF move_view, OpenRoster, ReadList
  <2> QED
    BY <2>1, <2>2, <2>3, ReadingTold
<1>6. ASSUME NEW c \in Class, NEW n \in Capacities, upsert_class(c, n)
      PROVE  ToldOrTelling'
  <2>1. SaveCapacity(c, n) /\ UNCHANGED desk /\ Knowing({c})
    BY <1>6 DEF upsert_class, UpsertClass, StepTelling
  <2>2. \A d \in Class \ {c} : OverCapacity(d)' => OverCapacity(d) /\ capacity'[d] = capacity[d]
    BY <2>1, CapacityOver DEF Decides, Within, SaveCapacity, TypeOK
  <2> QED
    BY <2>1, <2>2, OthersTold
<1>7. ASSUME Elsewhere PROVE ToldOrTelling'
  <2>1. UNCHANGED desk /\ Knowing({})
    BY <1>7 DEF Elsewhere, StepTelling
  <2> QED
    BY <1>7, <2>1, ElsewhereWithin, OthersTold
<1>8. CASE UNCHANGED deskVars
  BY <1>8 DEF deskVars, vars, ToldOrTelling, Answers, OverCapacity, SeatsTaken, SeatHolders, RowsOf, LiveOffer
<1> QED
  BY <1>1, <1>2, <1>3, <1>4, <1>5, <1>6, <1>7, <1>8 DEF DeskNext

(* Stamps. *)

LEMMA StampedOnce ==
  ASSUME TypeOK, DeskTypeOK, StampsInOrder, [DeskNext]_deskVars, NEW e \in Id
  PROVE  \/ waitlisted_at'[e] = waitlisted_at[e]
         \/ /\ waitlisted_at[e] = Unset
            /\ waitlisted_at'[e] = Cardinality(StampedRows) + 1
            /\ enrollments[e].status # "WAITLISTED" /\ enrollments'[e].status = "WAITLISTED"
<1>1. Lives(e)
  BY DeskServes, RowLife
<1>2. CASE waitlisted_at' = waitlisted_at
  BY <1>2
<1>3. CASE waitlisted_at' = Stamped
  <2>1. CASE enrollments[e].status # "WAITLISTED" /\ enrollments'[e].status = "WAITLISTED"
    <3>1. enrollments[e].status = "REQUESTED"
      BY <1>1, <2>1 DEF Lives, Born, Changed, Onward
    <3>2. waitlisted_at[e] = Unset
      BY <3>1 DEF StampsInOrder
    <3>3. waitlisted_at'[e] = Cardinality(StampedRows) + 1
      BY <1>3, <2>1 DEF Stamped, StampedRows
    <3> QED
      BY <2>1, <3>2, <3>3
  <2>2. CASE ~(enrollments[e].status # "WAITLISTED" /\ enrollments'[e].status = "WAITLISTED")
    BY <1>3, <2>2 DEF Stamped
  <2> QED
    BY <2>1, <2>2
<1> QED
  BY <1>2, <1>3, DeskServes

LEMMA StampsStep ==
  TypeOK /\ DeskTypeOK /\ DeskTypeOK' /\ StampsInOrder /\ [DeskNext]_deskVars => StampsInOrder'
<1> SUFFICES ASSUME TypeOK, DeskTypeOK, DeskTypeOK', StampsInOrder, [DeskNext]_deskVars,
                    NEW e \in Id
             PROVE  /\ waitlisted_at'[e] <= Cardinality(StampedRows')
                    /\ waitlisted_at'[e] # Unset => enrollments'[e].status \notin {"UNSAVED", "REQUESTED"}
  BY DEF StampsInOrder
<1>1. StampedRows \in SUBSET Id /\ StampedRows' \in SUBSET Id
  BY DEF StampedRows
<1>2. /\ IsFiniteSet(StampedRows) /\ IsFiniteSet(StampedRows')
      /\ Cardinality(StampedRows) \in Nat /\ Cardinality(StampedRows') \in Nat
  BY <1>1, RowsFinite
<1>3. StampedRows \subseteq StampedRows'
  BY StampedOnce DEF StampedRows
<1>4. Cardinality(StampedRows) <= Cardinality(StampedRows')
  BY <1>2, <1>3, FS_Subset
<1>5. waitlisted_at[e] \in Nat /\ waitlisted_at'[e] \in Nat
  BY DEF DeskTypeOK
<1>6. Lives(e)
  BY DeskServes, RowLife
<1>7. CASE waitlisted_at'[e] = waitlisted_at[e]
  <2>1. waitlisted_at'[e] <= Cardinality(StampedRows')
    BY <1>2, <1>4, <1>5, <1>7 DEF StampsInOrder
  <2>2. ASSUME waitlisted_at'[e] # Unset
        PROVE  enrollments'[e].status \notin {"UNSAVED", "REQUESTED"}
    BY <1>6, <1>7, <2>2 DEF StampsInOrder, Lives, Born, NextId, Changed, Onward, Active
  <2> QED
    BY <2>1, <2>2
<1>8. CASE /\ waitlisted_at[e] = Unset
           /\ waitlisted_at'[e] = Cardinality(StampedRows) + 1
           /\ enrollments[e].status # "WAITLISTED" /\ enrollments'[e].status = "WAITLISTED"
  <2>1. e \notin StampedRows /\ e \in StampedRows'
    BY <1>2, <1>8 DEF StampedRows, Unset
  <2>2. Cardinality(StampedRows) # Cardinality(StampedRows')
    BY <1>2, <1>3, <2>1, FS_Subset
  <2> QED
    BY <1>2, <1>4, <1>8, <2>2
<1> QED
  BY <1>7, <1>8, StampedOnce

(* Who is before a family that keeps waiting was before it already.        *)
LEMMA QueueShrinks ==
  ASSUME TypeOK, TypeOK', DeskTypeOK, DeskTypeOK', StampsInOrder, [DeskNext]_deskVars, NEW e \in Id,
         enrollments[e].status = "WAITLISTED", enrollments'[e].status = "WAITLISTED"
  PROVE  waitlist_position(e)' <= waitlist_position(e)
<1> DEFINE c == enrollments[e].activity_class
           ahead == {f \in Waitlist(c) : Before(f, e)}
           later == {f \in Id : /\ enrollments'[f].activity_class = c
                                /\ enrollments'[f].status = "WAITLISTED"
                                /\ Before(f, e)'}
<1>1. \A f \in Id : Lives(f)
  BY DeskServes, RowLife
<1>2. enrollments'[e].activity_class = c
  BY <1>1 DEF Lives, Born, NextId, Changed
<1>3. waitlisted_at'[e] = waitlisted_at[e] /\ waitlisted_at[e] \in Nat
  BY StampedOnce DEF DeskTypeOK
<1>4. Cardinality(StampedRows) \in Nat
  BY RowsFinite DEF StampedRows
<1>5. ASSUME NEW f \in later PROVE f \in ahead
  <2>1. f \in Id /\ Before(f, e)' /\ enrollments'[f].activity_class = c
        /\ enrollments'[f].status = "WAITLISTED"
    OBVIOUS
  <2>2. waitlisted_at'[f] = waitlisted_at[f]
    <3>1. ASSUME waitlisted_at'[f] = Cardinality(StampedRows) + 1 PROVE FALSE
      BY <1>3, <1>4, <2>1, <3>1 DEF Before, StampsInOrder
    <3> QED
      BY <2>1, <3>1, StampedOnce
  <2>3. Before(f, e)
    BY <1>3, <2>1, <2>2 DEF Before
  <2>4. enrollments[f].status = "WAITLISTED"
    <3>1. ASSUME enrollments[f].status # "WAITLISTED" PROVE FALSE
      <4>1. enrollments[f].status = "REQUESTED"
        BY <1>1, <2>1, <3>1 DEF Lives, Born, Changed, Onward
      <4>2. waitlisted_at[f] = Unset
        BY <2>1, <4>1 DEF StampsInOrder
      <4>3. ~UNCHANGED vars
        BY <2>1, <3>1 DEF vars
      <4>4. waitlisted_at' = Stamped
        BY <4>3, DeskServes
      <4>5. waitlisted_at'[f] = Cardinality(StampedRows) + 1
        BY <2>1, <3>1, <4>4 DEF Stamped, StampedRows
      <4> QED
        BY <1>4, <2>2, <4>2, <4>5 DEF Unset
    <3> QED
      BY <3>1
  <2>5. enrollments[f].activity_class = c
    BY <1>1, <2>1, <2>4 DEF Lives, Born, NextId, Changed
  <2> QED
    BY <2>1, <2>3, <2>4, <2>5 DEF Waitlist, RowsOf
<1>6. waitlist_position(e)' = 1 + Cardinality(later)
  <2>1. {f \in Waitlist(enrollments[e].activity_class)' : Before(f, e)'} = later
    BY <1>2 DEF Waitlist, RowsOf
  <2> QED
    BY <2>1 DEF waitlist_position
<1>7. waitlist_position(e) = 1 + Cardinality(ahead)
  BY DEF waitlist_position
<1>8. later \in SUBSET Id /\ ahead \in SUBSET Id
  BY DEF Waitlist, RowsOf
<1> HIDE DEF later, ahead
<1>9. IsFiniteSet(ahead) /\ Cardinality(ahead) \in Nat /\ Cardinality(later) \in Nat
  BY <1>8, RowsFinite
<1>10. Cardinality(later) <= Cardinality(ahead)
  BY <1>5, <1>9, FS_Subset
<1> QED
  BY <1>6, <1>7, <1>9, <1>10

-----------------------------------------------------------------------------
(* The queue, in whichever way a page comes by it.  Rows are put in order  *)
(* by counting: a row's place is one more than the rows before it, which   *)
(* numbers a waiting list from one to its length.                          *)

Place(c, e) == 1 + Cardinality({f \in Waitlist(c) : Before(f, e)})

(* A sequence that a query with this order may return. *)
InQueueOrder(s, c) ==
  /\ s \in [1..Cardinality(Waitlist(c)) -> Waitlist(c)]
  /\ \A i, j \in DOMAIN s : i < j => Before(s[i], s[j])

LEMMA WaitingRows ==
  ASSUME NEW c \in Class
  PROVE  /\ Waitlist(c) \in SUBSET Id /\ Id \subseteq Nat
         /\ IsFiniteSet(Waitlist(c)) /\ Cardinality(Waitlist(c)) \in Nat
         /\ \A e \in Waitlist(c) : enrollments[e].activity_class = c
                                   /\ enrollments[e].status = "WAITLISTED"
<1>1. Waitlist(c) \in SUBSET Id
  BY DEF Waitlist, RowsOf
<1> QED
  BY <1>1, RowsFinite DEF Waitlist, RowsOf, Id

(* first come, first served is an order without ties. *)
LEMMA FirstCome ==
  ASSUME DeskTypeOK
  PROVE  \A e, f, g \in Id : /\ ~Before(e, e)
                             /\ Before(e, f) => ~Before(f, e)
                             /\ e # f => Before(e, f) \/ Before(f, e)
                             /\ Before(e, f) /\ Before(f, g) => Before(e, g)
<1>1. \A e \in Id : e \in Nat /\ waitlisted_at[e] \in Nat
  BY DEF DeskTypeOK, Id
<1> QED
  BY <1>1 DEF Before

LEMMA Places ==
  ASSUME DeskTypeOK, NEW c \in Class
  PROVE  /\ \A e \in Waitlist(c) : Place(c, e) \in 1..Cardinality(Waitlist(c))
         /\ \A e, f \in Waitlist(c) : Before(e, f) => Place(c, e) < Place(c, f)
         /\ \A e, f \in Waitlist(c) : Place(c, e) = Place(c, f) => e = f
<1> DEFINE W == Waitlist(c)
           ahead(e) == {f \in W : Before(f, e)}
<1>1. W \in SUBSET Id /\ IsFiniteSet(W)
  BY WaitingRows
<1>2. ASSUME NEW e \in W
      PROVE  Place(c, e) \in 1..Cardinality(W)
  <2>1. ahead(e) \in SUBSET (W \ {e})
    BY <1>1, FirstCome
  <2>2. IsFiniteSet(W \ {e}) /\ Cardinality(W \ {e}) = Cardinality(W) - 1
    BY <1>1, FS_RemoveElement
  <2>3. Cardinality(ahead(e)) <= Cardinality(W) - 1 /\ Cardinality(ahead(e)) \in Nat
    BY <2>1, <2>2, FS_Subset, FS_CardinalityType
  <2>4. Cardinality(W) \in Nat
    BY <1>1, FS_CardinalityType
  <2> QED
    BY <2>3, <2>4 DEF Place
<1>3. ASSUME NEW e \in W, NEW f \in W, Before(e, f)
      PROVE  Place(c, e) < Place(c, f)
  <2>1. ahead(e) \in SUBSET (ahead(f) \ {e}) /\ e \in ahead(f)
    BY <1>1, <1>3, FirstCome
  <2>2. IsFiniteSet(ahead(f))
    BY <1>1, FS_Subset
  <2>3. IsFiniteSet(ahead(f) \ {e}) /\ Cardinality(ahead(f) \ {e}) = Cardinality(ahead(f)) - 1
    BY <2>1, <2>2, FS_RemoveElement
  <2>4. /\ Cardinality(ahead(e)) <= Cardinality(ahead(f)) - 1
        /\ Cardinality(ahead(e)) \in Nat /\ Cardinality(ahead(f)) \in Nat
    <3> HIDE DEF ahead
    <3> QED
      BY <2>1, <2>2, <2>3, FS_Subset, FS_CardinalityType
  <2> QED
    BY <2>4 DEF Place
<1>4. ASSUME NEW e \in W, NEW f \in W, Place(c, e) = Place(c, f)
      PROVE  e = f
  <2>1. Place(c, e) \in Nat /\ Place(c, f) \in Nat
    BY <1>2
  <2> QED
    BY <1>1, <1>3, <1>4, <2>1, FirstCome
<1> QED
  BY <1>2, <1>3, <1>4

(* The places of a waiting list are all taken, so there is an order ...    *)
LEMMA QueueExists ==
  ASSUME DeskTypeOK, NEW c \in Class
  PROVE  \E s : InQueueOrder(s, c)
<1> DEFINE W == Waitlist(c)
           n == Cardinality(W)
           place == [e \in W |-> Place(c, e)]
<1>1. W \in SUBSET Id /\ IsFiniteSet(W) /\ n \in Nat
  BY WaitingRows
<1>2. place \in Injection(W, 1..n)
  BY Places DEF Injection, IsInjective
<1>3. IsFiniteSet(1..n) /\ Cardinality(1..n) = n
  BY <1>1, FS_Interval
<1>4. place \in Surjection(W, 1..n)
  BY <1>2, <1>3, FS_Injection
<1>5. \A i \in 1..n : \E e \in W : Place(c, e) = i
  BY <1>4 DEF Surjection
<1> HIDE DEF place
<1> DEFINE s == [i \in 1..n |-> CHOOSE e \in W : Place(c, e) = i]
<1>6. \A i \in 1..n : s[i] \in W /\ Place(c, s[i]) = i
  BY <1>5
<1>7. s \in [1..n -> W]
  BY <1>6
<1> HIDE DEF s
<1>8. ASSUME NEW i \in 1..n, NEW j \in 1..n, i < j
      PROVE  Before(s[i], s[j])
  <2>1. s[i] # s[j] /\ ~Before(s[j], s[i])
    BY <1>6, <1>8, Places
  <2> QED
    BY <1>1, <1>6, <2>1, FirstCome
<1> QED
  BY <1>7, <1>8 DEF InQueueOrder

(* ... and only one: the row at a place has so many before it.             *)
LEMMA QueuePlaces ==
  ASSUME DeskTypeOK, NEW c \in Class, NEW s, InQueueOrder(s, c)
  PROVE  /\ \A i \in DOMAIN s : Place(c, s[i]) = i
         /\ {s[i] : i \in DOMAIN s} = Waitlist(c)
<1> DEFINE W == Waitlist(c)
           n == Cardinality(W)
<1>1. W \in SUBSET Id /\ IsFiniteSet(W) /\ n \in Nat
  BY WaitingRows
<1>2. s \in [1..n -> W] /\ DOMAIN s = 1..n /\ \A i \in 1..n : s[i] \in W /\ s[i] \in Id
  BY <1>1 DEF InQueueOrder
<1>3. \A i, j \in 1..n : i < j => Before(s[i], s[j])
  BY <1>2 DEF InQueueOrder
<1>4. \A i, j \in 1..n : i # j => s[i] # s[j]
  <2> SUFFICES ASSUME NEW i \in 1..n, NEW j \in 1..n, i # j PROVE s[i] # s[j]
    OBVIOUS
  <2>1. Before(s[i], s[j]) \/ Before(s[j], s[i])
    BY <1>1, <1>3
  <2> QED
    BY <1>2, <2>1, FirstCome
<1>5. s \in Injection(1..n, W)
  BY <1>2, <1>4 DEF Injection, IsInjective
<1>6. IsFiniteSet(1..n) /\ Cardinality(1..n) = n
  BY <1>1, FS_Interval
<1>7. s \in Surjection(1..n, W)
  BY <1>1, <1>5, <1>6, FS_Injection
<1>8. \A e \in W : \E i \in 1..n : s[i] = e
  BY <1>7 DEF Surjection
<1>9. ASSUME NEW i \in 1..n
      PROVE  Place(c, s[i]) = i
  <2> DEFINE t == [j \in 1..(i - 1) |-> s[j]]
             A == {f \in W : Before(f, s[i])}
  <2>1. i - 1 \in Nat /\ i \in Nat /\ \A j \in 1..(i - 1) : j \in 1..n /\ j < i
    BY <1>1
  <2>2. \A j \in 1..(i - 1) : s[j] \in A
    BY <1>2, <1>3, <2>1
  <2>3. \A f \in A : \E j \in 1..(i - 1) : s[j] = f
    <3> SUFFICES ASSUME NEW f \in A PROVE \E j \in 1..(i - 1) : s[j] = f
      OBVIOUS
    <3>1. PICK j \in 1..n : s[j] = f
      BY <1>8
    <3>2. Before(s[j], s[i])
      BY <3>1
    <3>3. j # i /\ ~(i < j)
      BY <1>2, <1>3, <3>2, FirstCome
    <3>4. j \in 1..(i - 1)
      BY <1>1, <3>3
    <3> QED
      BY <3>1, <3>4
  <2> HIDE DEF A
  <2>4. t \in [1..(i - 1) -> A]
    BY <2>2
  <2>5. t \in Bijection(1..(i - 1), A)
    BY <1>4, <2>1, <2>3, <2>4 DEF Bijection, Injection, Surjection, IsInjective
  <2>6. ExistsBijection(1..(i - 1), A)
    BY <2>5 DEF ExistsBijection
  <2>7. Cardinality(A) = i - 1
    BY <2>1, <2>6, FS_CountingElements
  <2> QED
    BY <2>1, <2>7 DEF Place, A
<1>10. {s[i] : i \in DOMAIN s} = W
  BY <1>2, <1>8
<1> QED
  BY <1>2, <1>9, <1>10

LEMMA OneOrder ==
  ASSUME DeskTypeOK, NEW c \in Class, NEW s, InQueueOrder(s, c), NEW t, InQueueOrder(t, c)
  PROVE  s = t
<1> DEFINE n == Cardinality(Waitlist(c))
<1>1. s \in [1..n -> Waitlist(c)] /\ t \in [1..n -> Waitlist(c)]
  BY DEF InQueueOrder
<1>2. \A i \in 1..n : Place(c, s[i]) = i /\ Place(c, t[i]) = i
  BY <1>1, QueuePlaces
<1>3. \A i \in 1..n : s[i] = t[i]
  BY <1>1, <1>2, Places
<1> HIDE DEF n
<1>4. s = [i \in 1..n |-> s[i]] /\ t = [i \in 1..n |-> t[i]]
  BY <1>1
<1>5. [i \in 1..n |-> s[i]] = [i \in 1..n |-> t[i]]
  BY <1>3
<1> QED
  BY <1>4, <1>5

LEMMA Fifo ==
  ASSUME DeskTypeOK, NEW c \in Class
  PROVE  InQueueOrder(waitlist_fifo(c), c)
<1> DEFINE W == Waitlist(c)
           n == Cardinality(W)
           ahead == {p \in W \X W : Before(p[1], p[2])}
<1>1. waitlist_fifo(c) = CHOOSE s \in [1..n -> W] :
                           \A i, j \in DOMAIN s : i < j => <<s[i], s[j]>> \in ahead
  BY DEF waitlist_fifo, order_by
<1>2. \A e, f \in W : <<e, f>> \in ahead <=> Before(e, f)
  OBVIOUS
<1>3. PICK s : s \in [1..n -> W] /\ \A i, j \in DOMAIN s : i < j => Before(s[i], s[j])
  BY QueueExists DEF InQueueOrder
<1> HIDE DEF ahead
<1>4. \A i, j \in DOMAIN s : i < j => <<s[i], s[j]>> \in ahead
  BY <1>2, <1>3
<1>5. /\ waitlist_fifo(c) \in [1..n -> W]
      /\ \A i, j \in DOMAIN waitlist_fifo(c) :
           i < j => <<waitlist_fifo(c)[i], waitlist_fifo(c)[j]>> \in ahead
  BY <1>1, <1>3, <1>4
<1> QED
  BY <1>2, <1>5 DEF InQueueOrder

(* Walking the queues and numbering them finds the same places. *)
LEMMA Numbered ==
  ASSUME DeskTypeOK, NEW c \in Class, NEW C, c \in C, NEW e \in Waitlist(c)
  PROVE  /\ e \in DOMAIN waitlist_positions(C)
         /\ waitlist_positions(C)[e] = Place(c, e)
<1> DEFINE queue == waitlist_fifo(c)
<1>1. enrollments[e].activity_class = c
  BY WaitingRows
<1>2. e \in UNION {Waitlist(d) : d \in C}
  OBVIOUS
<1>3. /\ \A i \in DOMAIN queue : Place(c, queue[i]) = i
      /\ {queue[i] : i \in DOMAIN queue} = Waitlist(c)
  BY Fifo, QueuePlaces
<1> HIDE DEF queue
<1>4. \E i \in DOMAIN queue : queue[i] = e
  BY <1>3
<1>5. (CHOOSE i \in DOMAIN queue : queue[i] = e) = Place(c, e)
  BY <1>3, <1>4
<1> QED
  BY <1>1, <1>2, <1>5 DEF waitlist_positions, queue

(* The register sorts by the numbers it has walked. *)
LEMMA RegisterQueue ==
  ASSUME DeskTypeOK, NEW c \in Class
  PROVE  get_class_register(c).waitlisted = waitlist_fifo(c)
<1> DEFINE W == Waitlist(c)
           n == Cardinality(W)
           positions == waitlist_positions({c})
           queue == get_class_register(c).waitlisted
<1>1. W \in SUBSET Id /\ n \in Nat
  BY WaitingRows
<1>2. \A e \in W : positions[e] = Place(c, e) /\ Place(c, e) \in Nat
  BY Numbered, Places
<1> HIDE DEF positions
<1>3. \A e, f \in W : positions[e] < positions[f] <=> Before(e, f)
  <2> SUFFICES ASSUME NEW e \in W, NEW f \in W
               PROVE  Place(c, e) < Place(c, f) <=> Before(e, f)
    BY <1>2
  <2>1. Before(e, f) \/ Before(f, e) \/ e = f
    BY <1>1, FirstCome
  <2> QED
    BY <1>2, <2>1, Places
<1> DEFINE ahead == {p \in W \X W : positions[p[1]] < positions[p[2]]}
<1>4. queue = CHOOSE s \in [1..n -> W] :
                \A i, j \in DOMAIN s : i < j => <<s[i], s[j]>> \in ahead
  BY DEF get_class_register, order_by, positions
<1>5. \A e, f \in W : <<e, f>> \in ahead <=> Before(e, f)
  BY <1>3
<1> HIDE DEF ahead, queue
<1>6. queue \in [1..n -> W] /\ \A i, j \in DOMAIN queue : i < j => <<queue[i], queue[j]>> \in ahead
  <2>1. PICK s : s \in [1..n -> W] /\ \A i, j \in DOMAIN s : i < j => Before(s[i], s[j])
    BY QueueExists DEF InQueueOrder
  <2>2. \A i, j \in DOMAIN s : i < j => <<s[i], s[j]>> \in ahead
    BY <1>5, <2>1
  <2> QED
    BY <1>4, <2>1, <2>2
<1>7. InQueueOrder(queue, c)
  BY <1>5, <1>6 DEF InQueueOrder
<1>8. queue = waitlist_fifo(c)
  BY <1>7, Fifo, OneOrder
<1> QED
  BY <1>8 DEF queue

(* Every page has this queue, and these places.                            *)
LEMMA QueueIsOne ==
  ASSUME TypeOK, DeskTypeOK
  PROVE  OneQueue
<1> SUFFICES
      ASSUME NEW c \in Class
      PROVE  LET register == get_class_register(c)
                 queue == register.waitlisted
             IN /\ queue = class_detail(c).waitlisted
                /\ \A i \in DOMAIN queue :
                     /\ waitlist_position(queue[i]) = i
                     /\ list_registrations(Active)[queue[i]] = i
                     /\ roster_csv(c)[i] = [position |-> i, row |-> queue[i]]
                /\ class_detail(c).roster = register.enrolled
                /\ Len(queue) = register.class.counts.waitlist_count
                /\ register.enrolled \cup register.offered \cup register.requested
                     \cup Seqs!ToSet(queue) = RowsOf(c, Active)
  BY DEF OneQueue
<1> DEFINE W == Waitlist(c)
           n == Cardinality(W)
           queue == waitlist_fifo(c)
           register == get_class_register(c)
<1>1. W \in SUBSET Id /\ n \in Nat
      /\ \A e \in W : enrollments[e].activity_class = c /\ enrollments[e].status = "WAITLISTED"
  BY WaitingRows
<1>2. /\ queue \in [1..n -> W] /\ DOMAIN queue = 1..n
      /\ \A i \in 1..n : queue[i] \in W /\ Place(c, queue[i]) = i
      /\ {queue[i] : i \in DOMAIN queue} = W
  BY Fifo, QueuePlaces DEF InQueueOrder
<1>3. register.waitlisted = queue
  BY RegisterQueue
<1>4. class_detail(c).waitlisted = queue /\ class_detail(c).roster = register.enrolled
  BY DEF class_detail, get_class_register
<1>5. ASSUME NEW i \in 1..n
      PROVE  /\ waitlist_position(queue[i]) = i
             /\ list_registrations(Active)[queue[i]] = i
             /\ roster_csv(c)[i] = [position |-> i, row |-> queue[i]]
  <2> DEFINE e == queue[i]
             rows == {f \in Id : enrollments[f].status \in Active}
             positions == waitlist_positions({enrollments[f].activity_class : f \in rows})
  <2>1. e \in W /\ Place(c, e) = i /\ e \in rows /\ enrollments[e].activity_class = c
    BY <1>1, <1>2 DEF Active
  <2>2. waitlist_position(e) = i
    BY <2>1 DEF waitlist_position, Place
  <2>3. c \in {enrollments[f].activity_class : f \in rows}
    BY <2>1
  <2>4. e \in DOMAIN positions /\ positions[e] = i
    BY <2>1, <2>3, Numbered
  <2>5. list_registrations(Active)[e] = i
    BY <2>1, <2>4 DEF list_registrations
  <2>6. roster_csv(c)[i] = [position |-> i, row |-> e]
    BY <1>2 DEF roster_csv
  <2> QED
    BY <2>2, <2>5, <2>6
<1>6. Len(queue) = register.class.counts.waitlist_count
  <2>1. queue \in Seq(W)
    BY <1>1, <1>2, SeqDef
  <2>2. Len(queue) = n
    BY <1>1, <1>2, <2>1, LenProperties
  <2>3. with_counts(c).waitlist_count = n
    BY Numbers DEF CountOf, Waitlist
  <2> QED
    BY <2>2, <2>3 DEF get_class_register, class_dict
<1>7. register.enrolled \cup register.offered \cup register.requested \cup Seqs!ToSet(queue)
        = RowsOf(c, Active)
  <2>1. Seqs!ToSet(queue) = RowsOf(c, {"WAITLISTED"})
    BY <1>2 DEF Seqs!ToSet, Waitlist
  <2> QED
    BY <2>1 DEF get_class_register, RowsOf, Active
<1> HIDE DEF queue, register
<1> QED
  BY <1>2, <1>3, <1>4, <1>5, <1>6, <1>7 DEF register

-----------------------------------------------------------------------------
(* What holds of the desk. *)

DeskOK == /\ TypeOK /\ DeskTypeOK
          /\ OneActiveRegistration /\ NewsOK
          /\ RostersRead /\ ToldOrTelling /\ StampsInOrder

LEMMA DeskOKInit == DeskInit => DeskOK
<1> SUFFICES ASSUME DeskInit PROVE DeskOK
  OBVIOUS
<1>1. TypeOK /\ DeskTypeOK
  BY DeskTypeInit
<1>2. \A e \in Id : enrollments[e] = Unsaved /\ waitlisted_at[e] = Unset
  BY DEF DeskInit
<1>3. Unsaved.status = "UNSAVED"
  BY DEF Unsaved
<1>4. OneActiveRegistration
  BY <1>2, <1>3 DEF OneActiveRegistration, Active
<1>5. NewsOK
  BY <1>1, <1>2, BlankNews DEF DeskInit
<1>6. RostersRead
  BY DEF DeskInit, RostersRead, Free
<1>7. ToldOrTelling
  <2> SUFFICES ASSUME NEW c \in Class PROVE ~OverCapacity(c)
    BY DEF ToldOrTelling
  <2>1. SeatHolders(c) = {}
    BY <1>2, <1>3 DEF SeatHolders, RowsOf
  <2>2. SeatsTaken(c) = 0
    BY <2>1, FS_EmptySet DEF SeatsTaken
  <2>3. capacity[c] \in Nat
    BY <1>1 DEF TypeOK
  <2> QED
    BY <2>2, <2>3 DEF OverCapacity
<1>8. StampsInOrder
  <2>1. Cardinality(StampedRows) \in Nat
    BY RowsFinite DEF StampedRows
  <2> QED
    BY <1>2, <2>1 DEF StampsInOrder, Unset
<1> QED
  BY <1>1, <1>4, <1>5, <1>6, <1>7, <1>8 DEF DeskOK

LEMMA DeskOKStep == DeskOK /\ [DeskNext]_deskVars => DeskOK'
<1> SUFFICES ASSUME DeskOK, [DeskNext]_deskVars PROVE DeskOK'
  OBVIOUS
<1>1. [Next]_vars
  BY DeskServes DEF DeskOK
<1>2. TypeOK'
  BY <1>1, TypeStep DEF DeskOK
<1>3. DeskTypeOK'
  BY <1>2, DeskTypeStep DEF DeskOK
<1>4. OneActiveRegistration'
  BY <1>1, OnceStep DEF DeskOK
<1>5. NewsOK'
  BY <1>1, <1>2, NewsStep DEF DeskOK
<1>6. RostersRead'
  BY <1>3, RostersStep DEF DeskOK
<1>7. ToldOrTelling'
  BY <1>2, ToldStep DEF DeskOK
<1>8. StampsInOrder'
  BY <1>3, StampsStep DEF DeskOK
<1> QED
  BY <1>2, <1>3, <1>4, <1>5, <1>6, <1>7, <1>8 DEF DeskOK

LEMMA DeskAlways == DeskSpec => []DeskOK
BY DeskOKInit, DeskOKStep, PTL DEF DeskSpec

(* A class is never over its capacity without the office having been told, *)
(* or being about to, whatever filled it between the moment a page counted *)
(* its seats and the placement.                                            *)
THEOREM NeverQuiet == DeskSpec => []NeverQuietlyOver
<1>1. DeskOK => NeverQuietlyOver
  BY DEF DeskOK, ToldOrTelling, Answers, NeverQuietlyOver
<1> QED
  BY <1>1, DeskAlways, PTL

(* A roster put together from four queries never lists a registration      *)
(* twice: the lists are read against the direction in which rows move.     *)
THEOREM ListedOnce == DeskSpec => []RosterListsOnce
<1>1. DeskOK => RosterListsOnce
  BY DEF DeskOK, RostersRead, RosterListsOnce
<1> QED
  BY <1>1, DeskAlways, PTL

(* A family is told the same place in the queue by every page and tool,    *)
(* whichever way it counts, and every registration is in one list of its   *)
(* class, whatever the office's requests are in the middle of.             *)
THEOREM QueueIsTheSame == DeskSpec => []OneQueue
<1>1. DeskOK => OneQueue
  BY QueueIsOne DEF DeskOK
<1> QED
  BY <1>1, DeskAlways, PTL

(* A waiting family's place in the queue only ever gets better.            *)
THEOREM QueueIsFair == DeskSpec => NobodyOvertaken
<1>1. DeskOK /\ DeskOK' /\ [DeskNext]_deskVars =>
        [\A e \in Id : {enrollments[e].status, enrollments'[e].status} = {"WAITLISTED"}
                         => waitlist_position(e)' <= waitlist_position(e)]_deskVars
  <2> SUFFICES ASSUME DeskOK, DeskOK', [DeskNext]_deskVars, NEW e \in Id,
                      {enrollments[e].status, enrollments'[e].status} = {"WAITLISTED"}
               PROVE  waitlist_position(e)' <= waitlist_position(e)
    OBVIOUS
  <2>1. enrollments[e].status = "WAITLISTED" /\ enrollments'[e].status = "WAITLISTED"
    OBVIOUS
  <2> QED
    BY <2>1, QueueShrinks DEF DeskOK
<1> QED
  BY <1>1, DeskAlways, PTL DEF DeskSpec, NobodyOvertaken

(* What the services promise of the table and of the news they keep when   *)
(* the office's requests are several steps each.                           *)
THEOREM DeskKeepsServices == DeskSpec => [](OneActiveRegistration /\ NewsMatchesPlace)
<1>1. DeskOK => OneActiveRegistration /\ NewsMatchesPlace
  BY DEF DeskOK, NewsOK
<1> QED
  BY <1>1, DeskAlways, PTL
=============================================================================
