------------------------- MODULE EnrollmentsSafety -------------------------
(***************************************************************************)
(* More proofs about Enrollments: the life of a registration (it is unique *)
(* in its class, lives in published classes only and ends for good) and    *)
(* the alerts for freed seats.                                             *)
(***************************************************************************)
EXTENDS EnrollmentsProofs

-----------------------------------------------------------------------------
(* The life of one row: whatever the service, a row is left alone, or born *)
(* into an open class where its child has no other, or changed or ended    *)
(* while it is active, in its class.                                       *)

Born(e) ==
  /\ NextId(e)
  /\ enrollments'[e].status \in {"REQUESTED", "ENROLLED"}
  /\ enrollments'[e].cancel_requested_at = Unset
  /\ Open(enrollments'[e].activity_class)
  /\ ~Registered(enrollments'[e].child, enrollments'[e].activity_class)

(* Where an active row's status may go: nothing leads back to a request,   *)
(* and an approval gives the place its class has, or the waiting list.     *)
Onward(e) ==
  \/ enrollments'[e].status \in {enrollments[e].status, "CANCELLED"}
  \/ /\ enrollments[e].status = "REQUESTED"
     /\ enrollments'[e].status = IF HasFreeSeat(enrollments[e].activity_class)
                                   THEN "ENROLLED" ELSE "WAITLISTED"
  \/ enrollments[e].status = "WAITLISTED" /\ enrollments'[e].status = "OFFERED"
  \/ enrollments[e].status = "OFFERED" /\ enrollments'[e].status = "ENROLLED"

Changed(e) ==
  /\ enrollments[e].status \in Active
  /\ enrollments'[e].status \in Active \cup {"CANCELLED"}
  /\ Onward(e)
  /\ enrollments'[e].child = enrollments[e].child
  /\ enrollments'[e].activity_class = enrollments[e].activity_class
  /\ enrollments'[e].status = "OFFERED" =>
       \/ /\ enrollments[e].status = "OFFERED"
          /\ enrollments'[e].offer_expires_at = enrollments[e].offer_expires_at
       \/ enrollments'[e].offer_expires_at # Unset
  /\ enrollments'[e].status \in {"REQUESTED", "WAITLISTED", "OFFERED"} =>
       enrollments'[e].cancel_requested_at = enrollments[e].cancel_requested_at

Lives(e) == enrollments'[e] = enrollments[e] \/ Born(e) \/ Changed(e)

LEMMA SweptLives ==
  ASSUME TypeOK, NEW c \in Class, NEW e \in Id, enrollments'[e] = Swept(c)[e]
  PROVE  Lives(e)
<1>1. CASE e \in StaleOffers(c)
  <2>1. enrollments[e].status = "OFFERED" /\ enrollments'[e].status = "CANCELLED"
    BY <1>1, SweptRows DEF StaleOffers, RowsOf
  <2> QED
    BY <2>1, SweptRows DEF Lives, Changed, Onward, Active
<1>2. CASE e \notin StaleOffers(c)
  BY <1>2 DEF Swept, Lives
<1> QED
  BY <1>1, <1>2

LEMMA RegistrationLives ==
  ASSUME TypeOK, NEW ch \in Child, NEW c \in Class, Register(ch, c) \/ AdminRegister(ch, c)
  PROVE  \A e \in Id : Lives(e)
<1>1. PICK st \in {"REQUESTED", "ENROLLED"}, f \in Id :
        /\ NextId(f)
        /\ enrollments' = [enrollments EXCEPT ![f] = NewRow(ch, c, st)]
  BY DEF Register, AdminRegister
<1>2. Open(c) /\ ~Registered(ch, c)
  BY DEF Register, AdminRegister
<1>3. /\ enrollments'[f].status = st /\ enrollments'[f].child = ch /\ enrollments'[f].activity_class = c
      /\ enrollments'[f].cancel_requested_at = Unset
  BY <1>1, NewRowRow DEF TypeOK, Active
<1>4. Born(f)
  BY <1>1, <1>2, <1>3 DEF Born
<1> QED
  BY <1>1, <1>4 DEF Lives, TypeOK

LEMMA TransferLives ==
  ASSUME TypeOK, NEW e \in Id, NEW target \in Class, Transfer(e, target)
  PROVE  \A g \in Id : Lives(g)
<1> DEFINE ended == [Cancelled(enrollments[e], "TRANSFERRED") EXCEPT !.cancel_requested_at = Unset]
           child == enrollments[e].child
<1>1. PICK f \in Id : /\ NextId(f)
                      /\ enrollments' = [enrollments EXCEPT ![e] = ended,
                                           ![f] = NewRow(child, target, "ENROLLED")]
  BY DEF Transfer
<1>2. /\ child \in Child /\ enrollments[e] \in Row /\ enrollments[e].status \in Active /\ e # f
      /\ Open(target) /\ ~Registered(child, target)
  BY <1>1 DEF TypeOK, Transfer, Active, NextId
<1>3. /\ ended.status = "CANCELLED"
      /\ ended.child = child
      /\ ended.activity_class = enrollments[e].activity_class
  <2>1. "TRANSFERRED" \in CancelReason
    BY DEF CancelReason
  <2> DEFINE r == Cancelled(enrollments[e], "TRANSFERRED")
  <2>2. /\ r \in Row /\ r.status = "CANCELLED" /\ r.child = child
        /\ r.activity_class = enrollments[e].activity_class
    BY <1>2, <2>1, CancelledRow
  <2> HIDE DEF r, child
  <2>3. ended = [r EXCEPT !.cancel_requested_at = Unset]
    BY DEF r
  <2> QED
    BY <2>2, <2>3 DEF Row
<1>4. /\ NewRow(child, target, "ENROLLED").status = "ENROLLED"
      /\ NewRow(child, target, "ENROLLED").child = child
      /\ NewRow(child, target, "ENROLLED").activity_class = target
      /\ NewRow(child, target, "ENROLLED").cancel_requested_at = Unset
  BY <1>2, NewRowRow DEF TypeOK, Active
<1> HIDE DEF ended, child
<1>5. enrollments'[e] = ended /\ enrollments'[f] = NewRow(child, target, "ENROLLED")
  BY <1>1, <1>2 DEF TypeOK
<1>6. Born(f)
  BY <1>1, <1>2, <1>4, <1>5 DEF Born
<1>7. Changed(e)
  BY <1>2, <1>3, <1>5 DEF Changed, Onward, child
<1> QED
  BY <1>1, <1>6, <1>7 DEF Lives, TypeOK

LEMMA ApproveOfferLives ==
  ASSUME TypeOK, NEW e \in Id, ApproveRequest(e) \/ OfferSeat(e)
  PROVE  \A f \in Id : Lives(f)
<1> DEFINE c == enrollments[e].activity_class
<1>1. c \in Class /\ enrollments[e].status \in {"REQUESTED", "WAITLISTED"}
  BY DEF TypeOK, ApproveRequest, OfferSeat
<1>2. \/ /\ enrollments[e].status = "REQUESTED"
         /\ enrollments' = [Swept(c) EXCEPT ![e].status =
                              IF HasFreeSeat(c) THEN "ENROLLED" ELSE "WAITLISTED"]
      \/ /\ enrollments[e].status = "WAITLISTED"
         /\ \E ttl \in OfferTtls :
              enrollments' = [Swept(c) EXCEPT ![e].status = "OFFERED", ![e].offer_expires_at = now + ttl]
  BY DEF ApproveRequest, OfferSeat
<1>3. \A ttl \in OfferTtls : now + ttl \in Nat \ {Unset}
  BY SettingsAssumption DEF TypeOK, Unset
<1> HIDE DEF c
<1>4. \A f \in Id \ {e} : enrollments'[f] = Swept(c)[f]
  BY <1>1, <1>2, SweptRows
<1>5. /\ enrollments'[e].child = enrollments[e].child
      /\ enrollments'[e].activity_class = enrollments[e].activity_class
      /\ enrollments'[e].status \in {"ENROLLED", "WAITLISTED", "OFFERED"}
      /\ enrollments'[e].status = "OFFERED" => enrollments'[e].offer_expires_at # Unset
      /\ enrollments'[e].cancel_requested_at = enrollments[e].cancel_requested_at
  BY <1>1, <1>2, <1>3, SweptRows DEF Row
<1>6. Changed(e)
  <2>1. Onward(e)
    BY <1>1, <1>2, SweptRows DEF Onward, Row, c
  <2> QED
    BY <1>1, <1>5, <2>1 DEF Changed, Active
<1> QED
  BY <1>1, <1>4, <1>6, SweptLives DEF Lives

LEMMA CancelLives ==
  ASSUME TypeOK, NEW e \in Id, NEW reason \in CancelReason, Cancel(e, reason)
  PROVE  \A f \in Id : Lives(f)
<1>1. enrollments[e] \in Row /\ enrollments[e].status \in Active
  BY DEF TypeOK, Cancel
<1>2. enrollments' = [enrollments EXCEPT ![e] = Cancelled(enrollments[e], reason)]
  BY DEF Cancel
<1>3. Changed(e)
  BY <1>1, <1>2, CancelledRow DEF Changed, Onward, TypeOK
<1> QED
  BY <1>2, <1>3 DEF Lives, TypeOK

LEMMA OneRowLives ==
  ASSUME TypeOK, NEW e \in Id,
         \/ RejectRequest(e) \/ ConfirmOffer(e) \/ DeclineOffer(e)
         \/ RequestCancellation(e) \/ DeclineCancellation(e)
  PROVE  \A f \in Id : Lives(f)
<1>1. enrollments[e] \in Row /\ enrollments[e].status \in Active
  BY DEF TypeOK, Active, RejectRequest, ConfirmOffer, DeclineOffer, RequestCancellation,
         DeclineCancellation, CancellationRequested
<1>2. \A f \in Id \ {e} : enrollments'[f] = enrollments[f]
  BY DEF TypeOK, RejectRequest, ConfirmOffer, DeclineOffer, RequestCancellation,
         DeclineCancellation
<1>3. CASE RejectRequest(e) \/ DeclineOffer(e)
  <2>1. "REQUEST_REJECTED" \in CancelReason /\ "OFFER_DECLINED" \in CancelReason
    BY DEF CancelReason
  <2>2. PICK reason \in CancelReason : enrollments'[e] = Cancelled(enrollments[e], reason)
    BY <1>3, <2>1 DEF RejectRequest, DeclineOffer, TypeOK
  <2> QED
    BY <1>1, <1>2, <2>2, CancelledRow DEF Lives, Changed, Onward
<1>4. CASE ConfirmOffer(e) \/ RequestCancellation(e) \/ DeclineCancellation(e)
  <2>1. /\ enrollments'[e].child = enrollments[e].child
        /\ enrollments'[e].activity_class = enrollments[e].activity_class
        /\ enrollments'[e].status = "ENROLLED"
        /\ enrollments[e].status \in {"OFFERED", "ENROLLED"}
    BY <1>1, <1>4 DEF ConfirmOffer, RequestCancellation, DeclineCancellation,
                      CancellationRequested, TypeOK, Row
  <2> QED
    BY <1>1, <1>2, <2>1 DEF Lives, Changed, Onward, Active
<1> QED
  BY <1>3, <1>4

LEMMA ClassStepLives ==
  ASSUME TypeOK, NEW c \in Class, ExpireOffers(c) \/ CancelClass(c)
  PROVE  \A f \in Id : Lives(f)
<1>1. CASE ExpireOffers(c)
  BY <1>1, SweptLives DEF ExpireOffers, SweepStep
<1>2. CASE CancelClass(c)
  <2>1. "CLASS_CANCELLED" \in CancelReason
    BY DEF CancelReason
  <2>2. ASSUME NEW f \in Id PROVE Lives(f)
    <3>1. enrollments[f] \in Row
      BY DEF TypeOK
    <3>2. CASE f \in RowsOf(c, Active)
      BY <1>2, <2>1, <3>1, <3>2, CancelledRow DEF CancelClass, RowsOf, Lives, Changed, Onward
    <3>3. CASE f \notin RowsOf(c, Active)
      BY <1>2, <3>3 DEF CancelClass, Lives
    <3> QED
      BY <3>2, <3>3
  <2> QED
    BY <2>2
<1> QED
  BY <1>1, <1>2

LEMMA RowLife ==
  TypeOK /\ [Next]_vars => \A e \in Id : Lives(e)
<1> SUFFICES ASSUME TypeOK, [Next]_vars PROVE \A e \in Id : Lives(e)
  OBVIOUS
<1>1. CASE RegistrationStep
  BY <1>1, RegistrationLives, TransferLives DEF RegistrationStep
<1>2. ASSUME NEW e \in Id,
             \/ ApproveRequest(e) \/ OfferSeat(e) \/ RejectRequest(e)
             \/ ConfirmOffer(e) \/ DeclineOffer(e) \/ DeclineCancellation(e)
      PROVE  \A f \in Id : Lives(f)
  BY <1>2, ApproveOfferLives, OneRowLives
<1>3. ASSUME NEW e \in Id, CancelByAdmin(e) \/ ParentCancel(e) \/ ConfirmCancellation(e)
      PROVE  \A f \in Id : Lives(f)
  <2>1. RequestCancellation(e) \/ \E reason \in CancelReason : Cancel(e, reason)
    BY <1>3, ParentCancelCases DEF CancelByAdmin, ConfirmCancellation, CancelReason
  <2> QED
    BY <2>1, CancelLives, OneRowLives
<1>4. CASE ClassStep
  <2>1. (\E c \in Class : ExpireOffers(c) \/ CancelClass(c)) \/ UNCHANGED enrollments
    BY <1>4 DEF ClassStep, PublishClass, ArchiveClass, SetTermActive, EditCapacity, UpsertClass,
                SaveCapacity
  <2> QED
    BY <2>1, ClassStepLives DEF Lives
<1>5. CASE Tick \/ UNCHANGED vars
  BY <1>5 DEF Tick, tables, vars, Lives
<1> QED
  BY <1>1, <1>2, <1>3, <1>4, <1>5 DEF Next, DecisionStep
-----------------------------------------------------------------------------
(* What follows from it. *)

LEMMA InitRows == ASSUME Init PROVE \A e \in Id : enrollments[e].status = "UNSAVED"
<1>1. Unsaved \in Row /\ Unsaved.status = "UNSAVED"
  BY DEF Unsaved, Unset, Row, Status, CancelReason
<1> QED
  BY <1>1 DEF Init

(* A cancelled registration never comes back, whoever acts on it. *)
THEOREM CancelledForGood == Spec => CancelledIsFinal
<1>1. TypeOK /\ [Next]_vars =>
        [\A e \in Id : enrollments[e].status = "CANCELLED" =>
                         enrollments'[e] = enrollments[e]]_vars
  BY RowLife DEF Lives, Born, Changed, NextId, Active
<1> QED
  BY <1>1, TypeCorrect, PTL DEF Spec, CancelledIsFinal

LEMMA OnceStep == TypeOK /\ OneActiveRegistration /\ [Next]_vars => OneActiveRegistration'
<1> SUFFICES ASSUME TypeOK, OneActiveRegistration, [Next]_vars,
                    NEW e \in Id, NEW f \in Id,
                    {enrollments'[e].status, enrollments'[f].status} \subseteq Active,
                    enrollments'[e].child = enrollments'[f].child,
                    enrollments'[e].activity_class = enrollments'[f].activity_class
             PROVE  e = f
  BY DEF OneActiveRegistration
<1>1. Lives(e) /\ Lives(f)
  BY RowLife
<1>2. CASE Born(e) /\ Born(f)
  BY <1>2 DEF Born, NextId, Id
<1>3. ASSUME NEW g \in Id, NEW h \in Id, {g, h} = {e, f}, Born(g), ~Born(h)
      PROVE  FALSE
  <2>1. /\ enrollments[h].status \in Active
        /\ enrollments[h].child = enrollments'[h].child
        /\ enrollments[h].activity_class = enrollments'[h].activity_class
    BY <1>1, <1>3 DEF Lives, Changed
  <2>2. Registered(enrollments'[g].child, enrollments'[g].activity_class)
    BY <1>3, <2>1 DEF Registered, RowsOf
  <2> QED
    BY <1>3, <2>2 DEF Born
<1>4. CASE ~Born(e) /\ ~Born(f)
  <2>1. /\ {enrollments[e].status, enrollments[f].status} \subseteq Active
        /\ enrollments[e].child = enrollments[f].child
        /\ enrollments[e].activity_class = enrollments[f].activity_class
    BY <1>1, <1>4 DEF Lives, Changed
  <2> QED
    BY <2>1 DEF OneActiveRegistration
<1> QED
  BY <1>2, <1>3, <1>4

(* The checks made under the class lock leave nothing for the database's   *)
(* unique constraint to refuse: a child has one live registration in a     *)
(* class, whether it asked, was placed by the office or was moved there.   *)
THEOREM NeverTwice == Spec => []OneActiveRegistration
<1>1. Init => OneActiveRegistration
  BY InitRows DEF OneActiveRegistration, Active
<1> QED
  BY <1>1, OnceStep, TypeCorrect, PTL DEF Spec

(* Only a published class has live registrations, however it was closed:   *)
(* cancel_class ends them all, archiving waits until there is none, and    *)
(* nobody gets into a class that is not open.                              *)
THEOREM OnlyPublishedHold == Spec => []ActiveOnlyInPublished
<1>1. Init => ActiveOnlyInPublished
  BY InitRows DEF ActiveOnlyInPublished, RowsOf, Active
<1>2. TypeOK /\ ActiveOnlyInPublished /\ [Next]_vars => ActiveOnlyInPublished'
  <2> SUFFICES ASSUME TypeOK, ActiveOnlyInPublished, [Next]_vars,
                      NEW c \in Class, NEW e \in Id,
                      enrollments'[e].status \in Active, enrollments'[e].activity_class = c
               PROVE  class_status'[c] = "PUBLISHED"
    BY DEF ActiveOnlyInPublished, RowsOf
  <2>1. Lives(e)
    BY RowLife
  <2>2. class_status[c] = "PUBLISHED"
    <3>1. CASE Born(e)
      BY <3>1 DEF Born, Open
    <3>2. CASE ~Born(e)
      <4>1. e \in RowsOf(c, Active)
        BY <2>1, <3>2 DEF Lives, Changed, RowsOf
      <4> QED
        BY <4>1 DEF ActiveOnlyInPublished
    <3> QED
      BY <3>1, <3>2
  <2>3. \/ UNCHANGED class_status
        \/ \E d \in Class : CancelClass(d) \/ PublishClass(d) \/ ArchiveClass(d)
    BY DEF Next, RegistrationStep, DecisionStep, ClassStep, Tick, vars, catalog, tables,
           Register, AdminRegister, Transfer, ApproveRequest, RejectRequest, OfferSeat,
           ConfirmOffer, DeclineOffer, CancelByAdmin, ParentCancel, ConfirmCancellation,
           Cancel, RequestCancellation, DeclineCancellation, ExpireOffers, SweepStep,
           SetTermActive, EditCapacity, UpsertClass, SaveCapacity
  <2>4. ASSUME NEW d \in Class, CancelClass(d) \/ ArchiveClass(d)
        PROVE  c # d
    <3>1. SUFFICES ASSUME c = d PROVE FALSE
      OBVIOUS
    <3>2. CASE CancelClass(d)
      <4>1. enrollments[e] \in Row /\ "CLASS_CANCELLED" \in CancelReason
        BY DEF TypeOK, CancelReason
      <4>2. enrollments'[e] = IF e \in RowsOf(c, Active)
                                THEN Cancelled(enrollments[e], "CLASS_CANCELLED")
                                ELSE enrollments[e]
        BY <3>1, <3>2 DEF CancelClass
      <4> QED
        BY <4>1, <4>2, CancelledRow DEF RowsOf, Active
    <3>3. CASE ArchiveClass(d)
      BY <3>1, <3>3 DEF ArchiveClass, RowsOf
    <3> QED
      BY <2>4, <3>2, <3>3
  <2> QED
    BY <2>2, <2>3, <2>4 DEF TypeOK, CancelClass, PublishClass, ArchiveClass
<1> QED
  BY <1>1, <1>2, TypeCorrect, PTL DEF Spec

(* An offer has a deadline, and on one side of it or the other it stands.  *)
OffersDated ==
  \A e \in Id : enrollments[e].status = "OFFERED" => enrollments[e].offer_expires_at # Unset

LEMMA DatedInit == Init => OffersDated
BY InitRows DEF OffersDated

LEMMA DatedStep == TypeOK /\ OffersDated /\ [Next]_vars => OffersDated'
BY RowLife DEF Lives, Born, Changed, OffersDated

LEMMA DatedOffers == TypeOK /\ OffersDated => OfferHeldOrLapsed
<1> SUFFICES ASSUME TypeOK, OffersDated, NEW c \in Class, NEW e \in RowsOf(c, {"OFFERED"})
             PROVE  /\ enrollments[e].offer_expires_at # Unset
                    /\ (e \in SeatHolders(c)) # (e \in StaleOffers(c))
  BY DEF OfferHeldOrLapsed
<1>1. e \in Id /\ enrollments[e].status = "OFFERED"
  BY DEF RowsOf
<1>2. enrollments[e].offer_expires_at \in Nat /\ now \in Nat
  BY <1>1 DEF TypeOK, Row, OffersDated
<1>3. enrollments[e].offer_expires_at < now <=> ~(enrollments[e].offer_expires_at >= now)
  BY <1>2
<1>4. e \in SeatHolders(c) <=> enrollments[e].offer_expires_at >= now
  BY <1>1 DEF SeatHolders, RowsOf, LiveOffer
<1>5. e \in StaleOffers(c) <=> enrollments[e].offer_expires_at < now
  BY DEF StaleOffers
<1> QED
  BY <1>1, <1>3, <1>4, <1>5 DEF OffersDated

(* At every instant, the one at which it expires included, an offer either *)
(* holds its seat or may be swept, never both and never neither.           *)
THEOREM OfferHeldOrSwept == Spec => []OfferHeldOrLapsed
BY DatedInit, DatedStep, DatedOffers, TypeCorrect, PTL DEF Spec
-----------------------------------------------------------------------------
(* The alerts for freed seats. *)

(* What FreedSeatNeverSilent says of one class. *)
Heard(c) == HasFreeSeat(c) /\ Waitlist(c) # {} => c \in alerted \/ StaleOffers(c) # {}

(* A step at which the admins of c are told, or at which c gets no free    *)
(* seat, nobody new to wait for it and loses no offer that waits for the   *)
(* sweep, keeps c's admins informed.                                       *)
Quiet(c) ==
  /\ SeatHolders(c) \subseteq SeatHolders(c)'
  /\ capacity'[c] <= capacity[c]
  /\ Waitlist(c)' \subseteq Waitlist(c)
  /\ StaleOffers(c) \subseteq StaleOffers(c)'

LEMMA SeatStaysTaken ==
  ASSUME TypeOK, TypeOK', NEW c \in Class, SeatHolders(c) \subseteq SeatHolders(c)',
         capacity'[c] <= capacity[c], HasFreeSeat(c)'
  PROVE  HasFreeSeat(c)
<1>1. SeatsTaken(c) \in Nat /\ IsFiniteSet(SeatHolders(c)') /\ SeatsTaken(c)' \in Nat
  BY SeatsFinite, SeatsFiniteNext
<1>2. Cardinality(SeatHolders(c)) <= Cardinality(SeatHolders(c)')
  BY <1>1, FS_Subset
<1>3. capacity[c] \in Nat /\ capacity'[c] \in Nat
  BY DEF TypeOK
<1> QED
  BY <1>1, <1>2, <1>3 DEF HasFreeSeat, SeatsTaken

LEMMA StillHeard ==
  ASSUME TypeOK, TypeOK', FreedSeatNeverSilent, NEW A, NEW D, History(A, D), NEW c \in Class,
         c \in A \/ Quiet(c) \/ Waitlist(c)' = {} \/ ~HasFreeSeat(c)'
  PROVE  Heard(c)'
<1> SUFFICES ASSUME HasFreeSeat(c)', Waitlist(c)' # {}, StaleOffers(c)' = {}
             PROVE  c \in alerted'
  BY DEF Heard
<1>1. c \in A \cup alerted => c \in alerted'
  BY DEF History
<1>2. CASE Quiet(c)
  <2>1. HasFreeSeat(c)
    BY <1>2, SeatStaysTaken DEF Quiet
  <2>2. Waitlist(c) # {} /\ StaleOffers(c) = {}
    BY <1>2 DEF Quiet
  <2> QED
    BY <1>1, <2>1, <2>2 DEF FreedSeatNeverSilent
<1> QED
  BY <1>1, <1>2

(* A row of another class, or one that a step leaves as it is, or that was *)
(* not holding a seat and does not join the waiting list, or that keeps    *)
(* its seat for good.                                                      *)
QuietRow(f, c) ==
  \/ enrollments[f].activity_class # c /\ enrollments'[f].activity_class # c
  \/ enrollments[f].activity_class # c /\ enrollments'[f].status # "WAITLISTED"
  \/ /\ enrollments'[f].activity_class = enrollments[f].activity_class
     /\ enrollments'[f].status = enrollments[f].status
     /\ enrollments'[f].offer_expires_at = enrollments[f].offer_expires_at
  \/ enrollments[f].status \notin SeatHolding /\ enrollments'[f].status # "WAITLISTED"
  \/ /\ enrollments'[f].activity_class = enrollments[f].activity_class
     /\ enrollments[f].status = "OFFERED" /\ LiveOffer(f)
     /\ enrollments'[f].status = "ENROLLED"

LEMMA QuietRows ==
  ASSUME TypeOK, now' = now, NEW c \in Class, capacity'[c] <= capacity[c],
         \A f \in Id : QuietRow(f, c)
  PROVE  Quiet(c)
<1>1. ASSUME NEW f \in SeatHolders(c) PROVE f \in SeatHolders(c)'
  BY <1>1 DEF SeatHolders, RowsOf, LiveOffer, QuietRow, SeatHolding
<1>2. ASSUME NEW f \in Waitlist(c)' PROVE f \in Waitlist(c)
  BY <1>2 DEF Waitlist, RowsOf, QuietRow
<1>3. ASSUME NEW f \in StaleOffers(c) PROVE f \in StaleOffers(c)'
  <2>1. /\ f \in Id /\ enrollments[f].activity_class = c /\ enrollments[f].status = "OFFERED"
        /\ enrollments[f].offer_expires_at < now
    BY <1>3 DEF StaleOffers, RowsOf
  <2>2. ~LiveOffer(f)
    BY <2>1 DEF LiveOffer, TypeOK, Row
  <2> QED
    BY <2>1, <2>2 DEF StaleOffers, RowsOf, QuietRow, SeatHolding
<1> QED
  BY <1>1, <1>2, <1>3 DEF Quiet

LEMMA RegistrationHeard ==
  ASSUME TypeOK, TypeOK', FreedSeatNeverSilent, NEW ch \in Child, NEW d \in Class,
         Register(ch, d) \/ AdminRegister(ch, d), NEW c \in Class
  PROVE  Heard(c)'
<1>1. PICK st \in {"REQUESTED", "ENROLLED"}, e \in Id :
        /\ enrollments[e].status = "UNSAVED"
        /\ enrollments' = [enrollments EXCEPT ![e] = NewRow(ch, d, st)]
  BY DEF Register, AdminRegister, NextId
<1>2. NewRow(ch, d, st).status = st
  BY NewRowRow DEF TypeOK, Active
<1>3. \A f \in Id : QuietRow(f, c)
  BY <1>1, <1>2 DEF QuietRow, SeatHolding, TypeOK
<1>4. Quiet(c)
  BY <1>3, QuietRows DEF Register, AdminRegister, catalog, TypeOK
<1> QED
  BY <1>4, StillHeard DEF Register, AdminRegister

(* The two ways a registration of any status ends: a cancellation and a    *)
(* move.                                                                   *)
LEMMA EndedHeard ==
  ASSUME TypeOK, TypeOK', FreedSeatNeverSilent, NEW e \in Id, NEW c \in Class,
         enrollments'[e].status = "CANCELLED",
         enrollments'[e].activity_class = enrollments[e].activity_class,
         \A f \in Id \ {e} : QuietRow(f, c),
         now' = now, capacity' = capacity, NEW D,
         History(IF enrollments[e].status \in SeatHolding
                   THEN SeatFreedAlert(enrollments[e].activity_class) ELSE {}, D)
  PROVE  Heard(c)'
<1> DEFINE A == IF enrollments[e].status \in SeatHolding
                  THEN SeatFreedAlert(enrollments[e].activity_class) ELSE {}
<1>1. capacity'[c] <= capacity[c]
  BY DEF TypeOK
<1>2. CASE QuietRow(e, c)
  <2>1. Quiet(c)
    BY <1>1, <1>2, QuietRows
  <2> QED
    BY <2>1, StillHeard
<1>3. CASE ~QuietRow(e, c)
  <2>1. enrollments[e].activity_class = c /\ enrollments[e].status \in SeatHolding
    BY <1>3 DEF QuietRow
  <2>2. CASE Waitlist(c) # {}
    <3>1. c \in A
      BY <2>1, <2>2 DEF SeatFreedAlert
    <3> QED
      BY <3>1, StillHeard
  <2>3. CASE Waitlist(c) = {}
    <3>1. Waitlist(c)' = {}
      BY <2>3 DEF Waitlist, RowsOf, QuietRow
    <3> QED
      BY <3>1, StillHeard
  <2> QED
    BY <2>2, <2>3
<1> QED
  BY <1>2, <1>3

LEMMA CancelHeard ==
  ASSUME TypeOK, TypeOK', FreedSeatNeverSilent, NEW e \in Id, NEW reason \in CancelReason,
         Cancel(e, reason), NEW c \in Class
  PROVE  Heard(c)'
<1>1. enrollments[e] \in Row
  BY DEF TypeOK
<1>2. enrollments' = [enrollments EXCEPT ![e] = Cancelled(enrollments[e], reason)]
  BY DEF Cancel
<1>3. /\ enrollments'[e].status = "CANCELLED"
      /\ enrollments'[e].activity_class = enrollments[e].activity_class
  BY <1>1, <1>2, CancelledRow DEF TypeOK
<1>4. \A f \in Id \ {e} : QuietRow(f, c)
  BY <1>2 DEF QuietRow, TypeOK
<1> QED
  BY <1>3, <1>4, EndedHeard DEF Cancel, catalog

LEMMA TransferHeard ==
  ASSUME TypeOK, TypeOK', FreedSeatNeverSilent, NEW e \in Id, NEW target \in Class,
         Transfer(e, target), NEW c \in Class
  PROVE  Heard(c)'
<1> DEFINE ended == [Cancelled(enrollments[e], "TRANSFERRED") EXCEPT !.cancel_requested_at = Unset]
           child == enrollments[e].child
<1>1. PICK f \in Id : /\ enrollments[f].status = "UNSAVED"
                      /\ enrollments' = [enrollments EXCEPT ![e] = ended,
                                           ![f] = NewRow(child, target, "ENROLLED")]
  BY DEF Transfer, NextId
<1>2. child \in Child /\ enrollments[e] \in Row /\ e # f
  BY <1>1 DEF TypeOK, Transfer, Active
<1>3. ended.status = "CANCELLED" /\ ended.activity_class = enrollments[e].activity_class
  <2>1. "TRANSFERRED" \in CancelReason
    BY DEF CancelReason
  <2> DEFINE r == Cancelled(enrollments[e], "TRANSFERRED")
  <2>2. r \in Row /\ r.status = "CANCELLED" /\ r.activity_class = enrollments[e].activity_class
    BY <1>2, <2>1, CancelledRow
  <2> HIDE DEF r
  <2>3. ended = [r EXCEPT !.cancel_requested_at = Unset]
    BY DEF r
  <2> QED
    BY <2>2, <2>3 DEF Row
<1>4. NewRow(child, target, "ENROLLED").status = "ENROLLED"
  BY <1>2, NewRowRow DEF TypeOK, Active
<1> HIDE DEF ended, child
<1>5. enrollments'[e] = ended /\ enrollments'[f] = NewRow(child, target, "ENROLLED")
  BY <1>1, <1>2 DEF TypeOK
<1>6. \A g \in Id \ {e} : QuietRow(g, c)
  BY <1>1, <1>4, <1>5 DEF QuietRow, SeatHolding, TypeOK
<1> QED
  BY <1>3, <1>5, <1>6, EndedHeard DEF Transfer, catalog

LEMMA ApproveOfferHeard ==
  ASSUME TypeOK, TypeOK', FreedSeatNeverSilent, NEW e \in Id,
         ApproveRequest(e) \/ OfferSeat(e), NEW c \in Class
  PROVE  Heard(c)'
<1> DEFINE d == enrollments[e].activity_class
<1>1. d \in Class /\ enrollments[e].status \in {"REQUESTED", "WAITLISTED"}
  BY DEF TypeOK, ApproveRequest, OfferSeat
<1>2. \/ /\ HasFreeSeat(d)
         /\ enrollments' = [Swept(d) EXCEPT ![e].status = "ENROLLED"]
      \/ /\ ~HasFreeSeat(d)
         /\ enrollments' = [Swept(d) EXCEPT ![e].status = "WAITLISTED"]
      \/ \E ttl \in OfferTtls :
           enrollments' = [Swept(d) EXCEPT ![e].status = "OFFERED", ![e].offer_expires_at = now + ttl]
  BY DEF ApproveRequest, OfferSeat
<1>3. /\ now' = now /\ capacity' = capacity
      /\ \E D : History(LapseAlert(d), D)
  BY DEF ApproveRequest, OfferSeat, catalog
<1> HIDE DEF d
<1>4. CASE c = d /\ StaleOffers(d) # {}
  <2>1. c \in LapseAlert(d)
    BY <1>4 DEF LapseAlert
  <2> QED
    BY <1>3, <2>1, StillHeard
<1>5. ASSUME ~(c = d /\ StaleOffers(d) # {})
      PROVE  Heard(c)'
  <2>1. \A f \in Id \ {e} : enrollments'[f] = Swept(d)[f]
    BY <1>1, <1>2, SweptRows
  <2>2. /\ enrollments'[e].activity_class = d
        /\ enrollments'[e].status \in {"ENROLLED", "WAITLISTED", "OFFERED"}
        /\ enrollments'[e].status = "WAITLISTED" => ~HasFreeSeat(d)
    BY <1>1, <1>2, SweptRows DEF Row, d
  <2>3. \A f \in Id \ {e} : QuietRow(f, c)
    BY <1>1, <1>5, <2>1, SweptRows DEF QuietRow, StaleOffers, RowsOf
  <2>4. CASE QuietRow(e, c)
    <3>1. Quiet(c)
      BY <1>3, <2>3, <2>4, QuietRows DEF TypeOK
    <3> QED
      BY <1>3, <3>1, StillHeard
  <2>5. CASE ~QuietRow(e, c)
    <3>1. c = d /\ ~HasFreeSeat(c)
      BY <1>1, <2>2, <2>5 DEF QuietRow, SeatHolding, d
    <3>2. SeatHolders(c) \subseteq SeatHolders(c)'
      BY <1>1, <1>3, <2>3 DEF SeatHolders, RowsOf, LiveOffer, QuietRow, SeatHolding
    <3>3. ~HasFreeSeat(c)'
      BY <1>3, <3>1, <3>2, SeatStaysTaken DEF TypeOK
    <3> QED
      BY <1>3, <3>3, StillHeard
  <2> QED
    BY <2>4, <2>5
<1> QED
  BY <1>4, <1>5

LEMMA OneRowHeard ==
  ASSUME TypeOK, TypeOK', FreedSeatNeverSilent, NEW e \in Id,
         \/ RejectRequest(e) \/ ConfirmOffer(e) \/ DeclineOffer(e)
         \/ RequestCancellation(e) \/ DeclineCancellation(e),
         NEW c \in Class
  PROVE  Heard(c)'
<1>1. enrollments[e] \in Row
  BY DEF TypeOK
<1>2. \A f \in Id \ {e} : QuietRow(f, c)
  BY DEF TypeOK, QuietRow, RejectRequest, ConfirmOffer, DeclineOffer, RequestCancellation,
         DeclineCancellation
<1>3. now' = now /\ capacity'[c] <= capacity[c]
  BY DEF RejectRequest, ConfirmOffer, DeclineOffer, RequestCancellation, DeclineCancellation,
         catalog, TypeOK
<1>4. CASE DeclineOffer(e)
  <2>1. History({enrollments[e].activity_class}, {}) /\ enrollments[e].status = "OFFERED"
    BY <1>4 DEF DeclineOffer
  <2>2. CASE enrollments[e].activity_class = c
    BY <2>1, <2>2, StillHeard
  <2>3. CASE enrollments[e].activity_class # c
    <3>1. "OFFER_DECLINED" \in CancelReason
      BY DEF CancelReason
    <3>2. enrollments'[e].status = "CANCELLED"
      BY <1>1, <1>4, <3>1, CancelledRow DEF DeclineOffer, TypeOK
    <3>3. Quiet(c)
      BY <1>2, <1>3, <2>3, <3>2, QuietRows DEF QuietRow
    <3> QED
      BY <2>1, <3>3, StillHeard
  <2> QED
    BY <2>2, <2>3
<1>5. CASE RejectRequest(e)
  <2>1. "REQUEST_REJECTED" \in CancelReason
    BY DEF CancelReason
  <2>2. enrollments'[e].status = "CANCELLED" /\ enrollments[e].status = "REQUESTED"
    BY <1>1, <1>5, <2>1, CancelledRow DEF RejectRequest, TypeOK
  <2>3. Quiet(c)
    BY <1>2, <1>3, <2>2, QuietRows DEF QuietRow, SeatHolding
  <2> QED
    BY <1>5, <2>3, StillHeard DEF RejectRequest
<1>6. CASE ConfirmOffer(e)
  <2>1. /\ enrollments'[e].activity_class = enrollments[e].activity_class
        /\ enrollments'[e].status = "ENROLLED" /\ enrollments[e].status = "OFFERED"
        /\ ~(enrollments[e].offer_expires_at < now)
    BY <1>1, <1>6 DEF ConfirmOffer, TypeOK, Row
  <2>2. LiveOffer(e)
    BY <1>1, <2>1 DEF LiveOffer, TypeOK, Row
  <2>3. Quiet(c)
    BY <1>2, <1>3, <2>1, <2>2, QuietRows DEF QuietRow
  <2> QED
    BY <1>6, <2>3, StillHeard DEF ConfirmOffer
<1>7. CASE RequestCancellation(e) \/ DeclineCancellation(e)
  <2>1. /\ enrollments'[e].activity_class = enrollments[e].activity_class
        /\ enrollments'[e].status = enrollments[e].status
        /\ enrollments'[e].offer_expires_at = enrollments[e].offer_expires_at
    BY <1>1, <1>7 DEF RequestCancellation, DeclineCancellation, TypeOK, Row
  <2>2. Quiet(c)
    BY <1>2, <1>3, <2>1, QuietRows DEF QuietRow
  <2> QED
    BY <1>7, <2>2, StillHeard DEF RequestCancellation, DeclineCancellation
<1> QED
  BY <1>4, <1>5, <1>6, <1>7

LEMMA ClassStepHeard ==
  ASSUME TypeOK, TypeOK', FreedSeatNeverSilent, NEW d \in Class,
         \/ ExpireOffers(d) \/ CancelClass(d) \/ PublishClass(d) \/ ArchiveClass(d)
         \/ SetTermActive(d),
         NEW c \in Class
  PROVE  Heard(c)'
<1>1. now' = now /\ capacity'[c] <= capacity[c]
  BY DEF ExpireOffers, SweepStep, CancelClass, PublishClass, ArchiveClass, SetTermActive,
         catalog, TypeOK
<1>2. CASE ExpireOffers(d)
  <2>1. /\ enrollments' = Swept(d) /\ StaleOffers(d) # {}
        /\ History(LapseAlert(d), {})
    BY <1>2 DEF ExpireOffers, SweepStep
  <2>2. CASE c = d
    <3>1. c \in LapseAlert(d)
      BY <2>1, <2>2 DEF LapseAlert
    <3> QED
      BY <2>1, <3>1, StillHeard
  <2>3. CASE c # d
    <3>1. \A f \in Id : QuietRow(f, c)
      BY <2>1, <2>3, SweptRows DEF QuietRow, StaleOffers, RowsOf
    <3>2. Quiet(c)
      BY <1>1, <3>1, QuietRows
    <3> QED
      BY <2>1, <3>2, StillHeard
  <2> QED
    BY <2>2, <2>3
<1>3. CASE CancelClass(d)
  <2>1. "CLASS_CANCELLED" \in CancelReason
    BY DEF CancelReason
  <2>2. \A f \in Id :
          /\ f \in RowsOf(d, Active) => /\ enrollments'[f].status = "CANCELLED"
                                       /\ enrollments[f].activity_class = d
          /\ f \notin RowsOf(d, Active) => enrollments'[f] = enrollments[f]
    <3>1. \A f \in Id : enrollments[f] \in Row
      BY DEF TypeOK
    <3> QED
      BY <1>3, <2>1, <3>1, CancelledRow DEF CancelClass, RowsOf
  <2>3. CASE c = d
    <3>1. Waitlist(c)' = {}
      BY <2>2, <2>3 DEF Waitlist, RowsOf, Active
    <3> QED
      BY <1>3, <3>1, StillHeard DEF CancelClass
  <2>4. CASE c # d
    <3>1. Quiet(c)
      BY <1>1, <2>2, <2>4, QuietRows DEF QuietRow
    <3> QED
      BY <1>3, <3>1, StillHeard DEF CancelClass
  <2> QED
    BY <2>3, <2>4
<1>4. CASE PublishClass(d) \/ ArchiveClass(d) \/ SetTermActive(d)
  <2>1. \A f \in Id : QuietRow(f, c)
    BY <1>4 DEF PublishClass, ArchiveClass, SetTermActive, QuietRow
  <2>2. Quiet(c)
    BY <1>1, <2>1, QuietRows
  <2> QED
    BY <1>4, <2>2, StillHeard DEF PublishClass, ArchiveClass, SetTermActive
<1> QED
  BY <1>2, <1>3, <1>4

LEMMA CapacityHeard ==
  ASSUME TypeOK, TypeOK', FreedSeatNeverSilent, NEW d \in Class, NEW n \in Capacities,
         SaveCapacity(d, n), NEW c \in Class
  PROVE  Heard(c)'
<1>1. /\ now' = now /\ enrollments' = enrollments
      /\ capacity'[c] = IF c = d THEN n ELSE capacity[c]
      /\ History(IF n > capacity[d] THEN SeatFreedAlert(d) ELSE {}, {d})
  BY DEF SaveCapacity, TypeOK
<1>2. n \in Nat /\ capacity[c] \in Nat /\ capacity[d] \in Nat
  BY SettingsAssumption DEF TypeOK
<1>3. CASE c = d /\ n > capacity[d]
  <2>1. CASE Waitlist(c) = {}
    <3>1. Waitlist(c)' = {}
      BY <1>1, <2>1 DEF Waitlist, RowsOf
    <3> QED
      BY <1>1, <3>1, StillHeard
  <2>2. CASE Waitlist(c) # {}
    <3>1. c \in (IF n > capacity[d] THEN SeatFreedAlert(d) ELSE {})
      BY <1>3, <2>2 DEF SeatFreedAlert
    <3> QED
      BY <1>1, <3>1, StillHeard
  <2> QED
    BY <2>1, <2>2
<1>4. CASE ~(c = d /\ n > capacity[d])
  <2>1. capacity'[c] <= capacity[c] /\ \A f \in Id : QuietRow(f, c)
    BY <1>1, <1>2, <1>4 DEF QuietRow
  <2>2. Quiet(c)
    BY <1>1, <2>1, QuietRows
  <2> QED
    BY <1>1, <2>2, StillHeard
<1> QED
  BY <1>3, <1>4

(* As time passes a seat is freed only by an offer that lapses, and that   *)
(* offer then waits for the sweep.                                         *)
LEMMA TickHeard ==
  ASSUME TypeOK, TypeOK', FreedSeatNeverSilent, Tick, NEW c \in Class
  PROVE  Heard(c)'
<1>1. enrollments' = enrollments /\ capacity' = capacity /\ now <= now' /\ History({}, {})
  BY DEF Tick, tables, TypeOK
<1>2. CASE StaleOffers(c)' # {}
  BY <1>2 DEF Heard
<1>3. CASE StaleOffers(c)' = {}
  <2>1. \A f \in RowsOf(c, {"OFFERED"}) : f \in Id /\ ~(enrollments[f].offer_expires_at < now')
    BY <1>1, <1>3 DEF StaleOffers, RowsOf
  <2>2. \A f \in Id : enrollments[f].offer_expires_at \in Nat
    BY DEF TypeOK, Row
  <2>3. now \in Nat /\ now' \in Nat
    BY DEF TypeOK
  <2>4. SeatHolders(c) \subseteq SeatHolders(c)'
    BY <1>1, <2>1, <2>2, <2>3 DEF SeatHolders, RowsOf, LiveOffer
  <2>5. StaleOffers(c) \subseteq StaleOffers(c)'
    BY <1>1, <2>1, <2>2, <2>3 DEF StaleOffers, RowsOf
  <2>6. Waitlist(c)' \subseteq Waitlist(c) /\ capacity'[c] <= capacity[c]
    BY <1>1 DEF Waitlist, RowsOf, TypeOK
  <2>7. Quiet(c)
    BY <2>4, <2>5, <2>6 DEF Quiet
  <2> QED
    BY <1>1, <2>7, StillHeard
<1> QED
  BY <1>2, <1>3

LEMMA HeardStep ==
  TypeOK /\ TypeOK' /\ FreedSeatNeverSilent /\ [Next]_vars => FreedSeatNeverSilent'
<1> SUFFICES ASSUME TypeOK, TypeOK', FreedSeatNeverSilent, [Next]_vars, NEW c \in Class
             PROVE  Heard(c)'
  BY DEF FreedSeatNeverSilent, Heard
<1>1. CASE RegistrationStep
  BY <1>1, RegistrationHeard, TransferHeard DEF RegistrationStep
<1>2. ASSUME NEW e \in Id,
             \/ ApproveRequest(e) \/ OfferSeat(e) \/ RejectRequest(e)
             \/ ConfirmOffer(e) \/ DeclineOffer(e) \/ DeclineCancellation(e)
      PROVE  Heard(c)'
  BY <1>2, ApproveOfferHeard, OneRowHeard
<1>3. ASSUME NEW e \in Id, CancelByAdmin(e) \/ ParentCancel(e) \/ ConfirmCancellation(e)
      PROVE  Heard(c)'
  <2>1. RequestCancellation(e) \/ \E reason \in CancelReason : Cancel(e, reason)
    BY <1>3, ParentCancelCases DEF CancelByAdmin, ConfirmCancellation, CancelReason
  <2> QED
    BY <2>1, CancelHeard, OneRowHeard
<1>4. CASE ClassStep
  BY <1>4, ClassStepHeard, CapacityHeard DEF ClassStep, EditCapacity, UpsertClass
<1>5. CASE Tick
  BY <1>5, TickHeard
<1>6. CASE UNCHANGED vars
  BY <1>6 DEF vars, Heard, FreedSeatNeverSilent, HasFreeSeat, SeatsTaken, SeatHolders, Waitlist,
              StaleOffers, RowsOf, LiveOffer
<1> QED
  BY <1>1, <1>2, <1>3, <1>4, <1>5, <1>6 DEF Next, DecisionStep

LEMMA HeardInit == Init => FreedSeatNeverSilent
BY InitRows DEF FreedSeatNeverSilent, Waitlist, RowsOf

(* A class never has both a free seat and a waiting list without its       *)
(* admins having been told since it was last full, save for an offer that  *)
(* has lapsed and waits for the sweep: withdrawals, moves, declined and    *)
(* lapsed offers and raised capacities all reach them.                     *)
THEOREM SeatsFreedAloud == Spec => []FreedSeatNeverSilent
BY HeardInit, HeardStep, TypeCorrect, PTL DEF Spec

-----------------------------------------------------------------------------
(* What the family was last told. *)

Saved(e) == enrollments[e].status # "UNSAVED"
Pair(e, ch, c) == enrollments[e].child = ch /\ enrollments[e].activity_class = c

(* Keys are handed out in order, and a child's live row in a class is its  *)
(* newest there; only an enrolled child has asked to leave.                *)
InOrder == \A e, f \in Id : f < e /\ Saved(e) => Saved(f)
BlankUnsaved == \A e \in Id : ~Saved(e) => enrollments[e] = Unsaved
LiveIsNewest ==
  \A e, f \in Id :
    /\ enrollments[e].status \in Active /\ Saved(f)
    /\ enrollments[e].child = enrollments[f].child
    /\ enrollments[e].activity_class = enrollments[f].activity_class
    => f <= e
AskedOnceIn ==
  \A e \in Id : enrollments[e].status \in {"REQUESTED", "WAITLISTED", "OFFERED"} =>
                  enrollments[e].cancel_requested_at = Unset

NewsOK == InOrder /\ BlankUnsaved /\ LiveIsNewest /\ AskedOnceIn /\ NewsMatchesPlace

(* The news that go with a row, by what they depend on. *)
LEMMA NewsOfRow ==
  ASSUME NEW r \in Row
  PROVE  /\ r.status = "REQUESTED" => NewsOf(r) = {"ENROLLMENT_REQUESTED"}
         /\ r.status = "WAITLISTED" => NewsOf(r) = {"WAITLISTED"}
         /\ r.status = "OFFERED" => NewsOf(r) = {"WAITLIST_OFFER"}
         /\ r.status = "ENROLLED" /\ r.cancel_requested_at # Unset =>
              NewsOf(r) = {"CANCELLATION_REQUESTED"}
         /\ r.status = "ENROLLED" /\ r.cancel_requested_at = Unset =>
              NewsOf(r) = {"REGISTRATION_CONFIRMED", "ENROLLMENT_TRANSFERRED", "CANCELLATION_DECLINED"}
BY DEF NewsOf

LEMMA NewsOfCancelled ==
  ASSUME NEW r \in Row, r.status = "CANCELLED"
  PROVE  /\ \A reason \in {"PARENT", "PARENT_REQUEST", "ADMIN"} :
              r.cancel_reason = reason => CancelEvent(reason) \in NewsOf(r)
         /\ r.cancel_reason = "TRANSFERRED" => "ENROLLMENT_TRANSFERRED" \in NewsOf(r)
         /\ r.cancel_reason = "OFFER_DECLINED" => NewsOf(r) = {"WAITLIST_OFFER"}
         /\ r.cancel_reason = "REQUEST_REJECTED" => "REQUEST_REJECTED" \in NewsOf(r)
         /\ r.cancel_reason = "OFFER_EXPIRED" => "OFFER_EXPIRED" \in NewsOf(r)
         /\ r.cancel_reason = "CLASS_CANCELLED" => "CLASS_CANCELLED" \in NewsOf(r)
BY DEF NewsOf, NewsOfEnd, CancelEvent

(* A step tells a family nothing, and its rows in the class go on meaning  *)
(* what it was told; or it tells it of the row it works on.                *)
Reports(ch, c) ==
  \/ /\ news'[<<ch, c>>] = news[<<ch, c>>]
     /\ \A f \in Id : enrollments'[f].child = ch /\ enrollments'[f].activity_class = c =>
          Pair(f, ch, c) /\ NewsOf(enrollments[f]) \subseteq NewsOf(enrollments'[f])
  \/ \E f \in Id : /\ enrollments'[f].child = ch /\ enrollments'[f].activity_class = c
                   /\ Born(f) \/ Changed(f)
                   /\ news'[<<ch, c>>] \in NewsOf(enrollments'[f])

LEMMA ToldReports ==
  ASSUME TypeOK, NEW S1 \in SUBSET Id, NEW S2 \in SUBSET Id, NEW ev1, NEW ev2,
         \A f \in S1 \ S2 : ev1 \in NewsOf(enrollments'[f]),
         \A f \in S2 : ev2 \in NewsOf(enrollments'[f]),
         \A f \in S1 \cup S2 : Changed(f),
         \A f \in Id \ (S1 \cup S2) : enrollments'[f] = enrollments[f],
         news' = Told(Told(news, S1, ev1), S2, ev2),
         NEW ch \in Child, NEW c \in Class
  PROVE  Reports(ch, c)
<1> DEFINE p == <<ch, c>>
<1>1. p \in Child \X Class
  OBVIOUS
<1>2. \A f \in Id : Pair(f, ch, c) <=> p = <<enrollments[f].child, enrollments[f].activity_class>>
  BY DEF Pair
<1>3. news'[p] = IF \E f \in S2 : Pair(f, ch, c) THEN ev2
                 ELSE IF \E f \in S1 : Pair(f, ch, c) THEN ev1 ELSE news[p]
  <2>1. Told(news, S1, ev1)[p] = IF \E f \in S1 : Pair(f, ch, c) THEN ev1 ELSE news[p]
    BY <1>1, <1>2 DEF Told
  <2> DEFINE n == Told(news, S1, ev1)
  <2>2. n[p] = IF \E f \in S1 : Pair(f, ch, c) THEN ev1 ELSE news[p]
    BY <2>1
  <2> HIDE DEF n
  <2>3. Told(n, S2, ev2)[p] = IF \E f \in S2 : Pair(f, ch, c) THEN ev2 ELSE n[p]
    BY <1>1, <1>2 DEF Told
  <2>4. news' = Told(n, S2, ev2)
    BY DEF n
  <2> QED
    BY <2>2, <2>3, <2>4
<1>4. \A f \in S1 \cup S2 : /\ Changed(f) /\ enrollments'[f].child = enrollments[f].child
                            /\ enrollments'[f].activity_class = enrollments[f].activity_class
  BY DEF Changed
<1>5. CASE \E f \in S2 : Pair(f, ch, c)
  <2>1. PICK f \in S2 : Pair(f, ch, c)
    BY <1>5
  <2>2. enrollments'[f].child = ch /\ enrollments'[f].activity_class = c /\ Changed(f)
    BY <1>4, <2>1 DEF Pair
  <2> QED
    BY <1>3, <1>5, <2>1, <2>2 DEF Reports
<1>6. CASE ~(\E f \in S2 : Pair(f, ch, c)) /\ \E f \in S1 : Pair(f, ch, c)
  <2>1. PICK f \in S1 \ S2 : Pair(f, ch, c)
    BY <1>6
  <2>2. enrollments'[f].child = ch /\ enrollments'[f].activity_class = c /\ Changed(f)
    BY <1>4, <2>1 DEF Pair
  <2> QED
    BY <1>3, <1>6, <2>1, <2>2 DEF Reports
<1>7. CASE ~(\E f \in S1 \cup S2 : Pair(f, ch, c))
  <2>1. news'[p] = news[p]
    BY <1>3, <1>7
  <2>2. ASSUME NEW f \in Id, enrollments'[f].child = ch, enrollments'[f].activity_class = c
        PROVE  Pair(f, ch, c) /\ enrollments'[f] = enrollments[f]
    <3>1. f \notin S1 \cup S2
      BY <1>4, <1>7, <2>2 DEF Pair
    <3> QED
      BY <2>2, <3>1 DEF Pair
  <2> QED
    BY <2>1, <2>2 DEF Reports
<1> QED
  BY <1>5, <1>6, <1>7

(* One layer of news. *)
LEMMA TellReports ==
  ASSUME TypeOK, NEW S \in SUBSET Id, NEW ev,
         \A f \in S : ev \in NewsOf(enrollments'[f]) /\ Changed(f),
         \A f \in Id \ S : enrollments'[f] = enrollments[f],
         news' = Told(news, S, ev),
         NEW ch \in Child, NEW c \in Class
  PROVE  Reports(ch, c)
<1>1. Told(news, {}, ev) = news
  BY DEF Told, TypeOK
<1>2. news' = Told(Told(news, {}, ev), S, ev)
  BY <1>1
<1> QED
  BY <1>2, ToldReports

(* A step that touches neither the table nor the news.                     *)
LEMMA SilentReports ==
  ASSUME UNCHANGED <<enrollments, news>>, NEW ch, NEW c
  PROVE  Reports(ch, c)
BY DEF Reports, Pair

LEMMA RegistrationReports ==
  ASSUME TypeOK, NEW x \in Child, NEW d \in Class, Register(x, d) \/ AdminRegister(x, d),
         NEW ch \in Child, NEW c \in Class
  PROVE  Reports(ch, c)
<1>1. PICK st \in {"REQUESTED", "ENROLLED"}, f \in Id :
        /\ NextId(f)
        /\ enrollments' = [enrollments EXCEPT ![f] = NewRow(x, d, st)]
        /\ news' = [news EXCEPT ![<<x, d>>] = IF st = "REQUESTED" THEN "ENROLLMENT_REQUESTED"
                                              ELSE "REGISTRATION_CONFIRMED"]
  BY DEF Register, AdminRegister
<1>2. Open(d) /\ ~Registered(x, d)
  BY DEF Register, AdminRegister
<1> DEFINE r == NewRow(x, d, st)
<1>3. /\ r \in Row /\ r.status = st /\ r.child = x /\ r.activity_class = d
      /\ r.cancel_requested_at = Unset
  BY <1>1, NewRowRow DEF TypeOK, Active
<1>4. enrollments'[f] = r /\ \A g \in Id \ {f} : enrollments'[g] = enrollments[g]
  BY <1>1 DEF TypeOK
<1> HIDE DEF r
<1>5. Born(f)
  BY <1>1, <1>2, <1>3, <1>4 DEF Born
<1>6. CASE x = ch /\ d = c
  <2>1. news'[<<ch, c>>] \in NewsOf(r)
    BY <1>1, <1>3, <1>6, NewsOfRow DEF TypeOK
  <2> QED
    BY <1>3, <1>4, <1>5, <1>6, <2>1 DEF Reports
<1>7. CASE ~(x = ch /\ d = c)
  <2>1. news'[<<ch, c>>] = news[<<ch, c>>]
    BY <1>1, <1>7 DEF TypeOK
  <2>2. ASSUME NEW g \in Id, enrollments'[g].child = ch, enrollments'[g].activity_class = c
        PROVE  Pair(g, ch, c) /\ enrollments'[g] = enrollments[g]
    BY <1>3, <1>4, <1>7, <2>2 DEF Pair
  <2> QED
    BY <2>1, <2>2 DEF Reports
<1> QED
  BY <1>6, <1>7

LEMMA AskedRow ==
  ASSUME NEW r \in Row, NEW t \in Nat
  PROVE  /\ [r EXCEPT !.cancel_requested_at = t] \in Row
         /\ [r EXCEPT !.cancel_requested_at = t].status = r.status
         /\ [r EXCEPT !.cancel_requested_at = t].child = r.child
         /\ [r EXCEPT !.cancel_requested_at = t].activity_class = r.activity_class
         /\ [r EXCEPT !.cancel_requested_at = t].cancel_reason = r.cancel_reason
BY DEF Row

LEMMA TransferReports ==
  ASSUME TypeOK, NEW e \in Id, NEW target \in Class, Transfer(e, target),
         NEW ch \in Child, NEW c \in Class
  PROVE  Reports(ch, c)
<1> DEFINE ended == [Cancelled(enrollments[e], "TRANSFERRED") EXCEPT !.cancel_requested_at = Unset]
           x == enrollments[e].child
           source == enrollments[e].activity_class
           born == NewRow(x, target, "ENROLLED")
<1>1. PICK f \in Id : /\ NextId(f)
                      /\ enrollments' = [enrollments EXCEPT ![e] = ended, ![f] = born]
  BY DEF Transfer
<1>2. /\ x \in Child /\ source \in Class /\ enrollments[e] \in Row /\ e # f
      /\ enrollments[e].status \in Active
      /\ Open(target) /\ ~Registered(x, target) /\ source # target
      /\ news' = [news EXCEPT ![<<x, source>>] = "ENROLLMENT_TRANSFERRED",
                              ![<<x, target>>] = "ENROLLMENT_TRANSFERRED"]
  BY <1>1 DEF TypeOK, Transfer, Active, NextId, TransferNews
<1>3. /\ ended \in Row /\ ended.status = "CANCELLED" /\ ended.child = x
      /\ ended.activity_class = source /\ ended.cancel_reason = "TRANSFERRED"
  <2>1. "TRANSFERRED" \in CancelReason
    BY DEF CancelReason
  <2> DEFINE r == Cancelled(enrollments[e], "TRANSFERRED")
  <2>2. /\ r \in Row /\ r.status = "CANCELLED" /\ r.child = x
        /\ r.activity_class = source /\ r.cancel_reason = "TRANSFERRED"
    BY <1>2, <2>1, CancelledRow, CancelledReason
  <2> HIDE DEF r, x, source
  <2>3. ended = [r EXCEPT !.cancel_requested_at = Unset]
    BY DEF r
  <2>4. Unset \in Nat
    BY DEF Unset
  <2> HIDE DEF ended
  <2> QED
    BY <2>2, <2>3, <2>4, AskedRow
<1>4. /\ born \in Row /\ born.status = "ENROLLED" /\ born.child = x /\ born.activity_class = target
      /\ born.cancel_requested_at = Unset
  BY <1>2, NewRowRow DEF TypeOK, Active
<1> HIDE DEF ended, born
<1>5. /\ enrollments'[e] = ended /\ enrollments'[f] = born
      /\ \A g \in Id \ {e, f} : enrollments'[g] = enrollments[g]
  BY <1>1, <1>2 DEF TypeOK
<1>6. Born(f)
  BY <1>1, <1>2, <1>4, <1>5 DEF Born
<1>7. Changed(e)
  BY <1>2, <1>3, <1>5 DEF Changed, Onward
<1>8. "ENROLLMENT_TRANSFERRED" \in NewsOf(ended) /\ "ENROLLMENT_TRANSFERRED" \in NewsOf(born)
  BY <1>3, <1>4, NewsOfRow, NewsOfCancelled
<1>9. news \in [Child \X Class -> Event \cup {NoNews}]
  BY DEF TypeOK
<1> HIDE DEF x, source
<1>10. CASE ch = x /\ c = source
  <2>1. news'[<<ch, c>>] = "ENROLLMENT_TRANSFERRED"
    BY <1>2, <1>9, <1>10
  <2> QED
    BY <1>3, <1>5, <1>7, <1>8, <1>10, <2>1 DEF Reports
<1>11. CASE ch = x /\ c = target
  <2>1. news'[<<ch, c>>] = "ENROLLMENT_TRANSFERRED"
    BY <1>2, <1>9, <1>11
  <2> QED
    BY <1>4, <1>5, <1>6, <1>8, <1>11, <2>1 DEF Reports
<1>12. CASE ~(ch = x /\ c \in {source, target})
  <2>1. news'[<<ch, c>>] = news[<<ch, c>>]
    BY <1>2, <1>9, <1>12
  <2>2. ASSUME NEW g \in Id, enrollments'[g].child = ch, enrollments'[g].activity_class = c
        PROVE  Pair(g, ch, c) /\ enrollments'[g] = enrollments[g]
    BY <1>3, <1>4, <1>5, <1>12, <2>2 DEF Pair
  <2> QED
    BY <2>1, <2>2 DEF Reports
<1> QED
  BY <1>10, <1>11, <1>12

(* The sweep ends the lapsed offers, and says so.                          *)
LEMMA SweptReported ==
  ASSUME TypeOK, NEW d \in Class, NEW f \in StaleOffers(d), enrollments'[f] = Swept(d)[f]
  PROVE  f \in Id /\ Changed(f) /\ "OFFER_EXPIRED" \in NewsOf(enrollments'[f])
<1>1. f \in Id /\ enrollments[f].status = "OFFERED" /\ enrollments[f] \in Row
  BY DEF StaleOffers, RowsOf, TypeOK
<1>2. "OFFER_EXPIRED" \in CancelReason
  BY DEF CancelReason
<1>3. enrollments'[f] = Cancelled(enrollments[f], "OFFER_EXPIRED")
  BY <1>1 DEF Swept
<1>4. /\ enrollments'[f] \in Row /\ enrollments'[f].status = "CANCELLED"
      /\ enrollments'[f].cancel_reason = "OFFER_EXPIRED"
      /\ enrollments'[f].child = enrollments[f].child
      /\ enrollments'[f].activity_class = enrollments[f].activity_class
  BY <1>1, <1>2, <1>3, CancelledRow, CancelledReason
<1> QED
  BY <1>1, <1>4, NewsOfCancelled DEF Changed, Onward, Active

LEMMA ApproveOfferReports ==
  ASSUME TypeOK, AskedOnceIn, NEW e \in Id, ApproveRequest(e) \/ OfferSeat(e),
         NEW ch \in Child, NEW c \in Class
  PROVE  Reports(ch, c)
<1> DEFINE d == enrollments[e].activity_class
<1>1. /\ d \in Class /\ enrollments[e].status \in {"REQUESTED", "WAITLISTED"}
      /\ enrollments[e].cancel_requested_at = Unset
  BY DEF TypeOK, ApproveRequest, OfferSeat, AskedOnceIn
<1>2. PICK st, ev :
        /\ <<st, ev>> \in {<<"ENROLLED", "REGISTRATION_CONFIRMED">>, <<"WAITLISTED", "WAITLISTED">>,
                           <<"OFFERED", "WAITLIST_OFFER">>}
        /\ \/ enrollments' = [Swept(d) EXCEPT ![e].status = st]
           \/ \E ttl \in OfferTtls :
                enrollments' = [Swept(d) EXCEPT ![e].status = st, ![e].offer_expires_at = now + ttl]
        /\ news' = Told(SweptNews(d), {e}, ev)
  BY DEF ApproveRequest, OfferSeat
<1>3. \A f \in Id : Lives(f)
  BY ApproveOfferLives
<1> HIDE DEF d
<1>4. \A f \in Id \ {e} : enrollments'[f] = Swept(d)[f]
  BY <1>1, <1>2, SweptRows
<1>5. enrollments'[e].status = st /\ enrollments'[e].cancel_requested_at = Unset
  BY <1>1, <1>2, SweptRows DEF Row
<1>6. enrollments'[e] \in Row
  BY ApproveType, OfferType DEF TypeOK
<1>7. ev \in NewsOf(enrollments'[e])
  BY <1>2, <1>5, <1>6, NewsOfRow
<1>8. Changed(e)
  <2>1. enrollments'[e] # enrollments[e] \/ Changed(e)
    BY <1>1, <1>2, <1>5 DEF Changed, Onward, Active, ApproveRequest, OfferSeat
  <2>2. ~Born(e)
    BY <1>1 DEF Born, NextId
  <2> QED
    BY <1>3, <2>1, <2>2 DEF Lives
<1>9. \A f \in StaleOffers(d) \ {e} : Changed(f) /\ "OFFER_EXPIRED" \in NewsOf(enrollments'[f])
  BY <1>1, <1>4, SweptReported DEF StaleOffers, RowsOf
<1>10. \A f \in Id \ (StaleOffers(d) \cup {e}) : enrollments'[f] = enrollments[f]
  BY <1>4 DEF Swept
<1>11. news' = Told(Told(news, StaleOffers(d), "OFFER_EXPIRED"), {e}, ev)
  BY <1>2 DEF SweptNews
<1>12. StaleOffers(d) \in SUBSET Id
  BY DEF StaleOffers, RowsOf
<1> QED
  BY <1>7, <1>8, <1>9, <1>10, <1>11, <1>12, ToldReports

LEMMA CancelReports ==
  ASSUME TypeOK, NEW e \in Id, NEW reason \in {"PARENT", "PARENT_REQUEST", "ADMIN"},
         Cancel(e, reason), NEW ch \in Child, NEW c \in Class
  PROVE  Reports(ch, c)
<1>1. enrollments[e] \in Row /\ enrollments[e].status \in Active
  BY DEF TypeOK, Cancel
<1>2. /\ enrollments' = [enrollments EXCEPT ![e] = Cancelled(enrollments[e], reason)]
      /\ news' = Told(news, {e}, CancelEvent(reason))
  BY DEF Cancel, Tell
<1>3. reason \in CancelReason
  BY DEF CancelReason
<1>4. enrollments'[e] = Cancelled(enrollments[e], reason)
  BY <1>2 DEF TypeOK
<1>5. /\ enrollments'[e] \in Row /\ enrollments'[e].status = "CANCELLED"
      /\ enrollments'[e].cancel_reason = reason
      /\ enrollments'[e].child = enrollments[e].child
      /\ enrollments'[e].activity_class = enrollments[e].activity_class
  BY <1>1, <1>3, <1>4, CancelledRow, CancelledReason
<1>6. CancelEvent(reason) \in NewsOf(enrollments'[e])
  BY <1>5, NewsOfCancelled
<1>7. Changed(e)
  BY <1>1, <1>5 DEF Changed, Onward
<1>8. \A f \in Id \ {e} : enrollments'[f] = enrollments[f]
  BY <1>2 DEF TypeOK
<1> QED
  BY <1>2, <1>6, <1>7, <1>8, TellReports

(* A family that declines its offer is not told that it did.               *)
LEMMA DeclineOfferReports ==
  ASSUME TypeOK, NEW e \in Id, DeclineOffer(e), NEW ch \in Child, NEW c \in Class
  PROVE  Reports(ch, c)
<1>1. enrollments[e] \in Row /\ enrollments[e].status = "OFFERED" /\ news' = news
  BY DEF TypeOK, DeclineOffer
<1>2. "OFFER_DECLINED" \in CancelReason
  BY DEF CancelReason
<1>3. /\ enrollments'[e] = Cancelled(enrollments[e], "OFFER_DECLINED")
      /\ \A f \in Id \ {e} : enrollments'[f] = enrollments[f]
  BY DEF TypeOK, DeclineOffer
<1>4. /\ enrollments'[e] \in Row /\ enrollments'[e].status = "CANCELLED"
      /\ enrollments'[e].cancel_reason = "OFFER_DECLINED"
      /\ enrollments'[e].child = enrollments[e].child
      /\ enrollments'[e].activity_class = enrollments[e].activity_class
  BY <1>1, <1>2, <1>3, CancelledRow, CancelledReason
<1>5. NewsOf(enrollments[e]) = NewsOf(enrollments'[e])
  BY <1>1, <1>4, NewsOfRow, NewsOfCancelled
<1> QED
  BY <1>1, <1>3, <1>4, <1>5 DEF Reports, Pair

LEMMA OneRowReports ==
  ASSUME TypeOK, NEW e \in Id,
         RejectRequest(e) \/ ConfirmOffer(e) \/ RequestCancellation(e) \/ DeclineCancellation(e),
         AskedOnceIn, NEW ch \in Child, NEW c \in Class
  PROVE  Reports(ch, c)
<1>1. enrollments[e] \in Row /\ enrollments[e].status \in {"REQUESTED", "OFFERED", "ENROLLED"}
  BY DEF TypeOK, RejectRequest, ConfirmOffer, RequestCancellation, DeclineCancellation,
         CancellationRequested
<1>2. \A f \in Id \ {e} : enrollments'[f] = enrollments[f]
  BY DEF TypeOK, RejectRequest, ConfirmOffer, RequestCancellation, DeclineCancellation
<1>3. enrollments'[e] \in Row /\ now # Unset
  BY OneRowType DEF TypeOK
<1>4. CASE RejectRequest(e)
  <2>1. "REQUEST_REJECTED" \in CancelReason
    BY DEF CancelReason
  <2>2. /\ enrollments'[e] = Cancelled(enrollments[e], "REQUEST_REJECTED")
        /\ enrollments[e].status = "REQUESTED"
        /\ news' = Told(news, {e}, "REQUEST_REJECTED")
    BY <1>4 DEF RejectRequest, Tell, TypeOK
  <2>3. /\ enrollments'[e].status = "CANCELLED"
        /\ enrollments'[e].cancel_reason = "REQUEST_REJECTED"
        /\ enrollments'[e].child = enrollments[e].child
        /\ enrollments'[e].activity_class = enrollments[e].activity_class
    BY <1>1, <2>1, <2>2, CancelledRow, CancelledReason
  <2>4. Changed(e)
    BY <2>2, <2>3 DEF Changed, Onward, Active
  <2>5. "REQUEST_REJECTED" \in NewsOf(enrollments'[e])
    BY <1>3, <2>3, NewsOfCancelled
  <2> QED
    BY <1>2, <2>2, <2>4, <2>5, TellReports
<1>5. CASE ConfirmOffer(e) \/ RequestCancellation(e) \/ DeclineCancellation(e)
  <2>1. PICK ev : /\ news' = Told(news, {e}, ev)
                  /\ \/ ConfirmOffer(e) /\ ev = "REGISTRATION_CONFIRMED"
                     \/ RequestCancellation(e) /\ ev = "CANCELLATION_REQUESTED"
                     \/ DeclineCancellation(e) /\ ev = "CANCELLATION_DECLINED"
    BY <1>5 DEF ConfirmOffer, RequestCancellation, DeclineCancellation, Tell
  <2>2. /\ enrollments'[e].child = enrollments[e].child
        /\ enrollments'[e].activity_class = enrollments[e].activity_class
        /\ enrollments'[e].status = "ENROLLED"
        /\ enrollments[e].status \in {"OFFERED", "ENROLLED"}
    BY <1>1, <1>5 DEF ConfirmOffer, RequestCancellation, DeclineCancellation,
                      CancellationRequested, TypeOK, Row
  <2>3. Changed(e)
    BY <2>2 DEF Changed, Onward, Active
  <2>4. CASE ConfirmOffer(e) /\ ev = "REGISTRATION_CONFIRMED"
    <3>1. enrollments[e].cancel_requested_at = Unset
      BY <2>4 DEF ConfirmOffer, AskedOnceIn
    <3>2. enrollments'[e].cancel_requested_at = Unset
      BY <1>1, <2>4, <3>1 DEF ConfirmOffer, TypeOK, Row
    <3>3. ev \in NewsOf(enrollments'[e])
      BY <1>3, <2>2, <2>4, <3>2, NewsOfRow
    <3> QED
      BY <1>2, <2>1, <2>3, <3>3, TellReports
  <2>5. CASE RequestCancellation(e) /\ ev = "CANCELLATION_REQUESTED"
    <3>1. enrollments'[e].cancel_requested_at = now
      BY <1>1, <2>5 DEF RequestCancellation, TypeOK, Row
    <3>2. ev \in NewsOf(enrollments'[e])
      BY <1>3, <2>2, <2>5, <3>1, NewsOfRow
    <3> QED
      BY <1>2, <2>1, <2>3, <3>2, TellReports
  <2>6. CASE DeclineCancellation(e) /\ ev = "CANCELLATION_DECLINED"
    <3>1. enrollments'[e].cancel_requested_at = Unset
      BY <1>1, <2>6 DEF DeclineCancellation, TypeOK, Row
    <3>2. ev \in NewsOf(enrollments'[e])
      BY <1>3, <2>2, <2>6, <3>1, NewsOfRow
    <3> QED
      BY <1>2, <2>1, <2>3, <3>2, TellReports
  <2> QED
    BY <2>1, <2>4, <2>5, <2>6
<1> QED
  BY <1>4, <1>5

LEMMA ClassStepReports ==
  ASSUME TypeOK, NEW d \in Class, ExpireOffers(d) \/ CancelClass(d), NEW ch \in Child, NEW c \in Class
  PROVE  Reports(ch, c)
<1>1. CASE ExpireOffers(d)
  <2>1. enrollments' = Swept(d) /\ news' = Told(news, StaleOffers(d), "OFFER_EXPIRED")
    BY <1>1 DEF ExpireOffers, SweepStep, SweptNews
  <2>2. \A f \in StaleOffers(d) : "OFFER_EXPIRED" \in NewsOf(enrollments'[f]) /\ Changed(f)
    BY <2>1, SweptReported
  <2>3. \A f \in Id \ StaleOffers(d) : enrollments'[f] = enrollments[f]
    BY <2>1 DEF Swept
  <2>4. StaleOffers(d) \in SUBSET Id
    BY DEF StaleOffers, RowsOf
  <2> QED
    BY <2>1, <2>2, <2>3, <2>4, TellReports
<1>2. CASE CancelClass(d)
  <2> DEFINE S == RowsOf(d, Active)
  <2>1. news' = Told(news, S, "CLASS_CANCELLED") /\ S \in SUBSET Id
    BY <1>2 DEF CancelClass, RowsOf
  <2>2. "CLASS_CANCELLED" \in CancelReason
    BY DEF CancelReason
  <2>3. ASSUME NEW f \in S PROVE "CLASS_CANCELLED" \in NewsOf(enrollments'[f]) /\ Changed(f)
    <3>1. f \in Id /\ enrollments[f] \in Row /\ enrollments[f].status \in Active
      BY <2>3 DEF RowsOf, TypeOK
    <3>2. enrollments'[f] = Cancelled(enrollments[f], "CLASS_CANCELLED")
      BY <1>2, <2>3, <3>1 DEF CancelClass
    <3>3. /\ enrollments'[f] \in Row /\ enrollments'[f].status = "CANCELLED"
          /\ enrollments'[f].cancel_reason = "CLASS_CANCELLED"
          /\ enrollments'[f].child = enrollments[f].child
          /\ enrollments'[f].activity_class = enrollments[f].activity_class
      BY <2>2, <3>1, <3>2, CancelledRow, CancelledReason
    <3> QED
      BY <3>1, <3>3, NewsOfCancelled DEF Changed, Onward
  <2>4. \A f \in Id \ S : enrollments'[f] = enrollments[f]
    BY <1>2 DEF CancelClass
  <2> HIDE DEF S
  <2> QED
    BY <2>1, <2>3, <2>4, TellReports
<1> QED
  BY <1>1, <1>2

LEMMA ReportsStep ==
  ASSUME TypeOK, AskedOnceIn, [Next]_vars, NEW ch \in Child, NEW c \in Class
  PROVE  Reports(ch, c)
<1>1. CASE RegistrationStep
  BY <1>1, RegistrationReports, TransferReports DEF RegistrationStep
<1>2. ASSUME NEW e \in Id,
             \/ ApproveRequest(e) \/ OfferSeat(e) \/ RejectRequest(e)
             \/ ConfirmOffer(e) \/ DeclineOffer(e) \/ DeclineCancellation(e)
      PROVE  Reports(ch, c)
  BY <1>2, ApproveOfferReports, OneRowReports, DeclineOfferReports
<1>3. ASSUME NEW e \in Id, CancelByAdmin(e) \/ ParentCancel(e) \/ ConfirmCancellation(e)
      PROVE  Reports(ch, c)
  <2>1. RequestCancellation(e) \/ \E reason \in {"PARENT", "PARENT_REQUEST", "ADMIN"} : Cancel(e, reason)
    BY <1>3, ParentCancelCases DEF CancelByAdmin, ConfirmCancellation
  <2> QED
    BY <2>1, CancelReports, OneRowReports
<1>4. CASE ClassStep
  <2>1. (\E d \in Class : ExpireOffers(d) \/ CancelClass(d)) \/ UNCHANGED <<enrollments, news>>
    BY <1>4 DEF ClassStep, PublishClass, ArchiveClass, SetTermActive, EditCapacity, UpsertClass,
                SaveCapacity
  <2> QED
    BY <2>1, ClassStepReports, SilentReports
<1>5. CASE Tick \/ UNCHANGED vars
  BY <1>5, SilentReports DEF Tick, tables, vars
<1> QED
  BY <1>1, <1>2, <1>3, <1>4, <1>5 DEF Next, DecisionStep

(* The newest row of a pair is still the newest, or a newer one is born.   *)
LEMMA OrderStep ==
  ASSUME TypeOK, TypeOK', InOrder, BlankUnsaved, LiveIsNewest, AskedOnceIn,
         \A e \in Id : Lives(e)
  PROVE  InOrder' /\ BlankUnsaved' /\ LiveIsNewest' /\ AskedOnceIn'
<1>1. \A e \in Id : Saved(e) => Saved(e)'
  BY DEF Lives, Born, Changed, Saved, Active
<1>2. \A e \in Id : Saved(e)' => Saved(e) \/ Born(e)
  BY DEF Lives, Born, Changed, Saved, Active
<1>3. \A e \in Id : Saved(e) =>
        /\ enrollments'[e].child = enrollments[e].child
        /\ enrollments'[e].activity_class = enrollments[e].activity_class
        /\ enrollments'[e].status \in Active => enrollments[e].status \in Active
  BY DEF Lives, Born, NextId, Changed, Saved
<1>4. \A e \in Id : Born(e) => ~Saved(e) /\ \A f \in Id : f < e => Saved(f)
  BY DEF Born, NextId, Saved, Id
<1>5. \A e, f \in Id : Born(e) /\ Saved(f) => f < e
  BY <1>4 DEF InOrder, Saved, Id
<1>6. InOrder'
  <2> SUFFICES ASSUME NEW e \in Id, NEW f \in Id, f < e, Saved(e)' PROVE Saved(f)'
    BY DEF InOrder
  <2> QED
    BY <1>1, <1>2, <1>4 DEF InOrder
<1>7. BlankUnsaved'
  BY <1>1 DEF BlankUnsaved, Lives, Born, Changed, Saved, Active
<1>8. LiveIsNewest'
  <2> SUFFICES ASSUME NEW e \in Id, NEW f \in Id, enrollments'[e].status \in Active, Saved(f)',
                      enrollments'[e].child = enrollments'[f].child,
                      enrollments'[e].activity_class = enrollments'[f].activity_class
               PROVE  f <= e
    BY DEF LiveIsNewest
  <2>0. Saved(e)'
    BY DEF Saved, Active
  <2>1. CASE Saved(f) /\ Saved(e)
    BY <1>3, <2>1 DEF LiveIsNewest
  <2>2. CASE Saved(f) /\ Born(e)
    BY <1>5, <2>2 DEF Id
  <2>3. CASE Born(f) /\ Saved(e)
    <3>1. /\ ~Registered(enrollments'[f].child, enrollments'[f].activity_class)
          /\ enrollments[e].status \in Active
      BY <1>3, <2>3 DEF Born
    <3>2. enrollments[e].child = enrollments'[f].child
          /\ enrollments[e].activity_class = enrollments'[f].activity_class
      BY <1>3, <2>3
    <3> QED
      BY <3>1, <3>2 DEF Registered, RowsOf
  <2>4. CASE Born(f) /\ Born(e)
    BY <2>4 DEF Born, NextId, Id
  <2> QED
    BY <1>2, <2>0, <2>1, <2>2, <2>3, <2>4
<1>9. AskedOnceIn'
  <2> SUFFICES ASSUME NEW e \in Id, enrollments'[e].status \in {"REQUESTED", "WAITLISTED", "OFFERED"}
               PROVE  enrollments'[e].cancel_requested_at = Unset
    BY DEF AskedOnceIn
  <2>1. CASE enrollments'[e] = enrollments[e]
    BY <2>1 DEF AskedOnceIn
  <2>2. CASE Born(e)
    BY <2>2 DEF Born
  <2>3. CASE Changed(e)
    <3>1. enrollments[e].status \in {"REQUESTED", "WAITLISTED", "OFFERED"}
      BY <2>3 DEF Changed, Onward
    <3> QED
      BY <2>3, <3>1 DEF Changed, AskedOnceIn
  <2> QED
    BY <2>1, <2>2, <2>3 DEF Lives
<1> QED
  BY <1>6, <1>7, <1>8, <1>9

(* The registrations of a child in a class, as NewsMatchesPlace has them.  *)
LEMMA NewsOfPair ==
  ASSUME TypeOK, NEW ch \in Child, NEW c \in Class
  PROVE  {e \in RowsOf(c, Status) : enrollments[e].child = ch} = {e \in Id : Pair(e, ch, c)}
BY DEF RowsOf, Pair, TypeOK, Row

Newest(e, ch, c) == Pair(e, ch, c) /\ \A f \in Id : Pair(f, ch, c) => f <= e

LEMMA NewsInvariant ==
  ASSUME TypeOK
  PROVE  NewsMatchesPlace <=>
           \A ch \in Child, c \in Class :
             \/ (\A e \in Id : ~Pair(e, ch, c)) /\ news[<<ch, c>>] = NoNews
             \/ \E e \in Id : Newest(e, ch, c) /\ news[<<ch, c>>] \in NewsOf(enrollments[e])
BY NewsOfPair DEF NewsMatchesPlace, Newest

(* A pair's rows are saved ones: nobody and nowhere are no child, no class. *)
LEMMA PairSaved ==
  ASSUME BlankUnsaved, NEW ch \in Child, NEW c \in Class, NEW e \in Id, Pair(e, ch, c)
  PROVE  Saved(e)
<1>1. Unsaved.child = Nobody /\ Nobody \notin Child
  BY NamesAssumption DEF Unsaved
<1> QED
  BY <1>1 DEF BlankUnsaved, Pair

LEMMA NewsInvariantNext ==
  ASSUME TypeOK',
         \A ch \in Child, c \in Class :
             \/ (\A e \in Id : ~Pair(e, ch, c)') /\ news'[<<ch, c>>] = NoNews
             \/ \E e \in Id : Newest(e, ch, c)' /\ news'[<<ch, c>>] \in NewsOf(enrollments'[e])
  PROVE  NewsMatchesPlace'
<1>1. \A ch \in Child, c \in Class :
        {e \in RowsOf(c, Status)' : enrollments'[e].child = ch} = {e \in Id : Pair(e, ch, c)'}
  BY DEF RowsOf, Pair, TypeOK, Row
<1> QED
  BY <1>1 DEF NewsMatchesPlace, Newest

(* Whoever the step reports on is the newest of the pair.                  *)
LEMMA ReportedIsNewest ==
  ASSUME TypeOK, TypeOK', InOrder, BlankUnsaved, BlankUnsaved', LiveIsNewest, NEW ch \in Child, NEW c \in Class,
         \A e \in Id : Lives(e), NEW f \in Id, Pair(f, ch, c)', Born(f) \/ Changed(f)
  PROVE  Newest(f, ch, c)'
<1> SUFFICES ASSUME NEW g \in Id, Pair(g, ch, c)' PROVE g <= f
  BY DEF Newest
<1>1. Saved(g) \/ Born(g)
  <2>1. Saved(g)'
    <3>1. Unsaved.child = Nobody /\ Nobody \notin Child
      BY NamesAssumption DEF Unsaved
    <3> QED
      BY <3>1 DEF BlankUnsaved, Pair
  <2> QED
    BY <2>1 DEF Lives, Changed, Saved, Active
<1>2. CASE Born(f) /\ Saved(g)
  <2>1. \A h \in Id : h < f => Saved(h)
    BY <1>2 DEF Born, NextId, Saved, Id
  <2> QED
    BY <1>2, <2>1 DEF InOrder, Born, NextId, Saved, Id
<1>3. CASE Born(f) /\ Born(g)
  BY <1>3 DEF Born, NextId, Id
<1>4. CASE Changed(f) /\ Saved(g)
  <2>1. Pair(g, ch, c)
    BY <1>4 DEF Lives, Born, NextId, Changed, Saved, Pair
  <2> QED
    BY <1>4, <2>1 DEF Changed, Pair, LiveIsNewest
<1>5. CASE Changed(f) /\ Born(g)
  <2>1. Pair(f, ch, c) /\ enrollments[f].status \in Active /\ ~Registered(ch, c)
    BY <1>5 DEF Born, Changed, Pair
  <2> QED
    BY <2>1 DEF Registered, RowsOf, Pair
<1> QED
  BY <1>1, <1>2, <1>3, <1>4, <1>5

LEMMA NewsStep == TypeOK /\ TypeOK' /\ NewsOK /\ [Next]_vars => NewsOK'
<1> SUFFICES ASSUME TypeOK, TypeOK', NewsOK, [Next]_vars PROVE NewsOK'
  OBVIOUS
<1>1. \A e \in Id : Lives(e)
  BY RowLife
<1>2. InOrder' /\ BlankUnsaved' /\ LiveIsNewest' /\ AskedOnceIn'
  BY <1>1, OrderStep DEF NewsOK
<1>3. ASSUME NEW ch \in Child, NEW c \in Class
      PROVE  \/ (\A e \in Id : ~Pair(e, ch, c)') /\ news'[<<ch, c>>] = NoNews
             \/ \E e \in Id : Newest(e, ch, c)' /\ news'[<<ch, c>>] \in NewsOf(enrollments'[e])
  <2>1. Reports(ch, c)
    BY ReportsStep DEF NewsOK
  <2>2. CASE /\ news'[<<ch, c>>] = news[<<ch, c>>]
             /\ \A f \in Id : Pair(f, ch, c)' =>
                  Pair(f, ch, c) /\ NewsOf(enrollments[f]) \subseteq NewsOf(enrollments'[f])
    <3>1. \A f \in Id : Pair(f, ch, c) => Pair(f, ch, c)'
      <4>1. \A f \in Id : Pair(f, ch, c) => Saved(f)
        BY PairSaved DEF NewsOK
      <4> QED
        BY <1>1, <4>1 DEF Lives, Born, NextId, Changed, Pair, Saved
    <3>2. \/ (\A e \in Id : ~Pair(e, ch, c)) /\ news[<<ch, c>>] = NoNews
          \/ \E e \in Id : Newest(e, ch, c) /\ news[<<ch, c>>] \in NewsOf(enrollments[e])
      BY NewsInvariant DEF NewsOK
    <3>3. CASE (\A e \in Id : ~Pair(e, ch, c)) /\ news[<<ch, c>>] = NoNews
      BY <2>2, <3>3
    <3>4. CASE \E e \in Id : Newest(e, ch, c) /\ news[<<ch, c>>] \in NewsOf(enrollments[e])
      <4>1. PICK e \in Id : Newest(e, ch, c) /\ news[<<ch, c>>] \in NewsOf(enrollments[e])
        BY <3>4
      <4>2. Newest(e, ch, c)'
        BY <2>2, <3>1, <4>1 DEF Newest
      <4>3. news'[<<ch, c>>] \in NewsOf(enrollments'[e])
        BY <2>2, <4>1, <4>2 DEF Newest
      <4> QED
        BY <4>2, <4>3
    <3> QED
      BY <3>2, <3>3, <3>4
  <2>3. CASE \E f \in Id : /\ Pair(f, ch, c)' /\ (Born(f) \/ Changed(f))
                           /\ news'[<<ch, c>>] \in NewsOf(enrollments'[f])
    <3>1. PICK f \in Id : /\ Pair(f, ch, c)' /\ (Born(f) \/ Changed(f))
                          /\ news'[<<ch, c>>] \in NewsOf(enrollments'[f])
      BY <2>3
    <3>2. Newest(f, ch, c)'
      BY <1>1, <1>2, <3>1, ReportedIsNewest DEF NewsOK
    <3> QED
      BY <3>1, <3>2
  <2> QED
    BY <2>1, <2>2, <2>3 DEF Reports, Pair
<1>4. NewsMatchesPlace'
  BY <1>3, NewsInvariantNext
<1> QED
  BY <1>2, <1>4 DEF NewsOK

LEMMA BlankNews ==
  ASSUME TypeOK, \A e \in Id : enrollments[e] = Unsaved,
         \A ch \in Child, c \in Class : news[<<ch, c>>] = NoNews
  PROVE  NewsOK
<1>1. \A e \in Id : enrollments[e].status = "UNSAVED"
  <2>1. Unsaved.status = "UNSAVED"
    BY DEF Unsaved
  <2> QED
    BY <2>1
<1>2. InOrder /\ BlankUnsaved /\ LiveIsNewest /\ AskedOnceIn
  BY <1>1 DEF InOrder, BlankUnsaved, LiveIsNewest, AskedOnceIn, Saved, Active
<1>3. \A ch \in Child, c \in Class, e \in Id : ~Pair(e, ch, c)
  BY <1>1, <1>2, PairSaved DEF Saved
<1> QED
  BY <1>2, <1>3, NewsInvariant DEF NewsOK

LEMMA NewsInit == Init => NewsOK
BY TypeInit, BlankNews DEF Init

LEMMA NewsAlways == Spec => []NewsOK
BY NewsInit, NewsStep, TypeCorrect, PTL DEF Spec

(* The last message a family has about a class is true of the newest       *)
(* registration it has there, whatever happened in between.                *)
THEOREM NewsTrue == Spec => []NewsMatchesPlace
<1>1. NewsOK => NewsMatchesPlace
  BY DEF NewsOK
<1> QED
  BY <1>1, NewsAlways, PTL
=============================================================================
