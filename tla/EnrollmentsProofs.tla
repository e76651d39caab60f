------------------------- MODULE EnrollmentsProofs -------------------------
(***************************************************************************)
(* Proofs about Enrollments, for every set of children and classes, every  *)
(* size of the table and every value of the settings.                      *)
(***************************************************************************)
EXTENDS Enrollments, FiniteSetTheorems, TLAPS

USE DEF Unset

-----------------------------------------------------------------------------
(* The operators the actions are built from. *)

LEMMA CancelledRow ==
  ASSUME NEW r \in Row, NEW reason \in CancelReason
  PROVE  /\ Cancelled(r, reason) \in Row
         /\ Cancelled(r, reason).status = "CANCELLED"
         /\ Cancelled(r, reason).child = r.child
         /\ Cancelled(r, reason).activity_class = r.activity_class
         /\ Cancelled(r, reason).offer_expires_at = r.offer_expires_at
BY DEF Cancelled, Row, Status

LEMMA CancelledReason ==
  ASSUME NEW r \in Row, NEW reason \in CancelReason
  PROVE  /\ Cancelled(r, reason).cancel_requested_at = r.cancel_requested_at
         /\ Cancelled(r, reason).cancel_reason = reason
BY DEF Cancelled, Row, Status

LEMMA NewRowRow ==
  ASSUME NEW ch \in Child, NEW c \in Class, NEW st \in Active, now \in Nat
  PROVE  /\ NewRow(ch, c, st) \in Row
         /\ NewRow(ch, c, st).status = st
         /\ NewRow(ch, c, st).child = ch
         /\ NewRow(ch, c, st).activity_class = c
         /\ NewRow(ch, c, st).cancel_requested_at = Unset
BY DEF NewRow, Unsaved, Row, Status, CancelReason

LEMMA ToldType ==
  ASSUME NEW n \in [Child \X Class -> Event \cup {NoNews}], NEW E, NEW event \in Event
  PROVE  Told(n, E, event) \in [Child \X Class -> Event \cup {NoNews}]
BY DEF Told

(* The sweep changes only lapsed offers, and cancels those. *)
LEMMA SweptRows ==
  ASSUME TypeOK, NEW c \in Class
  PROVE  /\ Swept(c) \in [Id -> Row]
         /\ \A e \in Id : /\ Swept(c)[e].child = enrollments[e].child
                          /\ Swept(c)[e].activity_class = enrollments[e].activity_class
                          /\ Swept(c)[e].offer_expires_at = enrollments[e].offer_expires_at
                          /\ Swept(c)[e].cancel_requested_at = enrollments[e].cancel_requested_at
                          /\ Swept(c)[e].status = IF e \in StaleOffers(c) THEN "CANCELLED"
                                                    ELSE enrollments[e].status
         /\ SweptNews(c) \in [Child \X Class -> Event \cup {NoNews}]
<1>1. "OFFER_EXPIRED" \in CancelReason /\ "OFFER_EXPIRED" \in Event
  BY DEF CancelReason, Event
<1>2. Swept(c) \in [Id -> Row]
  BY <1>1, CancelledRow DEF Swept, TypeOK
<1>3. ASSUME NEW e \in Id
      PROVE  /\ Swept(c)[e].child = enrollments[e].child
             /\ Swept(c)[e].cancel_requested_at = enrollments[e].cancel_requested_at
             /\ Swept(c)[e].activity_class = enrollments[e].activity_class
             /\ Swept(c)[e].offer_expires_at = enrollments[e].offer_expires_at
             /\ Swept(c)[e].status = IF e \in StaleOffers(c) THEN "CANCELLED"
                                       ELSE enrollments[e].status
  <2>1. enrollments[e] \in Row
    BY DEF TypeOK
  <2> QED
    BY <1>1, <2>1, CancelledRow, CancelledReason DEF Swept
<1>4. SweptNews(c) \in [Child \X Class -> Event \cup {NoNews}]
  BY <1>1, ToldType DEF SweptNews, TypeOK
<1> QED
  BY <1>2, <1>3, <1>4
-----------------------------------------------------------------------------
(* Type correctness. *)

(* The part of TypeOK about the rows, and the part the services rarely touch. *)
RowsOK ==
  /\ enrollments \in [Id -> Row]
  /\ \A e \in Id : enrollments[e].status # "UNSAVED" =>
       enrollments[e].child \in Child /\ enrollments[e].activity_class \in Class

(* A step that replaces rows by rows of the same child and class, and adds *)
(* rows for real children and classes, keeps the table well formed.        *)
LEMMA RowsStep ==
  ASSUME RowsOK, enrollments' \in [Id -> Row],
         \A e \in Id : \/ /\ enrollments[e].status # "UNSAVED"
                          /\ enrollments'[e].child = enrollments[e].child
                          /\ enrollments'[e].activity_class = enrollments[e].activity_class
                       \/ enrollments'[e] = enrollments[e]
                       \/ /\ enrollments'[e].child \in Child
                          /\ enrollments'[e].activity_class \in Class
  PROVE  RowsOK'
BY DEF RowsOK

LEMMA HistoryType == ASSUME NEW A, NEW D, History(A, D)
                     PROVE  alerted' \subseteq Class /\ over_allocated' \subseteq Class
BY DEF History

LEMMA RegistrationType ==
  ASSUME TypeOK, NEW ch \in Child, NEW c \in Class, Register(ch, c) \/ AdminRegister(ch, c)
  PROVE  TypeOK'
<1>1. PICK st \in {"REQUESTED", "ENROLLED"}, e \in Id :
        enrollments' = [enrollments EXCEPT ![e] = NewRow(ch, c, st)]
  BY DEF Register, AdminRegister
<1>2. /\ NewRow(ch, c, st) \in Row
      /\ NewRow(ch, c, st).child = ch
      /\ NewRow(ch, c, st).activity_class = c
  BY NewRowRow DEF TypeOK, Active
<1>3. RowsOK'
  <2>1. enrollments' \in [Id -> Row]
    BY <1>1, <1>2 DEF TypeOK
  <2> QED
    BY <1>1, <1>2, <2>1 DEF TypeOK, RowsOK
<1>4. news' \in [Child \X Class -> Event \cup {NoNews}]
  BY DEF TypeOK, Register, AdminRegister, Event
<1>5. alerted' \subseteq Class /\ over_allocated' \subseteq Class
  BY HistoryType DEF Register, AdminRegister
<1> QED
  BY <1>3, <1>4, <1>5 DEF TypeOK, RowsOK, Register, AdminRegister, catalog

LEMMA TransferType ==
  ASSUME TypeOK, NEW e \in Id, NEW target \in Class, Transfer(e, target)
  PROVE  TypeOK'
<1> DEFINE r == enrollments[e]
           ended == [Cancelled(r, "TRANSFERRED") EXCEPT !.cancel_requested_at = Unset]
<1>1. r \in Row /\ r.child \in Child /\ r.activity_class \in Class /\ r.status \in Active
  BY DEF TypeOK, Transfer, Active
<1>2. /\ ended \in Row
      /\ ended.child = r.child
      /\ ended.activity_class = r.activity_class
  <2>1. "TRANSFERRED" \in CancelReason
    BY DEF CancelReason
  <2>2. Cancelled(r, "TRANSFERRED") \in Row
    BY <1>1, <2>1, CancelledRow
  <2> QED
    BY <1>1, <2>1, <2>2, CancelledRow DEF Row
<1>3. PICK f \in Id : /\ NextId(f)
                      /\ enrollments' = [enrollments EXCEPT ![e] = ended,
                                           ![f] = NewRow(r.child, target, "ENROLLED")]
  BY DEF Transfer
<1>4. /\ NewRow(r.child, target, "ENROLLED") \in Row
      /\ NewRow(r.child, target, "ENROLLED").child = r.child
      /\ NewRow(r.child, target, "ENROLLED").activity_class = target
  BY <1>1, NewRowRow DEF TypeOK, Active
<1>5. RowsOK'
  <2> HIDE DEF r, ended
  <2>1. enrollments' \in [Id -> Row]
    BY <1>2, <1>3, <1>4 DEF TypeOK
  <2> QED
    BY <1>1, <1>2, <1>3, <1>4, <2>1 DEF TypeOK, RowsOK
<1>6. news' \in [Child \X Class -> Event \cup {NoNews}]
  BY <1>1 DEF TypeOK, Transfer, TransferNews, Event
<1>7. alerted' \subseteq Class /\ over_allocated' \subseteq Class
  BY HistoryType DEF Transfer
<1> QED
  BY <1>5, <1>6, <1>7 DEF TypeOK, RowsOK, Transfer, catalog
(* Cancel, with any of the reasons it is called with. *)
LEMMA CancelType ==
  ASSUME TypeOK, NEW e \in Id, NEW reason \in CancelReason, Cancel(e, reason)
  PROVE  TypeOK'
<1>1. enrollments' = [enrollments EXCEPT ![e] = Cancelled(enrollments[e], reason)]
  BY DEF Cancel
<1>2. RowsOK'
  <2>1. enrollments[e] \in Row
    BY DEF TypeOK
  <2>2. enrollments' \in [Id -> Row]
    BY <1>1, <2>1, CancelledRow DEF TypeOK
  <2>3. enrollments[e].status # "UNSAVED"
    BY DEF Cancel, Active
  <2> QED
    BY <1>1, <2>1, <2>2, <2>3, CancelledRow DEF TypeOK, RowsOK
<1>3. news' \in [Child \X Class -> Event \cup {NoNews}]
  <2>1. CancelEvent(reason) \in Event
    BY DEF CancelEvent, Event
  <2> QED
    BY <2>1, ToldType DEF Cancel, Tell, TypeOK
<1>4. alerted' \subseteq Class /\ over_allocated' \subseteq Class
  BY HistoryType DEF Cancel
<1> QED
  BY <1>2, <1>3, <1>4 DEF TypeOK, RowsOK, Cancel, catalog

LEMMA ApproveType ==
  ASSUME TypeOK, NEW e \in Id, ApproveRequest(e)
  PROVE  TypeOK'
<1> DEFINE c == enrollments[e].activity_class
<1>1. PICK st \in {"ENROLLED", "WAITLISTED"}, ev \in Event :
        /\ enrollments' = [Swept(c) EXCEPT ![e].status = st]
        /\ news' = Told(SweptNews(c), {e}, ev)
  BY DEF ApproveRequest, Event
<1>2. c \in Class /\ enrollments[e].status = "REQUESTED"
  BY DEF TypeOK, ApproveRequest
<1> HIDE DEF c
<1>3. RowsOK'
  <2>1. st \in Status
    BY DEF Status, Active
  <2>2. enrollments' \in [Id -> Row]
    BY <1>1, <1>2, <2>1, SweptRows DEF Row
  <2>3. \A f \in Id : /\ enrollments'[f].child = enrollments[f].child
                      /\ enrollments'[f].activity_class = enrollments[f].activity_class
                      /\ f # e => enrollments'[f].status = Swept(c)[f].status
    BY <1>1, <1>2, SweptRows DEF Row
  <2>4. \A f \in Id : f # e /\ enrollments'[f].status # "UNSAVED" =>
          enrollments[f].status # "UNSAVED"
    BY <1>2, <2>3, SweptRows DEF StaleOffers, RowsOf
  <2> QED
    BY <1>2, <2>2, <2>3, <2>4 DEF RowsOK, TypeOK
<1>4. news' \in [Child \X Class -> Event \cup {NoNews}]
  BY <1>1, <1>2, SweptRows, ToldType
<1>5. alerted' \subseteq Class /\ over_allocated' \subseteq Class
  BY HistoryType DEF ApproveRequest
<1> QED
  BY <1>3, <1>4, <1>5 DEF TypeOK, RowsOK, ApproveRequest, catalog

LEMMA OfferType ==
  ASSUME TypeOK, NEW e \in Id, OfferSeat(e)
  PROVE  TypeOK'
<1> DEFINE c == enrollments[e].activity_class
<1>1. PICK ttl \in OfferTtls :
        enrollments' = [Swept(c) EXCEPT ![e].status = "OFFERED", ![e].offer_expires_at = now + ttl]
  BY DEF OfferSeat
<1>2. c \in Class /\ enrollments[e].status = "WAITLISTED" /\ now + ttl \in Nat
  BY SettingsAssumption DEF TypeOK, OfferSeat
<1>3. news' = Told(SweptNews(c), {e}, "WAITLIST_OFFER")
  BY DEF OfferSeat
<1> HIDE DEF c
<1>4. RowsOK'
  <2>1. "OFFERED" \in Status
    BY DEF Status, Active
  <2> DEFINE s == [Swept(c)[e] EXCEPT !.status = "OFFERED", !.offer_expires_at = now + ttl]
  <2>5. Swept(c) \in [Id -> Row] /\ enrollments' = [Swept(c) EXCEPT ![e] = s]
    BY <1>1, <1>2, SweptRows
  <2>6. s \in Row
    BY <1>2, <2>1, <2>5 DEF Row
  <2>2. enrollments' \in [Id -> Row]
    BY <2>5, <2>6
  <2>3. \A f \in Id : /\ enrollments'[f].child = enrollments[f].child
                      /\ enrollments'[f].activity_class = enrollments[f].activity_class
                      /\ f # e => enrollments'[f].status = Swept(c)[f].status
    BY <1>1, <1>2, SweptRows DEF Row
  <2>4. \A f \in Id : f # e /\ enrollments'[f].status # "UNSAVED" =>
          enrollments[f].status # "UNSAVED"
    BY <1>2, <2>3, SweptRows DEF StaleOffers, RowsOf
  <2> QED
    BY <1>2, <2>2, <2>3, <2>4 DEF RowsOK, TypeOK
<1>5. news' \in [Child \X Class -> Event \cup {NoNews}]
  BY <1>2, <1>3, SweptRows, ToldType DEF Event
<1>6. alerted' \subseteq Class /\ over_allocated' \subseteq Class
  BY HistoryType DEF OfferSeat
<1> QED
  BY <1>4, <1>5, <1>6 DEF TypeOK, RowsOK, OfferSeat, catalog

(* The services that change the one row they are called on. *)
LEMMA OneRowType ==
  ASSUME TypeOK, NEW e \in Id,
         \/ RejectRequest(e) \/ ConfirmOffer(e) \/ DeclineOffer(e)
         \/ RequestCancellation(e) \/ DeclineCancellation(e)
  PROVE  TypeOK'
<1>1. enrollments[e] \in Row /\ enrollments[e].status # "UNSAVED"
  BY DEF TypeOK, RejectRequest, ConfirmOffer, DeclineOffer, RequestCancellation,
         DeclineCancellation, CancellationRequested
<1>2. PICK r \in Row : /\ enrollments' = [enrollments EXCEPT ![e] = r]
                       /\ r.child = enrollments[e].child
                       /\ r.activity_class = enrollments[e].activity_class
  <2>1. "REQUEST_REJECTED" \in CancelReason /\ "OFFER_DECLINED" \in CancelReason
    BY DEF CancelReason
  <2>2. CASE RejectRequest(e)
    BY <1>1, <2>1, <2>2, CancelledRow DEF RejectRequest
  <2>3. CASE DeclineOffer(e)
    BY <1>1, <2>1, <2>3, CancelledRow DEF DeclineOffer
  <2>4. CASE ConfirmOffer(e)
    <3> DEFINE s == [enrollments[e] EXCEPT !.status = "ENROLLED", !.promoted_at = now]
    <3>1. s \in Row /\ s.child = enrollments[e].child
                    /\ s.activity_class = enrollments[e].activity_class
      BY <1>1 DEF Row, Status, Active, TypeOK
    <3>2. enrollments' = [enrollments EXCEPT ![e] = s]
      BY <2>4 DEF ConfirmOffer, TypeOK
    <3> QED
      BY <3>1, <3>2
  <2>5. CASE RequestCancellation(e) \/ DeclineCancellation(e)
    <3>1. PICK t \in {now, Unset} : enrollments' = [enrollments EXCEPT ![e].cancel_requested_at = t]
      BY <2>5 DEF RequestCancellation, DeclineCancellation
    <3> DEFINE s == [enrollments[e] EXCEPT !.cancel_requested_at = t]
    <3>2. s \in Row /\ s.child = enrollments[e].child
                    /\ s.activity_class = enrollments[e].activity_class
      BY <1>1 DEF Row, TypeOK
    <3>3. enrollments' = [enrollments EXCEPT ![e] = s]
      BY <3>1 DEF TypeOK
    <3> QED
      BY <3>2, <3>3
  <2> QED
    BY <2>2, <2>3, <2>4, <2>5
<1>3. RowsOK'
  BY <1>1, <1>2 DEF TypeOK, RowsOK
<1>4. news' \in [Child \X Class -> Event \cup {NoNews}]
  <2>1. UNCHANGED news \/ \E ev \in Event : news' = Told(news, {e}, ev)
    BY DEF RejectRequest, ConfirmOffer, DeclineOffer, RequestCancellation,
           DeclineCancellation, Event, Tell
  <2>2. news \in [Child \X Class -> Event \cup {NoNews}]
    BY DEF TypeOK
  <2>3. \A ev \in Event : Told(news, {e}, ev) \in [Child \X Class -> Event \cup {NoNews}]
    BY <2>2, ToldType
  <2> QED
    BY <2>1, <2>2, <2>3
<1>5. alerted' \subseteq Class /\ over_allocated' \subseteq Class
  BY HistoryType DEF RejectRequest, ConfirmOffer, DeclineOffer, RequestCancellation,
                     DeclineCancellation
<1> QED
  BY <1>3, <1>4, <1>5 DEF TypeOK, RowsOK, RejectRequest, ConfirmOffer, DeclineOffer,
                          RequestCancellation, DeclineCancellation, catalog
LEMMA ClassStepType ==
  ASSUME TypeOK, NEW c \in Class,
         \/ ExpireOffers(c) \/ CancelClass(c) \/ PublishClass(c) \/ ArchiveClass(c)
         \/ SetTermActive(c) \/ \E n \in Capacities : EditCapacity(c, n) \/ UpsertClass(c, n)
  PROVE  TypeOK'
<1>1. CASE ExpireOffers(c)
  <2>1. enrollments' = Swept(c) /\ news' = SweptNews(c)
    BY <1>1 DEF ExpireOffers, SweepStep
  <2>2. RowsOK'
    BY <2>1, SweptRows DEF TypeOK, RowsOK, StaleOffers, RowsOf
  <2>3. alerted' \subseteq Class /\ over_allocated' \subseteq Class
    BY <1>1, HistoryType DEF ExpireOffers, SweepStep
  <2> QED
    BY <1>1, <2>1, <2>2, <2>3, SweptRows DEF TypeOK, RowsOK, ExpireOffers, SweepStep, catalog
<1>2. CASE CancelClass(c)
  <2>1. "CLASS_CANCELLED" \in CancelReason /\ "CLASS_CANCELLED" \in Event
    BY DEF CancelReason, Event
  <2>2. \A e \in Id : /\ enrollments[e] \in Row
                      /\ enrollments'[e] \in {enrollments[e], Cancelled(enrollments[e], "CLASS_CANCELLED")}
                      /\ enrollments'[e] # enrollments[e] => enrollments[e].status \in Active
    BY <1>2 DEF CancelClass, TypeOK, RowsOf
  <2>3. enrollments' \in [Id -> Row]
    BY <1>2, <2>1, <2>2, CancelledRow DEF CancelClass
  <2>4. RowsOK'
    BY <2>1, <2>2, <2>3, CancelledRow DEF TypeOK, RowsOK, Active
  <2>5. news' \in [Child \X Class -> Event \cup {NoNews}]
    BY <1>2, <2>1, ToldType DEF CancelClass, TypeOK
  <2>6. alerted' \subseteq Class /\ over_allocated' \subseteq Class
    BY <1>2, HistoryType DEF CancelClass
  <2>7. class_status' \in [Class -> ClassStatus]
    BY <1>2 DEF CancelClass, TypeOK, ClassStatus
  <2> QED
    BY <1>2, <2>4, <2>5, <2>6, <2>7 DEF TypeOK, RowsOK, CancelClass
<1>3. CASE PublishClass(c) \/ ArchiveClass(c)
  <2>1. alerted' \subseteq Class /\ over_allocated' \subseteq Class
    BY <1>3, HistoryType DEF PublishClass, ArchiveClass
  <2>2. class_status' \in [Class -> ClassStatus]
    BY <1>3 DEF PublishClass, ArchiveClass, TypeOK, ClassStatus
  <2> QED
    BY <1>3, <2>1, <2>2 DEF TypeOK, PublishClass, ArchiveClass
<1>4. CASE SetTermActive(c)
  <2>1. alerted' \subseteq Class /\ over_allocated' \subseteq Class
    BY <1>4, HistoryType DEF SetTermActive
  <2> QED
    BY <1>4, <2>1 DEF TypeOK, SetTermActive
<1>5. ASSUME NEW n \in Capacities, EditCapacity(c, n) \/ UpsertClass(c, n)
      PROVE  TypeOK'
  <2>1. SaveCapacity(c, n)
    BY <1>5 DEF EditCapacity, UpsertClass
  <2>2. alerted' \subseteq Class /\ over_allocated' \subseteq Class
    BY <2>1, HistoryType DEF SaveCapacity
  <2>3. capacity' \in [Class -> Nat]
    BY <2>1, SettingsAssumption DEF SaveCapacity, TypeOK
  <2> QED
    BY <2>1, <2>2, <2>3 DEF TypeOK, SaveCapacity
<1> QED
  BY <1>1, <1>2, <1>3, <1>4, <1>5

LEMMA ParentCancelCases ==
  ASSUME NEW e \in Id, ParentCancel(e)
  PROVE  Cancel(e, "PARENT") \/ RequestCancellation(e)
BY DEF ParentCancel

LEMMA TypeInit == Init => TypeOK
<1> SUFFICES ASSUME Init PROVE TypeOK
  OBVIOUS
<1>1. Unsaved \in Row
  BY DEF Unsaved, Row, Status, CancelReason
<1>2. enrollments \in [Id -> Row] /\ \A e \in Id : enrollments[e].status = "UNSAVED"
  BY <1>1 DEF Init, Unsaved
<1>3. capacity \in [Class -> Nat]
  BY SettingsAssumption DEF Init
<1>4. news \in [Child \X Class -> Event \cup {NoNews}]
  BY DEF Init
<1>5. class_status \in [Class -> ClassStatus] /\ term_active \in [Class -> BOOLEAN]
  BY DEF Init, ClassStatus
<1>6. now \in Nat \ {Unset} /\ alerted \subseteq Class /\ over_allocated \subseteq Class
  BY DEF Init
<1> QED
  BY <1>2, <1>3, <1>4, <1>5, <1>6 DEF TypeOK

LEMMA TypeStep == TypeOK /\ [Next]_vars => TypeOK'
<1> SUFFICES ASSUME TypeOK, [Next]_vars PROVE TypeOK'
  OBVIOUS
<1>1. ASSUME NEW ch \in Child, NEW c \in Class, Register(ch, c) \/ AdminRegister(ch, c)
      PROVE  TypeOK'
  BY <1>1, RegistrationType
<1>2. ASSUME NEW e \in Id, NEW c \in Class, Transfer(e, c)
      PROVE  TypeOK'
  BY <1>2, TransferType
<1>3. ASSUME NEW e \in Id,
             \/ ApproveRequest(e) \/ RejectRequest(e) \/ OfferSeat(e)
             \/ ConfirmOffer(e) \/ DeclineOffer(e) \/ DeclineCancellation(e)
      PROVE  TypeOK'
  BY <1>3, ApproveType, OfferType, OneRowType
<1>4. ASSUME NEW e \in Id, CancelByAdmin(e) \/ ParentCancel(e) \/ ConfirmCancellation(e)
      PROVE  TypeOK'
  <2>1. RequestCancellation(e) \/ \E reason \in CancelReason : Cancel(e, reason)
    BY <1>4, ParentCancelCases DEF CancelByAdmin, ConfirmCancellation, CancelReason
  <2> QED
    BY <2>1, CancelType, OneRowType
<1>5. CASE ClassStep
  BY <1>5, ClassStepType DEF ClassStep
<1>6. CASE Tick
  <2>1. alerted' \subseteq Class /\ over_allocated' \subseteq Class
    BY <1>6, HistoryType DEF Tick
  <2> QED
    BY <1>6, <2>1 DEF Tick, tables, TypeOK
<1>7. CASE UNCHANGED vars
  BY <1>7 DEF vars, TypeOK
<1> QED
  BY <1>1, <1>2, <1>3, <1>4, <1>5, <1>6, <1>7 DEF Next, RegistrationStep, DecisionStep

(* Every behaviour of the services keeps the tables well typed, and every  *)
(* saved row names a child and a class.                                    *)
THEOREM TypeCorrect == Spec => []TypeOK
BY TypeInit, TypeStep, PTL DEF Spec
-----------------------------------------------------------------------------
(* The seats of a class. *)

LEMMA SeatsFinite ==
  ASSUME TypeOK, NEW c \in Class
  PROVE  IsFiniteSet(SeatHolders(c)) /\ SeatsTaken(c) \in Nat
<1>1. IsFiniteSet(Id)
  BY BoundsAssumption, FS_Interval DEF Id
<1>2. SeatHolders(c) \subseteq Id
  BY DEF SeatHolders, RowsOf
<1> QED
  BY <1>1, <1>2, FS_Subset, FS_CardinalityType DEF SeatsTaken

LEMMA SeatsFiniteNext ==
  ASSUME TypeOK', NEW c \in Class
  PROVE  IsFiniteSet(SeatHolders(c)') /\ SeatsTaken(c)' \in Nat
<1>1. IsFiniteSet(Id)
  BY BoundsAssumption, FS_Interval DEF Id
<1>2. SeatHolders(c)' \subseteq Id
  BY DEF SeatHolders, RowsOf
<1> QED
  BY <1>1, <1>2, FS_Subset, FS_CardinalityType DEF SeatsTaken

(* A row that a step leaves as it is, as far as the seats go, or that      *)
(* holds no seat after it.                                                 *)
NoNewSeat(e) ==
  \/ /\ enrollments'[e].activity_class = enrollments[e].activity_class
     /\ enrollments'[e].status = enrollments[e].status
     /\ enrollments'[e].offer_expires_at = enrollments[e].offer_expires_at
  \/ enrollments'[e].status \notin SeatHolding

LEMMA SeatsShrink ==
  ASSUME TypeOK, TypeOK', now <= now', NEW c \in Class, NEW e,
         \A f \in Id \ {e} : NoNewSeat(f)
  PROVE  SeatHolders(c)' \subseteq SeatHolders(c) \cup {e}
<1> SUFFICES ASSUME NEW f \in SeatHolders(c)', f # e
             PROVE  f \in SeatHolders(c)
  OBVIOUS
<1>1. /\ f \in Id
      /\ enrollments'[f].activity_class = c
      /\ \/ enrollments'[f].status = "ENROLLED"
         \/ enrollments'[f].status = "OFFERED" /\ enrollments'[f].offer_expires_at >= now'
  BY DEF SeatHolders, RowsOf, LiveOffer
<1>2. /\ enrollments[f].activity_class = c
      /\ enrollments[f].status = enrollments'[f].status
      /\ enrollments[f].offer_expires_at = enrollments'[f].offer_expires_at
  BY <1>1 DEF NoNewSeat, SeatHolding
<1>3. enrollments[f].offer_expires_at \in Nat /\ now \in Nat /\ now' \in Nat
  BY <1>1 DEF TypeOK, Row
<1> QED
  BY <1>1, <1>2, <1>3 DEF SeatHolders, RowsOf, LiveOffer

(* If no row but e takes a seat, and e takes one only where it had one or  *)
(* one is free, the step does not take the class over its capacity.        *)
LEMMA NotTakenOver ==
  ASSUME TypeOK, TypeOK', now <= now', NEW c \in Class, capacity'[c] = capacity[c],
         NEW e, \A f \in Id \ {e} : NoNewSeat(f),
         e \in SeatHolders(c)' => e \in SeatHolders(c) \/ HasFreeSeat(c)
  PROVE  OverCapacity(c)' => OverCapacity(c)
<1>1. IsFiniteSet(SeatHolders(c)) /\ SeatsTaken(c) \in Nat
  BY SeatsFinite
<1>2. IsFiniteSet(SeatHolders(c)') /\ SeatsTaken(c)' \in Nat
  BY SeatsFiniteNext
<1>3. SeatHolders(c)' \subseteq SeatHolders(c) \cup {e}
  BY SeatsShrink
<1>4. capacity[c] \in Nat /\ capacity'[c] = capacity[c]
  BY DEF TypeOK
<1>5. CASE SeatHolders(c)' \subseteq SeatHolders(c)
  <2>1. Cardinality(SeatHolders(c)') <= Cardinality(SeatHolders(c))
    BY <1>1, <1>5, FS_Subset
  <2> QED
    BY <1>1, <1>2, <1>4, <2>1 DEF OverCapacity, SeatsTaken
<1>6. CASE ~(SeatHolders(c)' \subseteq SeatHolders(c))
  <2>1. e \notin SeatHolders(c) /\ HasFreeSeat(c)
    BY <1>3, <1>6
  <2>2. /\ IsFiniteSet(SeatHolders(c) \cup {e})
        /\ Cardinality(SeatHolders(c) \cup {e}) = Cardinality(SeatHolders(c)) + 1
    BY <1>1, <2>1, FS_AddElement
  <2>3. Cardinality(SeatHolders(c)') <= Cardinality(SeatHolders(c)) + 1
    BY <1>3, <2>2, FS_Subset
  <2> QED
    BY <1>1, <1>2, <1>4, <2>1, <2>3 DEF OverCapacity, HasFreeSeat, SeatsTaken
<1> QED
  BY <1>5, <1>6

(* A step that takes no class but those of D over its capacity, and counts *)
(* those of D as an administrator's decision.                              *)
Within(D) == \A c \in Class \ D : OverCapacity(c)' => OverCapacity(c)
Decides(D) == Within(D) /\ \E A : History(A, D)

LEMMA HistoryOver ==
  ASSUME NEW D, Decides(D), NoAccidentalOversubscription
  PROVE  NoAccidentalOversubscription'
BY DEF Decides, Within, History, NoAccidentalOversubscription

(* A step that gives nobody a seat takes no class over its capacity. *)
LEMMA NobodySeated ==
  ASSUME TypeOK, TypeOK', now <= now', NEW c \in Class, capacity'[c] = capacity[c],
         \A f \in Id : NoNewSeat(f)
  PROVE  OverCapacity(c)' => OverCapacity(c)
<1>1. 0 \notin SeatHolders(c)'
  BY BoundsAssumption DEF SeatHolders, RowsOf, Id
<1> QED
  BY <1>1, NotTakenOver

LEMMA SweptSeats ==
  ASSUME TypeOK, NEW c \in Class, NEW f \in Id, enrollments'[f] = Swept(c)[f]
  PROVE  NoNewSeat(f)
BY SweptRows DEF NoNewSeat, SeatHolding

-----------------------------------------------------------------------------
(* No accidental oversubscription: one lemma per kind of step. *)

LEMMA RegistrationOver ==
  ASSUME TypeOK, TypeOK', NEW ch \in Child, NEW c \in Class,
         Register(ch, c) \/ AdminRegister(ch, c)
  PROVE  Decides(IF Register(ch, c) THEN {} ELSE {c})
<1>1. PICK st \in {"REQUESTED", "ENROLLED"}, e \in Id :
        /\ enrollments' = [enrollments EXCEPT ![e] = NewRow(ch, c, st)]
        /\ History({}, IF st = "ENROLLED" THEN {c} ELSE {})
        /\ st = IF Register(ch, c) THEN "REQUESTED" ELSE "ENROLLED"
  BY DEF Register, AdminRegister
<1>2. NewRow(ch, c, st).status = st /\ NewRow(ch, c, st).activity_class = c
  BY NewRowRow DEF TypeOK, Active
<1>3. \A f \in Id \ {e} : NoNewSeat(f)
  BY <1>1 DEF NoNewSeat, TypeOK
<1>4. capacity' = capacity /\ now' = now /\ now <= now'
  BY DEF Register, AdminRegister, catalog, TypeOK
<1>5. enrollments'[e] = NewRow(ch, c, st)
  BY <1>1 DEF TypeOK
<1>6. ASSUME NEW d \in Class \ (IF st = "ENROLLED" THEN {c} ELSE {})
      PROVE  OverCapacity(d)' => OverCapacity(d)
  <2>1. e \notin SeatHolders(d)'
    BY <1>2, <1>5, <1>6 DEF SeatHolders, RowsOf
  <2> QED
    BY <1>3, <1>4, <1>6, <2>1, NotTakenOver
<1> QED
  BY <1>1, <1>6 DEF Decides, Within

LEMMA TransferOver ==
  ASSUME TypeOK, TypeOK', NEW e \in Id, NEW target \in Class,
         Transfer(e, target)
  PROVE  Decides({target})
<1> DEFINE ended == [Cancelled(enrollments[e], "TRANSFERRED") EXCEPT !.cancel_requested_at = Unset]
           child == enrollments[e].child
<1>1. PICK f \in Id : /\ NextId(f)
                      /\ enrollments' = [enrollments EXCEPT ![e] = ended,
                                           ![f] = NewRow(child, target, "ENROLLED")]
  BY DEF Transfer
<1>2. child \in Child /\ enrollments[e] \in Row /\ e # f
  BY <1>1 DEF TypeOK, Transfer, Active, NextId
<1>3. NewRow(child, target, "ENROLLED").activity_class = target
  BY <1>2, NewRowRow DEF TypeOK, Active
<1>4. ended.status = "CANCELLED"
  <2>1. "TRANSFERRED" \in CancelReason
    BY DEF CancelReason
  <2>2. /\ Cancelled(enrollments[e], "TRANSFERRED") \in Row
        /\ Cancelled(enrollments[e], "TRANSFERRED").status = "CANCELLED"
    BY <1>2, <2>1, CancelledRow
  <2> QED
    BY <2>2 DEF Row
<1> HIDE DEF ended, child
<1>5. \A g \in Id \ {f} : NoNewSeat(g)
  BY <1>1, <1>4 DEF NoNewSeat, SeatHolding, TypeOK
<1>6. capacity' = capacity /\ now' = now /\ now <= now'
  BY DEF Transfer, catalog, TypeOK
<1>7. \E A : History(A, {target})
  BY DEF Transfer
<1>8. ASSUME NEW d \in Class \ {target}
      PROVE  OverCapacity(d)' => OverCapacity(d)
  <2>1. f \notin SeatHolders(d)'
    BY <1>1, <1>3, <1>8 DEF SeatHolders, RowsOf, TypeOK
  <2> QED
    BY <1>5, <1>6, <1>8, <2>1, NotTakenOver
<1> QED
  BY <1>7, <1>8 DEF Decides, Within

LEMMA ApproveOver ==
  ASSUME TypeOK, TypeOK', NEW e \in Id, ApproveRequest(e)
  PROVE  Decides({})
<1> DEFINE c == enrollments[e].activity_class
<1>1. c \in Class
  BY DEF TypeOK, ApproveRequest
<1>2. PICK st \in {"ENROLLED", "WAITLISTED"} :
        /\ enrollments' = [Swept(c) EXCEPT ![e].status = st]
        /\ st = "ENROLLED" => HasFreeSeat(c)
  BY DEF ApproveRequest
<1>3. capacity' = capacity /\ now' = now /\ now <= now'
  BY DEF ApproveRequest, catalog, TypeOK
<1>4. \E A : History(A, {})
  BY DEF ApproveRequest
<1> HIDE DEF c
<1>5. \A f \in Id \ {e} : NoNewSeat(f)
  BY <1>1, <1>2, SweptRows, SweptSeats
<1>6. enrollments'[e].status = st /\ enrollments'[e].activity_class = c
  BY <1>1, <1>2, SweptRows DEF Row, c
<1>7. ASSUME NEW d \in Class
      PROVE  OverCapacity(d)' => OverCapacity(d)
  <2>1. e \in SeatHolders(d)' => HasFreeSeat(d)
    BY <1>2, <1>6 DEF SeatHolders, RowsOf
  <2> QED
    BY <1>3, <1>5, <2>1, NotTakenOver
<1> QED
  BY <1>4, <1>7 DEF Decides, Within

LEMMA OfferOver ==
  ASSUME TypeOK, TypeOK', NEW e \in Id, OfferSeat(e)
  PROVE  Decides({enrollments[e].activity_class})
<1> DEFINE c == enrollments[e].activity_class
<1>1. c \in Class
  BY DEF TypeOK, OfferSeat
<1>2. PICK ttl \in OfferTtls :
        enrollments' = [Swept(c) EXCEPT ![e].status = "OFFERED", ![e].offer_expires_at = now + ttl]
  BY DEF OfferSeat
<1>3. capacity' = capacity /\ now' = now /\ now <= now'
  BY DEF OfferSeat, catalog, TypeOK
<1>4. \E A : History(A, {c})
  BY DEF OfferSeat
<1> HIDE DEF c
<1>5. \A f \in Id \ {e} : NoNewSeat(f)
  BY <1>1, <1>2, SweptRows, SweptSeats
<1>6. enrollments'[e].activity_class = c
  BY <1>1, <1>2, SweptRows DEF Row, c
<1>7. ASSUME NEW d \in Class \ {c}
      PROVE  OverCapacity(d)' => OverCapacity(d)
  <2>1. e \notin SeatHolders(d)'
    BY <1>6, <1>7 DEF SeatHolders, RowsOf
  <2> QED
    BY <1>3, <1>5, <1>7, <2>1, NotTakenOver
<1> QED
  BY <1>4, <1>7 DEF Decides, Within, c

(* The seat is already held: this is where the deadline has to be checked. *)
LEMMA ConfirmOver ==
  ASSUME TypeOK, TypeOK', NEW e \in Id, ConfirmOffer(e)
  PROVE  Decides({})
<1>1. /\ enrollments' = [enrollments EXCEPT ![e].status = "ENROLLED", ![e].promoted_at = now]
      /\ enrollments[e].status = "OFFERED"
      /\ ~(enrollments[e].offer_expires_at < now)
  BY DEF ConfirmOffer
<1>2. capacity' = capacity /\ now' = now /\ now <= now'
  BY DEF ConfirmOffer, catalog, TypeOK
<1>3. \A f \in Id \ {e} : NoNewSeat(f)
  BY <1>1 DEF NoNewSeat, TypeOK
<1>4. enrollments'[e].activity_class = enrollments[e].activity_class
  BY <1>1 DEF TypeOK, Row
<1>5. enrollments[e].offer_expires_at \in Nat /\ now \in Nat
  BY DEF TypeOK, Row
<1>6. ASSUME NEW d \in Class
      PROVE  OverCapacity(d)' => OverCapacity(d)
  <2>1. e \in SeatHolders(d)' => e \in SeatHolders(d)
    BY <1>1, <1>4, <1>5 DEF SeatHolders, RowsOf, LiveOffer
  <2> QED
    BY <1>2, <1>3, <2>1, NotTakenOver
<1> QED
  BY <1>6 DEF ConfirmOffer, Decides, Within
LEMMA CancelOver ==
  ASSUME TypeOK, TypeOK', NEW e \in Id,
         NEW reason \in CancelReason, Cancel(e, reason)
  PROVE  Decides({})
<1>1. enrollments' = [enrollments EXCEPT ![e] = Cancelled(enrollments[e], reason)]
  BY DEF Cancel
<1>2. capacity' = capacity /\ now <= now'
  BY DEF Cancel, catalog, TypeOK
<1>3. \A f \in Id : NoNewSeat(f)
  <2>1. enrollments[e] \in Row
    BY DEF TypeOK
  <2> QED
    BY <1>1, <2>1, CancelledRow DEF NoNewSeat, SeatHolding, TypeOK
<1>4. \E A : History(A, {})
  BY DEF Cancel
<1> QED
  BY <1>2, <1>3, <1>4, NobodySeated DEF Decides, Within

LEMMA OneRowOver ==
  ASSUME TypeOK, TypeOK', NEW e \in Id,
         \/ RejectRequest(e) \/ DeclineOffer(e)
         \/ RequestCancellation(e) \/ DeclineCancellation(e)
  PROVE  Decides({})
<1>1. capacity' = capacity /\ now <= now'
  BY DEF RejectRequest, DeclineOffer, RequestCancellation, DeclineCancellation, catalog, TypeOK
<1>2. \E A : History(A, {})
  BY DEF RejectRequest, DeclineOffer, RequestCancellation, DeclineCancellation
<1>3. \A f \in Id : NoNewSeat(f)
  <2>1. enrollments[e] \in Row
    BY DEF TypeOK
  <2>2. "REQUEST_REJECTED" \in CancelReason /\ "OFFER_DECLINED" \in CancelReason
    BY DEF CancelReason
  <2>3. CASE RejectRequest(e) \/ DeclineOffer(e)
    BY <2>1, <2>2, <2>3, CancelledRow DEF RejectRequest, DeclineOffer, NoNewSeat, SeatHolding, TypeOK
  <2>4. CASE RequestCancellation(e) \/ DeclineCancellation(e)
    <3>1. PICK t : enrollments' = [enrollments EXCEPT ![e].cancel_requested_at = t]
      BY <2>4 DEF RequestCancellation, DeclineCancellation
    <3> QED
      BY <2>1, <3>1 DEF NoNewSeat, TypeOK, Row
  <2> QED
    BY <2>3, <2>4
<1> QED
  BY <1>1, <1>2, <1>3, NobodySeated DEF Decides, Within

LEMMA ClassStepOver ==
  ASSUME TypeOK, TypeOK', NEW c \in Class,
         \/ ExpireOffers(c) \/ CancelClass(c) \/ PublishClass(c) \/ ArchiveClass(c)
         \/ SetTermActive(c)
  PROVE  Decides({})
<1>1. capacity' = capacity /\ now <= now'
  BY DEF ExpireOffers, SweepStep, CancelClass, PublishClass, ArchiveClass, SetTermActive,
         catalog, TypeOK
<1>2. \E A : History(A, {})
  BY DEF ExpireOffers, SweepStep, CancelClass, PublishClass, ArchiveClass, SetTermActive
<1>3. \A f \in Id : NoNewSeat(f)
  <2>1. CASE ExpireOffers(c)
    BY <2>1, SweptSeats DEF ExpireOffers, SweepStep
  <2>2. CASE CancelClass(c)
    <3>1. "CLASS_CANCELLED" \in CancelReason
      BY DEF CancelReason
    <3>2. \A f \in Id : /\ enrollments[f] \in Row
                        /\ enrollments'[f] \in {enrollments[f],
                                                Cancelled(enrollments[f], "CLASS_CANCELLED")}
      BY <2>2 DEF CancelClass, TypeOK
    <3> QED
      BY <3>1, <3>2, CancelledRow DEF NoNewSeat, SeatHolding
  <2>3. CASE UNCHANGED enrollments
    BY <2>3 DEF NoNewSeat
  <2> QED
    BY <2>1, <2>2, <2>3 DEF PublishClass, ArchiveClass, SetTermActive
<1> QED
  BY <1>1, <1>2, <1>3, NobodySeated DEF Decides, Within

LEMMA CapacityOver ==
  ASSUME TypeOK, TypeOK', NEW c \in Class,
         NEW n \in Capacities, SaveCapacity(c, n)
  PROVE  Decides({c})
<1>1. \E A : History(A, {c})
  BY DEF SaveCapacity
<1>2. now <= now' /\ \A f \in Id : NoNewSeat(f)
  BY DEF SaveCapacity, NoNewSeat, TypeOK
<1>3. \A d \in Class \ {c} : capacity'[d] = capacity[d]
  BY DEF SaveCapacity, TypeOK
<1>4. \A d \in Class \ {c} : OverCapacity(d)' => OverCapacity(d)
  BY <1>2, <1>3, NobodySeated
<1> QED
  BY <1>1, <1>4 DEF Decides, Within

LEMMA TickOver ==
  ASSUME TypeOK, TypeOK', Tick
  PROVE  Decides({})
<1>1. capacity' = capacity /\ now <= now' /\ \A f \in Id : NoNewSeat(f)
  BY DEF Tick, tables, NoNewSeat, TypeOK
<1> QED
  BY <1>1, NobodySeated DEF Tick, Decides, Within

LEMMA OverStep ==
  TypeOK /\ TypeOK' /\ NoAccidentalOversubscription /\ [Next]_vars => NoAccidentalOversubscription'
<1> SUFFICES ASSUME TypeOK, TypeOK', NoAccidentalOversubscription, [Next]_vars
             PROVE  NoAccidentalOversubscription'
  OBVIOUS
<1>1. CASE RegistrationStep
  BY <1>1, RegistrationOver, TransferOver, HistoryOver DEF RegistrationStep
<1>2. ASSUME NEW e \in Id, ApproveRequest(e) \/ OfferSeat(e) \/ ConfirmOffer(e)
      PROVE  NoAccidentalOversubscription'
  BY <1>2, ApproveOver, OfferOver, ConfirmOver, HistoryOver
<1>3. ASSUME NEW e \in Id,
             \/ RejectRequest(e) \/ DeclineOffer(e) \/ CancelByAdmin(e) \/ ParentCancel(e)
             \/ ConfirmCancellation(e) \/ DeclineCancellation(e)
      PROVE  NoAccidentalOversubscription'
  <2>1. \/ RejectRequest(e) \/ DeclineOffer(e) \/ RequestCancellation(e) \/ DeclineCancellation(e)
        \/ \E reason \in CancelReason : Cancel(e, reason)
    BY <1>3, ParentCancelCases DEF CancelByAdmin, ConfirmCancellation, CancelReason
  <2> QED
    BY <2>1, CancelOver, OneRowOver, HistoryOver
<1>4. CASE ClassStep
  BY <1>4, ClassStepOver, CapacityOver, HistoryOver DEF ClassStep, EditCapacity, UpsertClass
<1>5. CASE Tick
  BY <1>5, TickOver, HistoryOver
<1>6. CASE UNCHANGED vars
  BY <1>6 DEF vars, NoAccidentalOversubscription, OverCapacity, SeatsTaken, SeatHolders,
              RowsOf, LiveOffer
<1> QED
  BY <1>1, <1>2, <1>3, <1>4, <1>5, <1>6 DEF Next, DecisionStep

LEMMA OverInit == Init => NoAccidentalOversubscription
<1> SUFFICES ASSUME Init, NEW c \in Class PROVE ~OverCapacity(c)
  BY DEF NoAccidentalOversubscription
<1>1. SeatHolders(c) = {}
  BY DEF Init, Unsaved, SeatHolders, RowsOf
<1>2. SeatsTaken(c) = 0
  BY <1>1, FS_EmptySet DEF SeatsTaken
<1>3. capacity[c] \in Nat
  BY SettingsAssumption DEF Init
<1> QED
  BY <1>2, <1>3 DEF OverCapacity

(* However the requests, offers, sweeps, moves and capacity edits follow   *)
(* each other and wherever the deadlines fall, a class is over its         *)
(* capacity only if an administrator's decision took it there.             *)
THEOREM NeverAccidentallyOver == Spec => []NoAccidentalOversubscription
BY OverInit, OverStep, TypeCorrect, PTL DEF Spec
=============================================================================
