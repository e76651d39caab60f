---------------------------- MODULE Enrollments ----------------------------
(***************************************************************************)
(* The enrolment state machine of apps/enrollments/services.py: what each  *)
(* service call does to the Enrollment rows, to the class they belong to   *)
(* and to the outbox, when every call runs as one atomic transaction.      *)
(* EnrollmentTx.tla opens the transactions up and shows that the row locks *)
(* the code takes make them behave as they do here.                        *)
(*                                                                         *)
(* Timestamps are ticks of an abstract clock that starts at 1; Unset (0)   *)
(* stands for NULL.  A step that raises EnrollmentError rolls its          *)
(* transaction back and is therefore no step here: the condition that      *)
(* avoids it is a guard.  The attribution columns (decided_by,             *)
(* cancel_requested_by, terms_accepted_at) and the timestamps nobody reads *)
(* back (approved_at, offered_at, cancelled_at) are left out; promoted_at  *)
(* is enrolled_at where promoted_from_waitlist is set, the only place it   *)
(* is read.                                                                *)
(***************************************************************************)
EXTENDS Naturals, FiniteSets

CONSTANTS
  Child,        \* the children
  Class,        \* the activity classes
  MaxRows,      \* bound: rows the enrolment table can hold
  MaxTime,      \* bound: the last tick of the clock
  Capacities,   \* the capacities a class is given
  OfferTtls,    \* the values SiteConfig.offer_ttl_hours is given, in ticks
  Windows       \* the values SiteConfig.withdrawal_window_days is given, in ticks

ASSUME BoundsAssumption ==
  /\ MaxRows \in Nat
  /\ MaxTime \in Nat \ {0}

ASSUME SettingsAssumption ==
  /\ Capacities \subseteq Nat
  /\ OfferTtls \subseteq Nat
  /\ Windows \subseteq Nat

Unset == 0
Nobody == "nobody"
Nowhere == "nowhere"

(* What stands for NULL in an unsaved row is no child and no class. *)
ASSUME NamesAssumption == Nobody \notin Child /\ Nowhere \notin Class

(* Primary keys of enrolment rows, handed out in increasing order. *)
Id == 1..MaxRows

Active == {"REQUESTED", "ENROLLED", "WAITLISTED", "OFFERED"}
SeatHolding == {"ENROLLED", "OFFERED"}
Status == Active \cup {"CANCELLED", "UNSAVED"}

CancelReason ==
  {"", "PARENT", "PARENT_REQUEST", "ADMIN", "REQUEST_REJECTED",
   "CLASS_CANCELLED", "OFFER_EXPIRED", "OFFER_DECLINED", "TRANSFERRED"}

ClassStatus == {"DRAFT", "PUBLISHED", "CANCELLED", "ARCHIVED"}

(* What the outbox can tell a family about a place. *)
Event ==
  {"ENROLLMENT_REQUESTED", "REGISTRATION_CONFIRMED", "ENROLLMENT_TRANSFERRED",
   "REQUEST_REJECTED", "WAITLISTED", "WAITLIST_OFFER", "OFFER_EXPIRED",
   "SUBSCRIPTION_CANCELLED", "WITHDRAWN", "CANCELLATION_REQUESTED",
   "CANCELLATION_CONFIRMED", "CANCELLATION_DECLINED", "CLASS_CANCELLED"}
NoNews == "NO_NEWS"

Row ==
  [child : Child \cup {Nobody},
   activity_class : Class \cup {Nowhere},
   status : Status,
   cancel_reason : CancelReason,
   created_at : Nat,
   promoted_at : Nat,
   offer_expires_at : Nat,
   cancel_requested_at : Nat]

Unsaved ==
  [child |-> Nobody, activity_class |-> Nowhere, status |-> "UNSAVED",
   cancel_reason |-> "", created_at |-> Unset, promoted_at |-> Unset,
   offer_expires_at |-> Unset, cancel_requested_at |-> Unset]

VARIABLES
  enrollments,    \* the enrolment table
  class_status,   \* ActivityClass.status
  capacity,       \* ActivityClass.capacity
  term_active,    \* term.is_active of the class's term
  now,            \* timezone.now()
  news,           \* for a child and a class, the newest outbox event the family got
  alerted,        \* history: classes whose free seat the admins were told of
  over_allocated  \* history: classes an administrator's decision took past capacity

(* What the clock leaves alone, and what the registration calls leave alone. *)
tables == <<enrollments, class_status, capacity, term_active, news>>
catalog == <<class_status, capacity, term_active>>
vars == <<enrollments, class_status, capacity, term_active, now, news,
          alerted, over_allocated>>

-----------------------------------------------------------------------------
(* Queries *)

RowsOf(c, S) == {e \in Id : enrollments[e].activity_class = c /\ enrollments[e].status \in S}

(* Mutant: the instant of expiry falls on the wrong side. *)
StaleOffersInclusive(c) == {e \in RowsOf(c, {"OFFERED"}) : enrollments[e].offer_expires_at <= now}

LiveOffer(e) == enrollments[e].offer_expires_at >= now
StaleOffers(c) == {e \in RowsOf(c, {"OFFERED"}) : enrollments[e].offer_expires_at < now}

(* _seats_taken: enrolled children plus unexpired offers. *)
SeatHolders(c) == RowsOf(c, {"ENROLLED"}) \cup {e \in RowsOf(c, {"OFFERED"}) : LiveOffer(e)}
SeatsTaken(c) == Cardinality(SeatHolders(c))

HasFreeSeat(c) == SeatsTaken(c) < capacity[c]
OverCapacity(c) == SeatsTaken(c) > capacity[c]

Waitlist(c) == RowsOf(c, {"WAITLISTED"})

(* _require_open, and the first half of _validate_registration. *)
Open(c) == class_status[c] = "PUBLISHED" /\ term_active[c]

(* Mutant: the waiting list and the offers are forgotten. *)
RegisteredOrAsked(ch, c) ==
  \E e \in RowsOf(c, {"REQUESTED", "ENROLLED"}) : enrollments[e].child = ch

Registered(ch, c) == \E e \in RowsOf(c, Active) : enrollments[e].child = ch

(* Enrollment.withdrawal_deadline: the window runs from registration, or   *)
(* from the confirmation of a place that came off the waiting list.        *)
WithdrawalDeadline(r, window) ==
  window + IF r.promoted_at # Unset THEN r.promoted_at ELSE r.created_at

CanWithdraw(r, window) ==
  /\ r.status \in Active
  /\ r.status = "ENROLLED" => now < WithdrawalDeadline(r, window)

-----------------------------------------------------------------------------
(* What several services share *)

(* Mutant: the reason is written where the status belongs. *)
CancelledInto(r, reason) == [r EXCEPT !.status = reason, !.cancel_reason = "ADMIN"]

Cancelled(r, reason) == [r EXCEPT !.status = "CANCELLED", !.cancel_reason = reason]

(* Enrollment.objects.create: the next primary key. *)
NextId(e) == /\ enrollments[e].status = "UNSAVED"
             /\ \A f \in 1..(e - 1) : enrollments[f].status # "UNSAVED"

NewRow(ch, c, st) ==
  [Unsaved EXCEPT !.child = ch, !.activity_class = c, !.status = st, !.created_at = now]

(* queue_event for each of the rows E, on top of the news n. *)
Told(n, E, event) ==
  [p \in Child \X Class |->
     IF \E e \in E : p = <<enrollments[e].child, enrollments[e].activity_class>>
       THEN event ELSE n[p]]

Tell(e, event) == news' = Told(news, {e}, event)

(* _expire_stale_offers_locked: the table and the news once c's offers past *)
(* their deadline are cancelled.                                            *)
Swept(c) == [e \in Id |-> IF e \in StaleOffers(c)
                            THEN Cancelled(enrollments[e], "OFFER_EXPIRED")
                            ELSE enrollments[e]]
SweptNews(c) == Told(news, StaleOffers(c), "OFFER_EXPIRED")
LapseAlert(c) == {d \in {c} : StaleOffers(d) # {}}

(* Mutant: whether a seat is free is asked before the row is saved. *)
SeatFreedAlertBeforeSave(c) == {d \in {c} : Waitlist(d) # {} /\ HasFreeSeat(d)}

(* _alert_if_waiting. *)
SeatFreedAlert(c) == {d \in {c} : Waitlist(d) # {}}

(* The two history variables.  A step queues an admin alert for the        *)
(* classes A and is an administrator's own decision to give out a place of *)
(* (or to shrink) the classes D.  A class leaves `alerted` once it is full *)
(* again and `over_allocated` once it is back within its capacity.         *)
History(A, D) ==
  /\ alerted' = {c \in Class : c \in alerted \cup A /\ HasFreeSeat(c)'}
  /\ over_allocated' = {c \in Class : c \in over_allocated \cup D /\ OverCapacity(c)'}

-----------------------------------------------------------------------------
(* Registration *)

(* A parent requests a place. *)
Register(ch, c) ==
  /\ Open(c)
  /\ ~Registered(ch, c)
  /\ \E e \in Id : /\ NextId(e)
                   /\ enrollments' = [enrollments EXCEPT ![e] = NewRow(ch, c, "REQUESTED")]
  /\ news' = [news EXCEPT ![<<ch, c>>] = "ENROLLMENT_REQUESTED"]
  /\ UNCHANGED <<catalog, now>>
  /\ History({}, {})

(* The office registers a child: enrolled at once, whatever the capacity. *)
AdminRegister(ch, c) ==
  /\ Open(c)
  /\ ~Registered(ch, c)
  /\ \E e \in Id : /\ NextId(e)
                   /\ enrollments' = [enrollments EXCEPT ![e] = NewRow(ch, c, "ENROLLED")]
  /\ news' = [news EXCEPT ![<<ch, c>>] = "REGISTRATION_CONFIRMED"]
  /\ UNCHANGED <<catalog, now>>
  /\ History({}, {c})

(* Mutant: the message is filed under the new class only. *)
TransferNewsInTargetOnly(r, target) ==
  [news EXCEPT ![<<r.child, target>>] = "ENROLLMENT_TRANSFERRED"]

(* One message about the move; it names both classes. *)
TransferNews(r, target) ==
  [news EXCEPT ![<<r.child, r.activity_class>>] = "ENROLLMENT_TRANSFERRED",
               ![<<r.child, target>>] = "ENROLLMENT_TRANSFERRED"]

(* Move a child to another class: the old row ends, a confirmed one is born. *)
Transfer(e, target) ==
  LET r == enrollments[e]
      source == r.activity_class
      ended == [Cancelled(r, "TRANSFERRED") EXCEPT !.cancel_requested_at = Unset]
  IN /\ r.status \in Active
     /\ source # target
     /\ Open(target)
     /\ ~Registered(r.child, target)
     /\ \E f \in Id : /\ NextId(f)
                      /\ enrollments' = [enrollments EXCEPT ![e] = ended,
                                           ![f] = NewRow(r.child, target, "ENROLLED")]
     /\ news' = TransferNews(r, target)
     /\ UNCHANGED <<catalog, now>>
     /\ History(IF r.status \in SeatHolding THEN SeatFreedAlert(source) ELSE {}, {target})

-----------------------------------------------------------------------------
(* Requests *)

(* The admin approves: a place if a seat is free, else the waiting list. *)
ApproveRequest(e) ==
  LET c == enrollments[e].activity_class
  IN /\ enrollments[e].status = "REQUESTED"
     /\ Open(c)
     /\ IF HasFreeSeat(c)
          THEN /\ enrollments' = [Swept(c) EXCEPT ![e].status = "ENROLLED"]
               /\ news' = Told(SweptNews(c), {e}, "REGISTRATION_CONFIRMED")
          ELSE /\ enrollments' = [Swept(c) EXCEPT ![e].status = "WAITLISTED"]
               /\ news' = Told(SweptNews(c), {e}, "WAITLISTED")
     /\ UNCHANGED <<catalog, now>>
     /\ History(LapseAlert(c), {})

(* Mutant: anything that is not a confirmed place can be rejected. *)
RejectUnconfirmed(e) ==
  /\ enrollments[e].status \notin {"ENROLLED", "UNSAVED"}
  /\ enrollments' = [enrollments EXCEPT ![e] = Cancelled(@, "REQUEST_REJECTED")]
  /\ Tell(e, "REQUEST_REJECTED")
  /\ UNCHANGED <<catalog, now>>
  /\ History({}, {})

RejectRequest(e) ==
  /\ enrollments[e].status = "REQUESTED"
  /\ enrollments' = [enrollments EXCEPT ![e] = Cancelled(@, "REQUEST_REJECTED")]
  /\ Tell(e, "REQUEST_REJECTED")
  /\ UNCHANGED <<catalog, now>>
  /\ History({}, {})

-----------------------------------------------------------------------------
(* Waiting-list offers *)

(* The admin offers a place to a waitlisted family, whatever the capacity. *)
OfferSeat(e) ==
  LET c == enrollments[e].activity_class
  IN /\ enrollments[e].status = "WAITLISTED"
     /\ Open(c)
     /\ \E ttl \in OfferTtls :
          enrollments' = [Swept(c) EXCEPT ![e].status = "OFFERED",
                                          ![e].offer_expires_at = now + ttl]
     /\ news' = Told(SweptNews(c), {e}, "WAITLIST_OFFER")
     /\ UNCHANGED <<catalog, now>>
     /\ History(LapseAlert(c), {c})

(* The family, or the office for it, takes the seat that was held for it. *)
ConfirmOffer(e) ==
  /\ enrollments[e].status = "OFFERED"
  /\ Open(enrollments[e].activity_class)
  /\ ~(enrollments[e].offer_expires_at < now)
  /\ enrollments' = [enrollments EXCEPT ![e].status = "ENROLLED", ![e].promoted_at = now]
  /\ Tell(e, "REGISTRATION_CONFIRMED")
  /\ UNCHANGED <<catalog, now>>
  /\ History({}, {})

(* The family says no; only the admins are told. *)
DeclineOffer(e) ==
  /\ enrollments[e].status = "OFFERED"
  /\ enrollments' = [enrollments EXCEPT ![e] = Cancelled(@, "OFFER_DECLINED")]
  /\ UNCHANGED <<catalog, now, news>>
  /\ History({enrollments[e].activity_class}, {})

SweepStep(c) ==
  /\ StaleOffers(c) # {}
  /\ enrollments' = Swept(c)
  /\ news' = SweptNews(c)
  /\ UNCHANGED <<catalog, now>>
  /\ History(LapseAlert(c), {})

(* Mutant: the sweep visits open classes only. *)
ExpireOffersOfOpen(c) == Open(c) /\ SweepStep(c)

(* One iteration of expire_offers, the worker's sweep. *)
ExpireOffers(c) == SweepStep(c)

-----------------------------------------------------------------------------
(* Leaving a class *)

(* _CANCEL_EVENTS. *)
CancelEvent(reason) == CASE reason = "PARENT" -> "WITHDRAWN"
                         [] reason = "PARENT_REQUEST" -> "CANCELLATION_CONFIRMED"
                         [] OTHER -> "SUBSCRIPTION_CANCELLED"

(* cancel: ends any active registration. *)
Cancel(e, reason) ==
  LET r == enrollments[e]
  IN /\ r.status \in Active
     /\ enrollments' = [enrollments EXCEPT ![e] = Cancelled(r, reason)]
     /\ Tell(e, CancelEvent(reason))
     /\ UNCHANGED <<catalog, now>>
     /\ History(IF r.status \in SeatHolding THEN SeatFreedAlert(r.activity_class) ELSE {}, {})

CancelByAdmin(e) == Cancel(e, "ADMIN")

(* request_cancellation: the place is kept until the office answers. *)
RequestCancellation(e) ==
  /\ enrollments[e].status = "ENROLLED"
  /\ enrollments[e].cancel_requested_at = Unset
  /\ enrollments' = [enrollments EXCEPT ![e].cancel_requested_at = now]
  /\ Tell(e, "CANCELLATION_REQUESTED")
  /\ UNCHANGED <<catalog, now>>
  /\ History({}, {})

(* Mutant: a gap between the two answers, at the instant of the deadline. *)
ParentCancelWithGap(e) ==
  \E window \in Windows :
    \/ CanWithdraw(enrollments[e], window) /\ Cancel(e, "PARENT")
    \/ now > WithdrawalDeadline(enrollments[e], window) /\ RequestCancellation(e)

(* A family wants out: it withdraws, or files a request when it no longer may. *)
ParentCancel(e) ==
  \E window \in Windows :
    \/ CanWithdraw(enrollments[e], window) /\ Cancel(e, "PARENT")
    \/ ~CanWithdraw(enrollments[e], window) /\ RequestCancellation(e)

CancellationRequested(e) ==
  enrollments[e].status = "ENROLLED" /\ enrollments[e].cancel_requested_at # Unset

ConfirmCancellation(e) == CancellationRequested(e) /\ Cancel(e, "PARENT_REQUEST")

(* The admin keeps the place. *)
DeclineCancellation(e) ==
  /\ CancellationRequested(e)
  /\ enrollments' = [enrollments EXCEPT ![e].cancel_requested_at = Unset]
  /\ Tell(e, "CANCELLATION_DECLINED")
  /\ UNCHANGED <<catalog, now>>
  /\ History({}, {})

-----------------------------------------------------------------------------
(* The class around the registrations *)

CancelClass(c) ==
  /\ class_status[c] # "CANCELLED"
  /\ class_status' = [class_status EXCEPT ![c] = "CANCELLED"]
  /\ enrollments' = [e \in Id |-> IF e \in RowsOf(c, Active)
                                    THEN Cancelled(enrollments[e], "CLASS_CANCELLED")
                                    ELSE enrollments[e]]
  /\ news' = Told(news, RowsOf(c, Active), "CLASS_CANCELLED")
  /\ UNCHANGED <<capacity, term_active, now>>
  /\ History({}, {})

PublishClass(c) ==
  /\ class_status[c] # "CANCELLED"
  /\ class_status' = [class_status EXCEPT ![c] = "PUBLISHED"]
  /\ UNCHANGED <<enrollments, capacity, term_active, now, news>>
  /\ History({}, {})

(* Mutant: only the places held keep a class from being archived. *)
ArchiveUnlessHeld(c) ==
  /\ RowsOf(c, SeatHolding) = {}
  /\ class_status' = [class_status EXCEPT ![c] = "ARCHIVED"]
  /\ UNCHANGED <<enrollments, capacity, term_active, now, news>>
  /\ History({}, {})

ArchiveClass(c) ==
  /\ RowsOf(c, Active) = {}
  /\ class_status' = [class_status EXCEPT ![c] = "ARCHIVED"]
  /\ UNCHANGED <<enrollments, capacity, term_active, now, news>>
  /\ History({}, {})

(* ActivityClass.save with a changed capacity: a raise alerts the admins.  *)
SaveCapacity(c, n) ==
  /\ n # capacity[c]
  /\ capacity' = [capacity EXCEPT ![c] = n]
  /\ UNCHANGED <<enrollments, class_status, term_active, now, news>>
  /\ History(IF n > capacity[c] THEN SeatFreedAlert(c) ELSE {}, {c})

(* The admin form refuses a capacity below the seats held ... *)
EditCapacity(c, n) == n >= SeatsTaken(c) /\ SaveCapacity(c, n)

(* ... the MCP tool does not, but edits only draft and published classes. *)
UpsertClass(c, n) == class_status[c] \in {"DRAFT", "PUBLISHED"} /\ SaveCapacity(c, n)

SetTermActive(c) ==
  /\ term_active' = [term_active EXCEPT ![c] = ~@]
  /\ UNCHANGED <<enrollments, class_status, capacity, now, news>>
  /\ History({}, {})

Tick ==
  /\ now < MaxTime
  /\ now' = now + 1
  /\ UNCHANGED tables
  /\ History({}, {})

-----------------------------------------------------------------------------
Init ==
  /\ enrollments = [e \in Id |-> Unsaved]
  /\ class_status = [c \in Class |-> "DRAFT"]
  /\ capacity \in [Class -> Capacities]
  /\ term_active = [c \in Class |-> TRUE]
  /\ now = 1
  /\ news = [p \in Child \X Class |-> NoNews]
  /\ alerted = {}
  /\ over_allocated = {}

RegistrationStep ==
  \/ \E ch \in Child, c \in Class : Register(ch, c) \/ AdminRegister(ch, c)
  \/ \E e \in Id, c \in Class : Transfer(e, c)

DecisionStep ==
  \E e \in Id : \/ ApproveRequest(e) \/ RejectRequest(e)
                \/ OfferSeat(e) \/ ConfirmOffer(e) \/ DeclineOffer(e)
                \/ CancelByAdmin(e) \/ ParentCancel(e)
                \/ ConfirmCancellation(e) \/ DeclineCancellation(e)

ClassStep ==
  \E c \in Class : \/ ExpireOffers(c) \/ CancelClass(c) \/ PublishClass(c)
                   \/ ArchiveClass(c) \/ SetTermActive(c)
                   \/ \E n \in Capacities : EditCapacity(c, n) \/ UpsertClass(c, n)

Next == RegistrationStep \/ DecisionStep \/ ClassStep \/ Tick

Spec == Init /\ [][Next]_vars

(* The notifier's cycle runs expire_offers again and again. *)
Fairness == \A c \in Class : WF_vars(ExpireOffers(c))

FairSpec == Spec /\ Fairness
-----------------------------------------------------------------------------
(* Properties *)

(* Every row, class, setting and piece of news has its type; a saved row   *)
(* names a child and a class.                                              *)
TypeOK ==
  /\ enrollments \in [Id -> Row]
  /\ \A e \in Id : enrollments[e].status # "UNSAVED" =>
       enrollments[e].child \in Child /\ enrollments[e].activity_class \in Class
  /\ class_status \in [Class -> ClassStatus]
  /\ capacity \in [Class -> Nat]
  /\ term_active \in [Class -> BOOLEAN]
  /\ now \in Nat \ {Unset}
  /\ news \in [Child \X Class -> Event \cup {NoNews}]
  /\ alerted \subseteq Class
  /\ over_allocated \subseteq Class

(* services.py 3-10, "nothing over-allocates by accident": whenever a      *)
(* class holds more seats than its capacity, an administrator's decision   *)
(* (an offer, a placement, a move, a smaller capacity) took it there.  An  *)
(* approval never does, nor does a family confirming an offer late, after  *)
(* the seat it had held was given away.                                    *)
NoAccidentalOversubscription ==
  \A c \in Class : OverCapacity(c) => c \in over_allocated

(* services.py _alert_if_waiting, _expire_stale_offers_locked and          *)
(* capacity_increased: a class never has both a free seat and a waiting    *)
(* list without its admins having been told since it was last full, save   *)
(* for an offer that has just lapsed and waits for the worker's sweep.     *)
FreedSeatNeverSilent ==
  \A c \in Class : HasFreeSeat(c) /\ Waitlist(c) # {} => c \in alerted \/ StaleOffers(c) # {}

(* services.py _validate_registration and transfer: the checks made under  *)
(* the class lock leave nothing for the uniq_active_enrollment constraint  *)
(* to refuse, whichever way a child reaches a class.                       *)
OneActiveRegistration ==
  \A e, f \in Id :
    /\ {enrollments[e].status, enrollments[f].status} \subseteq Active
    /\ enrollments[e].child = enrollments[f].child
    /\ enrollments[e].activity_class = enrollments[f].activity_class
    => e = f

(* services.py cancel_class, _require_open and archive_classes: only a     *)
(* published class has live registrations, however it was closed.          *)
ActiveOnlyInPublished ==
  \A c \in Class : RowsOf(c, Active) # {} => class_status[c] = "PUBLISHED"

(* services.py 41-44, 318 and 87: at every instant, the one at which the   *)
(* offer expires included, an offer either holds its seat and can be       *)
(* confirmed, or holds none and may be swept: never both, never neither.   *)
OfferHeldOrLapsed ==
  \A c \in Class : \A e \in RowsOf(c, {"OFFERED"}) :
    /\ enrollments[e].offer_expires_at # Unset
    /\ (e \in SeatHolders(c)) # (e \in StaleOffers(c))

NewsOfEnd(reason) ==
  CASE reason = "PARENT" -> {"WITHDRAWN"}
    [] reason = "PARENT_REQUEST" -> {"CANCELLATION_CONFIRMED"}
    [] reason = "ADMIN" -> {"SUBSCRIPTION_CANCELLED"}
    [] reason = "TRANSFERRED" -> {"ENROLLMENT_TRANSFERRED"}
    \* the family that declines an offer is not told that it did
    [] reason = "OFFER_DECLINED" -> {"WAITLIST_OFFER"}
    [] OTHER -> {reason}

NewsOf(r) ==
  CASE r.status = "REQUESTED" -> {"ENROLLMENT_REQUESTED"}
    [] r.status = "WAITLISTED" -> {"WAITLISTED"}
    [] r.status = "OFFERED" -> {"WAITLIST_OFFER"}
    [] r.status = "ENROLLED" ->
         IF r.cancel_requested_at # Unset
           THEN {"CANCELLATION_REQUESTED"}
           ELSE {"REGISTRATION_CONFIRMED", "ENROLLMENT_TRANSFERRED", "CANCELLATION_DECLINED"}
    [] OTHER -> NewsOfEnd(r.cancel_reason)

(* services.py 12-14, the transactional outbox: the newest message queued  *)
(* to a family about a class agrees with the state, and with the reason    *)
(* for the end, of the newest registration it has there, across            *)
(* re-registrations, sweeps, moves and the class's own cancellation.       *)
NewsMatchesPlace ==
  \A ch \in Child, c \in Class :
    LET E == {e \in RowsOf(c, Status) : enrollments[e].child = ch}
    IN IF E = {} THEN news[<<ch, c>>] = NoNews
                ELSE \E e \in E : /\ \A f \in E : f <= e
                                  /\ news[<<ch, c>>] \in NewsOf(enrollments[e])

(* services.py 414-423: a family with a live registration can always get   *)
(* out of it or ask to: whichever way the deadline falls when it clicks,   *)
(* parent_cancel has an answer that is not an error, unless its request is *)
(* already on the office's desk.                                           *)
FamilyCanAlwaysLeave ==
  \A e \in Id : enrollments[e].status \in Active =>
    CancellationRequested(e) \/ ENABLED ParentCancel(e)

(* models.py 44-67: a cancelled registration never comes back; a family    *)
(* that returns gets a new row.                                            *)
CancelledIsFinal ==
  [][\A e \in Id : enrollments[e].status = "CANCELLED" =>
                     enrollments'[e] = enrollments[e]]_vars

(* services.py 341: once its deadline has passed an unanswered offer does  *)
(* not stay on the roster: the worker's sweep removes it, whatever has     *)
(* become of the class and its term.                                       *)
LapsedOfferIsRemoved ==
  \A e \in Id :
    (enrollments[e].status = "OFFERED" /\ ~LiveOffer(e)) ~> (enrollments[e].status # "OFFERED")
=============================================================================
