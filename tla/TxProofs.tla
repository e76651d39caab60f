------------------------------ MODULE TxProofs ------------------------------
(***************************************************************************)
(* Proofs about EnrollmentTx and ClassEdits, for any number of processes,  *)
(* editors, children, classes and rows: that the transactions implement    *)
(* the atomic services, that they never wait for one another in a circle,  *)
(* and what the edits that take no lock leave true.                        *)
(***************************************************************************)
EXTENDS ClassEdits, EnrollmentsSafety

Whole(t) ==
  t = [pc |-> t.pc, call |-> t.call, row |-> t.row, child |-> t.child, class |-> t.class,
       held |-> t.held, plan |-> t.plan]

Registrations == {"register", "admin_register"}
OfAClass == {"expire_offers", "cancel_class"}
Decisions == Services \ (Registrations \cup OfAClass \cup {"transfer"})

(* What a call was begun with is still there: a saved row stays saved, and *)
(* in its class.                                                           *)
Asked(t) ==
  /\ t.class \in Class
  /\ \/ t.call \in Registrations /\ t.child \in Child /\ t.row \notin Id
     \/ t.call \in OfAClass /\ t.row \notin Id
     \/ t.call = "transfer" /\ t.row \in SavedRows
     \/ t.call \in Decisions /\ t.row \in SavedRows /\ t.class = SourceClass(t)

(* A transaction about to commit would decide the same, and write the      *)
(* same, if it read everything again now.                                  *)
Current(t) ==
  \E ttl \in OfferTtls, window \in Windows :
    Accepted(t, window) /\ t.plan = PlanOf(t, ttl, window)

(* Locks are taken in the order of the keys. *)
InKeyOrder(t) == \A c \in t.held, d \in MissingLocks(t) : Pk[c] < Pk[d]

Running(t) ==
  /\ Whole(t) /\ Asked(t)
  /\ t.held \subseteq ClassesToLock(t) /\ InKeyOrder(t)
  /\ \/ t.pc = "locking" /\ t.plan = NoPlan
     \/ t.pc = "writing" /\ MissingLocks(t) = {} /\ Current(t)

(* No class and no row is locked twice. *)
Apart(t, u) ==
  /\ t.held \cap u.held = {}
  /\ DOMAIN t.plan.rows \cap DOMAIN u.plan.rows = {}

TxOK ==
  /\ tx = [p \in Process |-> tx[p]]
  /\ \A p \in Process : \E t \in {tx[p]} : t = Idle \/ Running(t)
  /\ \A p, q \in Process : p # q => Apart(tx[p], tx[q])

(* Only few of the processes are at work: their waiting has an end. *)
Busy == {p \in Process : tx[p] # Idle}

(* The histories forget what is over. *)
HistoryOK ==
  /\ alerted \subseteq {c \in Class : HasFreeSeat(c)}
  /\ over_allocated \subseteq {c \in Class : OverCapacity(c)}

-----------------------------------------------------------------------------
(* Records *)

LEMMA IdleFields ==
  /\ Idle.pc = "idle" /\ Idle.held = {} /\ Idle.plan = NoPlan
  /\ DOMAIN NoPlan.rows = {} /\ NoPlan.new = {}
BY DEF Idle, NoPlan

Written(t, P) == [t EXCEPT !.pc = "writing", !.plan = P]

LEMMA WriteFields ==
  ASSUME NEW t, Whole(t), NEW P, NEW u, u = Written(t, P)
  PROVE  /\ Whole(u) /\ u.pc = "writing" /\ u.plan = P
         /\ u.call = t.call /\ u.row = t.row /\ u.child = t.child /\ u.class = t.class
         /\ u.held = t.held
<1>1. PICK v : v = [t EXCEPT !.pc = "writing"]
  OBVIOUS
<1>2. /\ Whole(v) /\ v.pc = "writing"
      /\ v.call = t.call /\ v.row = t.row /\ v.child = t.child /\ v.class = t.class
      /\ v.held = t.held
  BY <1>1 DEF Whole
<1>3. u = [v EXCEPT !.plan = P]
  BY <1>1 DEF Written
<1> QED
  BY <1>2, <1>3 DEF Whole

LEMMA HeldFields ==
  ASSUME NEW t, Whole(t), NEW H
  PROVE  LET u == [t EXCEPT !.held = H]
         IN /\ Whole(u) /\ u.pc = t.pc /\ u.plan = t.plan
            /\ u.call = t.call /\ u.row = t.row /\ u.child = t.child /\ u.class = t.class
            /\ u.held = H
BY DEF Whole

LEMMA RequestFields ==
  ASSUME NEW call, NEW row, NEW ch, NEW c
  PROVE  LET u == Request(call, row, ch, c)
         IN /\ Whole(u) /\ u.pc = "locking" /\ u.plan = NoPlan
            /\ u.call = call /\ u.row = row /\ u.child = ch /\ u.class = c
            /\ u.held = {}
BY DEF Whole, Request

(* What a call decides and writes depends on what it was asked only. *)
LEMMA SameCall ==
  ASSUME NEW t, NEW u, NEW ttl, NEW window, u.call \in Services,
         u.call = t.call, u.row = t.row, u.child = t.child, u.class = t.class
  PROVE  /\ Accepted(u, window) <=> Accepted(t, window)
         /\ PlanOf(u, ttl, window) = PlanOf(t, ttl, window)
         /\ ClassesToLock(u) = ClassesToLock(t)
         /\ Asked(u) <=> Asked(t)
<1>1. Accepted(u, window) <=> Accepted(t, window)
  BY DEF Accepted
<1>2. PlanOf(u, ttl, window) = PlanOf(t, ttl, window)
  BY DEF PlanOf, Registration, Move, Approval, Offer, AfterSweep, Answer, Cancellation,
         CancellationRequest, Sweep
<1>3. ClassesToLock(u) = ClassesToLock(t) /\ (Asked(u) <=> Asked(t))
  BY DEF ClassesToLock, Asked, SourceClass
<1> QED
  BY <1>1, <1>2, <1>3

-----------------------------------------------------------------------------
(* Plans *)

(* A plan stays inside what the call has locked: the rows it saves are     *)
(* saved already, stay in their class, and are in classes it has locked,   *)
(* but for the one a rejection ends; the row it inserts is in such a class *)
(* too.                                                                    *)
Inside(t, P) ==
  /\ DOMAIN P.rows \subseteq SavedRows
  /\ t.row \in Id => t.row \in DOMAIN P.rows
  /\ \A e \in DOMAIN P.rows :
       /\ P.rows[e].activity_class = enrollments[e].activity_class
       /\ P.rows[e].status # "UNSAVED"
       /\ t.call # "reject_request" => enrollments[e].activity_class \in ClassesToLock(t)
  /\ \A r \in P.new : /\ r.activity_class = t.class
                      /\ r.status # "UNSAVED"
                      /\ t.class \in ClassesToLock(t)
  /\ t.call = "reject_request" => /\ DOMAIN P.rows = {t.row}
                                  /\ P.new = {}
                                  /\ enrollments[t.row].status = "REQUESTED"
                                  /\ P.rows[t.row].status = "CANCELLED"

LEMMA SavingFields ==
  ASSUME NEW E, NEW tbl, NEW n, NEW A, NEW D
  PROVE  LET P == Saving(E, tbl, n, A, D)
         IN /\ P.rows = [e \in E |-> tbl[e]] /\ DOMAIN P.rows = E
            /\ \A e \in E : P.rows[e] = tbl[e]
            /\ P.new = {} /\ P.news = [p \in Pairs(E) |-> n[p]]
            /\ P.alerts = A /\ P.decisions = D
BY DEF Saving

LEMMA AnswerFields ==
  ASSUME TypeOK, NEW t, t.row \in Id, NEW x, NEW ev, NEW A
  PROVE  LET P == Answer(t, x, ev, A)
         IN /\ DOMAIN P.rows = {t.row} /\ P.rows[t.row] = x
            /\ P.new = {} /\ P.alerts = A /\ P.decisions = {}
<1>1. [enrollments EXCEPT ![t.row] = x][t.row] = x
  BY DEF TypeOK
<1>2. [e \in {t.row} |-> [enrollments EXCEPT ![t.row] = x][e]] = [e \in {t.row} |-> x]
  BY <1>1
<1>3. PICK tbl : tbl = [enrollments EXCEPT ![t.row] = x]
  OBVIOUS
<1>4. Answer(t, x, ev, A) = Saving({t.row}, tbl, Told(news, {t.row}, ev), A, {})
  BY <1>3 DEF Answer
<1> QED
  BY <1>1, <1>2, <1>3, <1>4 DEF Saving

LEMMA AnswerInside ==
  ASSUME TypeOK, NEW t, Asked(t), t.call \in Decisions, NEW x \in Row, NEW P,
         x.status # "UNSAVED", x.activity_class = enrollments[t.row].activity_class,
         t.call = "reject_request" =>
           enrollments[t.row].status = "REQUESTED" /\ x.status = "CANCELLED",
         DOMAIN P.rows = {t.row}, P.rows[t.row] = x, P.new = {}
  PROVE  Inside(t, P)
<1>1. t.row \in SavedRows /\ t.class = enrollments[t.row].activity_class
  BY DEF Asked, SourceClass, Decisions, Registrations, OfAClass
<1>2. t.call # "reject_request" => t.class \in ClassesToLock(t)
  BY DEF ClassesToLock, Decisions
<1> QED
  BY <1>1, <1>2 DEF Inside, SavedRows

LEMMA AfterSweepFields ==
  ASSUME TypeOK, NEW t, t.row \in Id, t.class \in Class, NEW x, NEW ev, NEW D
  PROVE  LET P == AfterSweep(t, x, ev, D)
         IN /\ DOMAIN P.rows = StaleOffers(t.class) \cup {t.row}
            /\ P.rows[t.row] = x
            /\ \A e \in StaleOffers(t.class) \ {t.row} :
                 P.rows[e] = Cancelled(enrollments[e], "OFFER_EXPIRED")
            /\ P.new = {} /\ P.alerts = LapseAlert(t.class) /\ P.decisions = D
<1> DEFINE c == t.class
           tbl == [Swept(c) EXCEPT ![t.row] = x]
           E == StaleOffers(c) \cup {t.row}
           n == Told(SweptNews(c), {t.row}, ev)
<1>1. StaleOffers(c) \subseteq Id
  BY DEF StaleOffers, RowsOf
<1>2. tbl[t.row] = x
  BY DEF Swept
<1>3. \A e \in StaleOffers(c) \ {t.row} : tbl[e] = Cancelled(enrollments[e], "OFFER_EXPIRED")
  BY <1>1 DEF Swept
<1>4. AfterSweep(t, x, ev, D) = Saving(E, tbl, n, LapseAlert(c), D)
  BY DEF AfterSweep
<1> HIDE DEF tbl, n, E
<1>5. /\ DOMAIN Saving(E, tbl, n, LapseAlert(c), D).rows = E
      /\ \A e \in E : Saving(E, tbl, n, LapseAlert(c), D).rows[e] = tbl[e]
      /\ Saving(E, tbl, n, LapseAlert(c), D).new = {}
      /\ Saving(E, tbl, n, LapseAlert(c), D).alerts = LapseAlert(c)
      /\ Saving(E, tbl, n, LapseAlert(c), D).decisions = D
  BY DEF Saving
<1> QED
  BY <1>2, <1>3, <1>4, <1>5 DEF E

LEMMA AfterSweepInside ==
  ASSUME TypeOK, NEW t, Asked(t), t.call \in {"approve_request", "offer_seat"}, NEW x \in Row,
         NEW ev, NEW D, x.status # "UNSAVED",
         x.activity_class = enrollments[t.row].activity_class
  PROVE  Inside(t, AfterSweep(t, x, ev, D))
<1> DEFINE P == AfterSweep(t, x, ev, D)
<1>1. t.row \in SavedRows /\ t.row \in Id /\ t.class = enrollments[t.row].activity_class
      /\ t.class \in Class
  BY DEF Asked, SourceClass, Decisions, Registrations, OfAClass, SavedRows
<1>2. ClassesToLock(t) = {t.class}
  BY DEF ClassesToLock
<1>3. /\ DOMAIN P.rows = StaleOffers(t.class) \cup {t.row}
      /\ P.rows[t.row] = x
      /\ \A e \in StaleOffers(t.class) \ {t.row} :
           P.rows[e] = Cancelled(enrollments[e], "OFFER_EXPIRED")
      /\ P.new = {}
  BY <1>1, AfterSweepFields
<1>4. \A e \in StaleOffers(t.class) :
        /\ e \in SavedRows /\ enrollments[e].activity_class = t.class
        /\ Cancelled(enrollments[e], "OFFER_EXPIRED").status = "CANCELLED"
        /\ Cancelled(enrollments[e], "OFFER_EXPIRED").activity_class = t.class
  <2> SUFFICES ASSUME NEW e \in StaleOffers(t.class)
               PROVE  /\ e \in SavedRows /\ enrollments[e].activity_class = t.class
                      /\ Cancelled(enrollments[e], "OFFER_EXPIRED").status = "CANCELLED"
                      /\ Cancelled(enrollments[e], "OFFER_EXPIRED").activity_class = t.class
    OBVIOUS
  <2>1. e \in Id /\ enrollments[e].status = "OFFERED" /\ enrollments[e].activity_class = t.class
    BY DEF StaleOffers, RowsOf
  <2>2. enrollments[e] \in Row /\ "OFFER_EXPIRED" \in CancelReason
    BY <2>1 DEF TypeOK, CancelReason
  <2> QED
    BY <2>1, <2>2, CancelledRow DEF SavedRows
<1> HIDE DEF P
<1>5. DOMAIN P.rows \subseteq SavedRows /\ t.row \in DOMAIN P.rows
  BY <1>1, <1>3, <1>4
<1>6. ASSUME NEW e \in DOMAIN P.rows
      PROVE  /\ P.rows[e].activity_class = enrollments[e].activity_class
             /\ P.rows[e].status # "UNSAVED"
             /\ enrollments[e].activity_class \in ClassesToLock(t)
  <2>1. CASE e = t.row
    BY <1>1, <1>2, <1>3, <2>1
  <2>2. CASE e \in StaleOffers(t.class) \ {t.row}
    BY <1>2, <1>3, <1>4, <2>2
  <2> QED
    BY <1>3, <2>1, <2>2
<1>7. t.call # "reject_request"
  OBVIOUS
<1>8. Inside(t, P)
  BY <1>3, <1>5, <1>6, <1>7 DEF Inside
<1> QED
  BY <1>8 DEF P

LEMMA SweepFields ==
  ASSUME TypeOK, NEW t, t.class \in Class
  PROVE  LET P == Sweep(t)
         IN /\ DOMAIN P.rows = StaleOffers(t.class)
            /\ \A e \in StaleOffers(t.class) :
                 P.rows[e] = Cancelled(enrollments[e], "OFFER_EXPIRED")
            /\ P.new = {} /\ P.alerts = LapseAlert(t.class) /\ P.decisions = {}
<1>1. StaleOffers(t.class) \subseteq Id
  BY DEF StaleOffers, RowsOf
<1> QED
  BY <1>1 DEF Sweep, Saving, Swept

LEMMA CancelClassFields ==
  ASSUME TypeOK, NEW t, NEW ttl, NEW window, t.call = "cancel_class"
  PROVE  LET P == PlanOf(t, ttl, window)
             E == RowsOf(t.class, Active)
         IN /\ DOMAIN P.rows = E
            /\ \A e \in E : P.rows[e] = Cancelled(enrollments[e], "CLASS_CANCELLED")
            /\ P.new = {} /\ P.alerts = {} /\ P.decisions = {}
BY DEF PlanOf, Saving

LEMMA ManyInside ==
  ASSUME TypeOK, NEW t, Asked(t), t.call \in OfAClass, NEW E, E \subseteq RowsOf(t.class, Active),
         NEW reason \in CancelReason, NEW P, DOMAIN P.rows = E, P.new = {},
         \A e \in E : P.rows[e] = Cancelled(enrollments[e], reason)
  PROVE  Inside(t, P)
<1>1. t.row \notin Id /\ ClassesToLock(t) = {t.class} /\ t.call # "reject_request"
  BY DEF Asked, OfAClass, Registrations, Decisions, Services, ClassesToLock
<1>2. ASSUME NEW e \in E
      PROVE  /\ e \in SavedRows
             /\ enrollments[e].activity_class = t.class
             /\ P.rows[e].activity_class = enrollments[e].activity_class
             /\ P.rows[e].status = "CANCELLED"
  <2>1. e \in Id /\ enrollments[e].activity_class = t.class /\ enrollments[e].status # "UNSAVED"
    BY DEF RowsOf, Active
  <2>2. enrollments[e] \in Row
    BY <2>1 DEF TypeOK
  <2> QED
    BY <2>1, <2>2, CancelledRow DEF SavedRows
<1> QED
  BY <1>1, <1>2 DEF Inside

LEMMA RegistrationInside ==
  ASSUME TypeOK, NEW t, Asked(t), t.call \in Registrations
  PROVE  Inside(t, Registration(t))
<1> DEFINE P == Registration(t)
<1>1. /\ t.row \notin Id /\ t.child \in Child /\ t.class \in Class /\ now \in Nat
      /\ ClassesToLock(t) = {t.class} /\ t.call # "reject_request"
  BY DEF Asked, OfAClass, Registrations, Decisions, Services, ClassesToLock, TypeOK
<1>2. PICK st \in {"REQUESTED", "ENROLLED"} : P.new = {NewRow(t.child, t.class, st)}
  BY DEF Registration, Inserting, NoPlan
<1>3. DOMAIN P.rows = {}
  BY DEF Registration, Inserting, NoPlan
<1>4. NewRow(t.child, t.class, st).activity_class = t.class
      /\ NewRow(t.child, t.class, st).status = st
  BY <1>1, NewRowRow DEF Active
<1> HIDE DEF P
<1>5. Inside(t, P)
  BY <1>1, <1>2, <1>3, <1>4 DEF Inside
<1> QED
  BY <1>5 DEF P

LEMMA MoveFields ==
  ASSUME TypeOK, NEW t, Asked(t), t.call = "transfer"
  PROVE  LET r == enrollments[t.row]
             ended == [Cancelled(r, "TRANSFERRED") EXCEPT !.cancel_requested_at = Unset]
         IN /\ t.row \in SavedRows /\ r \in Row /\ t.class \in Class
            /\ ClassesToLock(t) = {r.activity_class, t.class}
            /\ DOMAIN Move(t).rows = {t.row} /\ Move(t).rows[t.row] = ended
            /\ ended \in Row /\ ended.status = "CANCELLED"
            /\ ended.activity_class = r.activity_class
            /\ Move(t).new = {NewRow(r.child, t.class, "ENROLLED")}
            /\ NewRow(r.child, t.class, "ENROLLED").status = "ENROLLED"
            /\ NewRow(r.child, t.class, "ENROLLED").activity_class = t.class
<1> DEFINE r == enrollments[t.row]
           ended == [Cancelled(r, "TRANSFERRED") EXCEPT !.cancel_requested_at = Unset]
<1>1. t.row \in SavedRows /\ t.class \in Class /\ now \in Nat
  BY DEF Asked, OfAClass, Registrations, Decisions, TypeOK
<1>2. r \in Row /\ r.child \in Child /\ r.activity_class \in Class
  BY <1>1 DEF TypeOK, SavedRows
<1>3. ClassesToLock(t) = {r.activity_class, t.class}
  BY DEF ClassesToLock, SourceClass
<1>4. /\ DOMAIN Move(t).rows = {t.row} /\ Move(t).rows[t.row] = ended
      /\ Move(t).new = {NewRow(r.child, t.class, "ENROLLED")}
  BY DEF Move
<1>5. ended \in Row /\ ended.status = "CANCELLED" /\ ended.activity_class = r.activity_class
  <2>1. "TRANSFERRED" \in CancelReason
    BY DEF CancelReason
  <2>2. PICK x : x = Cancelled(r, "TRANSFERRED")
    OBVIOUS
  <2>3. x \in Row /\ x.status = "CANCELLED" /\ x.activity_class = r.activity_class
    BY <1>2, <2>1, <2>2, CancelledRow
  <2>4. [x EXCEPT !.cancel_requested_at = Unset] \in Row
        /\ [x EXCEPT !.cancel_requested_at = Unset].status = "CANCELLED"
        /\ [x EXCEPT !.cancel_requested_at = Unset].activity_class = r.activity_class
    BY <2>3 DEF Row, Unset
  <2> QED
    BY <2>2, <2>4
<1>6. /\ NewRow(r.child, t.class, "ENROLLED").status = "ENROLLED"
      /\ NewRow(r.child, t.class, "ENROLLED").activity_class = t.class
  BY <1>1, <1>2, NewRowRow DEF Active
<1> QED
  BY <1>1, <1>2, <1>3, <1>4, <1>5, <1>6

LEMMA MoveInside ==
  ASSUME TypeOK, NEW t, Asked(t), t.call = "transfer"
  PROVE  Inside(t, Move(t))
<1>0. PICK P, x, y :
        /\ P = Move(t)
        /\ x = [Cancelled(enrollments[t.row], "TRANSFERRED") EXCEPT !.cancel_requested_at = Unset]
        /\ y = NewRow(enrollments[t.row].child, t.class, "ENROLLED")
  OBVIOUS
<1>1. /\ DOMAIN P.rows = {t.row} /\ P.rows[t.row] = x /\ P.new = {y}
      /\ x.status = "CANCELLED"
      /\ x.activity_class = enrollments[t.row].activity_class
      /\ y.status = "ENROLLED" /\ y.activity_class = t.class
  BY <1>0, MoveFields
<1>2. t.row \in SavedRows /\ ClassesToLock(t) = {enrollments[t.row].activity_class, t.class}
  BY MoveFields
<1>3. Inside(t, P)
  BY <1>1, <1>2 DEF Inside
<1> QED
  BY <1>0, <1>3

(* Most decisions save their row and tell the family. *)
LEMMA AnswerForm ==
  ASSUME TypeOK, NEW t, Asked(t), t.call \in Decisions \ {"approve_request", "offer_seat"},
         NEW ttl, NEW window, Accepted(t, window)
  PROVE  \E x, ev, A, P :
           /\ x \in Row
           /\ P = Answer(t, x, ev, A)
           /\ \/ PlanOf(t, ttl, window) = P
              \/ PlanOf(t, ttl, window) = [P EXCEPT !.news = <<>>]
           /\ x.status # "UNSAVED" /\ x.activity_class = enrollments[t.row].activity_class
           /\ t.call = "reject_request" =>
                enrollments[t.row].status = "REQUESTED" /\ x.status = "CANCELLED"
<1> DEFINE r == enrollments[t.row]
           Form(x) == /\ x \in Row
                      /\ x.status # "UNSAVED" /\ x.activity_class = r.activity_class
                      /\ t.call = "reject_request" => r.status = "REQUESTED" /\ x.status = "CANCELLED"
<1>1. t.row \in Id /\ r \in Row /\ now \in Nat /\ r.status # "UNSAVED"
  BY DEF Asked, Decisions, Registrations, OfAClass, SavedRows, SourceClass, TypeOK
<1>2. {"REQUEST_REJECTED", "OFFER_DECLINED", "ADMIN", "PARENT", "PARENT_REQUEST"} \subseteq CancelReason
  BY DEF CancelReason
<1>3. \A reason \in CancelReason :
        /\ Cancelled(r, reason) \in Row
        /\ Cancelled(r, reason).status = "CANCELLED"
        /\ Cancelled(r, reason).activity_class = r.activity_class
  BY <1>1, CancelledRow
<1>4. \A reason \in CancelReason :
        (t.call = "reject_request" => r.status = "REQUESTED") => Form(Cancelled(r, reason))
  BY <1>3
<1>5. SUFFICES \E x, ev, A, P :
        /\ Form(x)
        /\ P = Answer(t, x, ev, A)
        /\ \/ PlanOf(t, ttl, window) = P
           \/ PlanOf(t, ttl, window) = [P EXCEPT !.news = <<>>]
  OBVIOUS
<1>6. CASE t.call = "reject_request"
  <2>1. r.status = "REQUESTED"
    BY <1>6 DEF Accepted
  <2>2. PlanOf(t, ttl, window) = Answer(t, Cancelled(r, "REQUEST_REJECTED"), "REQUEST_REJECTED", {})
    BY <1>6 DEF PlanOf
  <2>3. Form(Cancelled(r, "REQUEST_REJECTED"))
    BY <1>2, <1>4, <2>1
  <2> QED
    BY <2>2, <2>3
<1>7. CASE t.call = "confirm_offer"
  <2>1. PICK x : x = [r EXCEPT !.status = "ENROLLED", !.promoted_at = now]
    OBVIOUS
  <2>2. PICK y : y = [r EXCEPT !.status = "ENROLLED"]
    OBVIOUS
  <2>3. y \in Row /\ y.status = "ENROLLED" /\ y.activity_class = r.activity_class
    BY <1>1, <2>2 DEF Row, Status, Active
  <2>4. x = [y EXCEPT !.promoted_at = now]
    BY <2>1, <2>2
  <2>5. Form(x)
    BY <1>1, <1>7, <2>3, <2>4 DEF Row
  <2>6. PlanOf(t, ttl, window) = Answer(t, x, "REGISTRATION_CONFIRMED", {})
    BY <1>7, <2>1 DEF PlanOf
  <2> QED
    BY <2>5, <2>6
<1>8. CASE t.call = "decline_offer"
  <2>0. PICK P : P = Answer(t, Cancelled(r, "OFFER_DECLINED"), NoNews, {t.class})
    OBVIOUS
  <2>1. PlanOf(t, ttl, window) = [P EXCEPT !.news = <<>>]
    BY <1>8, <2>0 DEF PlanOf
  <2>2. Form(Cancelled(r, "OFFER_DECLINED"))
    BY <1>2, <1>4, <1>8
  <2> HIDE DEF Form
  <2> WITNESS Cancelled(r, "OFFER_DECLINED"), NoNews, {t.class}, P
  <2> QED
    BY <2>0, <2>1, <2>2
<1>9. ASSUME NEW reason \in CancelReason, t.call # "reject_request",
             PlanOf(t, ttl, window) = Cancellation(t, reason)
      PROVE  \E x, ev, A, P :
               /\ Form(x)
               /\ P = Answer(t, x, ev, A)
               /\ \/ PlanOf(t, ttl, window) = P
                  \/ PlanOf(t, ttl, window) = [P EXCEPT !.news = <<>>]
  <2>1. PlanOf(t, ttl, window) = Answer(t, Cancelled(r, reason), CancelEvent(reason), FreedSeat(r))
    BY <1>9 DEF Cancellation
  <2>2. Form(Cancelled(r, reason))
    BY <1>4, <1>9
  <2> QED
    BY <2>1, <2>2
<1>10. CASE t.call = "cancel"
  BY <1>2, <1>9, <1>10 DEF PlanOf
<1>11. CASE t.call = "confirm_cancellation"
  BY <1>2, <1>9, <1>11 DEF PlanOf
<1>12. ASSUME NEW at \in Nat, t.call # "reject_request"
       PROVE  Form([r EXCEPT !.cancel_requested_at = at])
  BY <1>1, <1>12 DEF Row
<1>13. CASE t.call = "parent_cancel"
  <2>1. CASE CanWithdraw(r, window)
    BY <1>2, <1>9, <1>13, <2>1 DEF PlanOf
  <2>2. CASE ~CanWithdraw(r, window)
    <3>1. PlanOf(t, ttl, window) =
            Answer(t, [r EXCEPT !.cancel_requested_at = now], "CANCELLATION_REQUESTED", {})
      BY <1>13, <2>2 DEF PlanOf, CancellationRequest
    <3>2. Form([r EXCEPT !.cancel_requested_at = now])
      BY <1>1, <1>12, <1>13
    <3> QED
      BY <3>1, <3>2
  <2> QED
    BY <2>1, <2>2
<1>14. CASE t.call = "decline_cancellation"
  <2>1. PlanOf(t, ttl, window) =
          Answer(t, [r EXCEPT !.cancel_requested_at = Unset], "CANCELLATION_DECLINED", {})
    BY <1>14 DEF PlanOf
  <2>2. Form([r EXCEPT !.cancel_requested_at = Unset])
    BY <1>12, <1>14 DEF Unset
  <2> QED
    BY <2>1, <2>2
<1> QED
  BY <1>6, <1>7, <1>8, <1>10, <1>11, <1>13, <1>14 DEF Decisions, Services, Registrations, OfAClass

LEMMA PlanInside ==
  ASSUME TypeOK, NEW t, Asked(t), NEW ttl \in OfferTtls, NEW window, Accepted(t, window)
  PROVE  Inside(t, PlanOf(t, ttl, window))
<1> DEFINE r == enrollments[t.row]
<1>1. CASE t.call \in Registrations
  BY <1>1, RegistrationInside DEF PlanOf, Registrations
<1>2. CASE t.call = "transfer"
  BY <1>2, MoveInside DEF PlanOf
<1>3. CASE t.call = "expire_offers"
  <2>1. PlanOf(t, ttl, window) = Sweep(t) /\ t.class \in Class
    BY <1>3 DEF PlanOf, Asked
  <2>2. StaleOffers(t.class) \subseteq RowsOf(t.class, Active)
    BY DEF StaleOffers, RowsOf, Active
  <2>3. "OFFER_EXPIRED" \in CancelReason
    BY DEF CancelReason
  <2> QED
    BY <1>3, <2>1, <2>2, <2>3, SweepFields, ManyInside DEF OfAClass
<1>4. CASE t.call = "cancel_class"
  <2>1. "CLASS_CANCELLED" \in CancelReason /\ t.class \in Class
    BY DEF CancelReason, Asked
  <2> QED
    BY <1>4, <2>1, CancelClassFields, ManyInside DEF OfAClass
<1>5. ASSUME t.call \in Decisions
      PROVE  /\ t.row \in SavedRows /\ t.row \in Id /\ r \in Row
             /\ t.class \in Class /\ t.class = r.activity_class
             /\ now \in Nat
  BY <1>5 DEF Asked, Decisions, Registrations, OfAClass, SavedRows, SourceClass, TypeOK
<1>6. CASE t.call \in {"approve_request", "offer_seat"}
  <2>0. t.call \in Decisions
    BY <1>6 DEF Decisions, Services, Registrations, OfAClass
  <2>1. PICK st, x, ev, D :
          /\ st \in {"ENROLLED", "WAITLISTED", "OFFERED"} /\ x \in Row
          /\ x.status = st /\ x.activity_class = r.activity_class
          /\ PlanOf(t, ttl, window) = AfterSweep(t, x, ev, D)
    <3>1. \A st \in {"ENROLLED", "WAITLISTED"} :
            /\ [r EXCEPT !.status = st] \in Row
            /\ [r EXCEPT !.status = st].status = st
            /\ [r EXCEPT !.status = st].activity_class = r.activity_class
      BY <1>5, <2>0 DEF Row, Status, Active
    <3>2. [r EXCEPT !.status = "OFFERED", !.offer_expires_at = now + ttl] \in Row
          /\ [r EXCEPT !.status = "OFFERED", !.offer_expires_at = now + ttl].status = "OFFERED"
          /\ [r EXCEPT !.status = "OFFERED", !.offer_expires_at = now + ttl].activity_class
               = r.activity_class
      <4>1. now + ttl \in Nat
        BY <1>5, <2>0, SettingsAssumption
      <4>2. PICK x : x = [r EXCEPT !.status = "OFFERED"]
        OBVIOUS
      <4>3. x \in Row /\ x.status = "OFFERED" /\ x.activity_class = r.activity_class
        BY <1>5, <2>0, <4>2 DEF Row, Status, Active
      <4>4. [r EXCEPT !.status = "OFFERED", !.offer_expires_at = now + ttl]
              = [x EXCEPT !.offer_expires_at = now + ttl]
        BY <4>2
      <4>5. PICK y : y = [x EXCEPT !.offer_expires_at = now + ttl]
        OBVIOUS
      <4>6. y \in Row /\ y.status = "OFFERED" /\ y.activity_class = r.activity_class
        BY <4>1, <4>3, <4>5 DEF Row
      <4> QED
        BY <4>4, <4>5, <4>6
    <3>3. CASE t.call = "approve_request"
      BY <3>1, <3>3 DEF PlanOf, Approval
    <3>4. CASE t.call = "offer_seat"
      BY <3>2, <3>4 DEF PlanOf, Offer
    <3> QED
      BY <1>6, <3>3, <3>4
  <2> QED
    BY <1>6, <2>1, AfterSweepInside
<1>7. CASE t.call \in Decisions \ {"approve_request", "offer_seat"}
  <2>1. PICK x, ev, A, P :
          /\ x \in Row
          /\ P = Answer(t, x, ev, A)
          /\ \/ PlanOf(t, ttl, window) = P
             \/ PlanOf(t, ttl, window) = [P EXCEPT !.news = <<>>]
          /\ x.status # "UNSAVED" /\ x.activity_class = r.activity_class
          /\ t.call = "reject_request" => r.status = "REQUESTED" /\ x.status = "CANCELLED"
    BY <1>7, AnswerForm
  <2>2. /\ DOMAIN P.rows = {t.row} /\ P.rows[t.row] = x /\ P.new = {}
        /\ [P EXCEPT !.news = <<>>].rows = P.rows /\ [P EXCEPT !.news = <<>>].new = P.new
    <3>0. t.row \in Id
      BY <1>5, <1>7
    <3>1. DOMAIN P.rows = {t.row} /\ P.rows[t.row] = x /\ P.new = {}
      BY <2>1, <3>0, AnswerFields
    <3>2. [P EXCEPT !.news = <<>>].rows = P.rows /\ [P EXCEPT !.news = <<>>].new = P.new
      BY <2>1 DEF Answer, Saving
    <3> QED
      BY <3>1, <3>2
  <2>3. PICK Q : Q = PlanOf(t, ttl, window) /\ DOMAIN Q.rows = {t.row} /\ Q.rows[t.row] = x /\ Q.new = {}
    BY <2>1, <2>2
  <2>4. Inside(t, Q)
    BY <1>7, <2>1, <2>3, AnswerInside
  <2> QED
    BY <2>3, <2>4
<1> QED
  BY <1>1, <1>2, <1>3, <1>4, <1>6, <1>7 DEF Asked, OfAClass

-----------------------------------------------------------------------------
(* Plans do not depend on the news they overwrite. *)

AnswerOf(row, x, ev, A) ==
  [rows |-> [e \in {row} |-> x], new |-> {},
   news |-> [p \in Pairs({row}) |-> ev], alerts |-> A, decisions |-> {}]

AnswerNormal ==
  \A t, x, ev, A : t.row \in SavedRows => Answer(t, x, ev, A) = AnswerOf(t.row, x, ev, A)

LEMMA AnswerPlan == TypeOK => AnswerNormal
<1> SUFFICES ASSUME TypeOK, NEW t, NEW x, NEW ev, NEW A, t.row \in SavedRows
             PROVE  Answer(t, x, ev, A) = AnswerOf(t.row, x, ev, A)
  BY DEF AnswerNormal
<1>1. [e \in {t.row} |-> [enrollments EXCEPT ![t.row] = x][e]] = [e \in {t.row} |-> x]
  BY DEF TypeOK, SavedRows
<1>2. \A p \in Pairs({t.row}) : Told(news, {t.row}, ev)[p] = ev
  BY DEF Told, Pairs, TypeOK, SavedRows
<1>3. [p \in Pairs({t.row}) |-> Told(news, {t.row}, ev)[p]] = [p \in Pairs({t.row}) |-> ev]
  BY <1>2
<1> QED
  BY <1>1, <1>3 DEF Answer, AnswerOf, Saving

LEMMA AnswerPlanNext == TypeOK' => AnswerNormal'
BY AnswerPlan, PTL

SweptRow(e, row, x) == IF e = row THEN x ELSE Cancelled(enrollments[e], "OFFER_EXPIRED")
SweptPair(p, row, ev) == IF p \in Pairs({row}) THEN ev ELSE "OFFER_EXPIRED"

AfterSweepOf(E, row, x, ev, A, D) ==
  [rows |-> [e \in E |-> SweptRow(e, row, x)], new |-> {},
   news |-> [p \in Pairs(E) |-> SweptPair(p, row, ev)], alerts |-> A, decisions |-> D]

AfterSweepNormal ==
  \A t, x, ev, D : t.row \in SavedRows /\ t.class \in Class =>
    AfterSweep(t, x, ev, D) =
      AfterSweepOf(StaleOffers(t.class) \cup {t.row}, t.row, x, ev, LapseAlert(t.class), D)

LEMMA PairsTyped ==
  ASSUME TypeOK, NEW E, E \subseteq SavedRows
  PROVE  Pairs(E) \subseteq Child \X Class
BY DEF Pairs, TypeOK, SavedRows

LEMMA StaleSaved ==
  ASSUME NEW c
  PROVE  StaleOffers(c) \subseteq SavedRows
BY DEF StaleOffers, RowsOf, SavedRows

LEMMA AfterSweepPlan == TypeOK => AfterSweepNormal
<1> SUFFICES ASSUME TypeOK, NEW t, NEW x, NEW ev, NEW D, t.row \in SavedRows, t.class \in Class
             PROVE  AfterSweep(t, x, ev, D) =
                      AfterSweepOf(StaleOffers(t.class) \cup {t.row}, t.row, x, ev,
                                   LapseAlert(t.class), D)
  BY DEF AfterSweepNormal
<1> DEFINE c == t.class
           E == StaleOffers(c) \cup {t.row}
           n == Told(SweptNews(c), {t.row}, ev)
<1>1. E \subseteq SavedRows /\ E \subseteq Id
  BY StaleSaved DEF SavedRows
<1>2. ASSUME NEW e \in E PROVE [Swept(c) EXCEPT ![t.row] = x][e] = SweptRow(e, t.row, x)
  BY <1>1, <1>2 DEF Swept, SweptRow
<1>3. ASSUME NEW p \in Pairs(E) PROVE n[p] = SweptPair(p, t.row, ev)
  <2>1. p \in Child \X Class
    BY <1>1, PairsTyped
  <2>2. n[p] = IF p \in Pairs({t.row}) THEN ev ELSE SweptNews(c)[p]
    BY <2>1 DEF Told, Pairs
  <2>3. p \notin Pairs({t.row}) => SweptNews(c)[p] = "OFFER_EXPIRED"
    BY <2>1 DEF SweptNews, Told, Pairs
  <2> QED
    BY <2>2, <2>3 DEF SweptPair
<1>4. [e \in E |-> [Swept(c) EXCEPT ![t.row] = x][e]] = [e \in E |-> SweptRow(e, t.row, x)]
  BY <1>2
<1>5. [p \in Pairs(E) |-> n[p]] = [p \in Pairs(E) |-> SweptPair(p, t.row, ev)]
  BY <1>3
<1> QED
  BY <1>4, <1>5 DEF AfterSweep, AfterSweepOf, Saving

LEMMA AfterSweepPlanNext == TypeOK' => AfterSweepNormal'
BY AfterSweepPlan, PTL

EndedBy(event, reason, E, A) ==
  [rows |-> [e \in E |-> Cancelled(enrollments[e], reason)], new |-> {},
   news |-> [p \in Pairs(E) |-> event], alerts |-> A, decisions |-> {}]

SweepNormal ==
  \A t : t.class \in Class =>
    Sweep(t) = EndedBy("OFFER_EXPIRED", "OFFER_EXPIRED", StaleOffers(t.class), LapseAlert(t.class))

LEMMA ToldPairs ==
  ASSUME TypeOK, NEW E, E \subseteq SavedRows, NEW ev
  PROVE  [p \in Pairs(E) |-> Told(news, E, ev)[p]] = [p \in Pairs(E) |-> ev]
<1>1. ASSUME NEW p \in Pairs(E) PROVE Told(news, E, ev)[p] = ev
  <2>1. p \in Child \X Class
    BY PairsTyped
  <2> QED
    BY <2>1 DEF Told, Pairs
<1> QED
  BY <1>1

LEMMA SweepPlan == TypeOK => SweepNormal
<1> SUFFICES ASSUME TypeOK, NEW t, t.class \in Class
             PROVE  Sweep(t) = EndedBy("OFFER_EXPIRED", "OFFER_EXPIRED", StaleOffers(t.class),
                                       LapseAlert(t.class))
  BY DEF SweepNormal
<1> DEFINE E == StaleOffers(t.class)
<1>1. E \subseteq Id /\ E \subseteq SavedRows
  BY StaleSaved DEF SavedRows
<1>2. [e \in E |-> Swept(t.class)[e]] = [e \in E |-> Cancelled(enrollments[e], "OFFER_EXPIRED")]
  BY <1>1 DEF Swept
<1>3. [p \in Pairs(E) |-> SweptNews(t.class)[p]] = [p \in Pairs(E) |-> "OFFER_EXPIRED"]
  BY <1>1, ToldPairs DEF SweptNews
<1>4. Sweep(t) = [rows |-> [e \in E |-> Cancelled(enrollments[e], "OFFER_EXPIRED")], new |-> {},
                  news |-> [p \in Pairs(E) |-> "OFFER_EXPIRED"],
                  alerts |-> LapseAlert(t.class), decisions |-> {}]
  BY <1>2, <1>3 DEF Sweep, Saving
<1> QED
  BY <1>4 DEF EndedBy

LEMMA SweepPlanNext == TypeOK' => SweepNormal'
BY SweepPlan, PTL

CancelClassNormal ==
  \A t, ttl, window : t.call = "cancel_class" =>
    PlanOf(t, ttl, window) = EndedBy("CLASS_CANCELLED", "CLASS_CANCELLED", RowsOf(t.class, Active), {})

LEMMA CancelClassPlan == TypeOK => CancelClassNormal
<1> SUFFICES ASSUME TypeOK, NEW t, NEW ttl, NEW window, t.call = "cancel_class"
             PROVE  PlanOf(t, ttl, window) =
                      EndedBy("CLASS_CANCELLED", "CLASS_CANCELLED", RowsOf(t.class, Active), {})
  BY DEF CancelClassNormal
<1> DEFINE E == RowsOf(t.class, Active)
<1>1. E \subseteq SavedRows
  BY DEF RowsOf, SavedRows, Active
<1>2. PlanOf(t, ttl, window) = Saving(E, [e \in E |-> Cancelled(enrollments[e], "CLASS_CANCELLED")],
                                      Told(news, E, "CLASS_CANCELLED"), {}, {})
  BY DEF PlanOf
<1>3. [p \in Pairs(E) |-> Told(news, E, "CLASS_CANCELLED")[p]] = [p \in Pairs(E) |-> "CLASS_CANCELLED"]
  BY <1>1, ToldPairs
<1>4. [e \in E |-> [f \in E |-> Cancelled(enrollments[f], "CLASS_CANCELLED")][e]]
        = [e \in E |-> Cancelled(enrollments[e], "CLASS_CANCELLED")]
  OBVIOUS
<1> QED
  BY <1>2, <1>3, <1>4 DEF Saving, EndedBy

LEMMA CancelClassPlanNext == TypeOK' => CancelClassNormal'
BY CancelClassPlan, PTL

-----------------------------------------------------------------------------
(* What others do to what a transaction has read *)

(* A row that a call holding the class c has read of it: left alone, or    *)
(* rejected, which needs no lock on the class, or not in c.                *)
SameFor(c, e) ==
  \/ enrollments'[e] = enrollments[e]
  \/ enrollments[e].status = "REQUESTED" /\ enrollments'[e].status = "CANCELLED"
  \/ /\ enrollments[e].activity_class = c => enrollments[e].status = "UNSAVED"
     /\ enrollments'[e].activity_class = c => enrollments'[e].status = "UNSAVED"

ClassSame(c) ==
  /\ class_status'[c] = class_status[c]
  /\ term_active'[c] = term_active[c]
  /\ capacity'[c] = capacity[c]
  /\ \A e \in Id : SameFor(c, e)

(* A step that leaves alone what t has read and is going to write. *)
Untouched(t) ==
  /\ now' = now
  /\ t.row \in Id => enrollments'[t.row] = enrollments[t.row]
  /\ \A e \in DOMAIN t.plan.rows : enrollments'[e] = enrollments[e]
  /\ \A c \in ClassesToLock(t) : ClassSame(c)

LEMMA SameRows ==
  ASSUME NEW c, \A e \in Id : SameFor(c, e),
         NEW S, S \subseteq {"ENROLLED", "WAITLISTED", "OFFERED"}
  PROVE  /\ RowsOf(c, S)' = RowsOf(c, S)
         /\ \A e \in RowsOf(c, S) : enrollments'[e] = enrollments[e]
         /\ RowsOf(c, Active)' \subseteq RowsOf(c, Active)
BY DEF SameFor, RowsOf, Active

LEMMA SameCounts ==
  ASSUME NEW c, ClassSame(c), now' = now
  PROVE  /\ StaleOffers(c)' = StaleOffers(c)
         /\ \A e \in StaleOffers(c) : enrollments'[e] = enrollments[e]
         /\ HasFreeSeat(c)' <=> HasFreeSeat(c)
         /\ SeatFreedAlert(c)' = SeatFreedAlert(c)
         /\ LapseAlert(c)' = LapseAlert(c)
         /\ \A ch : Registered(ch, c)' => Registered(ch, c)
         /\ Open(c)' <=> Open(c)
<1>1. /\ RowsOf(c, {"OFFERED"})' = RowsOf(c, {"OFFERED"})
      /\ \A e \in RowsOf(c, {"OFFERED"}) : enrollments'[e] = enrollments[e]
  BY SameRows DEF ClassSame
<1>2. RowsOf(c, {"ENROLLED"})' = RowsOf(c, {"ENROLLED"})
  BY SameRows DEF ClassSame
<1>3. RowsOf(c, {"WAITLISTED"})' = RowsOf(c, {"WAITLISTED"})
  BY SameRows DEF ClassSame
<1>4. StaleOffers(c)' = StaleOffers(c) /\ \A e \in StaleOffers(c) : enrollments'[e] = enrollments[e]
  BY <1>1 DEF StaleOffers
<1>5. SeatHolders(c)' = SeatHolders(c)
  BY <1>1, <1>2 DEF SeatHolders, LiveOffer
<1>6. HasFreeSeat(c)' <=> HasFreeSeat(c)
  BY <1>5 DEF HasFreeSeat, SeatsTaken, ClassSame
<1>7. SeatFreedAlert(c)' = SeatFreedAlert(c)
  BY <1>3 DEF SeatFreedAlert, Waitlist
<1>8. LapseAlert(c)' = LapseAlert(c)
  BY <1>4 DEF LapseAlert
<1>9. ASSUME NEW ch, Registered(ch, c)' PROVE Registered(ch, c)
  <2>1. PICK e \in RowsOf(c, Active)' : enrollments'[e].child = ch
    BY <1>9 DEF Registered
  <2>2. e \in Id /\ enrollments'[e].activity_class = c /\ enrollments'[e].status \in Active
    BY DEF RowsOf
  <2>3. enrollments'[e] = enrollments[e]
    BY <2>2 DEF ClassSame, SameFor, Active
  <2> QED
    BY <2>1, <2>2, <2>3 DEF Registered, RowsOf
<1>10. Open(c)' <=> Open(c)
  BY DEF Open, ClassSame
<1> QED
  BY <1>4, <1>6, <1>7, <1>8, <1>9, <1>10

LEMMA SamePairs ==
  ASSUME NEW E, \A e \in E : enrollments'[e] = enrollments[e]
  PROVE  Pairs(E)' = Pairs(E)
BY DEF Pairs

LEMMA SameAnswer ==
  ASSUME TypeOK, TypeOK', NEW t, t.row \in SavedRows, enrollments'[t.row] = enrollments[t.row],
         NEW x, NEW ev, NEW A
  PROVE  Answer(t, x, ev, A)' = Answer(t, x, ev, A)
<1>1. Pairs({t.row})' = Pairs({t.row})
  BY SamePairs
<1>2. t.row \in SavedRows'
  BY DEF SavedRows
<1>3. AnswerNormal /\ AnswerNormal'
  BY AnswerPlan, AnswerPlanNext
<1>4. Answer(t, x, ev, A) = AnswerOf(t.row, x, ev, A)
  BY <1>3 DEF AnswerNormal
<1>5. Answer(t, x, ev, A)' = AnswerOf(t.row, x, ev, A)'
  BY <1>2, <1>3 DEF AnswerNormal
<1>6. AnswerOf(t.row, x, ev, A)' = AnswerOf(t.row, x, ev, A)
  BY <1>1 DEF AnswerOf
<1> QED
  BY <1>4, <1>5, <1>6

LEMMA SameAfterSweep ==
  ASSUME TypeOK, TypeOK', NEW t, t.row \in SavedRows, enrollments'[t.row] = enrollments[t.row],
         t.class \in Class, ClassSame(t.class), now' = now,
         NEW x, NEW ev, NEW D
  PROVE  AfterSweep(t, x, ev, D)' = AfterSweep(t, x, ev, D)
<1> DEFINE c == t.class
<1>0. /\ StaleOffers(c)' = StaleOffers(c) /\ LapseAlert(c)' = LapseAlert(c)
      /\ \A e \in StaleOffers(c) : enrollments'[e] = enrollments[e]
  BY SameCounts
<1>1. PICK E : E = StaleOffers(c) \cup {t.row}
  OBVIOUS
<1>2. \A e \in E : enrollments'[e] = enrollments[e]
  BY <1>0, <1>1
<1>3. Pairs(E)' = Pairs(E) /\ Pairs({t.row})' = Pairs({t.row})
  BY <1>2, SamePairs
<1>4. t.row \in SavedRows'
  BY DEF SavedRows
<1>5. AfterSweepNormal /\ AfterSweepNormal'
  BY AfterSweepPlan, AfterSweepPlanNext
<1>6. PICK L : L = LapseAlert(c) /\ L = LapseAlert(c)'
  BY <1>0
<1>7. AfterSweep(t, x, ev, D) = AfterSweepOf(E, t.row, x, ev, L, D)
  BY <1>1, <1>5, <1>6 DEF AfterSweepNormal
<1>8. AfterSweep(t, x, ev, D)' = AfterSweepOf(E, t.row, x, ev, L, D)'
  BY <1>0, <1>1, <1>4, <1>5, <1>6 DEF AfterSweepNormal
<1>9. [e \in E |-> SweptRow(e, t.row, x)'] = [e \in E |-> SweptRow(e, t.row, x)]
  BY <1>2 DEF SweptRow
<1>10. [p \in Pairs(E)' |-> SweptPair(p, t.row, ev)'] = [p \in Pairs(E) |-> SweptPair(p, t.row, ev)]
  BY <1>3 DEF SweptPair
<1>11. AfterSweepOf(E, t.row, x, ev, L, D)' = AfterSweepOf(E, t.row, x, ev, L, D)
  BY <1>9, <1>10 DEF AfterSweepOf
<1> QED
  BY <1>7, <1>8, <1>11

LEMMA SameEnded ==
  ASSUME NEW E, \A e \in E : enrollments'[e] = enrollments[e], NEW event, NEW reason, NEW A
  PROVE  EndedBy(event, reason, E, A)' = EndedBy(event, reason, E, A)
<1>1. Pairs(E)' = Pairs(E)
  BY SamePairs
<1>2. [e \in E |-> Cancelled(enrollments'[e], reason)] = [e \in E |-> Cancelled(enrollments[e], reason)]
  OBVIOUS
<1> QED
  BY <1>1, <1>2 DEF EndedBy

(* A transaction that read again would decide and write the same. *)
SameDecision(t, ttl, window) ==
  /\ Accepted(t, window)'
  /\ PlanOf(t, ttl, window)' = PlanOf(t, ttl, window)

LEMMA SameRegistration ==
  ASSUME TypeOK, TypeOK', NEW t, Asked(t), t.call \in Registrations, NEW ttl, NEW window,
         Accepted(t, window), Untouched(t)
  PROVE  SameDecision(t, ttl, window)
<1>1. t.class \in ClassesToLock(t)
  BY DEF ClassesToLock, Registrations
<1>2. /\ \A ch : Registered(ch, t.class)' => Registered(ch, t.class)
      /\ Open(t.class)' <=> Open(t.class)
  BY <1>1, SameCounts DEF Untouched
<1>3. Accepted(t, window)'
  BY <1>2 DEF Accepted, Registrations
<1>4. \A st : NewRow(t.child, t.class, st)' = NewRow(t.child, t.class, st)
  BY DEF NewRow, Untouched
<1>5. ASSUME NEW st, NEW ev, NEW D
      PROVE  Inserting(t.child, t.class, st, ev, D)' = Inserting(t.child, t.class, st, ev, D)
  <2>1. NewRow(t.child, t.class, st)' = NewRow(t.child, t.class, st)
    BY <1>4
  <2> QED
    BY <2>1 DEF Inserting
<1>6. Registration(t)' = Registration(t)
  BY <1>5 DEF Registration
<1> QED
  BY <1>3, <1>6 DEF SameDecision, PlanOf, Registrations

LEMMA SameMove ==
  ASSUME TypeOK, TypeOK', NEW t, Asked(t), t.call = "transfer", NEW ttl, NEW window,
         Accepted(t, window), Untouched(t)
  PROVE  SameDecision(t, ttl, window)
<1>1. PICK r : r = enrollments[t.row] /\ enrollments'[t.row] = r
  BY DEF Untouched, Asked, Decisions, Registrations, OfAClass, SavedRows
<1>2. ClassesToLock(t) = {r.activity_class, t.class}
  BY <1>1 DEF ClassesToLock, SourceClass
<1>3. /\ \A ch : Registered(ch, t.class)' => Registered(ch, t.class)
      /\ Open(t.class)' <=> Open(t.class)
      /\ SeatFreedAlert(r.activity_class)' = SeatFreedAlert(r.activity_class)
  BY <1>2, SameCounts DEF Untouched
<1>4. Accepted(t, window)'
  BY <1>1, <1>3 DEF Accepted
<1>5. NewRow(r.child, t.class, "ENROLLED")' = NewRow(r.child, t.class, "ENROLLED")
  BY DEF NewRow, Untouched
<1>6. FreedSeat(r)' = FreedSeat(r)
  BY <1>3 DEF FreedSeat
<1>7. Move(t)' = Move(t)
  BY <1>1, <1>5, <1>6 DEF Move
<1> QED
  BY <1>4, <1>7 DEF SameDecision, PlanOf

LEMMA SameSweeping ==
  ASSUME TypeOK, TypeOK', NEW t, Asked(t), t.call \in {"approve_request", "offer_seat"},
         NEW ttl, NEW window, Accepted(t, window), Untouched(t)
  PROVE  SameDecision(t, ttl, window)
<1>1. t.call \in Decisions /\ t.call # "transfer"
  BY DEF Decisions, Services, Registrations, OfAClass
<1>2. t.row \in SavedRows /\ t.class \in Class /\ t.class = enrollments[t.row].activity_class
  BY <1>1 DEF Asked, Decisions, Registrations, OfAClass, SourceClass
<1>3. PICK r : r = enrollments[t.row] /\ enrollments'[t.row] = r
  BY <1>2 DEF Untouched, SavedRows
<1>4. ClassSame(t.class) /\ now' = now
  BY DEF ClassesToLock, Untouched
<1>5. (HasFreeSeat(t.class)' <=> HasFreeSeat(t.class)) /\ (Open(t.class)' <=> Open(t.class))
  BY <1>4, SameCounts
<1>6. Accepted(t, window)'
  BY <1>3, <1>5 DEF Accepted
<1>7. \A x, ev, D : AfterSweep(t, x, ev, D)' = AfterSweep(t, x, ev, D)
  BY <1>2, <1>3, <1>4, SameAfterSweep
<1>8. PICK nw : nw = now /\ now' = nw
  BY <1>4
<1>9. CASE t.call = "approve_request"
  BY <1>3, <1>5, <1>6, <1>7, <1>9 DEF SameDecision, PlanOf, Approval
<1>10. CASE t.call = "offer_seat"
  BY <1>3, <1>6, <1>7, <1>8, <1>10 DEF SameDecision, PlanOf, Offer
<1> QED
  BY <1>9, <1>10

LEMMA SameAnswering ==
  ASSUME TypeOK, TypeOK', NEW t, Asked(t),
         t.call \in Decisions \ {"approve_request", "offer_seat"},
         NEW ttl, NEW window, Accepted(t, window), Untouched(t)
  PROVE  SameDecision(t, ttl, window)
<1>1. t.row \in SavedRows /\ t.class \in Class /\ t.class = enrollments[t.row].activity_class
  BY DEF Asked, Decisions, Registrations, OfAClass, SourceClass
<1>2. PICK r : r = enrollments[t.row] /\ enrollments'[t.row] = r
  BY <1>1 DEF Untouched, SavedRows
<1>3. PICK nw : nw = now /\ now' = nw
  BY DEF Untouched
<1>4. \A x, ev, A : Answer(t, x, ev, A)' = Answer(t, x, ev, A)
  BY <1>1, <1>2, SameAnswer
<1>5. CASE t.call = "reject_request"
  BY <1>2, <1>4, <1>5 DEF SameDecision, PlanOf, Accepted
<1>6. t.call # "reject_request" => ClassSame(t.class) /\ now' = now
  BY <1>3 DEF ClassesToLock, Untouched, Decisions
<1>7. t.call # "reject_request" =>
        /\ SeatFreedAlert(t.class)' = SeatFreedAlert(t.class)
        /\ Open(t.class)' <=> Open(t.class)
  BY <1>6, SameCounts
<1>8. t.call # "reject_request" => FreedSeat(r)' = FreedSeat(r)
  BY <1>1, <1>2, <1>7 DEF FreedSeat
<1>9. CanWithdraw(r, window)' <=> CanWithdraw(r, window)
  BY <1>3 DEF CanWithdraw
<1>10. CASE t.call = "confirm_offer"
  BY <1>2, <1>3, <1>4, <1>7, <1>10 DEF SameDecision, PlanOf, Accepted
<1>11. CASE t.call = "decline_offer"
  BY <1>2, <1>4, <1>11 DEF SameDecision, PlanOf, Accepted
<1>12. \A reason : t.call # "reject_request" => Cancellation(t, reason)' = Cancellation(t, reason)
  BY <1>2, <1>4, <1>8 DEF Cancellation
<1>13. CASE t.call = "cancel"
  BY <1>2, <1>12, <1>13 DEF SameDecision, PlanOf, Accepted
<1>14. CASE t.call = "parent_cancel"
  <2>1. CancellationRequest(t)' = CancellationRequest(t)
    BY <1>2, <1>3, <1>4 DEF CancellationRequest
  <2>2. Accepted(t, window)'
    BY <1>2, <1>9, <1>14 DEF Accepted
  <2> QED
    BY <1>2, <1>9, <1>12, <1>14, <2>1, <2>2 DEF SameDecision, PlanOf
<1>15. CASE t.call = "confirm_cancellation"
  BY <1>2, <1>12, <1>15 DEF SameDecision, PlanOf, Accepted, CancellationRequested
<1>16. CASE t.call = "decline_cancellation"
  BY <1>2, <1>4, <1>16 DEF SameDecision, PlanOf, Accepted, CancellationRequested
<1> QED
  BY <1>5, <1>10, <1>11, <1>13, <1>14, <1>15, <1>16
     DEF Decisions, Services, Registrations, OfAClass

LEMMA SameOfAClass ==
  ASSUME TypeOK, TypeOK', NEW t, Asked(t), t.call \in OfAClass, NEW ttl, NEW window,
         Accepted(t, window), t.plan = PlanOf(t, ttl, window), Untouched(t)
  PROVE  SameDecision(t, ttl, window)
<1>1. ClassSame(t.class) /\ now' = now /\ t.class \in Class
  BY DEF ClassesToLock, Untouched, OfAClass, Asked
<1>2. CASE t.call = "expire_offers"
  <2>1. PICK E, L : /\ E = StaleOffers(t.class) /\ E = StaleOffers(t.class)'
                    /\ L = LapseAlert(t.class) /\ L = LapseAlert(t.class)'
                    /\ \A e \in E : enrollments'[e] = enrollments[e]
    BY <1>1, SameCounts
  <2>2. Sweep(t) = EndedBy("OFFER_EXPIRED", "OFFER_EXPIRED", E, L)
    BY <1>1, <2>1, SweepPlan DEF SweepNormal
  <2>3. Sweep(t)' = EndedBy("OFFER_EXPIRED", "OFFER_EXPIRED", E, L)'
    BY <1>1, <2>1, SweepPlanNext DEF SweepNormal
  <2>4. Sweep(t)' = Sweep(t)
    BY <2>1, <2>2, <2>3, SameEnded
  <2> QED
    BY <1>2, <2>4 DEF SameDecision, PlanOf, Accepted
<1>3. CASE t.call = "cancel_class"
  <2>1. PICK E : E = RowsOf(t.class, Active)
    OBVIOUS
  <2>2. PlanOf(t, ttl, window) = EndedBy("CLASS_CANCELLED", "CLASS_CANCELLED", E, {})
    BY <1>3, <2>1, CancelClassPlan DEF CancelClassNormal
  <2>3. \A e \in E : enrollments'[e] = enrollments[e]
    BY <2>2 DEF EndedBy, Untouched
  <2>4. RowsOf(t.class, Active)' = E
    BY <1>1, <2>1, <2>3 DEF RowsOf, ClassSame, SameFor, Active
  <2>5. PlanOf(t, ttl, window)' = EndedBy("CLASS_CANCELLED", "CLASS_CANCELLED", E, {})'
    BY <1>3, <2>4, CancelClassPlanNext DEF CancelClassNormal
  <2>6. PlanOf(t, ttl, window)' = PlanOf(t, ttl, window)
    BY <2>2, <2>3, <2>5, SameEnded
  <2> QED
    BY <1>1, <1>3, <2>6 DEF SameDecision, Accepted, ClassSame
<1> QED
  BY <1>2, <1>3 DEF OfAClass

LEMMA StillCurrent ==
  ASSUME TypeOK, TypeOK', NEW t, Asked(t), Current(t), Untouched(t)
  PROVE  Current(t)'
<1>1. PICK ttl \in OfferTtls, window \in Windows :
        Accepted(t, window) /\ t.plan = PlanOf(t, ttl, window)
  BY DEF Current
<1>2. SameDecision(t, ttl, window)
  <2>1. CASE t.call \in Registrations
    BY <1>1, <2>1, SameRegistration
  <2>2. CASE t.call = "transfer"
    BY <1>1, <2>2, SameMove
  <2>3. CASE t.call \in {"approve_request", "offer_seat"}
    BY <1>1, <2>3, SameSweeping
  <2>4. CASE t.call \in Decisions \ {"approve_request", "offer_seat"}
    BY <1>1, <2>4, SameAnswering
  <2>5. CASE t.call \in OfAClass
    BY <1>1, <2>5, SameOfAClass
  <2> QED
    BY <2>1, <2>2, <2>3, <2>4, <2>5 DEF Asked
<1> QED
  BY <1>1, <1>2 DEF SameDecision, Current

-----------------------------------------------------------------------------
(* What a commit does is what the service does. *)

SavedRowsOf(P) == [e \in Id |-> IF e \in DOMAIN P.rows THEN P.rows[e] ELSE enrollments[e]]

(* Commit, but for the transaction's own record. *)
Applied(t) ==
  /\ IF t.plan.new = {}
       THEN enrollments' = SavedRowsOf(t.plan)
       ELSE \E f \in Id, r \in t.plan.new :
              NextId(f) /\ enrollments' = [SavedRowsOf(t.plan) EXCEPT ![f] = r]
  /\ class_status' = IF t.call = "cancel_class"
                       THEN [class_status EXCEPT ![t.class] = "CANCELLED"]
                       ELSE class_status
  /\ news' = CommittedNews(t.plan)
  /\ UNCHANGED <<capacity, term_active, now>>
  /\ History(t.plan.alerts, t.plan.decisions)

LEMMA CommitApplies ==
  ASSUME NEW p \in Process, Commit(p)
  PROVE  /\ Applied(tx[p]) /\ tx[p].pc = "writing"
         /\ tx' = [tx EXCEPT ![p] = Idle]
BY DEF Commit, Applied, SavedRowsOf

LEMMA SavingApplied ==
  ASSUME NEW t, Applied(t), NEW E, E \subseteq Id, NEW tbl, NEW n, NEW A, NEW D,
         t.plan = Saving(E, tbl, n, A, D),
         tbl = [e \in Id |-> tbl[e]], \A e \in Id \ E : tbl[e] = enrollments[e],
         n = [q \in Child \X Class |-> n[q]],
         \A q \in (Child \X Class) \ Pairs(E) : n[q] = news[q]
  PROVE  /\ enrollments' = tbl /\ news' = n
         /\ UNCHANGED <<capacity, term_active, now>>
         /\ t.call # "cancel_class" => class_status' = class_status
         /\ History(A, D)
<1>1. PICK P : P = t.plan
  OBVIOUS
<1>2. /\ P.new = {} /\ DOMAIN P.rows = E /\ \A e \in E : P.rows[e] = tbl[e]
      /\ DOMAIN P.news = Pairs(E) /\ \A q \in Pairs(E) : P.news[q] = n[q]
      /\ P.alerts = A /\ P.decisions = D
  BY <1>1 DEF Saving
<1>3. \A e \in Id : SavedRowsOf(P)[e] = tbl[e]
  BY <1>2 DEF SavedRowsOf
<1>4. SavedRowsOf(P) = [e \in Id |-> SavedRowsOf(P)[e]]
  BY DEF SavedRowsOf
<1>5. SavedRowsOf(P) = tbl
  BY <1>3, <1>4
<1>6. \A q \in Child \X Class : CommittedNews(P)[q] = n[q]
  BY <1>2 DEF CommittedNews
<1>7. CommittedNews(P) = [q \in Child \X Class |-> CommittedNews(P)[q]]
  BY DEF CommittedNews
<1>8. CommittedNews(P) = n
  BY <1>6, <1>7
<1> QED
  BY <1>1, <1>2, <1>5, <1>8 DEF Applied

LEMMA AnswerApplied ==
  ASSUME TypeOK, NEW t, Applied(t), t.row \in SavedRows, NEW x, NEW ev, NEW A,
         t.plan = Answer(t, x, ev, A), t.call # "cancel_class"
  PROVE  /\ enrollments' = [enrollments EXCEPT ![t.row] = x]
         /\ Tell(t.row, ev)
         /\ UNCHANGED <<catalog, now>>
         /\ History(A, {})
<1>1. PICK E, tbl, n : /\ E = {t.row} /\ tbl = [enrollments EXCEPT ![t.row] = x]
                       /\ n = Told(news, {t.row}, ev)
  OBVIOUS
<1>2. t.plan = Saving(E, tbl, n, A, {})
  BY <1>1 DEF Answer
<1>3. E \subseteq Id
  BY <1>1 DEF SavedRows
<1>4. tbl = [e \in Id |-> tbl[e]] /\ \A e \in Id \ E : tbl[e] = enrollments[e]
  BY <1>1 DEF TypeOK
<1>5. n = [q \in Child \X Class |-> n[q]]
  BY <1>1 DEF Told
<1>6. \A q \in (Child \X Class) \ Pairs(E) : n[q] = news[q]
  BY <1>1 DEF Told, Pairs
<1>7. /\ enrollments' = tbl /\ news' = n
      /\ UNCHANGED <<capacity, term_active, now>>
      /\ class_status' = class_status
      /\ History(A, {})
  BY <1>2, <1>3, <1>4, <1>5, <1>6, SavingApplied
<1> QED
  BY <1>1, <1>7 DEF Tell, catalog

LEMMA AfterSweepApplied ==
  ASSUME TypeOK, NEW t, Applied(t), t.row \in SavedRows, t.class \in Class, NEW x, NEW ev, NEW D,
         t.plan = AfterSweep(t, x, ev, D), t.call # "cancel_class"
  PROVE  /\ enrollments' = [Swept(t.class) EXCEPT ![t.row] = x]
         /\ news' = Told(SweptNews(t.class), {t.row}, ev)
         /\ UNCHANGED <<catalog, now>>
         /\ History(LapseAlert(t.class), D)
<1>1. PICK E, tbl, n : /\ E = StaleOffers(t.class) \cup {t.row}
                       /\ tbl = [Swept(t.class) EXCEPT ![t.row] = x]
                       /\ n = Told(SweptNews(t.class), {t.row}, ev)
  OBVIOUS
<1>2. t.plan = Saving(E, tbl, n, LapseAlert(t.class), D)
  BY <1>1 DEF AfterSweep
<1>3. E \subseteq Id
  BY <1>1, StaleSaved DEF SavedRows
<1>4. tbl = [e \in Id |-> tbl[e]] /\ \A e \in Id \ E : tbl[e] = enrollments[e]
  BY <1>1 DEF Swept
<1>5. n = [q \in Child \X Class |-> n[q]]
  BY <1>1 DEF Told
<1>6. \A q \in (Child \X Class) \ Pairs(E) : n[q] = news[q]
  BY <1>1 DEF Told, SweptNews, Pairs
<1>7. /\ enrollments' = tbl /\ news' = n
      /\ UNCHANGED <<capacity, term_active, now>>
      /\ class_status' = class_status
      /\ History(LapseAlert(t.class), D)
  BY <1>2, <1>3, <1>4, <1>5, <1>6, SavingApplied
<1> QED
  BY <1>1, <1>7 DEF catalog

LEMMA SweepApplied ==
  ASSUME TypeOK, NEW t, Applied(t), t.class \in Class, t.plan = Sweep(t), t.call # "cancel_class"
  PROVE  /\ enrollments' = Swept(t.class)
         /\ news' = SweptNews(t.class)
         /\ UNCHANGED <<catalog, now>>
         /\ History(LapseAlert(t.class), {})
<1>1. PICK E, tbl, n : /\ E = StaleOffers(t.class)
                       /\ tbl = Swept(t.class) /\ n = SweptNews(t.class)
  OBVIOUS
<1>2. t.plan = Saving(E, tbl, n, LapseAlert(t.class), {})
  BY <1>1 DEF Sweep
<1>3. E \subseteq Id
  BY <1>1, StaleSaved DEF SavedRows
<1>4. tbl = [e \in Id |-> tbl[e]] /\ \A e \in Id \ E : tbl[e] = enrollments[e]
  BY <1>1 DEF Swept
<1>5. n = [q \in Child \X Class |-> n[q]]
  BY <1>1 DEF SweptNews, Told
<1>6. \A q \in (Child \X Class) \ Pairs(E) : n[q] = news[q]
  BY <1>1 DEF Told, SweptNews, Pairs
<1>7. /\ enrollments' = tbl /\ news' = n
      /\ UNCHANGED <<capacity, term_active, now>>
      /\ class_status' = class_status
      /\ History(LapseAlert(t.class), {})
  BY <1>2, <1>3, <1>4, <1>5, <1>6, SavingApplied
<1> QED
  BY <1>1, <1>7 DEF catalog

LEMMA RegistrationServes ==
  ASSUME TypeOK, NEW t, Asked(t), t.call \in Registrations, NEW window, Accepted(t, window),
         t.plan = Registration(t), Applied(t)
  PROVE  Next
<1> DEFINE c == t.class
           ch == t.child
<1>1. ch \in Child /\ c \in Class /\ Open(c) /\ ~Registered(ch, c)
  BY DEF Asked, Registrations, OfAClass, Decisions, Accepted
<1>2. PICK st, ev, D :
        /\ \/ t.call = "register" /\ st = "REQUESTED" /\ ev = "ENROLLMENT_REQUESTED" /\ D = {}
           \/ t.call = "admin_register" /\ st = "ENROLLED" /\ ev = "REGISTRATION_CONFIRMED" /\ D = {c}
        /\ t.plan = Inserting(ch, c, st, ev, D)
  BY DEF Registration, Registrations
<1>3. PICK P : P = t.plan
  OBVIOUS
<1>4. /\ DOMAIN P.rows = {} /\ P.new = {NewRow(ch, c, st)} /\ P.news = [p \in {<<ch, c>>} |-> ev]
      /\ P.alerts = {} /\ P.decisions = D
  BY <1>2, <1>3 DEF Inserting, NoPlan
<1>5. SavedRowsOf(P) = enrollments
  BY <1>4 DEF SavedRowsOf, TypeOK
<1>6. PICK e \in Id : NextId(e) /\ enrollments' = [enrollments EXCEPT ![e] = NewRow(ch, c, st)]
  BY <1>3, <1>4, <1>5 DEF Applied
<1>7. news' = [news EXCEPT ![<<ch, c>>] = ev]
  <2>1. news' = CommittedNews(P)
    BY <1>3 DEF Applied
  <2>2. \A q \in Child \X Class : news'[q] = IF q = <<ch, c>> THEN ev ELSE news[q]
    BY <1>4, <2>1 DEF CommittedNews
  <2>3. news' = [q \in Child \X Class |-> news'[q]]
    BY <2>1 DEF CommittedNews
  <2>4. news = [q \in Child \X Class |-> news[q]]
    BY DEF TypeOK
  <2> QED
    BY <2>2, <2>3, <2>4
<1>8. UNCHANGED <<catalog, now>> /\ History({}, D)
  BY <1>2, <1>3, <1>4 DEF Applied, catalog
<1>9. Register(ch, c) \/ AdminRegister(ch, c)
  BY <1>1, <1>2, <1>6, <1>7, <1>8 DEF Register, AdminRegister
<1> QED
  BY <1>1, <1>9 DEF Next, RegistrationStep

LEMMA MoveServes ==
  ASSUME TypeOK, NEW t, Asked(t), t.call = "transfer", NEW window, Accepted(t, window),
         t.plan = Move(t), Applied(t)
  PROVE  Next
<1> DEFINE c == t.class
<1>0. PICK r, x, y, ev :
        /\ r = enrollments[t.row]
        /\ x = [Cancelled(r, "TRANSFERRED") EXCEPT !.cancel_requested_at = Unset]
        /\ y = NewRow(r.child, c, "ENROLLED")
        /\ ev = "ENROLLMENT_TRANSFERRED"
  OBVIOUS
<1>1. /\ t.row \in Id /\ c \in Class /\ r.activity_class # c /\ Open(c) /\ r.status \in Active
      /\ ~Registered(r.child, c) /\ r.child \in Child /\ r.activity_class \in Class
  BY <1>0 DEF Asked, Registrations, OfAClass, Decisions, Accepted, SavedRows, TypeOK
<1>2. PICK P : P = t.plan
  OBVIOUS
<1>3. /\ DOMAIN P.rows = {t.row} /\ P.rows[t.row] = x /\ P.new = {y}
      /\ P.news = [p \in {<<r.child, r.activity_class>>, <<r.child, c>>} |-> ev]
      /\ P.alerts = FreedSeat(r) /\ P.decisions = {c}
  BY <1>0, <1>2 DEF Move
<1>4. SavedRowsOf(P) = [enrollments EXCEPT ![t.row] = x]
  <2>1. SavedRowsOf(P) = [e \in Id |-> SavedRowsOf(P)[e]]
        /\ \A e \in Id : SavedRowsOf(P)[e] = IF e = t.row THEN x ELSE enrollments[e]
    BY <1>3 DEF SavedRowsOf
  <2>2. enrollments = [e \in Id |-> enrollments[e]]
    BY DEF TypeOK
  <2> QED
    BY <2>1, <2>2
<1>5. PICK f \in Id : NextId(f) /\ enrollments' = [SavedRowsOf(P) EXCEPT ![f] = y]
  BY <1>2, <1>3 DEF Applied
<1>6. enrollments' = [enrollments EXCEPT ![t.row] = x, ![f] = y]
  BY <1>4, <1>5
<1>7. news' = [news EXCEPT ![<<r.child, r.activity_class>>] = ev, ![<<r.child, c>>] = ev]
  <2>1. news' = CommittedNews(P)
    BY <1>2 DEF Applied
  <2>2. \A q \in Child \X Class :
          news'[q] = IF q \in {<<r.child, r.activity_class>>, <<r.child, c>>} THEN ev ELSE news[q]
    BY <1>3, <2>1 DEF CommittedNews
  <2>3. news' = [q \in Child \X Class |-> news'[q]]
    BY <2>1 DEF CommittedNews
  <2>4. news = [q \in Child \X Class |-> news[q]]
    BY DEF TypeOK
  <2>5. PICK a, b : a = <<r.child, r.activity_class>> /\ b = <<r.child, c>>
    OBVIOUS
  <2>6. PICK n : n = [news EXCEPT ![a] = ev]
    OBVIOUS
  <2>7. n = [q \in Child \X Class |-> n[q]] /\ \A q \in Child \X Class : n[q] = IF q = a THEN ev ELSE news[q]
    BY <2>4, <2>6
  <2>8. news' = [n EXCEPT ![b] = ev]
    BY <2>2, <2>3, <2>5, <2>7
  <2> QED
    BY <2>5, <2>6, <2>8
<1>8. UNCHANGED <<catalog, now>> /\ History(FreedSeat(r), {c})
  BY <1>2, <1>3 DEF Applied, catalog
<1>9. Transfer(t.row, c)
  BY <1>0, <1>1, <1>5, <1>6, <1>7, <1>8 DEF Transfer, TransferNews, FreedSeat
<1> QED
  BY <1>1, <1>9 DEF Next, RegistrationStep

LEMMA SweepingServes ==
  ASSUME TypeOK, NEW t, Asked(t), t.call \in {"approve_request", "offer_seat"},
         NEW ttl \in OfferTtls, NEW window, Accepted(t, window),
         t.plan = PlanOf(t, ttl, window), Applied(t)
  PROVE  Next
<1> DEFINE c == t.class
<1>0. t.call \in Decisions /\ t.call # "cancel_class"
  BY DEF Decisions, Services, Registrations, OfAClass
<1>1. PICK r : r = enrollments[t.row]
  OBVIOUS
<1>2. /\ t.row \in SavedRows /\ t.row \in Id /\ r \in Row
      /\ c = r.activity_class /\ c \in Class /\ Open(c)
  BY <1>0, <1>1 DEF Asked, Registrations, OfAClass, Decisions, SourceClass, SavedRows, TypeOK, Accepted
<1>3. r.status # "OFFERED" => Swept(c)[t.row] = r
  BY <1>1, <1>2 DEF Swept, StaleOffers, RowsOf
<1>4. CASE t.call = "approve_request"
  <2>1. r.status = "REQUESTED"
    BY <1>1, <1>4 DEF Accepted
  <2>2. PICK st, ev :
          /\ \/ HasFreeSeat(c) /\ st = "ENROLLED" /\ ev = "REGISTRATION_CONFIRMED"
             \/ ~HasFreeSeat(c) /\ st = "WAITLISTED" /\ ev = "WAITLISTED"
          /\ t.plan = AfterSweep(t, [r EXCEPT !.status = st], ev, {})
    BY <1>1, <1>4 DEF PlanOf, Approval
  <2>3. /\ enrollments' = [Swept(c) EXCEPT ![t.row] = [r EXCEPT !.status = st]]
        /\ news' = Told(SweptNews(c), {t.row}, ev)
        /\ UNCHANGED <<catalog, now>>
        /\ History(LapseAlert(c), {})
    BY <1>0, <1>2, <2>2, AfterSweepApplied
  <2>4. enrollments' = [Swept(c) EXCEPT ![t.row].status = st]
    BY <1>3, <2>1, <2>3
  <2>5. ApproveRequest(t.row)
    BY <1>1, <1>2, <2>1, <2>2, <2>3, <2>4 DEF ApproveRequest
  <2> QED
    BY <1>2, <2>5 DEF Next, DecisionStep
<1>5. CASE t.call = "offer_seat"
  <2>1. r.status = "WAITLISTED"
    BY <1>1, <1>5 DEF Accepted
  <2>2. t.plan = AfterSweep(t, [r EXCEPT !.status = "OFFERED", !.offer_expires_at = now + ttl],
                            "WAITLIST_OFFER", {c})
    BY <1>1, <1>5 DEF PlanOf, Offer
  <2>3. PICK x : x = [r EXCEPT !.status = "OFFERED", !.offer_expires_at = now + ttl]
    OBVIOUS
  <2>4. /\ enrollments' = [Swept(c) EXCEPT ![t.row] = x]
        /\ news' = Told(SweptNews(c), {t.row}, "WAITLIST_OFFER")
        /\ UNCHANGED <<catalog, now>>
        /\ History(LapseAlert(c), {c})
    BY <1>0, <1>2, <2>2, <2>3, AfterSweepApplied
  <2>5. enrollments' = [Swept(c) EXCEPT ![t.row].status = "OFFERED",
                                        ![t.row].offer_expires_at = now + ttl]
    <3>1. PICK tbl : tbl = Swept(c) /\ tbl[t.row] = r /\ tbl = [e \in Id |-> tbl[e]]
      BY <1>3, <2>1 DEF Swept
    <3>2. [tbl EXCEPT ![t.row].status = "OFFERED", ![t.row].offer_expires_at = now + ttl]
            = [tbl EXCEPT ![t.row] = x]
      BY <1>2, <2>3, <3>1
    <3> QED
      BY <2>4, <3>1, <3>2
  <2>6. OfferSeat(t.row)
    BY <1>1, <1>2, <2>1, <2>4, <2>5 DEF OfferSeat
  <2> QED
    BY <1>2, <2>6 DEF Next, DecisionStep
<1> QED
  BY <1>4, <1>5

LEMMA AnsweringServes ==
  ASSUME TypeOK, NEW t, Asked(t), t.call \in Decisions \ {"approve_request", "offer_seat"},
         NEW ttl \in OfferTtls, NEW window \in Windows, Accepted(t, window),
         t.plan = PlanOf(t, ttl, window), Applied(t)
  PROVE  Next
<1>0. t.call # "cancel_class"
  BY DEF Decisions, Services, Registrations, OfAClass
<1>1. PICK e, r : e = t.row /\ r = enrollments[e]
  OBVIOUS
<1>2. /\ e \in SavedRows /\ e \in Id /\ r \in Row /\ r.status # "UNSAVED"
      /\ t.class = r.activity_class /\ t.class \in Class
  BY <1>0, <1>1 DEF Asked, Registrations, OfAClass, Decisions, SourceClass, SavedRows, TypeOK
<1>3. r.status # "CANCELLED" => r.status \in Active
  BY <1>2 DEF Row, Status
<1>4. ASSUME NEW x, NEW ev, NEW A, t.plan = Answer(t, x, ev, A)
      PROVE  /\ enrollments' = [enrollments EXCEPT ![e] = x]
             /\ Tell(e, ev)
             /\ UNCHANGED <<catalog, now>>
             /\ History(A, {})
  BY <1>0, <1>1, <1>2, <1>4, AnswerApplied
<1>5. ASSUME NEW reason, t.plan = Cancellation(t, reason), r.status \in Active
      PROVE  Cancel(e, reason)
  <2>1. t.plan = Answer(t, Cancelled(r, reason), CancelEvent(reason), FreedSeat(r))
    BY <1>1, <1>5 DEF Cancellation
  <2> QED
    BY <1>1, <1>4, <1>5, <2>1 DEF Cancel, FreedSeat
<1>6. CASE t.call = "reject_request"
  <2>1. t.plan = Answer(t, Cancelled(r, "REQUEST_REJECTED"), "REQUEST_REJECTED", {})
    BY <1>1, <1>6 DEF PlanOf
  <2>2. RejectRequest(e)
    BY <1>1, <1>4, <1>6, <2>1 DEF RejectRequest, Accepted
  <2> QED
    BY <1>2, <2>2 DEF Next, DecisionStep
<1>7. CASE t.call = "confirm_offer"
  <2>1. t.plan = Answer(t, [r EXCEPT !.status = "ENROLLED", !.promoted_at = now],
                        "REGISTRATION_CONFIRMED", {})
    BY <1>1, <1>7 DEF PlanOf
  <2>2. PICK x : x = [r EXCEPT !.status = "ENROLLED", !.promoted_at = now]
    OBVIOUS
  <2>3. [enrollments EXCEPT ![e].status = "ENROLLED", ![e].promoted_at = now]
          = [enrollments EXCEPT ![e] = x]
    BY <1>1, <1>2, <2>2 DEF TypeOK
  <2>4. ConfirmOffer(e)
    BY <1>1, <1>2, <1>4, <1>7, <2>1, <2>2, <2>3 DEF ConfirmOffer, Accepted
  <2> QED
    BY <1>2, <2>4 DEF Next, DecisionStep
<1>8. CASE t.call = "decline_offer"
  <2>1. PICK Q : Q = Answer(t, Cancelled(r, "OFFER_DECLINED"), NoNews, {t.class})
    OBVIOUS
  <2>2. t.plan = [Q EXCEPT !.news = <<>>]
    BY <1>1, <1>8, <2>1 DEF PlanOf
  <2>3. PICK P : P = t.plan
    OBVIOUS
  <2>4. DOMAIN Q.rows = {e} /\ Q.rows[e] = Cancelled(r, "OFFER_DECLINED")
        /\ Q.new = {} /\ Q.alerts = {t.class} /\ Q.decisions = {}
    <3>1. PICK x, ev, A : x = Cancelled(r, "OFFER_DECLINED") /\ ev = NoNews /\ A = {t.class}
      OBVIOUS
    <3>2. Q = Answer(t, x, ev, A) /\ t.row \in Id
      BY <1>1, <1>2, <2>1, <3>1
    <3>3. DOMAIN Q.rows = {t.row} /\ Q.rows[t.row] = x
          /\ Q.new = {} /\ Q.alerts = A /\ Q.decisions = {}
      BY <3>2, AnswerFields
    <3> QED
      BY <1>1, <3>1, <3>3
  <2>5. P.rows = Q.rows /\ P.new = Q.new /\ P.alerts = Q.alerts /\ P.decisions = Q.decisions
        /\ DOMAIN P.news = {}
    BY <2>1, <2>2, <2>3 DEF Answer, Saving
  <2>6. enrollments' = [enrollments EXCEPT ![e] = Cancelled(r, "OFFER_DECLINED")]
    <3>1. enrollments' = SavedRowsOf(P)
      BY <2>3, <2>4, <2>5 DEF Applied
    <3>2. SavedRowsOf(P) = [f \in Id |-> SavedRowsOf(P)[f]]
          /\ \A f \in Id : SavedRowsOf(P)[f] =
                             IF f = e THEN Cancelled(r, "OFFER_DECLINED") ELSE enrollments[f]
      BY <2>4, <2>5 DEF SavedRowsOf
    <3>3. enrollments = [f \in Id |-> enrollments[f]]
      BY DEF TypeOK
    <3> QED
      BY <3>1, <3>2, <3>3
  <2>7. news' = news
    <3>1. news' = CommittedNews(P)
      BY <2>3 DEF Applied
    <3>2. news = [q \in Child \X Class |-> news[q]]
      BY DEF TypeOK
    <3> QED
      BY <2>5, <3>1, <3>2 DEF CommittedNews
  <2>8. UNCHANGED <<catalog, now>> /\ History({t.class}, {})
    BY <1>0, <2>3, <2>4, <2>5 DEF Applied, catalog
  <2>9. DeclineOffer(e)
    BY <1>1, <1>2, <1>8, <2>6, <2>7, <2>8 DEF DeclineOffer, Accepted
  <2> QED
    BY <1>2, <2>9 DEF Next, DecisionStep
<1>9. CASE t.call = "cancel"
  <2>1. CancelByAdmin(e)
    BY <1>1, <1>3, <1>5, <1>9 DEF PlanOf, Accepted, CancelByAdmin
  <2> QED
    BY <1>2, <2>1 DEF Next, DecisionStep
<1>10. CASE t.call = "confirm_cancellation"
  <2>1. CancellationRequested(e)
    BY <1>1, <1>10 DEF Accepted
  <2>2. t.plan = Cancellation(t, "PARENT_REQUEST") /\ r.status \in Active
    BY <1>1, <1>10, <2>1 DEF PlanOf, CancellationRequested, Active
  <2>3. ConfirmCancellation(e)
    BY <1>5, <2>1, <2>2 DEF ConfirmCancellation
  <2> QED
    BY <1>2, <2>3 DEF Next, DecisionStep
<1>11. ASSUME NEW at, NEW ev,
              t.plan = Answer(t, [r EXCEPT !.cancel_requested_at = at], ev, {})
       PROVE  /\ enrollments' = [enrollments EXCEPT ![e].cancel_requested_at = at]
              /\ Tell(e, ev)
              /\ UNCHANGED <<catalog, now>>
              /\ History({}, {})
  BY <1>1, <1>4, <1>11
<1>12. CASE t.call = "parent_cancel"
  <2>1. CASE CanWithdraw(r, window)
    <3>1. Cancel(e, "PARENT")
      BY <1>1, <1>5, <1>12, <2>1 DEF PlanOf, CanWithdraw
    <3> QED
      BY <1>1, <1>2, <2>1, <3>1 DEF ParentCancel, Next, DecisionStep
  <2>2. CASE ~CanWithdraw(r, window)
    <3>1. r.status = "ENROLLED" /\ r.cancel_requested_at = Unset
      BY <1>1, <1>12, <2>2 DEF Accepted
    <3>2. t.plan = Answer(t, [r EXCEPT !.cancel_requested_at = now], "CANCELLATION_REQUESTED", {})
      BY <1>1, <1>12, <2>2 DEF PlanOf, CancellationRequest
    <3>3. RequestCancellation(e)
      BY <1>1, <1>11, <3>1, <3>2 DEF RequestCancellation
    <3> QED
      BY <1>1, <1>2, <2>2, <3>3 DEF ParentCancel, Next, DecisionStep
  <2> QED
    BY <2>1, <2>2
<1>13. CASE t.call = "decline_cancellation"
  <2>1. CancellationRequested(e)
    BY <1>1, <1>13 DEF Accepted
  <2>2. t.plan = Answer(t, [r EXCEPT !.cancel_requested_at = Unset], "CANCELLATION_DECLINED", {})
    BY <1>1, <1>13 DEF PlanOf
  <2>3. DeclineCancellation(e)
    BY <1>11, <2>1, <2>2 DEF DeclineCancellation
  <2> QED
    BY <1>2, <2>3 DEF Next, DecisionStep
<1> QED
  BY <1>6, <1>7, <1>8, <1>9, <1>10, <1>12, <1>13 DEF Decisions, Services, Registrations, OfAClass

(* A history step that alerts nobody and decides nothing. *)
LEMMA QuietHistory ==
  ASSUME TypeOK, HistoryOK, UNCHANGED <<enrollments, capacity, now>>, History({}, {})
  PROVE  UNCHANGED <<alerted, over_allocated>>
<1>1. \A c : (HasFreeSeat(c)' <=> HasFreeSeat(c)) /\ (OverCapacity(c)' <=> OverCapacity(c))
  BY DEF HasFreeSeat, OverCapacity, SeatsTaken, SeatHolders, RowsOf, LiveOffer
<1> QED
  BY <1>1 DEF History, HistoryOK, TypeOK

LEMMA ClassServes ==
  ASSUME TypeOK, HistoryOK, NEW t, Asked(t), t.call \in OfAClass, NEW ttl, NEW window,
         Accepted(t, window), t.plan = PlanOf(t, ttl, window), Applied(t)
  PROVE  Next \/ UNCHANGED vars
<1>1. PICK c : c = t.class
  OBVIOUS
<1>2. c \in Class
  BY <1>1 DEF Asked
<1>3. CASE t.call = "expire_offers"
  <2>1. t.plan = Sweep(t)
    BY <1>3 DEF PlanOf
  <2>2. /\ enrollments' = Swept(c) /\ news' = SweptNews(c) /\ UNCHANGED <<catalog, now>>
        /\ History(LapseAlert(c), {})
    BY <1>1, <1>2, <1>3, <2>1, SweepApplied
  <2>3. CASE StaleOffers(c) # {}
    <3>1. ExpireOffers(c)
      BY <2>2, <2>3 DEF ExpireOffers, SweepStep
    <3> QED
      BY <1>2, <3>1 DEF Next, ClassStep
  <2>4. CASE StaleOffers(c) = {}
    <3>1. Swept(c) = enrollments
      BY <2>4 DEF Swept, TypeOK
    <3>2. SweptNews(c) = news
      BY <2>4 DEF SweptNews, Told, TypeOK
    <3>3. LapseAlert(c) = {}
      BY <2>4 DEF LapseAlert
    <3>4. UNCHANGED <<alerted, over_allocated>>
      BY <2>2, <3>1, <3>3, QuietHistory DEF catalog
    <3> QED
      BY <2>2, <3>1, <3>2, <3>4 DEF vars, catalog
  <2> QED
    BY <2>3, <2>4
<1>4. CASE t.call = "cancel_class"
  <2>1. PICK E, P : E = RowsOf(c, Active) /\ P = t.plan
    OBVIOUS
  <2>2. P = EndedBy("CLASS_CANCELLED", "CLASS_CANCELLED", E, {})
    BY <1>1, <1>4, <2>1, CancelClassPlan DEF CancelClassNormal
  <2>3. /\ DOMAIN P.rows = E /\ \A e \in E : P.rows[e] = Cancelled(enrollments[e], "CLASS_CANCELLED")
        /\ P.new = {} /\ DOMAIN P.news = Pairs(E) /\ \A q \in Pairs(E) : P.news[q] = "CLASS_CANCELLED"
        /\ P.alerts = {} /\ P.decisions = {}
    BY <2>2 DEF EndedBy
  <2>4. enrollments' = [e \in Id |-> IF e \in RowsOf(c, Active)
                                       THEN Cancelled(enrollments[e], "CLASS_CANCELLED")
                                       ELSE enrollments[e]]
    BY <2>1, <2>3 DEF Applied, SavedRowsOf
  <2>5. news' = Told(news, RowsOf(c, Active), "CLASS_CANCELLED")
    <3>1. news' = CommittedNews(P)
      BY <2>1 DEF Applied
    <3>2. \A q \in Child \X Class :
            (q \in Pairs(E)) <=> \E e \in E : q = <<enrollments[e].child, enrollments[e].activity_class>>
      BY DEF Pairs
    <3> QED
      BY <2>1, <2>3, <3>1, <3>2 DEF CommittedNews, Told
  <2>6. /\ class_status' = [class_status EXCEPT ![c] = "CANCELLED"]
        /\ UNCHANGED <<capacity, term_active, now>>
        /\ History({}, {})
    BY <1>1, <1>4, <2>1, <2>3 DEF Applied
  <2>7. class_status[c] # "CANCELLED"
    BY <1>1, <1>4 DEF Accepted
  <2>8. CancelClass(c)
    BY <2>4, <2>5, <2>6, <2>7 DEF CancelClass
  <2> QED
    BY <1>2, <2>8 DEF Next, ClassStep
<1> QED
  BY <1>3, <1>4 DEF OfAClass

LEMMA Serves ==
  ASSUME TypeOK, HistoryOK, NEW t, Asked(t), Current(t), Applied(t)
  PROVE  Next \/ UNCHANGED vars
<1>1. PICK ttl \in OfferTtls, window \in Windows :
        Accepted(t, window) /\ t.plan = PlanOf(t, ttl, window)
  BY DEF Current
<1>2. CASE t.call \in Registrations
  BY <1>1, <1>2, RegistrationServes DEF PlanOf, Registrations
<1>3. CASE t.call = "transfer"
  BY <1>1, <1>3, MoveServes DEF PlanOf
<1>4. CASE t.call \in {"approve_request", "offer_seat"}
  BY <1>1, <1>4, SweepingServes
<1>5. CASE t.call \in Decisions \ {"approve_request", "offer_seat"}
  BY <1>1, <1>5, AnsweringServes
<1>6. CASE t.call \in OfAClass
  BY <1>1, <1>6, ClassServes
<1> QED
  BY <1>2, <1>3, <1>4, <1>5, <1>6 DEF Asked

-----------------------------------------------------------------------------
(* What a transaction has locked and read is safe from the others. *)

(* Saved rows stay, and stay in their class. *)
Kept ==
  \A e \in SavedRows : /\ e \in SavedRows'
                       /\ enrollments'[e].activity_class = enrollments[e].activity_class

LEMMA StillAsked ==
  ASSUME NEW t, Asked(t), Kept
  PROVE  /\ Asked(t)' /\ ClassesToLock(t)' = ClassesToLock(t)
         /\ MissingLocks(t)' = MissingLocks(t)
<1>1. t.row \in SavedRows => t.row \in SavedRows' /\ SourceClass(t)' = SourceClass(t)
  BY DEF Kept, SourceClass
<1>2. t.call = "transfer" => t.row \in SavedRows
  BY DEF Asked, Registrations, OfAClass, Decisions
<1>3. Asked(t)'
  BY <1>1 DEF Asked
<1>4. ClassesToLock(t)' = ClassesToLock(t)
  BY <1>1, <1>2 DEF ClassesToLock
<1> QED
  BY <1>3, <1>4 DEF MissingLocks

LEMMA StillRunning ==
  ASSUME TypeOK, TypeOK', NEW t, Running(t), Kept, t.pc = "writing" => Untouched(t)
  PROVE  Running(t)'
<1>1. /\ Asked(t)' /\ ClassesToLock(t)' = ClassesToLock(t)
      /\ MissingLocks(t)' = MissingLocks(t)
  BY StillAsked DEF Running
<1>2. InKeyOrder(t)'
  BY <1>1 DEF InKeyOrder, Running
<1>3. t.pc = "writing" => Current(t)'
  BY StillCurrent DEF Running
<1> QED
  BY <1>1, <1>2, <1>3 DEF Running

LEMMA NothingTouched ==
  ASSUME UNCHANGED vars
  PROVE  Kept /\ \A t : Untouched(t)
BY DEF vars, Kept, Untouched, ClassSame, SameFor, SavedRows

LEMMA ApartSides ==
  ASSUME NEW t, NEW u, Apart(t, u)
  PROVE  Apart(u, t)
BY DEF Apart

(* One transaction moves on; the others keep what they have. *)
LEMMA OneMoves ==
  ASSUME TypeOK, TypeOK', TxOK, Kept, NEW p \in Process, NEW u,
         tx' = [tx EXCEPT ![p] = u],
         u = Idle \/ Running(u)',
         \A q \in Process \ {p} : tx[q].pc = "writing" => Untouched(tx[q]),
         \A q \in Process \ {p} : Apart(u, tx[q])
  PROVE  TxOK'
<1>1. tx' = [q \in Process |-> tx'[q]]
  BY DEF TxOK
<1>2. tx'[p] = u /\ \A q \in Process \ {p} : tx'[q] = tx[q]
  BY DEF TxOK
<1>3. ASSUME NEW q \in Process
      PROVE  \E t \in {tx'[q]} : t = Idle \/ Running(t)'
  <2>1. CASE q = p
    BY <1>2, <2>1
  <2>2. CASE q # p
    <3>1. PICK t \in {tx[q]} : t = Idle \/ Running(t)
      BY DEF TxOK
    <3>2. t.pc = "writing" => Untouched(t)
      BY <2>2, <3>1
    <3>3. Running(t) => Running(t)'
      BY <3>2, StillRunning
    <3> QED
      BY <1>2, <2>2, <3>1, <3>3
  <2> QED
    BY <2>1, <2>2
<1>4. ASSUME NEW q \in Process, NEW o \in Process, q # o
      PROVE  Apart(tx'[q], tx'[o])
  <2>1. CASE q = p
    BY <1>2, <1>4, <2>1
  <2>2. CASE o = p
    BY <1>2, <1>4, <2>2, ApartSides
  <2>3. CASE q # p /\ o # p
    BY <1>2, <1>4, <2>3 DEF TxOK
  <2> QED
    BY <2>1, <2>2, <2>3
<1>5. \A q, o \in Process : q # o => Apart(tx[q], tx[o])'
  BY <1>4 DEF Apart
<1> QED
  BY <1>1, <1>3, <1>5 DEF TxOK

LEMMA AllStay ==
  ASSUME TypeOK, TypeOK', TxOK, Kept, UNCHANGED tx,
         \A q \in Process : tx[q].pc = "writing" => Untouched(tx[q])
  PROVE  TxOK'
<1>1. ASSUME NEW q \in Process
      PROVE  \E t \in {tx'[q]} : t = Idle \/ Running(t)'
  <2>1. PICK t \in {tx[q]} : t = Idle \/ Running(t)
    BY DEF TxOK
  <2>2. t.pc = "writing" => Untouched(t)
    BY <2>1
  <2>3. Running(t) => Running(t)'
    BY <2>2, StillRunning
  <2> QED
    BY <2>1, <2>3
<1>2. \A q, o \in Process : q # o => Apart(tx[q], tx[o])'
  BY DEF TxOK, Apart
<1> QED
  BY <1>1, <1>2 DEF TxOK

(* A step that writes no table. *)
LEMMA NoWrite ==
  ASSUME TypeOK, TxOK, HistoryOK, UNCHANGED vars, NEW p \in Process, NEW u,
         tx' = [tx EXCEPT ![p] = u],
         u = Idle \/ Running(u),
         \A q \in Process \ {p} : Apart(u, tx[q])
  PROVE  TypeOK' /\ TxOK' /\ HistoryOK'
<1>1. TypeOK'
  BY TypeStep
<1>2. HistoryOK'
  BY DEF vars, HistoryOK, HasFreeSeat, OverCapacity, SeatsTaken, SeatHolders, RowsOf, LiveOffer
<1>3. Kept /\ \A t : Untouched(t)
  BY NothingTouched
<1>4. Running(u) => Running(u)'
  BY <1>1, <1>3, StillRunning
<1>5. TxOK'
  BY <1>1, <1>3, <1>4, OneMoves
<1> QED
  BY <1>1, <1>2, <1>5

-----------------------------------------------------------------------------
(* The steps of a transaction that write no table. *)

Safe == TypeOK /\ TxOK /\ HistoryOK

LEMMA BeginStep ==
  ASSUME Safe, NEW p \in Process,
         NEW call, NEW row, NEW ch, NEW c, Begin(p, Request(call, row, ch, c)),
         Asked(Request(call, row, ch, c))
  PROVE  Safe'
<1>1. PICK u : u = Request(call, row, ch, c)
  OBVIOUS
<1>2. Whole(u) /\ u.pc = "locking" /\ u.plan = NoPlan /\ u.held = {}
  BY <1>1, RequestFields
<1>3. Running(u)
  BY <1>1, <1>2 DEF Running, InKeyOrder
<1>4. \A q \in Process : Apart(u, tx[q])
  BY <1>2, IdleFields DEF Apart
<1>5. tx' = [tx EXCEPT ![p] = u] /\ UNCHANGED vars
  BY <1>1 DEF Begin
<1> QED
  BY <1>3, <1>4, <1>5, NoWrite DEF Safe

LEMMA BeginSteps ==
  ASSUME Safe, NEW p \in Process,
         \/ BeginRegistration(p) \/ BeginDecision(p) \/ BeginMove(p)
         \/ BeginCancelClass(p) \/ BeginSweep(p)
  PROVE  UNCHANGED vars /\ Safe'
<1>0. 0 \notin Id
  BY DEF Id
<1>1. ASSUME NEW call, NEW row, NEW ch, NEW c, Begin(p, Request(call, row, ch, c)),
             c \in Class,
             \/ call \in Registrations /\ ch \in Child /\ row \notin Id
             \/ call \in OfAClass /\ row \notin Id
             \/ call = "transfer" /\ row \in SavedRows
             \/ call \in Decisions /\ row \in SavedRows /\ c = enrollments[row].activity_class
      PROVE  UNCHANGED vars /\ Safe'
  <2>1. Asked(Request(call, row, ch, c))
    BY <1>1, RequestFields DEF Asked, SourceClass
  <2>2. UNCHANGED vars
    BY <1>1 DEF Begin
  <2> QED
    BY <1>1, <2>1, <2>2, BeginStep
<1>2. CASE BeginRegistration(p)
  BY <1>0, <1>1, <1>2 DEF BeginRegistration, Registrations
<1>3. CASE BeginDecision(p)
  <2>1. PICK call \in Calls \ {"register", "admin_register", "transfer", "expire_offers", "cancel_class"},
             e \in SavedRows : Begin(p, Request(call, e, Nobody, enrollments[e].activity_class))
    BY <1>3 DEF BeginDecision
  <2>2. call \in Decisions
    BY CallsAssumption DEF Decisions, Registrations, OfAClass
  <2>3. enrollments[e].activity_class \in Class
    BY DEF Safe, TypeOK, SavedRows
  <2> QED
    BY <1>1, <2>1, <2>2, <2>3
<1>4. CASE BeginMove(p)
  BY <1>1, <1>4 DEF BeginMove
<1>5. CASE BeginCancelClass(p)
  BY <1>0, <1>1, <1>5 DEF BeginCancelClass, OfAClass
<1>6. CASE BeginSweep(p)
  BY <1>0, <1>1, <1>6 DEF BeginSweep, OfAClass
<1> QED
  BY <1>2, <1>3, <1>4, <1>5, <1>6

LEMMA IdleStep ==
  ASSUME Safe, NEW p \in Process, tx' = [tx EXCEPT ![p] = Idle], UNCHANGED vars
  PROVE  Safe'
<1>1. \A q \in Process : Apart(Idle, tx[q])
  BY IdleFields DEF Apart
<1> QED
  BY <1>1, NoWrite DEF Safe

(* At work, so not idle. *)
LEMMA AtWork ==
  ASSUME TxOK, NEW p \in Process, tx[p].pc \in {"locking", "writing"}
  PROVE  Running(tx[p])
BY IdleFields DEF TxOK

LEMMA LocksTyped ==
  ASSUME TypeOK, NEW t, Asked(t)
  PROVE  /\ ClassesToLock(t) \subseteq Class
         /\ \E a \in Class, b \in Class : ClassesToLock(t) \subseteq {a, b}
<1>1. t.class \in Class /\ (t.call = "transfer" => SourceClass(t) \in Class)
  BY DEF Asked, Registrations, OfAClass, Decisions, SourceClass, SavedRows, TypeOK
<1> QED
  BY <1>1 DEF ClassesToLock

(* The next lock is the missing one with the lowest key. *)
LEMMA LowestNext ==
  ASSUME TypeOK, NEW t, Asked(t), MissingLocks(t) # {}
  PROVE  /\ NextLock(t) \in MissingLocks(t)
         /\ \A d \in MissingLocks(t) : Pk[NextLock(t)] <= Pk[d]
<1>1. PICK a \in Class, b \in Class : MissingLocks(t) \subseteq {a, b}
  BY LocksTyped DEF MissingLocks
<1>2. Pk[a] \in Nat /\ Pk[b] \in Nat
  BY PkAssumption
<1>3. \E c \in MissingLocks(t) : \A d \in MissingLocks(t) : Pk[c] <= Pk[d]
  <2>1. CASE a \in MissingLocks(t) /\ (b \in MissingLocks(t) => Pk[a] <= Pk[b])
    BY <1>1, <1>2, <2>1
  <2>2. CASE ~(a \in MissingLocks(t) /\ (b \in MissingLocks(t) => Pk[a] <= Pk[b]))
    BY <1>1, <1>2, <2>2
  <2> QED
    BY <2>1, <2>2
<1> QED
  BY <1>3 DEF NextLock

LEMMA LockStep ==
  ASSUME Safe, NEW p \in Process, LockClass(p)
  PROVE  UNCHANGED vars /\ Safe'
<1>1. PICK t, n, H : t = tx[p] /\ n = NextLock(t) /\ H = t.held \cup {n}
  OBVIOUS
<1>2. /\ t.pc = "locking" /\ MissingLocks(t) # {} /\ ClassFree(n)
      /\ tx' = [tx EXCEPT ![p].held = t.held \cup {n}] /\ UNCHANGED vars
  BY <1>1 DEF LockClass
<1>3. Running(t) /\ TypeOK /\ TxOK
  BY <1>1, <1>2, AtWork DEF Safe
<1>4. n \in MissingLocks(t) /\ \A d \in MissingLocks(t) : Pk[n] <= Pk[d]
  BY <1>1, <1>2, <1>3, LowestNext DEF Running
<1>5. PICK u : u = [t EXCEPT !.held = H]
  OBVIOUS
<1>6. /\ Whole(u) /\ u.pc = t.pc /\ u.plan = t.plan
      /\ u.call = t.call /\ u.row = t.row /\ u.child = t.child /\ u.class = t.class
      /\ u.held = H
  BY <1>3, <1>5, HeldFields DEF Running
<1>7. ClassesToLock(u) = ClassesToLock(t) /\ Asked(u)
  <2>1. u.call \in Services
    BY <1>3, <1>6 DEF Running, Asked, Decisions, Registrations, OfAClass, Services
  <2> QED
    BY <1>3, <1>6, <2>1, SameCall DEF Running
<1>8. ASSUME NEW c \in u.held, NEW d \in MissingLocks(u)
      PROVE  Pk[c] < Pk[d]
  <2>1. d \in MissingLocks(t) /\ d # n
    BY <1>1, <1>6, <1>7 DEF MissingLocks
  <2>2. CASE c \in t.held
    BY <1>3, <2>1, <2>2 DEF Running, InKeyOrder
  <2>3. CASE c = n
    <3>1. n \in Class /\ d \in Class
      BY <1>3, <1>4, <2>1, LocksTyped DEF Running, MissingLocks
    <3>2. Pk[n] \in Nat /\ Pk[d] \in Nat /\ Pk[n] # Pk[d]
      BY <2>1, <3>1, PkAssumption
    <3> QED
      BY <1>4, <2>1, <2>3, <3>2
  <2> QED
    BY <1>1, <1>6, <2>2, <2>3
<1>9. Running(u)
  <2>1. u.held \subseteq ClassesToLock(u)
    BY <1>1, <1>3, <1>4, <1>6, <1>7 DEF Running, MissingLocks
  <2>2. u.pc = "locking" /\ u.plan = NoPlan
    BY <1>2, <1>3, <1>6 DEF Running
  <2> QED
    BY <1>6, <1>7, <1>8, <2>1, <2>2 DEF Running, InKeyOrder
<1>10. ASSUME NEW q \in Process \ {p} PROVE Apart(u, tx[q])
  <2>1. Apart(t, tx[q])
    BY <1>1, <1>3 DEF TxOK
  <2>2. n \notin tx[q].held
    BY <1>2 DEF ClassFree
  <2> QED
    BY <1>1, <1>6, <2>1, <2>2 DEF Apart
<1>11. tx' = [tx EXCEPT ![p] = u]
  BY <1>1, <1>2, <1>5
<1> QED
  BY <1>2, <1>9, <1>10, <1>11, NoWrite DEF Safe

LEMMA ReadStep ==
  ASSUME Safe, NEW p \in Process, ReadRows(p)
  PROVE  UNCHANGED vars /\ Safe'
<1>1. PICK t : t = tx[p]
  OBVIOUS
<1>2. t.pc = "locking" /\ MissingLocks(t) = {} /\ UNCHANGED vars
  BY <1>1 DEF ReadRows
<1>3. Running(t) /\ TypeOK /\ TxOK
  BY <1>1, <1>2, AtWork DEF Safe
<1>4. PICK ttl \in OfferTtls, window \in Windows :
        IF Accepted(t, window) /\ Room(t)
          THEN /\ RowsFree(p, DOMAIN PlanOf(t, ttl, window).rows)
               /\ tx' = [tx EXCEPT ![p].pc = "writing", ![p].plan = PlanOf(t, ttl, window)]
          ELSE /\ RowsFree(p, {t.row})
               /\ tx' = [tx EXCEPT ![p] = Idle]
  BY <1>1 DEF ReadRows
<1>5. CASE Accepted(t, window) /\ Room(t)
  <2>1. PICK P : P = PlanOf(t, ttl, window)
    OBVIOUS
  <2>2. PICK u : u = Written(t, P)
    OBVIOUS
  <2>3. /\ Whole(u) /\ u.pc = "writing" /\ u.plan = P
        /\ u.call = t.call /\ u.row = t.row /\ u.child = t.child /\ u.class = t.class
        /\ u.held = t.held
    <3>1. Whole(t)
      BY <1>3 DEF Running
    <3> QED
      BY <2>2, <3>1, WriteFields
  <2>4. u.call \in Services
    BY <1>3, <2>3 DEF Running, Asked, Decisions, Registrations, OfAClass, Services
  <2>5. /\ Accepted(u, window) /\ PlanOf(u, ttl, window) = P
        /\ ClassesToLock(u) = ClassesToLock(t) /\ Asked(u)
    BY <1>3, <1>5, <2>1, <2>3, <2>4, SameCall DEF Running
  <2>6. Running(u)
    BY <1>2, <1>3, <2>3, <2>5 DEF Running, InKeyOrder, MissingLocks, Current
  <2>7. ASSUME NEW q \in Process \ {p} PROVE Apart(u, tx[q])
    <3>1. Apart(t, tx[q])
      BY <1>1, <1>3 DEF TxOK
    <3>2. DOMAIN tx[q].plan.rows \cap DOMAIN P.rows = {}
      BY <1>4, <1>5, <2>1 DEF RowsFree
    <3> QED
      BY <2>3, <3>1, <3>2 DEF Apart
  <2>8. tx' = [tx EXCEPT ![p] = u]
    BY <1>1, <1>4, <1>5, <2>1, <2>2 DEF Written
  <2> QED
    BY <1>2, <2>6, <2>7, <2>8, NoWrite DEF Safe
<1>6. CASE ~(Accepted(t, window) /\ Room(t))
  BY <1>2, <1>4, <1>6, IdleStep
<1> QED
  BY <1>5, <1>6

-----------------------------------------------------------------------------
(* Commits *)

(* What a commit changes: the rows of its plan, and one row that was free. *)
LEMMA CommitWrites ==
  ASSUME TypeOK, NEW t, Applied(t), Inside(t, t.plan), NEW e \in Id
  PROVE  \/ enrollments'[e] = enrollments[e]
         \/ e \in DOMAIN t.plan.rows /\ enrollments'[e] = t.plan.rows[e]
         \/ /\ enrollments[e].status = "UNSAVED" /\ t.plan.new # {}
            /\ enrollments'[e].activity_class = t.class
            /\ t.class \in ClassesToLock(t)
<1>1. PICK P : P = t.plan
  OBVIOUS
<1>2. \A f \in Id : SavedRowsOf(P)[f] = IF f \in DOMAIN P.rows THEN P.rows[f] ELSE enrollments[f]
  BY DEF SavedRowsOf
<1>3. CASE P.new = {}
  <2>1. enrollments' = SavedRowsOf(P)
    BY <1>1, <1>3 DEF Applied
  <2> QED
    BY <1>1, <1>2, <2>1
<1>4. CASE P.new # {}
  <2>1. PICK f \in Id, r \in P.new : NextId(f) /\ enrollments' = [SavedRowsOf(P) EXCEPT ![f] = r]
    BY <1>1, <1>4 DEF Applied
  <2>2. r.activity_class = t.class /\ t.class \in ClassesToLock(t)
    BY <1>1 DEF Inside
  <2>3. enrollments[f].status = "UNSAVED"
    BY <2>1 DEF NextId
  <2>4. enrollments'[e] = IF e = f THEN r ELSE SavedRowsOf(P)[e]
    BY <2>1 DEF SavedRowsOf
  <2> QED
    BY <1>1, <1>2, <1>4, <2>2, <2>3, <2>4
<1> QED
  BY <1>3, <1>4

LEMMA CommitKeeps ==
  ASSUME TypeOK, NEW t, Applied(t), Inside(t, t.plan)
  PROVE  Kept
<1> SUFFICES ASSUME NEW e \in Id, enrollments[e].status # "UNSAVED"
             PROVE  /\ enrollments'[e].status # "UNSAVED"
                    /\ enrollments'[e].activity_class = enrollments[e].activity_class
  BY DEF Kept, SavedRows
<1>1. \/ enrollments'[e] = enrollments[e]
      \/ e \in DOMAIN t.plan.rows /\ enrollments'[e] = t.plan.rows[e]
  BY CommitWrites
<1> QED
  BY <1>1 DEF Inside

LEMMA CommitTouchesOwn ==
  ASSUME TypeOK, NEW t, NEW u, Applied(t), Inside(t, t.plan), Inside(u, u.plan),
         ClassesToLock(t) \cap ClassesToLock(u) = {},
         DOMAIN t.plan.rows \cap DOMAIN u.plan.rows = {},
         t.call = "cancel_class" => t.class \in ClassesToLock(t),
         ClassesToLock(u) \subseteq Class
  PROVE  Untouched(u)
<1>1. now' = now
  BY DEF Applied
<1>2. ASSUME NEW e \in DOMAIN u.plan.rows PROVE enrollments'[e] = enrollments[e]
  <2>1. e \in Id /\ enrollments[e].status # "UNSAVED" /\ e \notin DOMAIN t.plan.rows
    BY DEF Inside, SavedRows
  <2> QED
    BY <2>1, CommitWrites
<1>3. u.row \in Id => enrollments'[u.row] = enrollments[u.row]
  BY <1>2 DEF Inside
<1>4. ASSUME NEW c \in ClassesToLock(u) PROVE ClassSame(c)
  <2>1. c \notin ClassesToLock(t) /\ c \in Class
    OBVIOUS
  <2>2. class_status'[c] = class_status[c]
    BY <2>1 DEF Applied, TypeOK
  <2>3. ASSUME NEW e \in Id PROVE SameFor(c, e)
    <3>1. CASE e \in DOMAIN t.plan.rows /\ enrollments'[e] = t.plan.rows[e]
      <4>1. CASE t.call = "reject_request"
        BY <3>1, <4>1 DEF Inside, SameFor
      <4>2. CASE t.call # "reject_request"
        <5>1. /\ enrollments[e].activity_class \in ClassesToLock(t)
              /\ enrollments'[e].activity_class = enrollments[e].activity_class
          BY <3>1, <4>2 DEF Inside
        <5> QED
          BY <2>1, <5>1 DEF SameFor
      <4> QED
        BY <4>1, <4>2
    <3>2. CASE /\ enrollments[e].status = "UNSAVED"
               /\ enrollments'[e].activity_class = t.class
               /\ t.class \in ClassesToLock(t)
      BY <2>1, <3>2 DEF SameFor
    <3>3. CASE enrollments'[e] = enrollments[e]
      BY <3>3 DEF SameFor
    <3> QED
      BY <3>1, <3>2, <3>3, CommitWrites
  <2> QED
    BY <2>2, <2>3 DEF Applied, ClassSame
<1> QED
  BY <1>1, <1>2, <1>3, <1>4 DEF Untouched

LEMMA WriterInside ==
  ASSUME TypeOK, NEW t, Running(t), t.pc = "writing"
  PROVE  /\ Inside(t, t.plan) /\ ClassesToLock(t) = t.held
         /\ Asked(t) /\ Current(t)
<1>1. Asked(t) /\ Current(t) /\ MissingLocks(t) = {} /\ t.held \subseteq ClassesToLock(t)
  BY DEF Running
<1>2. PICK ttl \in OfferTtls, window \in Windows :
        Accepted(t, window) /\ t.plan = PlanOf(t, ttl, window)
  BY <1>1 DEF Current
<1>3. Inside(t, PlanOf(t, ttl, window))
  BY <1>1, <1>2, PlanInside
<1> QED
  BY <1>1, <1>2, <1>3 DEF MissingLocks

LEMMA HistoryAlways ==
  ASSUME NEW A, NEW D, History(A, D)
  PROVE  HistoryOK'
BY DEF History, HistoryOK

LEMMA CommitStep ==
  ASSUME Safe, NEW p \in Process, Commit(p)
  PROVE  [Next]_vars /\ Safe'
<1>1. PICK t : t = tx[p]
  OBVIOUS
<1>2. Applied(t) /\ t.pc = "writing" /\ tx' = [tx EXCEPT ![p] = Idle]
  BY <1>1, CommitApplies
<1>3. Running(t) /\ TypeOK /\ TxOK /\ HistoryOK
  BY <1>1, <1>2, AtWork DEF Safe
<1>4. Inside(t, t.plan) /\ ClassesToLock(t) = t.held /\ Asked(t) /\ Current(t)
  BY <1>2, <1>3, WriterInside
<1>5. [Next]_vars
  BY <1>2, <1>3, <1>4, Serves
<1>6. TypeOK'
  BY <1>3, <1>5, TypeStep
<1>7. HistoryOK'
  BY <1>2, HistoryAlways DEF Applied
<1>8. Kept
  BY <1>2, <1>3, <1>4, CommitKeeps
<1>9. t.call = "cancel_class" => t.class \in ClassesToLock(t)
  BY DEF ClassesToLock
<1>10. ASSUME NEW q \in Process \ {p}, tx[q].pc = "writing"
       PROVE  Untouched(tx[q])
  <2>1. PICK u : u = tx[q]
    OBVIOUS
  <2>2. Running(u)
    BY <1>3, <1>10, <2>1, AtWork
  <2>3. Inside(u, u.plan) /\ ClassesToLock(u) = u.held /\ Asked(u)
    BY <1>3, <1>10, <2>1, <2>2, WriterInside
  <2>4. Apart(t, u)
    BY <1>1, <1>3, <2>1 DEF TxOK
  <2>5. ClassesToLock(u) \subseteq Class
    BY <1>3, <2>3, LocksTyped
  <2>6. Untouched(u)
    BY <1>2, <1>3, <1>4, <1>9, <2>3, <2>4, <2>5, CommitTouchesOwn DEF Apart
  <2> QED
    BY <2>1, <2>6
<1>11. \A q \in Process : Apart(Idle, tx[q])
  BY IdleFields DEF Apart
<1>12. TxOK'
  BY <1>2, <1>3, <1>6, <1>8, <1>10, <1>11, OneMoves
<1> QED
  BY <1>5, <1>6, <1>7, <1>12 DEF Safe

-----------------------------------------------------------------------------
(* The services, implemented *)

(* A write of one class that nobody has locked. *)
LEMMA ClassWrite ==
  ASSUME TypeOK, TypeOK', TxOK, NEW c, ClassFree(c),
         UNCHANGED <<enrollments, term_active, now, tx>>,
         \A d \in Class \ {c} : class_status'[d] = class_status[d] /\ capacity'[d] = capacity[d]
  PROVE  TxOK'
<1>1. Kept
  BY DEF Kept, SavedRows
<1>2. ASSUME NEW q \in Process, tx[q].pc = "writing"
      PROVE  Untouched(tx[q])
  <2>1. PICK u : u = tx[q]
    OBVIOUS
  <2>2. Running(u)
    BY <1>2, <2>1, AtWork
  <2>3. ClassesToLock(u) = u.held /\ ClassesToLock(u) \subseteq Class
    BY <1>2, <2>1, <2>2, WriterInside, LocksTyped
  <2>4. c \notin u.held
    BY <2>1 DEF ClassFree
  <2>5. \A d \in ClassesToLock(u) : ClassSame(d)
    BY <2>3, <2>4 DEF ClassSame, SameFor
  <2>6. Untouched(u)
    BY <2>5 DEF Untouched
  <2> QED
    BY <2>1, <2>6
<1> QED
  BY <1>1, <1>2, AllStay

LEMMA TransactionStepServes ==
  ASSUME Safe, NEW p \in Process, TransactionStep(p)
  PROVE  [Next]_vars /\ Safe'
<1>1. CASE \/ BeginRegistration(p) \/ BeginDecision(p) \/ BeginMove(p)
           \/ BeginCancelClass(p) \/ BeginSweep(p)
  BY <1>1, BeginSteps
<1>2. CASE LockClass(p)
  BY <1>2, LockStep
<1>3. CASE ReadRows(p)
  BY <1>3, ReadStep
<1>4. CASE Commit(p)
  BY <1>4, CommitStep
<1>5. CASE Crash(p)
  BY <1>5, IdleStep DEF Crash
<1> QED
  BY <1>1, <1>2, <1>3, <1>4, <1>5 DEF TransactionStep

LEMMA PublishServes ==
  ASSUME Safe, NEW c \in Class, Publish(c)
  PROVE  [Next]_vars /\ Safe'
<1>1. PublishClass(c) /\ ClassFree(c) /\ UNCHANGED tx
  BY DEF Publish
<1>2. [Next]_vars
  BY <1>1 DEF Next, ClassStep
<1>3. TypeOK'
  BY <1>2, TypeStep DEF Safe
<1>4. /\ UNCHANGED <<enrollments, term_active, now, tx>>
      /\ \A d \in Class \ {c} : class_status'[d] = class_status[d] /\ capacity'[d] = capacity[d]
  BY <1>1 DEF PublishClass, Safe, TypeOK
<1>5. TxOK'
  BY <1>1, <1>3, <1>4, ClassWrite DEF Safe
<1>6. HistoryOK'
  BY <1>1, HistoryAlways DEF PublishClass
<1> QED
  BY <1>2, <1>3, <1>5, <1>6 DEF Safe

LEMMA TimeServes ==
  ASSUME Safe, TimePasses
  PROVE  [Next]_vars /\ Safe'
<1>1. Tick /\ UNCHANGED tx /\ \A q \in Process : tx[q].pc # "writing"
  BY DEF TimePasses
<1>2. [Next]_vars
  BY <1>1 DEF Next
<1>3. TypeOK'
  BY <1>2, TypeStep DEF Safe
<1>4. Kept
  BY <1>1 DEF Tick, tables, Kept, SavedRows
<1>5. TxOK'
  BY <1>1, <1>3, <1>4, AllStay DEF Safe
<1>6. HistoryOK'
  BY <1>1, HistoryAlways DEF Tick
<1> QED
  BY <1>2, <1>3, <1>5, <1>6 DEF Safe

LEMMA StutterServes ==
  ASSUME Safe, UNCHANGED txvars
  PROVE  [Next]_vars /\ Safe'
<1>1. UNCHANGED vars /\ UNCHANGED tx
  BY DEF txvars
<1>2. TypeOK'
  BY <1>1, TypeStep DEF Safe
<1>3. HistoryOK'
  BY <1>1 DEF Safe, vars, HistoryOK, HasFreeSeat, OverCapacity, SeatsTaken, SeatHolders, RowsOf, LiveOffer
<1>4. TxOK'
  BY <1>1, <1>2, NothingTouched, AllStay DEF Safe
<1> QED
  BY <1>1, <1>2, <1>3, <1>4 DEF Safe

LEMMA SafeInit == TxInit => Safe
<1> SUFFICES ASSUME TxInit PROVE Safe
  OBVIOUS
<1>1. TypeOK
  BY TypeInit DEF TxInit
<1>2. TxOK
  BY IdleFields DEF TxInit, TxOK, Apart
<1>3. HistoryOK
  BY DEF TxInit, Init, HistoryOK
<1> QED
  BY <1>1, <1>2, <1>3 DEF Safe

LEMMA SafeStep == Safe /\ [TxNext]_txvars => [Next]_vars /\ Safe'
<1> SUFFICES ASSUME Safe, [TxNext]_txvars PROVE [Next]_vars /\ Safe'
  OBVIOUS
<1>1. CASE \E p \in Process : TransactionStep(p)
  BY <1>1, TransactionStepServes
<1>2. CASE \E c \in Class : Publish(c)
  BY <1>2, PublishServes
<1>3. CASE TimePasses
  BY <1>3, TimeServes
<1>4. CASE UNCHANGED txvars
  BY <1>4, StutterServes
<1> QED
  BY <1>1, <1>2, <1>3, <1>4 DEF TxNext

(* The transactions implement the atomic services: however they interleave,*)
(* wait and crash, the tables change as if one call ran at a time.         *)
THEOREM ServicesAreAtomic == TxSpec => AtomicServices
<1>1. Safe /\ [TxNext]_txvars => [vars' # vars => Next]_vars
  BY SafeStep
<1>2. TxInit => Init
  BY DEF TxInit
<1> QED
  BY <1>1, <1>2, SafeInit, SafeStep, PTL DEF TxSpec, AtomicServices

(* So what is proved of the services holds of the transactions too.        *)
THEOREM TransactionsAreServices == TxSpec => Spec
<1>1. TxInit => Init
  BY DEF TxInit
<1> QED
  BY <1>1, SafeInit, SafeStep, PTL DEF TxSpec, Spec

-----------------------------------------------------------------------------
(* Nobody waits in a circle. *)

(* Among finitely many, one has the highest key. *)
LEMMA Highest ==
  ASSUME NEW S, IsFiniteSet(S), S # {}, NEW key, \A p \in S : key[p] \in Nat
  PROVE  \E p \in S : \A q \in S : key[q] <= key[p]
<1> DEFINE Above(p) == {q \in S : key[p] < key[q]}
           T == {Above(p) : p \in S}
<1>1. T \subseteq FiniteSubsetsOf(S) /\ T # {}
  <2>1. FiniteSubsetsOf(S) = SUBSET S
    BY FS_FiniteSubsetsOfFinite
  <2>2. \A p \in S : Above(p) \in SUBSET S
    OBVIOUS
  <2>3. PICK p \in S : TRUE
    OBVIOUS
  <2>4. Above(p) \in T
    OBVIOUS
  <2> HIDE DEF Above
  <2> QED
    BY <2>1, <2>2, <2>4
<1>2. IsWellFoundedOn(StrictSubsetOrdering(S), FiniteSubsetsOf(S))
  BY FS_StrictSubsetOrderingWellFounded
<1>3. PICK X \in T : \A Y \in T : <<Y, X>> \notin StrictSubsetOrdering(S)
  <2> HIDE DEF T
  <2> QED
    BY <1>1, <1>2, WFMin
<1>4. PICK p \in S : X = Above(p)
  OBVIOUS
<1>5. ASSUME NEW q \in S, key[p] < key[q] PROVE FALSE
  <2>1. Above(q) \subseteq X /\ q \in X /\ q \notin Above(q)
    BY <1>4, <1>5
  <2>2. <<Above(q), X>> \in StrictSubsetOrdering(S)
    BY <1>4, <2>1 DEF StrictSubsetOrdering
  <2> QED
    BY <1>3, <2>2
<1>6. \A q \in S : key[q] <= key[p]
  BY <1>5
<1> QED
  BY <1>6

LEMMA NobodyStuck ==
  ASSUME TypeOK, TxOK, IsFiniteSet(Busy)
  PROVE  NoDeadlock
<1> SUFFICES ASSUME NEW S \in (SUBSET Process) \ {{}},
                    \A p \in S : \E q \in S : WaitsFor(p, q)
             PROVE  FALSE
  BY DEF NoDeadlock
<1>1. ASSUME NEW p \in S
      PROVE  /\ tx[p].pc = "locking" /\ Running(tx[p]) /\ tx[p].plan = NoPlan
             /\ p \in Busy
  <2>1. tx[p].pc = "locking"
    BY DEF WaitsFor
  <2>2. Running(tx[p])
    BY <2>1, AtWork
  <2> QED
    BY <2>1, <2>2, IdleFields DEF Running, Busy
<1>2. ASSUME NEW p \in S
      PROVE  /\ MissingLocks(tx[p]) # {}
             /\ \E q \in S : NextLock(tx[p]) \in tx[q].held
  <2>1. PICK q \in S : WaitsFor(p, q)
    OBVIOUS
  <2>2. DOMAIN tx[q].plan.rows = {}
    BY <1>1, IdleFields
  <2> QED
    BY <2>1, <2>2 DEF WaitsFor
<1>3. ASSUME NEW p \in S
      PROVE  NextLock(tx[p]) \in MissingLocks(tx[p]) /\ NextLock(tx[p]) \in Class
  BY <1>1, <1>2, LowestNext, LocksTyped DEF Running, MissingLocks
<1> DEFINE key == [p \in S |-> Pk[NextLock(tx[p])]]
<1>4. \A p \in S : key[p] \in Nat
  BY <1>3, PkAssumption
<1>5. IsFiniteSet(S) /\ S # {}
  BY <1>1, FS_Subset
<1>6. \A p \in S : \E q \in S : key[p] < key[q]
  <2> SUFFICES ASSUME NEW p \in S PROVE \E q \in S : key[p] < key[q]
    OBVIOUS
  <2>1. PICK q \in S : NextLock(tx[p]) \in tx[q].held
    BY <1>2
  <2>2. Pk[NextLock(tx[p])] < Pk[NextLock(tx[q])]
    BY <1>1, <1>3, <2>1 DEF Running, InKeyOrder
  <2> QED
    BY <2>2
<1>7. PICK p \in S : \A q \in S : key[q] <= key[p]
  <2> HIDE DEF key
  <2> QED
    BY <1>4, <1>5, Highest
<1>8. PICK q \in S : key[p] < key[q]
  BY <1>6
<1>9. key[q] <= key[p] /\ key[p] \in Nat /\ key[q] \in Nat
  BY <1>4, <1>7
<1> HIDE DEF key
<1> QED
  BY <1>8, <1>9

(* A step is taken by one process at most. *)
LEMMA OneAtATime ==
  ASSUME TxOK, [TxNext]_txvars
  PROVE  \E p : \A q \in Process \ {p} : tx'[q] = tx[q]
<1>1. ASSUME NEW p \in Process, TransactionStep(p)
      PROVE  \A q \in Process \ {p} : tx'[q] = tx[q]
  BY <1>1 DEF TxOK, TransactionStep, BeginRegistration, BeginDecision, BeginMove, BeginCancelClass,
              BeginSweep, Begin, LockClass, ReadRows, Commit, Crash
<1>2. CASE \E p \in Process : TransactionStep(p)
  BY <1>1, <1>2
<1>3. CASE UNCHANGED tx
  BY <1>3
<1> QED
  BY <1>2, <1>3 DEF TxNext, Publish, TimePasses, txvars

LEMMA FewBusy == IsFiniteSet(Busy) /\ TxOK /\ [TxNext]_txvars => IsFiniteSet(Busy')
<1> SUFFICES ASSUME IsFiniteSet(Busy), TxOK, [TxNext]_txvars PROVE IsFiniteSet(Busy')
  OBVIOUS
<1>1. PICK p : \A q \in Process \ {p} : tx'[q] = tx[q]
  BY OneAtATime
<1>2. Busy' \subseteq Busy \cup {p}
  BY <1>1 DEF Busy
<1> QED
  BY <1>2, FS_AddElement, FS_Subset

(* Locks are taken in the order of the classes' keys, and rows only once   *)
(* the classes are locked: no set of transactions waits in a circle.       *)
THEOREM NobodyWaitsInACircle == TxSpec => []NoDeadlock
<1>1. TxInit => IsFiniteSet(Busy)
  <2> SUFFICES ASSUME TxInit PROVE IsFiniteSet(Busy)
    OBVIOUS
  <2>1. Busy = {}
    BY DEF TxInit, Busy
  <2> QED
    BY <2>1, FS_EmptySet
<1>2. Safe /\ IsFiniteSet(Busy) => NoDeadlock
  BY NobodyStuck DEF Safe
<1>3. Safe => TxOK
  BY DEF Safe
<1>4. IsFiniteSet(Busy) /\ TxOK /\ [TxNext]_txvars => IsFiniteSet(Busy)'
  BY FewBusy
<1> QED
  BY <1>1, <1>2, <1>3, <1>4, SafeInit, SafeStep, PTL DEF TxSpec

-----------------------------------------------------------------------------
(* The edits that take no lock *)

(* An edit under way, typed; with one editor, the capacity it measured is  *)
(* still the class's when it saves.                                        *)
EditTyped ==
  /\ edit = [a \in Editor |-> edit[a]]
  /\ \A a \in Editor :
       edit[a].pc # "idle" => /\ edit[a].class \in Class
                              /\ edit[a].status \in ClassStatus
                              /\ edit[a].capacity \in Nat

WellMeasured ==
  \A a \in Editor : edit[a].pc = "measured" => edit[a].old = capacity[edit[a].class]

EditsSafe == Safe /\ EditTyped

LEMMA NoEditFields == NoEdit.pc = "idle"
BY DEF NoEdit

LEMMA LoadedFields ==
  ASSUME TypeOK, NEW c \in Class, NEW n \in Capacities, NEW e, e = Loaded(c, n)
  PROVE  e.pc = "loaded" /\ e.class = c /\ e.status \in ClassStatus /\ e.capacity \in Nat
<1>1. class_status[c] \in ClassStatus /\ n \in Nat
  BY SettingsAssumption DEF TypeOK
<1>2. PICK st : st = class_status[c]
  OBVIOUS
<1>3. PICK x : x = [NoEdit EXCEPT !.pc = "loaded"]
  OBVIOUS
<1>4. x = [pc |-> "loaded", class |-> Nowhere, status |-> "DRAFT", capacity |-> 0, old |-> 0]
  BY <1>3 DEF NoEdit
<1>5. PICK y : y = [x EXCEPT !.class = c]
  OBVIOUS
<1>6. y = [pc |-> "loaded", class |-> c, status |-> "DRAFT", capacity |-> 0, old |-> 0]
  BY <1>4, <1>5
<1>7. PICK z : z = [y EXCEPT !.status = st]
  OBVIOUS
<1>8. z = [pc |-> "loaded", class |-> c, status |-> st, capacity |-> 0, old |-> 0]
  BY <1>6, <1>7
<1>9. e = [z EXCEPT !.capacity = n]
  BY <1>2, <1>3, <1>5, <1>7 DEF Loaded
<1> QED
  BY <1>1, <1>2, <1>8, <1>9

Looking(at, c) == [NoEdit EXCEPT !.pc = at, !.class = c]

LEMMA OtherFields ==
  ASSUME NEW at \in {"publishing", "archiving"}, NEW c \in Class, NEW e, e = Looking(at, c)
  PROVE  e.pc = at /\ e.class = c /\ e.status \in ClassStatus /\ e.capacity \in Nat
<1>1. PICK x : x = [NoEdit EXCEPT !.pc = at]
  OBVIOUS
<1>2. x = [pc |-> at, class |-> Nowhere, status |-> "DRAFT", capacity |-> 0, old |-> 0]
  BY <1>1 DEF NoEdit
<1>3. e = [x EXCEPT !.class = c]
  BY <1>1 DEF Looking
<1>4. e = [pc |-> at, class |-> c, status |-> "DRAFT", capacity |-> 0, old |-> 0]
  BY <1>2, <1>3
<1> QED
  BY <1>4 DEF ClassStatus

LEMMA StartTyped ==
  ASSUME EditTyped, NEW a \in Editor, NEW e, Start(a, e), e.class \in Class,
         e.status \in ClassStatus, e.capacity \in Nat
  PROVE  EditTyped'
BY DEF Start, EditTyped

(* An editor reads the class. *)
LEMMA LookStep ==
  ASSUME EditsSafe, NEW a \in Editor,
         \/ Measure(a)
         \/ \E c \in Class : \/ LoadToPublish(a, c) \/ CheckToArchive(a, c)
                            \/ \E n \in Capacities : OpenForm(a, c, n) \/ OpenUpsert(a, c, n)
  PROVE  EditsSafe' /\ UNCHANGED vars
<1>1. UNCHANGED txvars
  BY DEF Measure, LoadToPublish, CheckToArchive, OpenForm, OpenUpsert, Start
<1>2. Safe' /\ UNCHANGED vars
  BY <1>1, StutterServes DEF EditsSafe, txvars
<1>3. CASE Measure(a)
  <2>1. PICK e, u : e = edit[a] /\ u = capacity[edit[a].class]
    OBVIOUS
  <2>2. edit' = [edit EXCEPT ![a].pc = "measured", ![a].old = u] /\ e.pc = "loaded"
    BY <1>3, <2>1 DEF Measure
  <2>3. PICK x : x = [e EXCEPT !.pc = "measured"]
    OBVIOUS
  <2>4. PICK y : y = [x EXCEPT !.old = u]
    OBVIOUS
  <2>5. y.class = e.class /\ y.status = e.status /\ y.capacity = e.capacity
    BY <2>3, <2>4
  <2>6. edit' = [edit EXCEPT ![a] = y]
    BY <2>1, <2>2, <2>3, <2>4
  <2>7. EditTyped'
    BY <2>1, <2>2, <2>5, <2>6 DEF EditTyped, EditsSafe
  <2> QED
    BY <1>2, <2>7 DEF EditsSafe
<1>4. ASSUME NEW c \in Class, LoadToPublish(a, c) \/ CheckToArchive(a, c)
      PROVE  EditTyped'
  <2>1. PICK at \in {"publishing", "archiving"} :
          Start(a, Looking(at, c))
    BY <1>4 DEF LoadToPublish, CheckToArchive, Looking
  <2>2. PICK e : e = Looking(at, c)
    OBVIOUS
  <2>3. e.class = c /\ e.status \in ClassStatus /\ e.capacity \in Nat
    BY <2>2, OtherFields
  <2>4. Start(a, e)
    BY <2>1, <2>2
  <2> QED
    BY <2>3, <2>4, StartTyped DEF EditsSafe
<1>5. ASSUME NEW c \in Class, NEW n \in Capacities, OpenForm(a, c, n) \/ OpenUpsert(a, c, n)
      PROVE  EditTyped'
  <2>1. PICK e : e = Loaded(c, n)
    OBVIOUS
  <2>2. Start(a, e)
    BY <1>5, <2>1 DEF OpenForm, OpenUpsert
  <2> QED
    BY <2>1, <2>2, LoadedFields, StartTyped DEF EditsSafe, Safe
<1> QED
  BY <1>2, <1>3, <1>4, <1>5 DEF EditsSafe

(* An editor writes the class. *)
Writes(a) == Save(a) \/ SavePublished(a) \/ SaveArchived(a)

Wrote(a, c, st, n, A, D) ==
  /\ c \in Class /\ st \in ClassStatus /\ n \in Nat
  /\ edit[a].class = c /\ ClassFree(c)
  /\ UNCHANGED <<enrollments, term_active, now, news, tx>>
  /\ class_status' = [class_status EXCEPT ![c] = st]
  /\ capacity' = [capacity EXCEPT ![c] = n]
  /\ History(A, D)
  /\ edit' = [edit EXCEPT ![a] = NoEdit]
  /\ \/ n = capacity[c]
     \/ /\ edit[a].pc = "measured" /\ D = {c}
        /\ A = IF n > edit[a].old THEN SeatFreedAlert(c) ELSE {}

LEMMA WriteShape ==
  ASSUME EditsSafe, NEW a \in Editor, Writes(a)
  PROVE  \E c, st, n, A, D : Wrote(a, c, st, n, A, D)
<1>1. PICK e, c : e = edit[a] /\ c = e.class
  OBVIOUS
<1>2. TypeOK /\ EditTyped
  BY DEF EditsSafe, Safe
<1>3. e.pc # "idle"
  BY <1>1 DEF Writes, Save, SavePublished, SaveArchived
<1>4. c \in Class /\ e.status \in ClassStatus /\ e.capacity \in Nat
  BY <1>1, <1>2, <1>3 DEF EditTyped
<1>5. CASE Save(a)
  <2>1. PICK A : A = IF e.capacity > e.old THEN SeatFreedAlert(c) ELSE {}
    OBVIOUS
  <2>2. /\ e.pc = "measured" /\ ClassFree(c)
        /\ class_status' = [class_status EXCEPT ![c] = e.status]
        /\ capacity' = [capacity EXCEPT ![c] = e.capacity]
        /\ UNCHANGED <<enrollments, term_active, now, news, tx>>
        /\ History(A, {c})
        /\ edit' = [edit EXCEPT ![a] = NoEdit]
    BY <1>1, <1>5, <2>1 DEF Save, Done
  <2>3. Wrote(a, c, e.status, e.capacity, A, {c})
    BY <1>1, <1>4, <2>1, <2>2 DEF Wrote
  <2> QED
    BY <2>3
<1>6. CASE ~Save(a)
  <2>1. PICK st \in ClassStatus : SetStatus(a, st)
    BY <1>6 DEF Writes, SavePublished, SaveArchived, ClassStatus
  <2>2. capacity' = [capacity EXCEPT ![c] = capacity[c]] /\ capacity[c] \in Nat
    BY <1>2, <1>4, <2>1 DEF SetStatus, TypeOK
  <2>3. /\ ClassFree(c)
        /\ class_status' = [class_status EXCEPT ![c] = st]
        /\ UNCHANGED <<enrollments, term_active, now, news, tx>>
        /\ History({}, {})
        /\ edit' = [edit EXCEPT ![a] = NoEdit]
    BY <1>1, <2>1 DEF SetStatus, Done
  <2>4. Wrote(a, c, st, capacity[c], {}, {})
    BY <1>1, <1>4, <2>2, <2>3 DEF Wrote
  <2> QED
    BY <2>4
<1> QED
  BY <1>5, <1>6

LEMMA WriteStep ==
  ASSUME EditsSafe, NEW a \in Editor, Writes(a)
  PROVE  EditsSafe'
<1>1. PICK c, st, n, A, D : Wrote(a, c, st, n, A, D)
  BY WriteShape
<1>2. TypeOK'
  BY <1>1, HistoryType DEF EditsSafe, Safe, TypeOK, Wrote
<1>3. TxOK'
  <2>1. \A d \in Class \ {c} : class_status'[d] = class_status[d] /\ capacity'[d] = capacity[d]
    BY <1>1 DEF EditsSafe, Safe, TypeOK, Wrote
  <2> QED
    BY <1>1, <1>2, <2>1, ClassWrite DEF EditsSafe, Safe, Wrote
<1>4. HistoryOK'
  BY <1>1, HistoryAlways DEF Wrote
<1>5. EditTyped'
  BY <1>1, NoEditFields DEF EditsSafe, EditTyped, Wrote
<1> QED
  BY <1>2, <1>3, <1>4, <1>5 DEF EditsSafe, Safe

LEMMA EditsSafeInit == EditsInit => EditsSafe
BY SafeInit, NoEditFields DEF EditsInit, EditsSafe, EditTyped

(* A step of the edits is one of the services, or reads or writes a class. *)
LEMMA EditsCases ==
  ASSUME EditsSafe, [EditsNext]_editvars
  PROVE  /\ EditsSafe'
         /\ \/ [Next]_vars /\ UNCHANGED edit /\ (UNCHANGED capacity \/ UNCHANGED vars)
            \/ UNCHANGED vars /\ \E a \in Editor : ~Writes(a) /\ EditStep(a)
            \/ \E a \in Editor : Writes(a)
<1>1. ASSUME NEW p \in Process, TransactionStep(p), UNCHANGED edit
      PROVE  EditsSafe' /\ [Next]_vars /\ UNCHANGED capacity
  <2>1. Safe' /\ [Next]_vars
    BY <1>1, TransactionStepServes DEF EditsSafe
  <2>2. UNCHANGED capacity
    BY <1>1 DEF TransactionStep, BeginRegistration, BeginDecision, BeginMove, BeginCancelClass,
                BeginSweep, Begin, LockClass, ReadRows, Commit, Crash, vars
  <2>3. EditTyped'
    BY <1>1 DEF EditsSafe, EditTyped
  <2> QED
    BY <2>1, <2>2, <2>3 DEF EditsSafe
<1>2. CASE TimePasses /\ UNCHANGED edit
  <2>1. Safe' /\ [Next]_vars
    BY <1>2, TimeServes DEF EditsSafe
  <2>2. UNCHANGED capacity
    BY <1>2 DEF TimePasses, Tick, tables
  <2>3. EditTyped'
    BY <1>2 DEF EditsSafe, EditTyped
  <2> QED
    BY <1>2, <2>1, <2>2, <2>3 DEF EditsSafe
<1>3. ASSUME NEW a \in Editor, EditStep(a), ~Writes(a)
      PROVE  EditsSafe' /\ UNCHANGED vars
  BY <1>3, LookStep DEF EditStep, Writes
<1>4. ASSUME NEW a \in Editor, Writes(a)
      PROVE  EditsSafe'
  BY <1>4, WriteStep
<1>5. CASE UNCHANGED editvars
  <2>1. Safe' /\ UNCHANGED vars
    BY <1>5, StutterServes DEF EditsSafe, editvars, txvars
  <2>2. EditTyped'
    BY <1>5 DEF EditsSafe, EditTyped, editvars
  <2> QED
    BY <1>5, <2>1, <2>2 DEF EditsSafe, editvars
<1> QED
  BY <1>1, <1>2, <1>3, <1>4, <1>5 DEF EditsNext

(* A write of a class that raises its capacity alerts its admins; one that *)
(* changes it at all is an administrator's decision.                       *)
LEMMA WriteOver ==
  ASSUME EditsSafe, EditsSafe', NoAccidentalOversubscription, NEW a \in Editor, Writes(a)
  PROVE  NoAccidentalOversubscription'
<1>1. PICK c, st, n, A, D : Wrote(a, c, st, n, A, D)
  BY WriteShape
<1>2. now <= now' /\ \A f \in Id : NoNewSeat(f)
  BY <1>1 DEF Wrote, NoNewSeat, EditsSafe, Safe, TypeOK
<1>3. ASSUME NEW d \in Class \ D PROVE OverCapacity(d)' => OverCapacity(d)
  <2>1. capacity'[d] = capacity[d]
    BY <1>1 DEF Wrote, EditsSafe, Safe, TypeOK
  <2> QED
    BY <1>2, <2>1, NobodySeated DEF EditsSafe, Safe
<1>4. Decides(D)
  BY <1>1, <1>3 DEF Decides, Within, Wrote
<1> QED
  BY <1>4, HistoryOver

LEMMA EditsOver ==
  EditsSafe /\ NoAccidentalOversubscription /\ [EditsNext]_editvars => NoAccidentalOversubscription'
<1> SUFFICES ASSUME EditsSafe, NoAccidentalOversubscription, [EditsNext]_editvars
             PROVE  NoAccidentalOversubscription'
  OBVIOUS
<1>1. EditsSafe' /\ ([Next]_vars \/ \E a \in Editor : Writes(a))
  BY EditsCases
<1> QED
  BY <1>1, OverStep, WriteOver DEF EditsSafe, Safe

(* Whatever the edits that take no lock do beside the services, only an    *)
(* administrator's decision takes a class over its capacity.               *)
THEOREM EditsNeverAccidentallyOver == EditsSpec => []NoAccidentalOversubscription
<1>1. EditsInit => NoAccidentalOversubscription
  BY OverInit DEF EditsInit, TxInit
<1>2. EditsSafe /\ [EditsNext]_editvars => EditsSafe'
  BY EditsCases
<1> QED
  BY <1>1, <1>2, EditsSafeInit, EditsOver, PTL DEF EditsSpec

-----------------------------------------------------------------------------
(* What no edit of a class can do to a family. *)

(* An edit that is not a service leaves registrations, offers and messages *)
(* alone.                                                                  *)
LEMMA EditsKeepRows ==
  ASSUME EditsSafe, [EditsNext]_editvars
  PROVE  EditsSafe' /\ ([Next]_vars \/ UNCHANGED <<enrollments, now, news>>)
<1>1. ASSUME NEW a \in Editor, Writes(a)
      PROVE  UNCHANGED <<enrollments, now, news>>
  BY <1>1, WriteShape DEF Wrote
<1> QED
  BY <1>1, EditsCases DEF vars

FamilySafe == OneActiveRegistration /\ OffersDated /\ NewsOK

LEMMA EditsFamilySafe == EditsSafe /\ FamilySafe /\ [EditsNext]_editvars => FamilySafe'
<1> SUFFICES ASSUME EditsSafe, FamilySafe, [EditsNext]_editvars PROVE FamilySafe'
  OBVIOUS
<1>1. CASE [Next]_vars
  <2>1. TypeOK /\ TypeOK' /\ OneActiveRegistration /\ OffersDated /\ NewsOK
    BY EditsKeepRows DEF EditsSafe, Safe, FamilySafe
  <2>2. OneActiveRegistration'
    BY <1>1, <2>1, OnceStep
  <2>3. OffersDated'
    BY <1>1, <2>1, DatedStep
  <2>4. NewsOK'
    BY <1>1, <2>1, NewsStep
  <2> QED
    BY <2>2, <2>3, <2>4 DEF FamilySafe
<1>2. CASE UNCHANGED <<enrollments, now, news>>
  <2>1. OneActiveRegistration' /\ OffersDated'
    BY <1>2 DEF FamilySafe, OneActiveRegistration, OffersDated
  <2>2. NewsOK'
    BY <1>2 DEF FamilySafe, NewsOK, InOrder, BlankUnsaved, LiveIsNewest, AskedOnceIn,
                NewsMatchesPlace, Saved, RowsOf
  <2> QED
    BY <2>1, <2>2 DEF FamilySafe
<1> QED
  BY <1>1, <1>2, EditsKeepRows

(* Beside any unlocked saves of classes, what a family can see of its own  *)
(* places stays right: a child has one live registration in a class, an    *)
(* offer holds its seat until it lapses, and the last message about a      *)
(* class is true of the newest registration there.                         *)
THEOREM EditsKeepFamilies ==
  EditsSpec => [](OneActiveRegistration /\ OfferHeldOrLapsed /\ NewsMatchesPlace)
<1>1. EditsInit => FamilySafe
  <2> SUFFICES ASSUME EditsInit PROVE FamilySafe
    OBVIOUS
  <2>1. Init
    BY DEF EditsInit, TxInit
  <2>2. OneActiveRegistration
    BY <2>1, InitRows DEF OneActiveRegistration, Active
  <2> QED
    BY <2>1, <2>2, DatedInit, NewsInit DEF FamilySafe
<1>2. EditsSafe /\ [EditsNext]_editvars => EditsSafe'
  BY EditsCases
<1>3. EditsSafe /\ FamilySafe => OneActiveRegistration /\ OfferHeldOrLapsed /\ NewsMatchesPlace
  BY DatedOffers DEF EditsSafe, Safe, FamilySafe, NewsOK
<1> QED
  BY <1>1, <1>2, <1>3, EditsSafeInit, EditsFamilySafe, PTL DEF EditsSpec

(* Nor does such a save bring a cancelled registration back.               *)
THEOREM EditsKeepCancelled == EditsSpec => CancelledIsFinal
<1>1. EditsSafe /\ [EditsNext]_editvars => EditsSafe'
  BY EditsKeepRows
<1>2. ASSUME EditsSafe, [EditsNext]_editvars,
             NEW e \in Id, enrollments[e].status = "CANCELLED"
      PROVE  enrollments'[e] = enrollments[e]
  <2>1. [Next]_vars \/ UNCHANGED enrollments
    BY <1>2, EditsKeepRows
  <2>2. [Next]_vars => Lives(e)
    BY <1>2, RowLife DEF EditsSafe, Safe
  <2> QED
    BY <1>2, <2>1, <2>2 DEF Lives, Born, Changed, NextId, Active
<1>3. EditsSafe /\ [EditsNext]_editvars =>
        [\A e \in Id : enrollments[e].status = "CANCELLED" =>
                         enrollments'[e] = enrollments[e]]_vars
  BY <1>2
<1> QED
  BY <1>1, <1>3, EditsSafeInit, PTL DEF EditsSpec, CancelledIsFinal

-----------------------------------------------------------------------------
(* Who gets in, and when *)

(* The services let nobody into a class that is not published. *)
Admits(e) ==
  enrollments'[e].status \in Active /\ enrollments'[e].status # enrollments[e].status
    => class_status'[enrollments'[e].activity_class] = "PUBLISHED"

LEMMA SweptAdmits ==
  ASSUME TypeOK, NEW c \in Class, NEW f \in Id, enrollments'[f] = Swept(c)[f]
  PROVE  Admits(f)
BY SweptRows DEF Admits, Active

LEMMA RegistrationAdmits ==
  ASSUME TypeOK, NEW ch \in Child, NEW c \in Class, Register(ch, c) \/ AdminRegister(ch, c)
  PROVE  \A f \in Id : Admits(f)
<1>1. PICK st \in {"REQUESTED", "ENROLLED"}, e \in Id :
        enrollments' = [enrollments EXCEPT ![e] = NewRow(ch, c, st)]
  BY DEF Register, AdminRegister
<1>2. NewRow(ch, c, st).activity_class = c
  BY NewRowRow DEF TypeOK, Active
<1>3. class_status'[c] = "PUBLISHED"
  BY DEF Register, AdminRegister, Open, catalog
<1> QED
  BY <1>1, <1>2, <1>3 DEF Admits, TypeOK

LEMMA TransferAdmits ==
  ASSUME TypeOK, NEW e \in Id, NEW c \in Class, Transfer(e, c)
  PROVE  \A g \in Id : Admits(g)
<1>1. PICK r, x : r = enrollments[e]
                  /\ x = [Cancelled(r, "TRANSFERRED") EXCEPT !.cancel_requested_at = Unset]
  OBVIOUS
<1>2. PICK f \in Id : enrollments' = [enrollments EXCEPT ![e] = x, ![f] = NewRow(r.child, c, "ENROLLED")]
  BY <1>1 DEF Transfer
<1>3. r \in Row /\ r.child \in Child
  BY <1>1 DEF TypeOK, Transfer, Active
<1>4. NewRow(r.child, c, "ENROLLED").activity_class = c
  BY <1>3, NewRowRow DEF TypeOK, Active
<1>5. x.status = "CANCELLED"
  <2>1. PICK y : y = Cancelled(r, "TRANSFERRED")
    OBVIOUS
  <2>2. y \in Row /\ y.status = "CANCELLED"
    BY <1>3, <2>1, CancelledRow DEF CancelReason
  <2> QED
    BY <1>1, <2>1, <2>2 DEF Row
<1>6. class_status'[c] = "PUBLISHED"
  BY DEF Transfer, Open, catalog
<1>7. PICK y : y = NewRow(r.child, c, "ENROLLED")
  OBVIOUS
<1>8. \A g \in Id : enrollments'[g] = IF g = f THEN y ELSE IF g = e THEN x ELSE enrollments[g]
  BY <1>2, <1>7 DEF TypeOK
<1> QED
  BY <1>4, <1>5, <1>6, <1>7, <1>8 DEF Admits, Active

LEMMA SweepingAdmits ==
  ASSUME TypeOK, NEW e \in Id, ApproveRequest(e) \/ OfferSeat(e)
  PROVE  \A f \in Id : Admits(f)
<1>1. PICK c : c = enrollments[e].activity_class
  OBVIOUS
<1>2. c \in Class
  BY <1>1 DEF TypeOK, ApproveRequest, OfferSeat
<1>3. class_status'[c] = "PUBLISHED"
  BY <1>1 DEF ApproveRequest, OfferSeat, Open, catalog
<1>4. \A f \in Id \ {e} : enrollments'[f] = Swept(c)[f]
  BY <1>1, <1>2, SweptRows DEF ApproveRequest, OfferSeat
<1>5. enrollments'[e].activity_class = c
  <2>1. Swept(c)[e].activity_class = c /\ Swept(c) \in [Id -> Row]
    BY <1>1, <1>2, SweptRows
  <2>2. CASE ApproveRequest(e)
    <3>1. PICK st \in {"ENROLLED", "WAITLISTED"} : enrollments' = [Swept(c) EXCEPT ![e].status = st]
      BY <1>1, <2>2 DEF ApproveRequest
    <3> QED
      BY <2>1, <3>1 DEF Row
  <2>3. CASE OfferSeat(e)
    <3>1. PICK tbl : tbl = Swept(c)
      OBVIOUS
    <3>2. PICK ttl \in OfferTtls :
            enrollments' = [tbl EXCEPT ![e].status = "OFFERED", ![e].offer_expires_at = now + ttl]
      BY <1>1, <2>3, <3>1 DEF OfferSeat
    <3>3. PICK x : x = [tbl EXCEPT ![e].status = "OFFERED"]
      OBVIOUS
    <3>4. x[e].activity_class = c /\ x[e] \in Row /\ x = [f \in Id |-> x[f]]
      BY <2>1, <3>1, <3>3 DEF Row, Status, Active
    <3>5. enrollments' = [x EXCEPT ![e].offer_expires_at = now + ttl]
      BY <3>2, <3>3
    <3> QED
      BY <3>4, <3>5 DEF Row
  <2> QED
    BY <2>2, <2>3
<1> QED
  BY <1>2, <1>3, <1>4, <1>5, SweptAdmits DEF Admits

LEMMA DecisionAdmits ==
  ASSUME TypeOK, NEW e \in Id,
         \/ RejectRequest(e) \/ ConfirmOffer(e) \/ DeclineOffer(e)
         \/ CancelByAdmin(e) \/ ParentCancel(e)
         \/ ConfirmCancellation(e) \/ DeclineCancellation(e)
  PROVE  \A f \in Id : Admits(f)
<1>1. enrollments[e] \in Row /\ enrollments = [f \in Id |-> enrollments[f]]
  BY DEF TypeOK
<1>2. ASSUME NEW reason, enrollments' = [enrollments EXCEPT ![e] = Cancelled(enrollments[e], reason)]
      PROVE  \A f \in Id : Admits(f)
  <2>1. Cancelled(enrollments[e], reason).status = "CANCELLED"
    BY <1>1 DEF Cancelled, Row
  <2> QED
    BY <1>1, <1>2, <2>1 DEF Admits, Active
<1>3. CASE ConfirmOffer(e)
  <2>1. PICK x : x = [enrollments EXCEPT ![e].status = "ENROLLED"]
    OBVIOUS
  <2>2. enrollments' = [x EXCEPT ![e].promoted_at = now]
    BY <1>3, <2>1 DEF ConfirmOffer
  <2>3. x = [f \in Id |-> x[f]] /\ x[e].activity_class = enrollments[e].activity_class
        /\ x[e] \in Row
        /\ \A f \in Id \ {e} : x[f] = enrollments[f]
    BY <1>1, <2>1 DEF Row, Status, Active
  <2>4. enrollments'[e].activity_class = enrollments[e].activity_class
        /\ \A f \in Id \ {e} : enrollments'[f] = enrollments[f]
    BY <2>2, <2>3 DEF Row
  <2>5. class_status'[enrollments[e].activity_class] = "PUBLISHED"
    BY <1>3 DEF ConfirmOffer, Open, catalog
  <2> QED
    BY <2>4, <2>5 DEF Admits
<1>4. ASSUME NEW at, enrollments' = [enrollments EXCEPT ![e].cancel_requested_at = at]
      PROVE  \A f \in Id : Admits(f)
  BY <1>1, <1>4 DEF Admits, Row
<1>5. CASE RequestCancellation(e) \/ DeclineCancellation(e)
  BY <1>4, <1>5 DEF RequestCancellation, DeclineCancellation
<1>6. CASE RejectRequest(e) \/ DeclineOffer(e) \/ \E reason : Cancel(e, reason)
  BY <1>2, <1>6 DEF RejectRequest, DeclineOffer, Cancel
<1> QED
  BY <1>3, <1>5, <1>6, ParentCancelCases DEF CancelByAdmin, ConfirmCancellation

LEMMA ClassAdmits ==
  ASSUME TypeOK, NEW c \in Class, ExpireOffers(c) \/ CancelClass(c)
  PROVE  \A f \in Id : Admits(f)
<1>1. CASE ExpireOffers(c)
  BY <1>1, SweptAdmits DEF ExpireOffers, SweepStep
<1>2. CASE CancelClass(c)
  <2>1. \A r \in Row : Cancelled(r, "CLASS_CANCELLED").status = "CANCELLED"
    BY DEF Cancelled, Row
  <2> QED
    BY <1>2, <2>1 DEF CancelClass, Admits, Active, TypeOK
<1> QED
  BY <1>1, <1>2

LEMMA ServicesAdmit ==
  ASSUME TypeOK, [Next]_vars
  PROVE  \A e \in Id : Admits(e)
<1>1. CASE RegistrationStep
  BY <1>1, RegistrationAdmits, TransferAdmits DEF RegistrationStep
<1>2. CASE DecisionStep
  BY <1>2, SweepingAdmits, DecisionAdmits DEF DecisionStep
<1>3. CASE ClassStep
  <2>1. PICK c \in Class :
          \/ ExpireOffers(c) \/ CancelClass(c)
          \/ UNCHANGED enrollments
    BY <1>3 DEF ClassStep, PublishClass, ArchiveClass, SetTermActive, EditCapacity, UpsertClass,
                SaveCapacity
  <2> QED
    BY <2>1, ClassAdmits DEF Admits
<1>4. CASE Tick \/ UNCHANGED vars
  BY <1>4 DEF Tick, tables, vars, Admits
<1> QED
  BY <1>1, <1>2, <1>3, <1>4 DEF Next

(* Nobody is admitted, approved, offered a place or confirmed in a class   *)
(* that is not published at the instant of the commit, whatever the edits  *)
(* that take no lock do to its status meanwhile.                           *)
THEOREM EditsAdmitPublishedOnly == EditsSpec => AdmittedWhilePublished
<1>1. EditsSafe /\ [EditsNext]_editvars =>
        [\A e \in Id :
           LET r == enrollments'[e]
           IN /\ r.status \in Active
              /\ r.status # enrollments[e].status
              => class_status'[r.activity_class] = "PUBLISHED"]_editvars
  <2> SUFFICES ASSUME EditsSafe, [EditsNext]_editvars, NEW e \in Id PROVE Admits(e)
    BY DEF Admits
  <2>1. [Next]_vars \/ \E a \in Editor : Writes(a)
    BY EditsCases
  <2>2. CASE [Next]_vars
    BY <2>2, ServicesAdmit DEF EditsSafe, Safe
  <2>3. CASE \E a \in Editor : Writes(a)
    BY <2>3 DEF Writes, Save, SavePublished, SaveArchived, SetStatus, Admits
  <2> QED
    BY <2>1, <2>2, <2>3
<1>2. EditsSafe /\ [EditsNext]_editvars => EditsSafe'
  BY EditsCases
<1> QED
  BY <1>1, <1>2, EditsSafeInit, PTL DEF EditsSpec, AdmittedWhilePublished

-----------------------------------------------------------------------------
(* One editor at a time *)

LoneEditor == \A a, b \in Editor : a = b

LEMMA MeasuredStep ==
  ASSUME LoneEditor, EditsSafe, WellMeasured, [EditsNext]_editvars
  PROVE  WellMeasured'
<1>1. CASE UNCHANGED <<edit, capacity>>
  BY <1>1 DEF WellMeasured
<1>2. ASSUME NEW a \in Editor, NEW e, Start(a, e), e.pc # "measured"
      PROVE  WellMeasured'
  BY <1>2 DEF WellMeasured, Start, txvars, vars, EditsSafe, EditTyped
<1>3. ASSUME NEW a \in Editor, NEW c \in Class, LoadToPublish(a, c) \/ CheckToArchive(a, c)
      PROVE  WellMeasured'
  <2>1. PICK at \in {"publishing", "archiving"} : Start(a, Looking(at, c))
    BY <1>3 DEF LoadToPublish, CheckToArchive, Looking
  <2>2. PICK e : e = Looking(at, c)
    OBVIOUS
  <2>3. e.pc # "measured"
    BY <2>2, OtherFields
  <2> QED
    BY <1>2, <2>1, <2>2, <2>3
<1>4. ASSUME NEW a \in Editor, NEW c \in Class, NEW n \in Capacities,
             OpenForm(a, c, n) \/ OpenUpsert(a, c, n)
      PROVE  WellMeasured'
  <2>1. PICK e : e = Loaded(c, n)
    OBVIOUS
  <2>2. Start(a, e)
    BY <1>4, <2>1 DEF OpenForm, OpenUpsert
  <2>3. e.pc # "measured"
    BY <2>1, LoadedFields DEF EditsSafe, Safe
  <2> QED
    BY <1>2, <2>2, <2>3
<1>5. ASSUME NEW a \in Editor, Measure(a)
      PROVE  WellMeasured'
  <2>1. PICK e, u : e = edit[a] /\ u = capacity[edit[a].class]
    OBVIOUS
  <2>2. /\ edit' = [edit EXCEPT ![a].pc = "measured", ![a].old = u]
        /\ e.pc = "loaded" /\ capacity' = capacity
    BY <1>5, <2>1 DEF Measure, txvars, vars
  <2>3. PICK x : x = [e EXCEPT !.pc = "measured"]
    OBVIOUS
  <2>4. PICK y : y = [x EXCEPT !.old = u]
    OBVIOUS
  <2>5. edit' = [edit EXCEPT ![a] = y]
    BY <2>1, <2>2, <2>3, <2>4
  <2> QED
    BY <2>1, <2>2, <2>3, <2>4, <2>5 DEF WellMeasured, EditsSafe, EditTyped
<1>6. ASSUME NEW a \in Editor, Writes(a)
      PROVE  WellMeasured'
  <2>1. PICK c, st, n, A, D : Wrote(a, c, st, n, A, D)
    BY <1>6, WriteShape
  <2>2. edit' = [edit EXCEPT ![a] = NoEdit]
    BY <2>1 DEF Wrote
  <2>3. \A b \in Editor : edit'[b].pc = "idle"
    BY <2>2, NoEditFields DEF LoneEditor, EditsSafe, EditTyped
  <2> QED
    BY <2>3 DEF WellMeasured
<1>7. UNCHANGED <<edit, capacity>> \/ \E a \in Editor : EditStep(a)
  <2>1. CASE \E p \in Process : TransactionStep(p) /\ UNCHANGED edit
    <3>1. UNCHANGED capacity
      BY <2>1 DEF TransactionStep, BeginRegistration, BeginDecision, BeginMove, BeginCancelClass,
                  BeginSweep, Begin, LockClass, ReadRows, Commit, Crash, vars
    <3> QED
      BY <2>1, <3>1
  <2>2. CASE TimePasses /\ UNCHANGED edit
    BY <2>2 DEF TimePasses, Tick, tables
  <2>3. CASE UNCHANGED editvars
    BY <2>3 DEF editvars, txvars, vars
  <2> QED
    BY <2>1, <2>2, <2>3 DEF EditsNext
<1> QED
  BY <1>1, <1>3, <1>4, <1>5, <1>6, <1>7 DEF EditStep, Writes

LEMMA WriteHeard ==
  ASSUME EditsSafe, EditsSafe', WellMeasured, FreedSeatNeverSilent,
         NEW a \in Editor, Writes(a), NEW d \in Class
  PROVE  Heard(d)'
<1>1. PICK c, st, n, A, D : Wrote(a, c, st, n, A, D)
  BY WriteShape
<1>2. /\ now' = now /\ enrollments' = enrollments /\ History(A, D)
      /\ capacity'[d] = IF d = c THEN n ELSE capacity[d]
  BY <1>1 DEF Wrote, EditsSafe, Safe, TypeOK
<1>3. n \in Nat /\ capacity[d] \in Nat /\ capacity[c] \in Nat
  BY <1>1 DEF EditsSafe, Safe, TypeOK, Wrote
<1>4. CASE d = c /\ n > capacity[c]
  <2>1. A = SeatFreedAlert(c)
    BY <1>1, <1>3, <1>4 DEF Wrote, WellMeasured
  <2>2. CASE Waitlist(d) = {}
    <3>1. Waitlist(d)' = {}
      BY <1>2, <2>2 DEF Waitlist, RowsOf
    <3> QED
      BY <1>2, <3>1, StillHeard DEF EditsSafe, Safe
  <2>3. CASE Waitlist(d) # {}
    <3>1. d \in A
      BY <1>4, <2>1, <2>3 DEF SeatFreedAlert
    <3> QED
      BY <1>2, <3>1, StillHeard DEF EditsSafe, Safe
  <2> QED
    BY <2>2, <2>3
<1>5. CASE ~(d = c /\ n > capacity[c])
  <2>1. capacity'[d] <= capacity[d] /\ \A f \in Id : QuietRow(f, d)
    BY <1>2, <1>3, <1>5 DEF QuietRow
  <2>2. Quiet(d)
    BY <1>2, <2>1, QuietRows DEF EditsSafe, Safe
  <2> QED
    BY <1>2, <2>2, StillHeard DEF EditsSafe, Safe
<1> QED
  BY <1>4, <1>5

LEMMA EditsHeard ==
  EditsSafe /\ WellMeasured /\ FreedSeatNeverSilent /\ [EditsNext]_editvars => FreedSeatNeverSilent'
<1> SUFFICES ASSUME EditsSafe, WellMeasured, FreedSeatNeverSilent, [EditsNext]_editvars
             PROVE  FreedSeatNeverSilent'
  OBVIOUS
<1>1. EditsSafe' /\ ([Next]_vars \/ \E a \in Editor : Writes(a))
  BY EditsCases
<1>2. CASE [Next]_vars
  BY <1>1, <1>2, HeardStep DEF EditsSafe, Safe
<1>3. CASE \E a \in Editor : Writes(a)
  <2>1. \A d \in Class : Heard(d)'
    BY <1>1, <1>3, WriteHeard
  <2> QED
    BY <2>1 DEF FreedSeatNeverSilent, Heard
<1> QED
  BY <1>1, <1>2, <1>3

(* While one editor at a time saves a class, a raise of its capacity is    *)
(* recognised for what it is, and the admins of a class with a free seat   *)
(* and a waiting list are told.                                            *)
THEOREM LoneEditorIsHeard ==
  ASSUME LoneEditor
  PROVE  EditsSpec => []FreedSeatNeverSilent
<1>1. EditsInit => FreedSeatNeverSilent /\ WellMeasured
  BY HeardInit, NoEditFields DEF EditsInit, TxInit, WellMeasured
<1>2. EditsSafe /\ [EditsNext]_editvars => EditsSafe'
  BY EditsCases
<1>3. EditsSafe /\ WellMeasured /\ [EditsNext]_editvars => WellMeasured'
  BY MeasuredStep
<1> QED
  BY <1>1, <1>2, <1>3, EditsSafeInit, EditsHeard, PTL DEF EditsSpec
=============================================================================
