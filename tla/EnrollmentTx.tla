---------------------------- MODULE EnrollmentTx ----------------------------
(***************************************************************************)
(* The services of apps/enrollments/services.py as the transactions they   *)
(* are, run concurrently by the web workers, the MCP server and the        *)
(* notifier.  A call locks the class (or, for a move, both classes in      *)
(* primary-key order), then locks and reads the rows, then saves whole     *)
(* rows computed from what it read and commits.  PostgreSQL runs them at   *)
(* READ COMMITTED: a write shows when it is committed, a lock is held      *)
(* until then, and one that another transaction holds is waited for.       *)
(*                                                                         *)
(* Enrollments runs the same calls atomically; AtomicServices says that    *)
(* the locks taken here are enough to make that true.                      *)
(*                                                                         *)
(* A transaction's several readings of timezone.now() are one instant:     *)
(* the clock, whose ticks stand for hours, does not advance between them.  *)
(***************************************************************************)
EXTENDS Enrollments

CONSTANTS
  Process,    \* the workers that run a transaction at a time
  Calls,      \* the calls they make, a subset of Services
  Pk          \* the primary keys of the classes

Services ==
  {"register", "admin_register", "transfer", "approve_request", "reject_request",
   "offer_seat", "confirm_offer", "decline_offer", "cancel", "parent_cancel",
   "confirm_cancellation", "decline_cancellation", "expire_offers", "cancel_class"}

ASSUME CallsAssumption == Calls \subseteq Services

ASSUME PkAssumption ==
  /\ Pk \in [Class -> Nat]
  /\ \A c, d \in Class : Pk[c] = Pk[d] => c = d

VARIABLE tx     \* for a process, the transaction it runs

txvars == <<vars, tx>>

(* What a transaction will write when it commits: the rows it saves, the   *)
(* row it inserts, the messages it queues, and for the history the classes *)
(* whose admins it alerts and the ones in which it is a decision.          *)
NoPlan == [rows |-> <<>>, new |-> {}, news |-> <<>>, alerts |-> {}, decisions |-> {}]

Idle == [pc |-> "idle", call |-> "none", row |-> 0, child |-> Nobody, class |-> Nowhere,
         held |-> {}, plan |-> NoPlan]

Pc == {"idle", "locking", "writing"}

-----------------------------------------------------------------------------
(* Locks *)

SourceClass(t) == enrollments[t.row].activity_class

(* Mutant: approvals are taken to be safe with the row lock alone. *)
LockedUnlessDecided(t) ==
  CASE t.call \in {"reject_request", "approve_request"} -> {}
    [] t.call = "transfer" -> {SourceClass(t), t.class}
    [] OTHER -> {t.class}

(* Mutant: the class the child joins is not locked. *)
LockedWhereRegistered(t) ==
  CASE t.call = "reject_request" -> {}
    [] t.call = "transfer" -> {SourceClass(t)}
    [] OTHER -> {t.class}

(* The classes a call locks.  A rejection takes no seat and gives none     *)
(* back: it locks its row only.                                            *)
ClassesToLock(t) ==
  CASE t.call = "reject_request" -> {}
    [] t.call = "transfer" -> {SourceClass(t), t.class}
    [] OTHER -> {t.class}

MissingLocks(t) == ClassesToLock(t) \ t.held

(* Mutant: a plain get() waits for nobody. *)
ClassRead(c) == c \in Class

ClassFree(c) == \A p \in Process : c \notin tx[p].held

(* Mutant: the class the child leaves first, whatever the keys. *)
SourceFirst(t) ==
  CHOOSE c \in MissingLocks(t) : t.call = "transfer" /\ SourceClass(t) \in MissingLocks(t)
                                   => c = SourceClass(t)

(* pks = sorted(...) *)
NextLock(t) ==
  CHOOSE c \in MissingLocks(t) : \A d \in MissingLocks(t) : Pk[c] <= Pk[d]

(* A row is locked by the transaction that is going to save it. *)
RowsFree(p, E) == \A q \in Process \ {p} : DOMAIN tx[q].plan.rows \cap E = {}

-----------------------------------------------------------------------------
(* What each call saves, from what it reads *)

Pairs(E) == {<<enrollments[e].child, enrollments[e].activity_class>> : e \in E}

(* The rows E saved as they stand in the table tbl, the families told as   *)
(* in the news n.                                                          *)
Saving(E, tbl, n, A, D) ==
  [rows |-> [e \in E |-> tbl[e]], new |-> {}, news |-> [p \in Pairs(E) |-> n[p]],
   alerts |-> A, decisions |-> D]

Inserting(ch, c, st, event, D) ==
  [NoPlan EXCEPT !.new = {NewRow(ch, c, st)}, !.news = [p \in {<<ch, c>>} |-> event],
                 !.decisions = D]

Registration(t) ==
  IF t.call = "register"
    THEN Inserting(t.child, t.class, "REQUESTED", "ENROLLMENT_REQUESTED", {})
    ELSE Inserting(t.child, t.class, "ENROLLED", "REGISTRATION_CONFIRMED", {t.class})

FreedSeat(r) == IF r.status \in SeatHolding THEN SeatFreedAlert(r.activity_class) ELSE {}

Move(t) ==
  LET r == enrollments[t.row]
      ended == [Cancelled(r, "TRANSFERRED") EXCEPT !.cancel_requested_at = Unset]
  IN [rows |-> [e \in {t.row} |-> ended],
      new |-> {NewRow(r.child, t.class, "ENROLLED")},
      news |-> [p \in {<<r.child, r.activity_class>>, <<r.child, t.class>>}
                  |-> "ENROLLMENT_TRANSFERRED"],
      alerts |-> FreedSeat(r),
      decisions |-> {t.class}]

(* approve_request and offer_seat sweep the class first. *)
AfterSweep(t, row, event, D) ==
  Saving(StaleOffers(t.class) \cup {t.row},
         [Swept(t.class) EXCEPT ![t.row] = row],
         Told(SweptNews(t.class), {t.row}, event), LapseAlert(t.class), D)

Approval(t) ==
  LET r == enrollments[t.row]
  IN IF HasFreeSeat(t.class)
       THEN AfterSweep(t, [r EXCEPT !.status = "ENROLLED"], "REGISTRATION_CONFIRMED", {})
       ELSE AfterSweep(t, [r EXCEPT !.status = "WAITLISTED"], "WAITLISTED", {})

Offer(t, ttl) ==
  AfterSweep(t, [enrollments[t.row] EXCEPT !.status = "OFFERED", !.offer_expires_at = now + ttl],
             "WAITLIST_OFFER", {t.class})

(* A call that saves its row and tells the family. *)
Answer(t, row, event, A) ==
  Saving({t.row}, [enrollments EXCEPT ![t.row] = row], Told(news, {t.row}, event), A, {})

Cancellation(t, reason) ==
  LET r == enrollments[t.row]
  IN Answer(t, Cancelled(r, reason), CancelEvent(reason), FreedSeat(r))

CancellationRequest(t) ==
  Answer(t, [enrollments[t.row] EXCEPT !.cancel_requested_at = now], "CANCELLATION_REQUESTED", {})

Sweep(t) ==
  Saving(StaleOffers(t.class), Swept(t.class), SweptNews(t.class), LapseAlert(t.class), {})

(* The plan of the call, given the two settings it may read. *)
PlanOf(t, ttl, window) ==
  LET r == enrollments[t.row]
  IN CASE t.call \in {"register", "admin_register"} -> Registration(t)
       [] t.call = "transfer" -> Move(t)
       [] t.call = "approve_request" -> Approval(t)
       [] t.call = "reject_request" ->
            Answer(t, Cancelled(r, "REQUEST_REJECTED"), "REQUEST_REJECTED", {})
       [] t.call = "offer_seat" -> Offer(t, ttl)
       [] t.call = "confirm_offer" ->
            Answer(t, [r EXCEPT !.status = "ENROLLED", !.promoted_at = now],
                   "REGISTRATION_CONFIRMED", {})
       [] t.call = "decline_offer" ->
            [Answer(t, Cancelled(r, "OFFER_DECLINED"), NoNews, {t.class}) EXCEPT !.news = <<>>]
       [] t.call = "cancel" -> Cancellation(t, "ADMIN")
       [] t.call = "parent_cancel" ->
            IF CanWithdraw(r, window) THEN Cancellation(t, "PARENT") ELSE CancellationRequest(t)
       [] t.call = "confirm_cancellation" -> Cancellation(t, "PARENT_REQUEST")
       [] t.call = "decline_cancellation" ->
            Answer(t, [r EXCEPT !.cancel_requested_at = Unset], "CANCELLATION_DECLINED", {})
       [] t.call = "expire_offers" -> Sweep(t)
       [] t.call = "cancel_class" ->
            LET E == RowsOf(t.class, Active)
            IN Saving(E, [e \in E |-> Cancelled(enrollments[e], "CLASS_CANCELLED")],
                      Told(news, E, "CLASS_CANCELLED"), {}, {})

(* The checks between the locks and the first write: the call raises, or   *)
(* returns early, where they fail.                                         *)
Accepted(t, window) ==
  LET r == enrollments[t.row]
  IN CASE t.call \in {"register", "admin_register"} ->
            Open(t.class) /\ ~Registered(t.child, t.class)
       [] t.call = "transfer" ->
            /\ r.activity_class # t.class
            /\ Open(t.class)
            /\ r.status \in Active
            /\ ~Registered(r.child, t.class)
       [] t.call = "approve_request" -> Open(t.class) /\ r.status = "REQUESTED"
       [] t.call = "reject_request" -> r.status = "REQUESTED"
       [] t.call = "offer_seat" -> Open(t.class) /\ r.status = "WAITLISTED"
       [] t.call = "confirm_offer" -> /\ Open(t.class)
                                      /\ r.status = "OFFERED"
                                      /\ ~(r.offer_expires_at < now)
       [] t.call = "decline_offer" -> r.status = "OFFERED"
       [] t.call = "cancel" -> r.status # "CANCELLED"
       [] t.call = "parent_cancel" ->
            \/ CanWithdraw(r, window)
            \/ r.status = "ENROLLED" /\ r.cancel_requested_at = Unset
       [] t.call \in {"confirm_cancellation", "decline_cancellation"} ->
            CancellationRequested(t.row)
       [] t.call = "expire_offers" -> TRUE
       [] t.call = "cancel_class" -> class_status[t.class] # "CANCELLED"

-----------------------------------------------------------------------------
(* Steps of a transaction *)

Begin(p, t) ==
  /\ tx[p] = Idle
  /\ t.call \in Calls
  /\ tx' = [tx EXCEPT ![p] = t]
  /\ UNCHANGED vars

Request(call, row, child, class) ==
  [pc |-> "locking", call |-> call, row |-> row, child |-> child, class |-> class,
   held |-> {}, plan |-> NoPlan]

SavedRows == {e \in Id : enrollments[e].status # "UNSAVED"}

(* A parent or the office registers a child ... *)
BeginRegistration(p) ==
  \E call \in {"register", "admin_register"}, ch \in Child, c \in Class :
    Begin(p, Request(call, 0, ch, c))

(* ... acts on a registration some page showed, however long ago ...       *)
BeginDecision(p) ==
  \E call \in Calls \ {"register", "admin_register", "transfer", "expire_offers", "cancel_class"},
     e \in SavedRows :
    Begin(p, Request(call, e, Nobody, enrollments[e].activity_class))

BeginMove(p) ==
  \E e \in SavedRows, c \in Class : Begin(p, Request("transfer", e, Nobody, c))

BeginCancelClass(p) == \E c \in Class : Begin(p, Request("cancel_class", 0, Nobody, c))

(* ... and the worker sweeps the classes its query has listed. *)
BeginSweep(p) ==
  \E c \in Class : StaleOffers(c) # {} /\ Begin(p, Request("expire_offers", 0, Nobody, c))

LockClass(p) ==
  LET t == tx[p]
  IN /\ t.pc = "locking"
     /\ MissingLocks(t) # {}
     /\ ClassFree(NextLock(t))
     /\ tx' = [tx EXCEPT ![p].held = @ \cup {NextLock(t)}]
     /\ UNCHANGED vars

(* Bound: a call that inserts a row is given up when the table is full. *)
Inserts(call) == call \in {"register", "admin_register", "transfer"}
Room(t) == Inserts(t.call) => Cardinality(Id \ SavedRows) > Cardinality({q \in Process : tx[q].plan.new # {}})

(* The row locks, the reads and the checks; a failed check rolls back. *)
ReadRows(p) ==
  LET t == tx[p]
  IN /\ t.pc = "locking"
     /\ MissingLocks(t) = {}
     /\ \E ttl \in OfferTtls, window \in Windows :
          IF Accepted(t, window) /\ Room(t)
            THEN LET plan == PlanOf(t, ttl, window)
                 IN /\ RowsFree(p, DOMAIN plan.rows)
                    /\ tx' = [tx EXCEPT ![p].pc = "writing", ![p].plan = plan]
            ELSE /\ RowsFree(p, {t.row})
                 /\ tx' = [tx EXCEPT ![p] = Idle]
     /\ UNCHANGED vars

CommittedNews(plan) ==
  [q \in Child \X Class |-> IF q \in DOMAIN plan.news THEN plan.news[q] ELSE news[q]]

(* Everything the transaction wrote shows, and its locks are released. *)
Commit(p) ==
  LET t == tx[p]
      saved == [e \in Id |-> IF e \in DOMAIN t.plan.rows THEN t.plan.rows[e] ELSE enrollments[e]]
  IN /\ t.pc = "writing"
     /\ IF t.plan.new = {}
          THEN enrollments' = saved
          ELSE \E f \in Id, r \in t.plan.new :
                 NextId(f) /\ enrollments' = [saved EXCEPT ![f] = r]
     /\ class_status' = IF t.call = "cancel_class"
                          THEN [class_status EXCEPT ![t.class] = "CANCELLED"]
                          ELSE class_status
     /\ news' = CommittedNews(t.plan)
     /\ UNCHANGED <<capacity, term_active, now>>
     /\ History(t.plan.alerts, t.plan.decisions)
     /\ tx' = [tx EXCEPT ![p] = Idle]

(* The worker dies or its connection does: the database rolls back. *)
Crash(p) ==
  /\ tx[p] # Idle
  /\ tx' = [tx EXCEPT ![p] = Idle]
  /\ UNCHANGED vars

(* An UPDATE of the class waits for the transaction that has locked it. *)
Publish(c) == ClassFree(c) /\ PublishClass(c) /\ UNCHANGED tx

TimePasses ==
  /\ \A p \in Process : tx[p].pc # "writing"
  /\ Tick
  /\ UNCHANGED tx

TxInit == Init /\ tx = [p \in Process |-> Idle]

TransactionStep(p) ==
  \/ BeginRegistration(p) \/ BeginDecision(p) \/ BeginMove(p)
  \/ BeginCancelClass(p) \/ BeginSweep(p)
  \/ LockClass(p) \/ ReadRows(p) \/ Commit(p) \/ Crash(p)

TxNext ==
  \/ \E p \in Process : TransactionStep(p)
  \/ \E c \in Class : Publish(c)
  \/ TimePasses

TxSpec == TxInit /\ [][TxNext]_txvars

(* PostgreSQL grants a lock to those who wait for it in turn. *)
FairTxSpec ==
  /\ TxSpec
  /\ \A p \in Process : SF_txvars(LockClass(p)) /\ SF_txvars(ReadRows(p)) /\ WF_txvars(Commit(p))
-----------------------------------------------------------------------------
(* Properties *)

(* A transaction that is not idle names a call, holds only locks it asked  *)
(* for, and no class is locked twice.                                      *)
TxTypeOK ==
  /\ \A p \in Process : /\ tx[p].pc \in Pc
                        /\ tx[p].held \subseteq Class
                        /\ tx[p].plan # NoPlan => tx[p].pc = "writing"
  /\ \A p, q \in Process : p # q => tx[p].held \cap tx[q].held = {}

(* services.py 3-7: "counting seats and changing enrollment rows always    *)
(* happen under the same lock".  However the transactions interleave,      *)
(* wait and crash, what their commits do to the tables is what the calls   *)
(* do one at a time: this module implements Spec of Enrollments, whose     *)
(* variables it shares.  The test in front spares TLC most steps, which    *)
(* write no table.                                                         *)
AtomicServices == Init /\ [][vars' # vars => Next]_vars

WaitsFor(p, q) ==
  LET t == tx[p]
  IN /\ t.pc = "locking"
     /\ IF MissingLocks(t) # {}
          THEN NextLock(t) \in tx[q].held
          ELSE /\ p # q
               /\ DOMAIN tx[q].plan.rows \cap ({t.row} \cup RowsOf(t.class, Active)) # {}

(* services.py 170-171: "Both classes are locked, in primary-key order, so *)
(* two moves in opposite directions cannot deadlock".  No set of           *)
(* transactions, moves, single-class calls and rejections together, waits  *)
(* for one another.                                                        *)
NoDeadlock ==
  \A S \in (SUBSET Process) \ {{}} : \E p \in S : \A q \in S : ~WaitsFor(p, q)

(* services.py 155-223 and the others: a call that has begun always ends,  *)
(* however long the queue for its class.                                   *)
CallsEnd == \A p \in Process : (tx[p] # Idle) ~> (tx[p] = Idle)
=============================================================================
