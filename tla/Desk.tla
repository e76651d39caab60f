-------------------------------- MODULE Desk --------------------------------
(***************************************************************************)
(* What the office sees of the registrations, and what it is told when it  *)
(* acts on them: the roster (apps/catalog/admin.py), the buttons that      *)
(* place, offer and move (apps/enrollments/admin.py) and the waiting list  *)
(* every page numbers.  The services are those of Enrollments, one step    *)
(* each; a request of the office is several steps, what it reads before a  *)
(* service call and after it being read without any lock.                  *)
(*                                                                         *)
(* timezone.now() is finer than a tick: waitlisted_at, stamped under the   *)
(* lock of the class, is the number of the stamp.  A request is taken to   *)
(* live until its answer: one killed after its commit tells nobody.  The   *)
(* clock stands still, and the classes are open from the start and may be  *)
(* called off; deadlines, drafts, archives and closed terms are            *)
(* Enrollments' own.                                                       *)
(***************************************************************************)
EXTENDS Pages, Sequences

Seqs == INSTANCE SequencesExt

CONSTANT Office   \* requests the office may have open at once

VARIABLES
  waitlisted_at,  \* Enrollment.waitlisted_at, as the number of the stamp
  desk,           \* what each request of the office is doing
  told            \* classes the office knows to be over their capacity

deskVars == <<vars, waitlisted_at, desk, told>>

Free == [at |-> "free"]
Lists == <<"ENROLLED", "OFFERED", "WAITLISTED", "REQUESTED">>
Roster == [at : {"roster"}, class : Class, lists : 0..4, rows : SUBSET Id, twice : SUBSET Id]
Move == [at : {"move"}, row : Id, target : Class]
Answer == [at : {"answer"}, class : Class, capacity : Nat]

DeskTypeOK ==
  /\ waitlisted_at \in [Id -> Nat]
  /\ desk \in [Office -> {Free} \cup Move \cup Answer \cup Roster]
  /\ told \subseteq Class

(***************************************************************************)
(* The waiting list.                                                       *)
(***************************************************************************)

(* Mutant: first come by the request, not by the approval. *)
BeforeByRequest(e, f) == e < f

(* waitlist_fifo. *)
Before(e, f) ==
  waitlisted_at[e] < waitlisted_at[f] \/ (waitlisted_at[e] = waitlisted_at[f] /\ e < f)

waitlist_position(e) ==
  1 + Cardinality({f \in Waitlist(enrollments[e].activity_class) : Before(f, e)})

(* The rows of a query that names an order without ties: ahead has the     *)
(* pairs of rows of which the first comes before the second.               *)
order_by(S, ahead) ==
  CHOOSE s \in [1..Cardinality(S) -> S] :
    \A i, j \in DOMAIN s : i < j => <<s[i], s[j]>> \in ahead

(* Mutant: in the order of registration, as the table is. *)
waitlist_unordered(c) ==
  order_by(Waitlist(c), {p \in Waitlist(c) \X Waitlist(c) : p[1] < p[2]})

(* The queue of a class as a page lists it; ... *)
waitlist_fifo(c) ==
  order_by(Waitlist(c), {p \in Waitlist(c) \X Waitlist(c) : Before(p[1], p[2])})

(* ... and numbered in one walk, for many classes at a time.               *)
waitlist_positions(C) ==
  [e \in UNION {Waitlist(c) : c \in C} |->
     LET queue == waitlist_fifo(enrollments[e].activity_class)
     IN  CHOOSE i \in DOMAIN queue : queue[i] = e]

(* The assistant's register of a class and its list across classes, the    *)
(* office's CSV and the provider's page.                                   *)
get_class_register(c) ==
  LET positions == waitlist_positions({c})
  IN  [enrolled |-> RowsOf(c, {"ENROLLED"}),
       offered |-> RowsOf(c, {"OFFERED"}),
       requested |-> RowsOf(c, {"REQUESTED"}),
       waitlisted |-> order_by(Waitlist(c), {p \in Waitlist(c) \X Waitlist(c) :
                                               positions[p[1]] < positions[p[2]]}),
       class |-> class_dict(c)]

list_registrations(S) ==
  LET rows == {e \in Id : enrollments[e].status \in S}
      positions == waitlist_positions({enrollments[e].activity_class : e \in rows})
  IN  [e \in rows |-> IF e \in DOMAIN positions THEN positions[e] ELSE 0]

roster_csv(c) ==
  [i \in DOMAIN waitlist_fifo(c) |-> [position |-> i, row |-> waitlist_fifo(c)[i]]]

class_detail(c) == [roster |-> RowsOf(c, {"ENROLLED"}), waitlisted |-> waitlist_fifo(c)]

(* approve_request stamps the row it puts on the list; nothing clears it.  *)
Stamped ==
  LET last == Cardinality({e \in Id : waitlisted_at[e] # Unset})
  IN  [e \in Id |-> IF enrollments[e].status # "WAITLISTED" /\ enrollments'[e].status = "WAITLISTED"
                      THEN last + 1 ELSE waitlisted_at[e]]

(* What every step does to the history the office goes by.                 *)
Knowing(S) == told' = {c \in told \cup S : OverCapacity(c)'}
StepTelling(S) == waitlisted_at' = Stamped /\ Knowing(S)
NoService == UNCHANGED <<vars, waitlisted_at>>

(***************************************************************************)
(* Requests that place a child and say afterwards where that leaves the    *)
(* class: with the seats as they are then, and the capacity the service    *)
(* has read.                                                               *)
(***************************************************************************)

Answering(q, c) ==
  desk' = [desk EXCEPT ![q] = [at |-> "answer", class |-> c, capacity |-> capacity[c]]]

register_view(q, ch, c) ==
  /\ desk[q] = Free
  /\ AdminRegister(ch, c)
  /\ Answering(q, c)
  /\ StepTelling({})

offer_view(q, e) ==
  /\ desk[q] = Free
  /\ OfferSeat(e)
  /\ Answering(q, enrollments[e].activity_class)
  /\ StepTelling({})

(* move_view: the target is among the open classes, and has room or the    *)
(* office has confirmed that it has none; ...                              *)
move_view(q, e, target) ==
  /\ desk[q] = Free
  /\ enrollments[e].status \in Active
  /\ Open(target) /\ target # enrollments[e].activity_class
  /\ desk' = [desk EXCEPT ![q] = [at |-> "move", row |-> e, target |-> target]]
  /\ UNCHANGED told
  /\ NoService

(* ... then the move, which may find that it cannot be made.               *)
MoveChild(q) ==
  /\ desk[q].at = "move"
  /\ \/ /\ Transfer(desk[q].row, desk[q].target)
        /\ Answering(q, desk[q].target)
        /\ StepTelling({})
     \/ /\ ~ENABLED Transfer(desk[q].row, desk[q].target)
        /\ desk' = [desk EXCEPT ![q] = Free]
        /\ UNCHANGED told
        /\ NoService

(* Mutant: only the children who are enrolled are counted. *)
OverByEnrolled(c, n) == Cardinality(RowsOf(c, {"ENROLLED"})) > n

seats_over_capacity(c, n) == SeatsTaken(c) > n

(* placement_notes, and the outcome of offer_view. *)
Note(q) ==
  LET a == desk[q]
  IN /\ a.at = "answer"
     /\ desk' = [desk EXCEPT ![q] = Free]
     /\ NoService
     /\ Knowing({c \in {a.class} : seats_over_capacity(c, a.capacity)})

(***************************************************************************)
(* The roster, read in four queries.                                       *)
(***************************************************************************)

(* Mutant: the lists are read the way a family goes through them. *)
ReadingForward == <<"REQUESTED", "WAITLISTED", "OFFERED", "ENROLLED">>

ReadingOrder == Lists

OpenRoster(q, c) ==
  /\ desk[q] = Free
  /\ desk' = [desk EXCEPT ![q] = [at |-> "roster", class |-> c, lists |-> 0, rows |-> {}, twice |-> {}]]
  /\ UNCHANGED told
  /\ NoService

ReadList(q) ==
  LET r == desk[q]
      found == RowsOf(r.class, {ReadingOrder[r.lists + 1]})
  IN /\ r.at = "roster"
     /\ desk' = [desk EXCEPT ![q] =
                   IF r.lists = 4 THEN Free
                   ELSE [r EXCEPT !.lists = @ + 1, !.rows = @ \cup found, !.twice = @ \cup (r.rows \cap found)]]
     /\ UNCHANGED told
     /\ NoService

-----------------------------------------------------------------------------
(* Everybody else, and the buttons that say nothing of the seats.          *)

(* The family asks for a place on the page of a class. *)
enroll(ch, c) == Register(ch, c)

(* The family's other buttons: out of the class, yes or no to an offer. *)
family_action(e) == ParentCancel(e) \/ ConfirmOffer(e) \/ DeclineOffer(e)

(* The buttons, and approve, reject and cancel for ticked rows: one after  *)
(* the other, each in its own transaction.                                 *)
bulk_actions(e) == ApproveRequest(e) \/ RejectRequest(e) \/ CancelByAdmin(e)

transition(e) ==
  \/ bulk_actions(e)
  \/ ConfirmOffer(e) \/ ConfirmCancellation(e) \/ DeclineCancellation(e)

Elsewhere ==
  /\ \/ \E ch \in Child, c \in Class : enroll(ch, c)
     \/ \E e \in Id : family_action(e) \/ transition(e)
     \/ \E c \in Class : CancelClass(c) \/ \E n \in Capacities : EditCapacity(c, n)
  /\ UNCHANGED desk
  /\ StepTelling({})

(* The tool answers with the numbers of the class it has saved. *)
upsert_class(c, n) ==
  /\ UpsertClass(c, n)
  /\ UNCHANGED desk
  /\ StepTelling({c})

DeskInit ==
  /\ enrollments = [e \in Id |-> Unsaved]
  /\ class_status = [c \in Class |-> "PUBLISHED"]
  /\ capacity \in [Class -> Capacities]
  /\ term_active = [c \in Class |-> TRUE]
  /\ now = 1
  /\ news = [p \in Child \X Class |-> NoNews]
  /\ alerted = {} /\ over_allocated = {}
  /\ waitlisted_at = [e \in Id |-> Unset]
  /\ desk = [q \in Office |-> Free]
  /\ told = {}

DeskNext ==
  \/ \E q \in Office :
       \/ \E ch \in Child, c \in Class : register_view(q, ch, c)
       \/ \E e \in Id : offer_view(q, e) \/ \E c \in Class : move_view(q, e, c)
       \/ MoveChild(q) \/ Note(q)
       \/ \E c \in Class : OpenRoster(q, c)
       \/ ReadList(q)
  \/ \E c \in Class, n \in Capacities : upsert_class(c, n)
  \/ Elsewhere

DeskSpec == DeskInit /\ [][DeskNext]_deskVars

-----------------------------------------------------------------------------
(* Properties *)

(* enrollments/admin.py 37-42 and 428-429, "neither should happen          *)
(* quietly": a class is never over its capacity without somebody in the    *)
(* office having been told since it last was within it, or being about to: *)
(* whatever filled it between the moment a page counted its seats and the  *)
(* placement.                                                              *)
NeverQuietlyOver ==
  \A c \in Class : OverCapacity(c) =>
    c \in told \/ \E q \in Office : desk[q].at = "answer" /\ desk[q].class = c

(* models.py 198-211 and mcp_server.py 462-479: while a family waits its   *)
(* place in the queue only ever gets better, however the rows around it    *)
(* are approved, offered seats, moved and cancelled.                       *)
NobodyOvertaken ==
  [][\A e \in Id : {enrollments[e].status, enrollments'[e].status} = {"WAITLISTED"}
                     => waitlist_position(e)' <= waitlist_position(e)]_deskVars

(* enrollments/models.py 38-39, "single definition of FIFO": a family is   *)
(* told the same place in the queue by every page and tool, whichever way  *)
(* it counts, and every registration is in one list of its class.          *)
OneQueue ==
  \A c \in Class :
    LET register == get_class_register(c)
        queue == register.waitlisted
    IN /\ queue = class_detail(c).waitlisted
       /\ \A i \in DOMAIN queue :
            /\ waitlist_position(queue[i]) = i
            /\ list_registrations(Active)[queue[i]] = i
            /\ roster_csv(c)[i] = [position |-> i, row |-> queue[i]]
       /\ class_detail(c).roster = register.enrolled
       /\ Len(queue) = register.class.counts.waitlist_count
       /\ register.enrolled \cup register.offered \cup register.requested \cup Seqs!ToSet(queue)
            = RowsOf(c, Active)

(* admin.py 806-813: the roster, put together from four queries, may miss  *)
(* a registration that moves while it is read, but never lists one twice.  *)
RosterListsOnce ==
  \A q \in Office : desk[q].at = "roster" => desk[q].twice = {}
=============================================================================
