------------------------------- MODULE Pages -------------------------------
(***************************************************************************)
(* What the pages, the assistant's tools and the composers of              *)
(* announcements read from the registrations, each with the query its own  *)
(* code writes: the numbers of a class, the desk's requests, a family's    *)
(* home page, the office's workbook, and whom an announcement goes to.     *)
(*                                                                         *)
(* A child stands for its guardians; the reader is a super administrator,  *)
(* whom managed_by shows everything (People has the others).               *)
(***************************************************************************)
EXTENDS Enrollments

CountOf(c, S) == Cardinality(RowsOf(c, S))

(* Mutant: the offers are left out of the seats. *)
with_enrolled(c) ==
  LET Left(n) == IF n < capacity[c] THEN capacity[c] - n ELSE 0
  IN  [enrolled_count |-> CountOf(c, {"ENROLLED"}),
       waitlist_count |-> CountOf(c, {"WAITLISTED"}),
       requested_count |-> CountOf(c, {"REQUESTED"}),
       confirmed_count |-> CountOf(c, {"ENROLLED"}),
       offered_count |-> 0,
       registrations_count |-> CountOf(c, Active),
       places_free |-> Left(CountOf(c, {"ENROLLED"})),
       places_available |-> Left(CountOf(c, Active))]

(* with_counts: places_free is the number for approving and offering,      *)
(* places_available the one for parents.                                   *)
with_counts(c) ==
  LET offered == Cardinality({e \in RowsOf(c, {"OFFERED"}) : enrollments[e].offer_expires_at >= now})
      enrolled == CountOf(c, {"ENROLLED"}) + offered
      registered == CountOf(c, {"REQUESTED", "ENROLLED", "WAITLISTED"}) + offered
      Left(n) == IF n < capacity[c] THEN capacity[c] - n ELSE 0
  IN  [enrolled_count |-> enrolled,
       waitlist_count |-> CountOf(c, {"WAITLISTED"}),
       requested_count |-> CountOf(c, {"REQUESTED"}),
       confirmed_count |-> CountOf(c, {"ENROLLED"}),
       offered_count |-> offered,
       registrations_count |-> registered,
       places_free |-> Left(enrolled),
       places_available |-> Left(registered)]

(* published: the catalogue, and what a family is told there.              *)
published == {c \in Class : class_status[c] = "PUBLISHED" /\ term_active[c]}
catalogue == [c \in published |-> with_counts(c).places_available]

(* The page a family asks from counts for itself, an offer by whether it   *)
(* can still be confirmed.                                                 *)
registrations(c) ==
  {e \in RowsOf(c, Active) :
     enrollments[e].status = "OFFERED" => now <= enrollments[e].offer_expires_at}
places_available_now(c) ==
  LET n == Cardinality(registrations(c)) IN IF n < capacity[c] THEN capacity[c] - n ELSE 0

(* The assistant's list_classes and get_class, for classes of any status.  *)
class_dict(c) == [status |-> class_status[c], capacity |-> capacity[c], counts |-> with_counts(c)]
list_classes(status) == [c \in {d \in Class : class_status[d] = status} |-> class_dict(c)]

-----------------------------------------------------------------------------
(* The desk of the office *)

pending_for == {e \in Id : enrollments[e].status = "REQUESTED"}

cancellation_requests_for ==
  {e \in Id : enrollments[e].status = "ENROLLED" /\ enrollments[e].cancel_requested_at # Unset}

(* Beside a request the seats left, beside a cancellation who is waiting.  *)
requests_view ==
  [pending |-> [e \in pending_for |-> with_counts(enrollments[e].activity_class).places_free],
   cancellations |-> [e \in cancellation_requests_for |->
                        with_counts(enrollments[e].activity_class).waitlist_count]]

(* The columns of the list of classes, and of the list of children. *)
changelist(c) ==
  LET counts == with_counts(c)
  IN  [registrations |-> counts.registrations_count, confirmed |-> counts.confirmed_count,
       offered |-> counts.offered_count, available |-> counts.places_available,
       waiting |-> counts.waitlist_count, pending |-> counts.requested_count]
registered_for(ch) == {e \in Id : enrollments[e].child = ch /\ enrollments[e].status \in Active}

(* The workbook for the gate. *)
participants_by_day ==
  {e \in Id : /\ enrollments[e].status = "ENROLLED"
              /\ term_active[enrollments[e].activity_class]
              /\ class_status[enrollments[e].activity_class] # "CANCELLED"}

(* The family's home page, and whether each place can be left at once.     *)
home(ch, window) ==
  [e \in {f \in Id : enrollments[f].child = ch /\ enrollments[f].status \in Active} |->
     CanWithdraw(enrollments[e], window)]

(* A row as the assistant's tools give it, but for the place in the queue. *)
registration_dict(e) ==
  LET r == enrollments[e]
  IN  [status |-> r.status,
       offer_expired |-> r.status = "OFFERED" /\ r.offer_expires_at < now,
       cancellation_requested |-> r.cancel_requested_at # Unset]

(* Its register of a class, likewise, with the numbers of the class.       *)
register_of(c) ==
  [rows |-> [e \in RowsOf(c, Active) |-> registration_dict(e)], class |-> class_dict(c)]

-----------------------------------------------------------------------------
(* Announcements *)

(* Mutant: whoever has left is not written to. *)
audience_live(audience) == IF audience = "WAITLIST" THEN {"WAITLISTED"} ELSE Active

audience_statuses(audience) ==
  CASE audience = "WAITLIST" -> {"WAITLISTED"}
    [] audience = "EVER_REGISTERED" -> Active \cup {"CANCELLED"}
    [] OTHER -> Active

broadcast_recipients(C, audience) ==
  {enrollments[e].child : e \in UNION {RowsOf(c, audience_statuses(audience)) : c \in C}}

(* An announcement goes to the classes of its scope. *)
queue_broadcast(scope, C, audience) ==
  broadcast_recipients(IF scope = "ALL_CLASSES" THEN published ELSE C, audience)

(* The classes the composers offer: the office's picker, the button beside *)
(* a class, and the provider's page.                                       *)
SelectedClasses == {c \in Class : term_active[c]}
announce_view == Class
ProviderBroadcastForm == {c \in Class : class_status[c] \in {"PUBLISHED", "CANCELLED"}}

-----------------------------------------------------------------------------
(* Properties *)

(* with_counts, catalog/models.py 358-359, "It decides whether approving a *)
(* request enrols or waitlists": what the desk shows beside a request is   *)
(* what the service then does, at every deadline and whatever lapses.      *)
PagesForetell ==
  [][\A e \in DOMAIN requests_view.pending :
       enrollments'[e].status \in {"ENROLLED", "WAITLISTED"} =>
         (enrollments'[e].status = "ENROLLED") = (requests_view.pending[e] > 0)]_vars

(* models.py 360-364: while a page shows parents a place, there is one for *)
(* every request that is waiting for an answer, and one more; the page     *)
(* they ask from repeats what the catalogue said, also about offers that   *)
(* lapse in between.                                                       *)
PlacesAvailable ==
  \A c \in published :
    /\ catalogue[c] > 0 =>
         CountOf(c, {"REQUESTED", "WAITLISTED"}) < list_classes("PUBLISHED")[c].counts.places_free
    /\ places_available_now(c) = catalogue[c]

(* mcp_server.py 549-602: the rows of a register add up to the numbers     *)
(* above them, though one is counted by the database and the other by the  *)
(* flag each row carries; admin.py 708-736, the columns of a class, each a *)
(* count of its own, account for every registration that can still become  *)
(* a place, and leave out only offers nobody can take up any more.         *)
RegisterAddsUp ==
  \A c \in Class :
    LET register == register_of(c)
        columns == changelist(c)
        held == {e \in DOMAIN register.rows :
                   register.rows[e].status \in SeatHolding /\ ~register.rows[e].offer_expired}
        lapsed == {e \in DOMAIN register.rows : register.rows[e].offer_expired}
    IN  /\ Cardinality(held) = register.class.counts.enrolled_count
        /\ columns.confirmed + columns.offered = Cardinality(held)
        /\ columns.confirmed + columns.offered + columns.waiting + columns.pending
              = columns.registrations
        /\ columns.registrations + Cardinality(lapsed) = Cardinality(DOMAIN register.rows)

(* Whatever a family has asked for is on a desk, its places are on its     *)
(* home page and, confirmed, on the list for the gate, and an announcement *)
(* to all classes reaches it while its class is open.                      *)
NobodyMissing ==
  \A e \in Id : LET r == enrollments[e] IN r.status \in Active =>
    /\ \A w \in Windows : e \in DOMAIN home(r.child, w)
    /\ e \in registered_for(r.child)
    /\ r.status = "REQUESTED" \/ r.cancel_requested_at # Unset =>
         e \in DOMAIN requests_view.pending \cup DOMAIN requests_view.cancellations
    /\ r.status = "ENROLLED" /\ term_active[r.activity_class] => e \in participants_by_day
    /\ Open(r.activity_class) => r.child \in queue_broadcast("ALL_CLASSES", {}, "EVERYONE")

(* notifications/services.py 455-457, "the only audience a cancelled class *)
(* still has": a class that is called off has no live place left, and the  *)
(* families that lost theirs can be written to from then on, by the        *)
(* provider while it stays called off, by the picker while its term runs.  *)
StillReachable ==
  \A e \in Id : LET r == enrollments[e]
                    c == r.activity_class IN r.cancel_reason = "CLASS_CANCELLED" =>
    /\ r.child \in queue_broadcast("SELECTED_CLASSES", {c} \cap announce_view, "EVER_REGISTERED")
    /\ class_status[c] = "CANCELLED" =>
         /\ queue_broadcast("SELECTED_CLASSES", {c}, "EVERYONE") = {}
         /\ c \in ProviderBroadcastForm
    /\ term_active[c] => c \in SelectedClasses

(* Every page, tool and announcement tells the same story of a class.      *)
EveryPageAgrees == PlacesAvailable /\ RegisterAddsUp /\ NobodyMissing /\ StillReachable
=============================================================================
