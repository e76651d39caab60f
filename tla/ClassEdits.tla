----------------------------- MODULE ClassEdits -----------------------------
(***************************************************************************)
(* The edits of a class that run beside the services of EnrollmentTx: the  *)
(* admin form and the MCP tool that save the whole class, the actions that *)
(* publish and archive it.  None of them locks the class: each reads it,   *)
(* checks what it read, and some time later sends an UPDATE, which waits   *)
(* for the transaction that has locked the row but overwrites whatever     *)
(* that transaction wrote.  cancel_class is a service and does lock.       *)
(***************************************************************************)
EXTENDS EnrollmentTx

CONSTANTS
  Editor,     \* the office's sessions, an edit at a time
  Edits       \* the edits they make, a subset of {"form", "upsert", "publish", "archive"}

VARIABLE edit   \* for an editor, the edit under way and what it has read

editvars == <<txvars, edit>>

NoEdit == [pc |-> "idle", class |-> Nowhere, status |-> "DRAFT", capacity |-> 0, old |-> 0]

EditPc == {"idle", "loaded", "measured", "publishing", "archiving"}

-----------------------------------------------------------------------------
Start(a, e) ==
  /\ edit[a] = NoEdit
  /\ edit' = [edit EXCEPT ![a] = e]
  /\ UNCHANGED txvars

(* The class as the request loads it, with the capacity it asks for. *)
Loaded(c, n) ==
  [NoEdit EXCEPT !.pc = "loaded", !.class = c, !.status = class_status[c], !.capacity = n]

(* get_object and clean_capacity. *)
OpenForm(a, c, n) ==
  /\ "form" \in Edits
  /\ n >= SeatsTaken(c)
  /\ Start(a, Loaded(c, n))

(* upsert_class of an existing class. *)
OpenUpsert(a, c, n) ==
  /\ "upsert" \in Edits
  /\ class_status[c] \in {"DRAFT", "PUBLISHED"}
  /\ Start(a, Loaded(c, n))

(* ActivityClass.save looks up the capacity it is about to replace ...     *)
Measure(a) ==
  /\ edit[a].pc = "loaded"
  /\ edit' = [edit EXCEPT ![a].pc = "measured", ![a].old = capacity[edit[a].class]]
  /\ UNCHANGED txvars

Done(a) == edit' = [edit EXCEPT ![a] = NoEdit]

(* ... then writes every column of the class as it was loaded, and lets    *)
(* capacity_increased alert the admins of a raise.                         *)
Save(a) ==
  LET e == edit[a]
  IN /\ e.pc = "measured"
     /\ ClassFree(e.class)
     /\ class_status' = [class_status EXCEPT ![e.class] = e.status]
     /\ capacity' = [capacity EXCEPT ![e.class] = e.capacity]
     /\ UNCHANGED <<enrollments, term_active, now, news, tx>>
     /\ History(IF e.capacity > e.old THEN SeatFreedAlert(e.class) ELSE {}, {e.class})
     /\ Done(a)

(* publish_classes and publish_class leave cancelled classes out. *)
LoadToPublish(a, c) ==
  /\ "publish" \in Edits
  /\ class_status[c] # "CANCELLED"
  /\ Start(a, [NoEdit EXCEPT !.pc = "publishing", !.class = c])

SetStatus(a, st) ==
  /\ ClassFree(edit[a].class)
  /\ class_status' = [class_status EXCEPT ![edit[a].class] = st]
  /\ UNCHANGED <<enrollments, capacity, term_active, now, news, tx>>
  /\ History({}, {})
  /\ Done(a)

SavePublished(a) == edit[a].pc = "publishing" /\ SetStatus(a, "PUBLISHED")

(* archive_class counts the active registrations; the subquery of          *)
(* archive_classes sees those committed when its UPDATE was sent.          *)
CheckToArchive(a, c) ==
  /\ "archive" \in Edits
  /\ RowsOf(c, Active) = {}
  /\ Start(a, [NoEdit EXCEPT !.pc = "archiving", !.class = c])

SaveArchived(a) == edit[a].pc = "archiving" /\ SetStatus(a, "ARCHIVED")

EditsInit == TxInit /\ edit = [a \in Editor |-> NoEdit]

EditStep(a) ==
  \/ \E c \in Class : \/ LoadToPublish(a, c) \/ CheckToArchive(a, c)
                     \/ \E n \in Capacities : OpenForm(a, c, n) \/ OpenUpsert(a, c, n)
  \/ Measure(a) \/ Save(a) \/ SavePublished(a) \/ SaveArchived(a)

EditsNext ==
  \/ (\E p \in Process : TransactionStep(p)) /\ UNCHANGED edit
  \/ TimePasses /\ UNCHANGED edit
  \/ \E a \in Editor : EditStep(a)

EditsSpec == EditsInit /\ [][EditsNext]_editvars
-----------------------------------------------------------------------------
(* Properties *)

(* services.py _require_open under the class lock: whatever the unlocked   *)
(* edits do, nobody is admitted, approved, offered a place or confirmed in *)
(* a class that is not published at the instant of the commit.             *)
AdmittedWhilePublished ==
  [][\A e \in Id :
       LET r == enrollments'[e]
       IN /\ r.status \in Active
          /\ r.status # enrollments[e].status
          => class_status'[r.activity_class] = "PUBLISHED"]_editvars

(* mcp_server.py 805, publish_class: "Cancelled classes cannot be          *)
(* published": the families have been told that the class is off.          *)
CancelledNeverPublished ==
  [][\A c \in Class :
       class_status[c] = "CANCELLED" => class_status'[c] # "PUBLISHED"]_editvars
=============================================================================
