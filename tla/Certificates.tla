---------------------------- MODULE Certificates ----------------------------
(***************************************************************************)
(* An instructor's profile, its certificate of police conduct, and the     *)
(* files both leave in the database: the profile page, the office's form   *)
(* and its check, the removal of the instructor, and prune_stored_files.   *)
(* Beside them the pictures of announcements, which only the text of a     *)
(* broadcast names.                                                        *)
(*                                                                         *)
(* ATOMIC_REQUESTS is off, so a request is a run of statements that commit *)
(* on their own; the office's form is the exception, Django's admin wraps  *)
(* it in a transaction.  A request writes the row as it loaded it, every   *)
(* column of it: `lost` remembers that one has written over a change it    *)
(* had not seen.  The column conduct_certificate_checked_at holds here     *)
(* which file the office had in front of it.  Left out: the text of the    *)
(* profile and the date the certificate was issued on, which no step reads.*)
(***************************************************************************)
EXTENDS Naturals, FiniteSets

CONSTANTS
  Request,   \* the web requests that may run at once
  MaxFiles   \* bound: files ever stored

ASSUME FilesAssumption == MaxFiles \in Nat

VARIABLES
  stored,     \* the StoredFile rows, by name
  old,        \* those stored more than min_age_hours ago
  minted,     \* names given out so far: none is used twice
  row,        \* the Instructor row
  req,        \* what each request is doing, with the row as it loaded it
  draft,      \* pictures uploaded into announcements nobody has sent
  announced,  \* pictures named by Broadcast.body_html
  prompt,     \* those whose announcement was sent within a day
  prune,      \* prune_stored_files: the names it has found referenced
  lost        \* a request has written over what it had not read

files == <<stored, old, minted>>
letters == <<draft, announced, prompt>>
vars == <<files, row, req, letters, prune, lost>>

Name == {"certificate", "photo", "picture"} \X (1..MaxFiles)
NoFile == <<"none", 0>>
Gone == [file |-> NoFile, photo |-> NoFile, checked |-> NoFile, exists |-> FALSE]
Blank == [Gone EXCEPT !.exists = TRUE]
Profile == [file : Name \cup {NoFile}, photo : Name \cup {NoFile},
            checked : Name \cup {NoFile}, exists : {TRUE}]

(* A post of the profile page uploads a photo, a certificate, both, or none.*)
PhotoPost == {"photo", "both"}
CertificatePost == {"certificate", "both"}
Post == PhotoPost \cup CertificatePost \cup {"profile"}
Operation == Post \cup {"office", "mark", "remove"}
Step == {"loaded", "photo_stored", "saved", "certificate_stored", "replaced", "deleted"}
Idle == [at |-> "idle"]
Busy == [op : Operation, at : Step, copy : Profile, new : Name \cup {NoFile}]

NotPruning == [at |-> "idle"]

TypeOK ==
  /\ stored \subseteq Name /\ old \subseteq stored
  /\ minted \in 0..MaxFiles
  /\ row \in Profile \cup {Gone}
  /\ req \in [Request -> Busy \cup {Idle}]
  /\ draft \subseteq Name /\ announced \subseteq Name /\ prompt \subseteq announced
  /\ prune = NotPruning \/ (prune.at = "read" /\ prune.keep \subseteq Name)
  /\ lost \in BOOLEAN

(* Instructor.certificate_status. *)
certificate_status(r) ==
  IF r.file = NoFile THEN "missing" ELSE IF r.checked # NoFile THEN "checked" ELSE "uploaded"

(* instructor_certificate: opening the file of a row whose file is gone is *)
(* an error nobody catches.                                                *)
instructor_certificate(r) ==
  IF certificate_status(r) = "missing" THEN "404" ELSE IF r.file \in stored THEN "file" ELSE "error"

(***************************************************************************)
(* The storage.                                                            *)
(***************************************************************************)

FilesOf(r) == {r.file, r.photo} \ {NoFile}

(* get_available_name and _save. *)
Store(name, kind) ==
  /\ minted < MaxFiles
  /\ name = <<kind, minted + 1>>
  /\ minted' = minted + 1
  /\ stored' = stored \cup {name}
  /\ UNCHANGED old

Delete(names) == stored' = stored \ names /\ old' = old \ names /\ UNCHANGED minted

At(q, op, step) == req[q] # Idle /\ req[q].op \in op /\ req[q].at = step
End(q) == req' = [req EXCEPT ![q] = Idle]

(* Saving an instance writes all its columns, and a row that has gone in   *)
(* the meantime is inserted again.                                         *)
Save(q, instance) ==
  /\ row' = instance
  /\ lost' = (lost \/ row # req[q].copy)

(***************************************************************************)
(* The requests.                                                           *)
(***************************************************************************)

Load(q, op) ==
  /\ req[q] = Idle /\ row.exists
  /\ req' = [req EXCEPT ![q] = [op |-> op, at |-> "loaded", copy |-> row, new |-> NoFile]]
  /\ UNCHANGED <<files, row, letters, prune, lost>>

(* InstructorProfileForm.save: a new photo is stored before its row is, ...*)
StorePhoto(q) ==
  /\ At(q, PhotoPost, "loaded")
  /\ \E name \in Name :
       /\ Store(name, "photo")
       /\ req' = [req EXCEPT ![q].at = "photo_stored", ![q].new = name]
  /\ UNCHANGED <<row, letters, prune, lost>>

(* ... the instance is saved as it was loaded, with the photo it may have  *)
(* been given or stripped of, ...                                          *)
SaveProfile(q) ==
  /\ At(q, Post \ PhotoPost, "loaded") \/ At(q, PhotoPost, "photo_stored")
  /\ \E photo \in IF req[q].op \in PhotoPost THEN {req[q].new} ELSE {req[q].copy.photo, NoFile} :
       LET instance == [req[q].copy EXCEPT !.photo = photo]
       IN  /\ Save(q, instance)
           /\ IF req[q].op \in CertificatePost
              THEN req' = [req EXCEPT ![q].at = "saved", ![q].copy = instance, ![q].new = NoFile]
              ELSE End(q)
  /\ UNCHANGED <<files, letters, prune>>

(* ... and a new certificate goes through replace_certificate: stored, ... *)
StoreCertificate(q) ==
  /\ At(q, CertificatePost, "saved")
  /\ \E name \in Name :
       /\ Store(name, "certificate")
       /\ req' = [req EXCEPT ![q].at = "certificate_stored", ![q].new = name]
  /\ UNCHANGED <<row, letters, prune, lost>>

(* Mutant: the check carries over to the new file. *)
ReplacedKeepsCheck(r, name) == [r EXCEPT !.file = name]

Replaced(r, name) == [r EXCEPT !.file = name, !.checked = NoFile]

(* ... saved without the check of the old one, ...                         *)
SaveCertificate(q) ==
  /\ At(q, CertificatePost, "certificate_stored")
  /\ Save(q, Replaced(req[q].copy, req[q].new))
  /\ req' = [req EXCEPT ![q].at = "replaced", ![q].new = NoFile]
  /\ UNCHANGED <<files, letters, prune>>

(* Mutant: the old file goes first. *)
DeleteReplacedEarly(q) ==
  /\ At(q, CertificatePost, "certificate_stored")
  /\ Delete({req[q].copy.file})
  /\ UNCHANGED <<row, req, letters, prune, lost>>

(* ... and the old file deleted.                                           *)
DeleteReplaced(q) ==
  /\ At(q, CertificatePost, "replaced")
  /\ Delete({req[q].copy.file})
  /\ End(q)
  /\ UNCHANGED <<row, letters, prune, lost>>

(* InstructorAdmin.save_model, with its upload, in one transaction: each   *)
(* file is kept, replaced or cleared.                                      *)
SaveOffice(q) ==
  /\ At(q, {"office"}, "loaded")
  /\ LET r == req[q].copy
     IN  \/ \E name \in Name : Store(name, "certificate") /\ Save(q, Replaced(r, name))
         \/ \E name \in Name : Store(name, "photo") /\ Save(q, [r EXCEPT !.photo = name])
         \/ UNCHANGED files /\ Save(q, r)
         \/ UNCHANGED files /\ Save(q, [r EXCEPT !.file = NoFile])
         \/ UNCHANGED files /\ Save(q, [r EXCEPT !.photo = NoFile])
  /\ End(q)
  /\ UNCHANGED <<letters, prune>>

(* The model's mark_certificate_checked writes its two columns, and fails  *)
(* on a row that is gone.                                                  *)
mark_certificate_checked(copy) ==
  IF row.exists /\ copy.file # NoFile
  THEN /\ row' = [row EXCEPT !.checked = copy.file]
       /\ lost' = (lost \/ row.file # copy.file)
  ELSE UNCHANGED <<row, lost>>

(* The admin action of that name. *)
MarkChecked(q) ==
  /\ At(q, {"mark"}, "loaded")
  /\ mark_certificate_checked(req[q].copy)
  /\ End(q)
  /\ UNCHANGED <<files, letters, prune>>

(* instructor_remove: the row, then the files the loaded row named.        *)
RemoveRow(q) ==
  /\ At(q, {"remove"}, "loaded")
  /\ row' = Gone
  /\ lost' = (lost \/ (row.exists /\ FilesOf(row) # FilesOf(req[q].copy)))
  /\ req' = [req EXCEPT ![q].at = "deleted"]
  /\ UNCHANGED <<files, letters, prune>>

(* Mutant: the photo is deleted, the certificate forgotten. *)
DeleteRemovedPhoto(q) ==
  /\ At(q, {"remove"}, "deleted")
  /\ Delete({req[q].copy.photo})
  /\ End(q)
  /\ UNCHANGED <<row, letters, prune, lost>>

DeleteRemoved(q) ==
  /\ At(q, {"remove"}, "deleted")
  /\ Delete(FilesOf(req[q].copy))
  /\ End(q)
  /\ UNCHANGED <<row, letters, prune, lost>>

(* A worker killed between two statements. *)
Crash(q) ==
  /\ req[q] # Idle
  /\ End(q)
  /\ UNCHANGED <<files, row, letters, prune, lost>>

(* Deleted in the admin, or with the provider or the account: Django       *)
(* deletes the row and leaves the files.                                   *)
DeleteInAdmin ==
  /\ row.exists
  /\ row' = Gone
  /\ UNCHANGED <<files, req, letters, prune, lost>>

(***************************************************************************)
(* Announcements, and the pruning of what nothing refers to.               *)
(***************************************************************************)

upload_announcement_image ==
  /\ \E name \in Name : Store(name, "picture") /\ draft' = draft \cup {name}
  /\ UNCHANGED <<row, req, announced, prompt, prune, lost>>

(* create_broadcast, with the pictures left in the text. *)
create_broadcast ==
  /\ draft # {}
  /\ \E used \in SUBSET draft :
       announced' = announced \cup used /\ prompt' = prompt \cup (used \cap (stored \ old))
  /\ draft' = {}
  /\ UNCHANGED <<files, row, req, prune, lost>>

announcement_image_names == announced

referenced_names == FilesOf(row) \cup announcement_image_names

PruneRead ==
  /\ prune = NotPruning
  /\ prune' = [at |-> "read", keep |-> referenced_names]
  /\ UNCHANGED <<files, row, req, letters, lost>>

(* Mutant: run with --min-age-hours 0. *)
OrphansOfAnyAge(keep) == stored \ keep

Orphans(keep) == old \ keep

PruneDelete ==
  /\ prune # NotPruning
  /\ Delete(Orphans(prune.keep))
  /\ prune' = NotPruning
  /\ UNCHANGED <<row, req, letters, lost>>

(* A day goes by: no request of the web server and no run of the command   *)
(* lasts that long, a draft in a browser does.                             *)
Age ==
  /\ old # stored
  /\ \A q \in Request : req[q] = Idle
  /\ prune = NotPruning
  /\ old' = stored
  /\ UNCHANGED <<stored, minted, row, req, letters, prune, lost>>

-----------------------------------------------------------------------------

Init ==
  /\ stored = {} /\ old = {} /\ minted = 0
  /\ row = Blank
  /\ req = [q \in Request |-> Idle]
  /\ draft = {} /\ announced = {} /\ prompt = {}
  /\ prune = NotPruning
  /\ lost = FALSE

ProfileStep(q) ==
  \/ StorePhoto(q) \/ SaveProfile(q)
  \/ StoreCertificate(q) \/ SaveCertificate(q) \/ DeleteReplaced(q)

Next ==
  \/ \E q \in Request :
       \/ \E op \in Operation : Load(q, op)
       \/ ProfileStep(q)
       \/ SaveOffice(q) \/ MarkChecked(q)
       \/ RemoveRow(q) \/ DeleteRemoved(q)
       \/ Crash(q)
  \/ DeleteInAdmin
  \/ upload_announcement_image \/ create_broadcast
  \/ PruneRead \/ PruneDelete \/ Age

Spec == Init /\ [][Next]_vars

(***************************************************************************)
(* Properties.                                                             *)
(***************************************************************************)

(* What parents are told, "checked by the school", is said of the file the *)
(* office had in front of it, through replacements, clearings and crashes  *)
(* anywhere in them; only a request that writes over another's change can  *)
(* make it untrue (models.py 162, "once the office has looked at the       *)
(* current file").                                                         *)
CheckedWasSeen ==
  ~lost /\ certificate_status(row) = "checked" => row.checked = row.file

(* Neither a crash, nor pruning, nor another request that has seen what it *)
(* overwrites ever leaves the profile pointing at a file that is not there.*)
CertificateOpens ==
  ~lost => instructor_certificate(row) # "error" /\ FilesOf(row) \subseteq stored

Unsaved == {"photo_stored", "certificate_stored"}
Deleting == {"replaced", "deleted"}
InStep(S) == {q \in Request : req[q].at \in S}
NewOf(S) == {req[q].new : q \in InStep(S)}
OldOf(S) == UNION {FilesOf(req[q].copy) : q \in InStep(S)}

(* A file stored by a request that has yet to save the row which names it  *)
(* is not taken by prune_stored_files, nor is the picture of an            *)
(* announcement sent within a day of its upload, ever: pruning may read    *)
(* its references before either exists.                                    *)
FreshUploadSurvives ==
  NewOf(Unsaved) \cup prompt \subseteq stored

Stray == {n \in stored : /\ n[1] = "certificate"
                         /\ n \notin FilesOf(row)
                         /\ n \notin NewOf(Unsaved)
                         /\ n \notin OldOf(Deleting)}

(* The pages of instructors and managers leave no certificate behind that  *)
(* no profile names: only the admin, a killed request and a lost update do *)
(* (models.py 80-84 and replace_certificate).                              *)
NoStrayCertificate ==
  [][Stray' \subseteq Stray \/ lost' \/ DeleteInAdmin
       \/ \E q \in Request : SaveOffice(q) \/ Crash(q)]_vars
=============================================================================
