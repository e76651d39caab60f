------------------------- MODULE CertificatesProofs -------------------------
(***************************************************************************)
(* Proofs about Certificates, for any set of requests and any number of    *)
(* files: the types, that "checked" is said of the file that was checked,  *)
(* that the certificate opens, that no fresh upload is lost and that the   *)
(* pages leave no certificate behind.                                      *)
(***************************************************************************)
EXTENDS Certificates, TLAPS

(* The names of one kind among those given out. *)
Of(kind) == {n \in Name : n[1] = kind /\ n[2] <= minted}

Holds(r) ==
  /\ r.file \in Of("certificate") \cup {NoFile}
  /\ r.photo \in Of("photo") \cup {NoFile}

(* What a request carries along. *)
Carries(b) ==
  b # Idle =>
    /\ b \in Busy
    /\ Holds(b.copy)
    /\ b.at = "photo_stored" => b.new \in Of("photo")
    /\ b.at = "certificate_stored" => b.new \in Of("certificate")

(* Beyond TypeOK: every name in use was given out, and is of the kind of   *)
(* the column it is in.                                                    *)
Typed ==
  /\ TypeOK
  /\ \A n \in stored : n[2] <= minted
  /\ Holds(row)
  /\ \A q \in Request : Carries(req[q])
  /\ draft \subseteq Of("picture") /\ announced \subseteq Of("picture")

(* A file whose row is not saved yet is there, is young, and is named by   *)
(* the request that stored it and by nobody else.                          *)
Uploading(b) == b.at \in Unsaved

UploadsOwn ==
  \A q \in Request :
    Uploading(req[q]) =>
      /\ req[q].new \in stored \ old
      /\ req[q].new \notin FilesOf(row)
      /\ \A p \in Request : /\ req[p] # Idle => req[q].new \notin FilesOf(req[p].copy)
                            /\ p # q /\ Uploading(req[p]) => req[p].new # req[q].new

(* Until an update is lost, the row names files that are there, checked    *)
(* means this file, and what a request is about to delete is not in it.    *)
Sound ==
  /\ FilesOf(row) \subseteq stored
  /\ row.file # NoFile /\ row.checked # NoFile => row.checked = row.file
  /\ \A q \in Request : /\ req[q].at = "replaced" => req[q].copy.file \notin FilesOf(row)
                        /\ req[q].at = "deleted" => row = Gone

Kept == ~lost => Sound

(* What pruning has found referenced covers what is old enough to go. *)
Pruned ==
  /\ prompt \subseteq stored
  /\ prune # NotPruning => /\ prompt \cap old \subseteq prune.keep
                           /\ ~lost => FilesOf(row) \cap old \subseteq prune.keep

CertificatesOK == Typed /\ UploadsOwn /\ Kept /\ Pruned

-----------------------------------------------------------------------------
(* Requests and names *)

LEMMA BusyFields ==
  /\ Idle.at = "idle" /\ Idle.at \notin Step
  /\ \A b \in Busy : /\ b.op \in Operation /\ b.at \in Step /\ b.copy \in Profile
                     /\ b.new \in Name \cup {NoFile} /\ b # Idle
<1>1. Idle.at = "idle" /\ Idle.at \notin Step
  BY DEF Idle, Step
<1>2. \A b \in Busy : /\ b.op \in Operation /\ b.at \in Step /\ b.copy \in Profile
                      /\ b.new \in Name \cup {NoFile}
  BY DEF Busy
<1> QED
  BY <1>1, <1>2

LEMMA NotStored ==
  /\ NoFile \notin Name
  /\ \A n \in Name : n[1] \in {"certificate", "photo", "picture"} /\ n[2] \in 1..MaxFiles
<1>1. \A n \in Name : n[1] \in {"certificate", "photo", "picture"} /\ n[2] \in 1..MaxFiles
  BY DEF Name
<1>2. NoFile[1] = "none"
  BY DEF NoFile
<1> QED
  BY <1>1, <1>2

LEMMA GoneFields ==
  /\ Gone.file = NoFile /\ Gone.photo = NoFile /\ Gone.checked = NoFile /\ Gone.exists = FALSE
  /\ Gone \notin Profile
  /\ FilesOf(Gone) = {}
  /\ Holds(Gone)
<1>1. /\ Gone.file = NoFile /\ Gone.photo = NoFile /\ Gone.checked = NoFile
      /\ Gone.exists = FALSE
  BY DEF Gone
<1>2. \A r \in Profile : r.exists = TRUE
  BY DEF Profile
<1> QED
  BY <1>1, <1>2 DEF FilesOf, Holds

LEMMA ProfileFields ==
  ASSUME NEW r \in Profile
  PROVE  /\ r.file \in Name \cup {NoFile} /\ r.photo \in Name \cup {NoFile}
         /\ r.checked \in Name \cup {NoFile} /\ r.exists = TRUE
         /\ \A n \in Name \cup {NoFile} :
              /\ [r EXCEPT !.file = n] \in Profile
              /\ [r EXCEPT !.photo = n] \in Profile
              /\ [r EXCEPT !.checked = n] \in Profile
              /\ Replaced(r, n) \in Profile
              /\ [r EXCEPT !.photo = n].photo = n /\ [r EXCEPT !.photo = n].file = r.file
              /\ [r EXCEPT !.photo = n].checked = r.checked
              /\ [r EXCEPT !.file = n].photo = r.photo /\ [r EXCEPT !.file = n].file = n
              /\ [r EXCEPT !.checked = n].photo = r.photo /\ [r EXCEPT !.checked = n].file = r.file
              /\ [r EXCEPT !.checked = n].checked = n
              /\ Replaced(r, n).file = n /\ Replaced(r, n).photo = r.photo
              /\ Replaced(r, n).checked = NoFile
<1>1. /\ r.file \in Name \cup {NoFile} /\ r.photo \in Name \cup {NoFile}
      /\ r.checked \in Name \cup {NoFile} /\ r.exists = TRUE
  BY DEF Profile
<1>2. ASSUME NEW n \in Name \cup {NoFile}
      PROVE  /\ [r EXCEPT !.file = n] \in Profile
             /\ [r EXCEPT !.photo = n] \in Profile
             /\ [r EXCEPT !.checked = n] \in Profile
  BY <1>2 DEF Profile
<1>3. ASSUME NEW n \in Name \cup {NoFile}
      PROVE  /\ [r EXCEPT !.photo = n].photo = n /\ [r EXCEPT !.photo = n].file = r.file
             /\ [r EXCEPT !.photo = n].checked = r.checked
             /\ [r EXCEPT !.file = n].photo = r.photo /\ [r EXCEPT !.file = n].file = n
             /\ [r EXCEPT !.checked = n].photo = r.photo /\ [r EXCEPT !.checked = n].file = r.file
             /\ [r EXCEPT !.checked = n].checked = n
  BY <1>3 DEF Profile
<1>4. ASSUME NEW n \in Name \cup {NoFile}
      PROVE  /\ Replaced(r, n) \in Profile
             /\ Replaced(r, n).file = n /\ Replaced(r, n).photo = r.photo
             /\ Replaced(r, n).checked = NoFile
  BY <1>4 DEF Replaced, Profile
<1> QED
  BY <1>1, <1>2, <1>3, <1>4

(* A request moves: its own entry changes, to b. *)
LEMMA RequestMoves ==
  ASSUME TypeOK, NEW q \in Request, NEW b \in Busy \cup {Idle}, req' = [req EXCEPT ![q] = b]
  PROVE  /\ req' \in [Request -> Busy \cup {Idle}]
         /\ req'[q] = b
         /\ \A p \in Request : p # q => req'[p] = req[p]
BY DEF TypeOK

LEMMA RequestEnds ==
  ASSUME TypeOK, NEW q \in Request, End(q)
  PROVE  /\ req' \in [Request -> Busy \cup {Idle}]
         /\ req'[q] = Idle
         /\ \A p \in Request : p # q => req'[p] = req[p]
BY RequestMoves DEF End

(* On to its next statement, with a name or without. *)
LEMMA RequestSteps ==
  ASSUME TypeOK, NEW q \in Request, req[q] # Idle, NEW s \in Step, NEW n \in Name \cup {NoFile},
         req' = [req EXCEPT ![q].at = s, ![q].new = n]
  PROVE  /\ req' \in [Request -> Busy \cup {Idle}]
         /\ req'[q] \in Busy /\ req'[q].at = s /\ req'[q].new = n
         /\ req'[q].copy = req[q].copy /\ req'[q].op = req[q].op
         /\ \A p \in Request : p # q => req'[p] = req[p]
<1> DEFINE b == [req[q] EXCEPT !.at = s, !.new = n]
<1>1. req[q] \in Busy
  BY DEF TypeOK
<1>2. b \in Busy /\ b.at = s /\ b.new = n /\ b.copy = req[q].copy /\ b.op = req[q].op
  BY <1>1 DEF Busy
<1>3. req' = [req EXCEPT ![q] = b]
  OBVIOUS
<1> HIDE DEF b
<1> QED
  BY <1>2, <1>3, RequestMoves

(* Names are never taken back. *)
LEMMA MoreNames ==
  ASSUME minted \in Nat, minted' \in Nat, minted <= minted'
  PROVE  /\ \A n \in Name : n[2] <= minted => n[2] <= minted'
         /\ \A kind \in {"certificate", "photo", "picture"} : Of(kind) \subseteq Of(kind)'
         /\ \A r : Holds(r) => Holds(r)'
         /\ \A b : Carries(b) => Carries(b)'
<1>1. \A n \in Name : n[2] <= minted => n[2] <= minted'
  BY NotStored
<1>2. \A kind \in {"certificate", "photo", "picture"} : Of(kind) \subseteq Of(kind)'
  BY <1>1 DEF Of
<1>3. \A r : Holds(r) => Holds(r)'
  BY <1>2 DEF Holds
<1>4. \A b : Carries(b) => Carries(b)'
  BY <1>2, <1>3 DEF Carries
<1> QED
  BY <1>1, <1>2, <1>3, <1>4

LEMMA TypedMoves ==
  ASSUME Typed, FilesAssumption, minted' \in 0..MaxFiles, minted <= minted',
         stored' \subseteq Name, old' \subseteq stored', \A n \in stored' : n[2] <= minted',
         row' \in Profile \cup {Gone}, Holds(row)',
         req' \in [Request -> Busy \cup {Idle}],
         \A q \in Request : req'[q] = req[q] \/ Carries(req[q])',
         draft' \subseteq Of("picture")', announced' \subseteq Of("picture")', prompt' \subseteq announced',
         prune' = NotPruning \/ (prune'.at = "read" /\ prune'.keep \subseteq Name),
         lost' \in BOOLEAN
  PROVE  Typed'
<1>1. minted \in Nat /\ minted' \in Nat
  BY DEF Typed, TypeOK, FilesAssumption
<1>2. draft' \subseteq Name /\ announced' \subseteq Name
  BY DEF Of
<1>3. TypeOK'
  BY <1>2 DEF TypeOK
<1>4. ASSUME NEW q \in Request PROVE Carries(req[q])'
  <2>1. CASE req'[q] = req[q]
    <3>1. Carries(req[q])
      BY DEF Typed
    <3>2. \A b : Carries(b) => Carries(b)'
      BY <1>1, MoreNames
    <3>3. Carries(req[q]) <=> Carries(req'[q])
      BY <2>1
    <3> QED
      BY <3>1, <3>2, <3>3 DEF Carries, Holds, Of
  <2> QED
    BY <2>1
<1> QED
  BY <1>3, <1>4 DEF Typed

(* A name that is given out is nobody's yet. *)
LEMMA StoreFresh ==
  ASSUME Typed, FilesAssumption, NEW name \in Name,
         NEW kind \in {"certificate", "photo", "picture"}, Store(name, kind)
  PROVE  /\ minted \in Nat /\ minted' \in 0..MaxFiles /\ minted' \in Nat /\ minted <= minted'
         /\ stored' = stored \cup {name} /\ old' = old
         /\ name \in Of(kind)' /\ name # NoFile
         /\ \A k \in {"certificate", "photo", "picture"} : Of(k) \subseteq Of(k)' /\ name \notin Of(k)
         /\ name \notin stored /\ name \notin FilesOf(row)
         /\ \A p \in Request : /\ req[p] # Idle => name \notin FilesOf(req[p].copy)
                               /\ Uploading(req[p]) => req[p].new # name
         /\ stored' \subseteq Name /\ old' \subseteq stored' /\ \A n \in stored' : n[2] <= minted'
<1>1. minted \in 0..MaxFiles /\ minted < MaxFiles /\ MaxFiles \in Nat
  BY DEF Typed, TypeOK, Store, FilesAssumption
<1>2. minted' = minted + 1 /\ name[2] = minted + 1 /\ name[1] = kind
      /\ stored' = stored \cup {name} /\ old' = old
  BY DEF Store
<1>3. name \in Of(kind)' /\ name # NoFile
  BY <1>1, <1>2, NotStored DEF Of
<1>4. \A k : name \notin Of(k)
  BY <1>1, <1>2 DEF Of
<1>5. \A k \in {"certificate", "photo", "picture"} : Of(k) \subseteq Of(k)'
  BY <1>1, <1>2, MoreNames
<1>6. \A r : Holds(r) => name \notin FilesOf(r)
  BY <1>3, <1>4 DEF Holds, FilesOf
<1>7. ASSUME NEW p \in Request
      PROVE  /\ req[p] # Idle => name \notin FilesOf(req[p].copy)
             /\ Uploading(req[p]) => req[p].new # name
  <2>1. Carries(req[p])
    BY DEF Typed
  <2>2. Uploading(req[p]) => req[p] # Idle /\ req[p].at \in {"photo_stored", "certificate_stored"}
    BY BusyFields DEF Uploading, Unsaved, Step
  <2> QED
    BY <1>4, <1>6, <2>1, <2>2 DEF Carries
<1>8. name \notin stored /\ name \notin FilesOf(row)
  BY <1>1, <1>2, <1>6 DEF Typed
<1>9. stored' \subseteq Name /\ old' \subseteq stored'
  BY <1>2 DEF Typed, TypeOK
<1>10. \A n \in stored' : n[2] <= minted'
  <2>1. \A n \in stored : n \in Name /\ n[2] <= minted /\ n[2] \in Nat
    BY NotStored DEF Typed, TypeOK
  <2> QED
    BY <1>1, <1>2, <2>1
<1> QED
  BY <1>1, <1>2, <1>3, <1>4, <1>5, <1>7, <1>8, <1>9, <1>10

(* A file of one kind is in no column of another. *)
LEMMA KindsApart ==
  /\ Of("certificate") \cap Of("photo") = {} /\ Of("certificate") \cap Of("picture") = {}
  /\ Of("photo") \cap Of("picture") = {}
  /\ \A k : NoFile \notin Of(k) /\ Of(k) \subseteq Name
BY NotStored DEF Of

LEMMA UploadFields ==
  ASSUME Typed, NEW p \in Request, Uploading(req[p])
  PROVE  /\ req[p] # Idle /\ req[p] \in Busy
         /\ req[p].at \in {"photo_stored", "certificate_stored"}
         /\ req[p].new \in Name /\ req[p].new # NoFile
<1>1. req[p] # Idle /\ req[p].at \in {"photo_stored", "certificate_stored"}
  BY BusyFields DEF Uploading, Unsaved, Step
<1>2. Carries(req[p])
  BY DEF Typed
<1> QED
  BY <1>1, <1>2, KindsApart DEF Carries

(* When q stores nothing, what the others have stored stays theirs. *)
LEMMA UploadsMove ==
  ASSUME UploadsOwn, NEW q \in Request,
         \A p \in Request : p # q => req'[p] = req[p],
         ~Uploading(req'[q]),
         \A p \in Request : p # q /\ Uploading(req[p]) =>
            /\ req[p].new \in stored' \ old'
            /\ req[p].new \notin FilesOf(row')
            /\ req'[q] # Idle => req[p].new \notin FilesOf(req'[q].copy)
  PROVE  UploadsOwn'
<1> SUFFICES ASSUME NEW p \in Request, Uploading(req[p])'
             PROVE  /\ req'[p].new \in stored' \ old'
                    /\ req'[p].new \notin FilesOf(row')
                    /\ \A s \in Request :
                         /\ req'[s] # Idle => req'[p].new \notin FilesOf(req'[s].copy)
                         /\ s # p /\ Uploading(req[s])' => req'[s].new # req'[p].new
  BY DEF UploadsOwn, FilesOf
<1>1. p # q /\ req'[p] = req[p] /\ Uploading(req[p])
  BY DEF Uploading
<1>2. ASSUME NEW s \in Request
      PROVE  /\ req'[s] # Idle => req[p].new \notin FilesOf(req'[s].copy)
             /\ s # p /\ Uploading(req[s])' => req'[s].new # req[p].new
  <2>1. CASE s = q
    BY <1>1, <2>1 DEF Uploading
  <2>2. CASE s # q
    BY <1>1, <2>2 DEF UploadsOwn, Uploading
  <2> QED
    BY <2>1, <2>2
<1> QED
  BY <1>1, <1>2

(* q saves the row as it loaded it, but for files in `extra`, which are    *)
(* stored, young and known to q alone.                                     *)
LEMMA Saved ==
  ASSUME CertificatesOK, NEW q \in Request, req[q] # Idle, NEW instance \in Profile,
         Save(q, instance), NEW extra,
         FilesOf(instance) \subseteq FilesOf(req[q].copy) \cup extra,
         extra \subseteq stored' \ old',
         stored \subseteq stored', old' = old,
         \A p \in Request : /\ req[p] # Idle => req[p].copy.file \notin extra
                            /\ p # q /\ Uploading(req[p]) => req[p].new \notin extra,
         UNCHANGED <<letters, prune>>,
         req[q].copy = row /\ ~lost =>
           (instance.file # NoFile /\ instance.checked # NoFile => instance.checked = instance.file),
         \A p \in Request : p # q => req'[p] = req[p],
         ~Uploading(req'[q]), req'[q].at # "deleted",
         req'[q] # Idle => FilesOf(req'[q].copy) \subseteq FilesOf(req[q].copy) \cup extra,
         req'[q].at = "replaced" => req'[q].copy.file \notin FilesOf(instance)
  PROVE  UploadsOwn' /\ Kept' /\ Pruned'
<1>1. row' = instance /\ (~lost' => ~lost /\ row = req[q].copy)
  BY DEF Save
<1>2. ASSUME NEW p \in Request, p # q, Uploading(req[p])
      PROVE  /\ req[p].new \in stored' \ old'
             /\ req[p].new \notin FilesOf(req[q].copy) \cup extra
  BY <1>2 DEF CertificatesOK, UploadsOwn
<1>3. UploadsOwn'
  BY <1>1, <1>2, UploadsMove DEF CertificatesOK
<1>4. ASSUME ~lost' PROVE Sound'
  <2>1. Sound /\ row = req[q].copy /\ row # Gone /\ FilesOf(instance) \subseteq FilesOf(row) \cup extra
    <3>1. req[q].copy \in Profile
      BY BusyFields DEF CertificatesOK, Typed, TypeOK
    <3> QED
      BY <1>1, <1>4, <3>1, GoneFields DEF CertificatesOK, Kept
  <2>2. FilesOf(row') \subseteq stored'
    BY <1>1, <2>1 DEF Sound
  <2>3. row'.file # NoFile /\ row'.checked # NoFile => row'.checked = row'.file
    BY <1>1, <1>4
  <2>4. ASSUME NEW p \in Request
        PROVE  /\ req'[p].at = "replaced" => req'[p].copy.file \notin FilesOf(row')
               /\ req'[p].at = "deleted" => row' = Gone
    <3>1. CASE p = q
      BY <1>1, <3>1
    <3>2. CASE p # q
      <4>1. req'[p] = req[p] /\ req[p].at # "deleted"
        BY <2>1, <3>2 DEF Sound
      <4>2. req[p].at = "replaced" => req[p] # Idle
        BY BusyFields DEF Step
      <4> QED
        BY <1>1, <2>1, <3>2, <4>1, <4>2 DEF Sound
    <3> QED
      BY <3>1, <3>2
  <2> QED
    BY <2>2, <2>3, <2>4 DEF Sound, FilesOf
<1>5. Pruned'
  <2>1. prompt \subseteq stored' /\ prompt' = prompt /\ prune' = prune
    BY DEF CertificatesOK, Pruned, letters
  <2>2. ASSUME prune # NotPruning, ~lost' PROVE FilesOf(row') \cap old' \subseteq prune.keep
    <3>1. FilesOf(row) \cap old \subseteq prune.keep
      BY <1>1, <2>2 DEF CertificatesOK, Pruned
    <3> QED
      BY <1>1, <2>2, <3>1
  <2>3. prune # NotPruning => prompt \cap old' \subseteq prune.keep
    BY DEF CertificatesOK, Pruned
  <2> QED
    BY <2>1, <2>2, <2>3 DEF Pruned, FilesOf
<1> QED
  BY <1>3, <1>4, <1>5 DEF Kept

(* q is through with its last statement, which deletes files the row it    *)
(* loaded has, and the row of now has not.                                 *)
LEMMA Deleted ==
  ASSUME CertificatesOK, FilesAssumption, NEW q \in Request, req[q] # Idle, End(q),
         NEW names, Delete(names),
         names \subseteq FilesOf(req[q].copy) \cup {NoFile},
         ~lost => names \cap FilesOf(row) = {},
         UNCHANGED <<row, letters, prune, lost>>
  PROVE  CertificatesOK'
<1>1. stored' = stored \ names /\ old' = old \ names /\ minted' = minted /\ row' = row /\ lost' = lost
      /\ UNCHANGED <<draft, announced, prompt, prune>>
  BY DEF Delete, letters
<1>2. /\ req' \in [Request -> Busy \cup {Idle}] /\ req'[q] = Idle
      /\ \A p \in Request : p # q => req'[p] = req[p]
  BY RequestEnds DEF CertificatesOK, Typed
<1>3. Typed'
  <2>1. /\ minted \in 0..MaxFiles /\ minted \in Nat
        /\ Of("picture")' = Of("picture") /\ (Holds(row)' <=> Holds(row))
    BY <1>1 DEF CertificatesOK, Typed, TypeOK, FilesAssumption, Of, Holds
  <2>2. \A p \in Request : req'[p] = req[p] \/ Carries(req[p])'
    BY <1>2 DEF Carries
  <2> QED
    BY <1>1, <1>2, <2>1, <2>2, TypedMoves DEF CertificatesOK, Typed, TypeOK
<1>4. \A p \in Request : p # q /\ Uploading(req[p]) => req[p].new \notin names
  BY UploadFields DEF CertificatesOK, UploadsOwn
<1>5. UploadsOwn'
  <2>1. ~Uploading(req'[q])
    BY <1>2, BusyFields DEF Uploading, Unsaved, Step
  <2> QED
    BY <1>1, <1>2, <1>4, <2>1, UploadsMove DEF CertificatesOK, UploadsOwn
<1>6. ASSUME ~lost' PROVE Sound'
  <2>1. Sound /\ names \cap FilesOf(row) = {}
    BY <1>1, <1>6 DEF CertificatesOK, Kept
  <2>2. ASSUME NEW p \in Request
        PROVE  /\ req'[p].at = "replaced" => req'[p].copy.file \notin FilesOf(row)
               /\ req'[p].at = "deleted" => row = Gone
    BY <1>2, <2>1, BusyFields DEF Sound, Step
  <2> QED
    BY <1>1, <2>1, <2>2 DEF Sound, FilesOf
<1>7. prompt \cap names = {}
  <2>1. Holds(req[q].copy)
    BY DEF CertificatesOK, Typed, Carries
  <2>2. prompt \subseteq Of("picture")
    BY DEF CertificatesOK, Typed, TypeOK
  <2> QED
    BY <2>1, <2>2, KindsApart DEF Holds, FilesOf
<1>8. Pruned'
  BY <1>1, <1>7 DEF CertificatesOK, Pruned, FilesOf
<1> QED
  BY <1>3, <1>5, <1>6, <1>8 DEF CertificatesOK, Kept

(* The row goes, and with it whatever could be lost. *)
LEMMA RowGone ==
  ASSUME CertificatesOK, row' = Gone, lost => lost', UNCHANGED <<files, letters, prune>>,
         lost' \in BOOLEAN,
         req' \in [Request -> Busy \cup {Idle}],
         \A p \in Request : \/ req'[p] = req[p]
                            \/ req'[p].at = "deleted" /\ Carries(req[p])' /\ req[p] # Idle
                               /\ req'[p].copy = req[p].copy,
         FilesAssumption
  PROVE  CertificatesOK'
<1>1. UNCHANGED <<stored, old, minted, draft, announced, prompt, prune>>
  BY DEF files, letters
<1>2. Typed'
  <2>1. minted \in 0..MaxFiles /\ minted \in Nat /\ Of("picture")' = Of("picture") /\ Holds(row)'
    BY <1>1, GoneFields DEF CertificatesOK, Typed, TypeOK, FilesAssumption, Of, Holds
  <2> QED
    BY <1>1, <2>1, TypedMoves DEF CertificatesOK, Typed, TypeOK
<1>3. UploadsOwn'
  <2> SUFFICES ASSUME NEW p \in Request, Uploading(req[p])'
               PROVE  /\ req'[p].new \in stored' \ old'
                      /\ req'[p].new \notin FilesOf(row')
                      /\ \A s \in Request :
                           /\ req'[s] # Idle => req'[p].new \notin FilesOf(req'[s].copy)
                           /\ s # p /\ Uploading(req[s])' => req'[s].new # req'[p].new
    BY DEF UploadsOwn, FilesOf
  <2>1. \A s \in Request : Uploading(req[s])' => Uploading(req[s]) /\ req'[s] = req[s]
    BY DEF Uploading, Unsaved
  <2>2. \A s \in Request : req'[s] # Idle => req[s] # Idle /\ req'[s].copy = req[s].copy
    OBVIOUS
  <2> QED
    BY <1>1, <2>1, <2>2, GoneFields DEF CertificatesOK, UploadsOwn
<1>4. Sound'
  BY GoneFields DEF Sound, FilesOf
<1>5. Pruned'
  BY <1>1, GoneFields DEF CertificatesOK, Pruned, FilesOf
<1> QED
  BY <1>2, <1>3, <1>4, <1>5 DEF CertificatesOK, Kept

-----------------------------------------------------------------------------
(* The actions, one by one. *)

LEMMA LoadOK ==
  ASSUME CertificatesOK, FilesAssumption, NEW q \in Request, NEW op \in Operation, Load(q, op)
  PROVE  CertificatesOK'
<1> DEFINE b == [op |-> op, at |-> "loaded", copy |-> row, new |-> NoFile]
<1>1. /\ UNCHANGED <<stored, old, minted, row, draft, announced, prompt, prune, lost>>
      /\ req' = [req EXCEPT ![q] = b] /\ row \in Profile
  BY GoneFields DEF Load, files, letters, CertificatesOK, Typed, TypeOK
<1>2. b \in Busy /\ b.at = "loaded" /\ b.copy = row
  BY <1>1 DEF Busy, Step
<1> HIDE DEF b
<1>3. /\ req' \in [Request -> Busy \cup {Idle}] /\ req'[q] = b
      /\ \A p \in Request : p # q => req'[p] = req[p]
  BY <1>1, <1>2, RequestMoves DEF CertificatesOK, Typed
<1>4. Typed'
  <2>1. /\ minted \in 0..MaxFiles /\ minted \in Nat
        /\ \A k : Of(k)' = Of(k)
    BY <1>1 DEF CertificatesOK, Typed, TypeOK, FilesAssumption, Of
  <2>2. Holds(req[q].copy)'
    BY <1>2, <1>3, <2>1 DEF CertificatesOK, Typed, Holds
  <2>3. \A p \in Request : req'[p] = req[p] \/ Carries(req[p])'
    BY <1>2, <1>3, <2>2 DEF Carries
  <2>4. Holds(row)'
    BY <1>1, <2>1 DEF CertificatesOK, Typed, Holds
  <2> QED
    BY <1>1, <1>3, <2>1, <2>3, <2>4, TypedMoves DEF CertificatesOK, Typed, TypeOK
<1>5. UploadsOwn'
  <2>1. ~Uploading(req'[q])
    BY <1>2, <1>3 DEF Uploading, Unsaved
  <2> QED
    BY <1>1, <1>2, <1>3, <2>1, UploadsMove DEF CertificatesOK, UploadsOwn
<1>6. ASSUME ~lost' PROVE Sound'
  <2>1. Sound
    BY <1>1, <1>6 DEF CertificatesOK, Kept
  <2>2. ASSUME NEW p \in Request
        PROVE  /\ req'[p].at = "replaced" => req'[p].copy.file \notin FilesOf(row)
               /\ req'[p].at = "deleted" => row = Gone
    BY <1>2, <1>3, <2>1 DEF Sound
  <2> QED
    BY <1>1, <2>1, <2>2 DEF Sound, FilesOf
<1>7. Pruned'
  BY <1>1 DEF CertificatesOK, Pruned, FilesOf
<1> QED
  BY <1>4, <1>5, <1>6, <1>7 DEF CertificatesOK, Kept

(* q stores a file, for a row it has not saved. *)
LEMMA StoreOK ==
  ASSUME CertificatesOK, FilesAssumption, NEW q \in Request, req[q] # Idle,
         NEW name \in Name, NEW kind \in {"certificate", "photo"}, NEW s \in Unsaved,
         Store(name, kind), s = "photo_stored" <=> kind = "photo",
         req' = [req EXCEPT ![q].at = s, ![q].new = name],
         UNCHANGED <<row, letters, prune, lost>>
  PROVE  CertificatesOK'
<1>1. /\ req' \in [Request -> Busy \cup {Idle}]
      /\ req'[q] \in Busy /\ req'[q].at = s /\ req'[q].new = name
      /\ req'[q].copy = req[q].copy
      /\ \A p \in Request : p # q => req'[p] = req[p]
  BY RequestSteps DEF CertificatesOK, Typed, Unsaved, Step
<1>2. /\ minted \in Nat /\ minted' \in 0..MaxFiles /\ minted' \in Nat /\ minted <= minted'
      /\ stored' = stored \cup {name} /\ old' = old
      /\ name \in Of(kind)' /\ name # NoFile
      /\ \A k \in {"certificate", "photo", "picture"} : Of(k) \subseteq Of(k)'
      /\ name \notin stored /\ name \notin FilesOf(row)
      /\ \A p \in Request : /\ req[p] # Idle => name \notin FilesOf(req[p].copy)
                            /\ Uploading(req[p]) => req[p].new # name
      /\ stored' \subseteq Name /\ old' \subseteq stored' /\ \A n \in stored' : n[2] <= minted'
  BY StoreFresh DEF CertificatesOK
<1>3. UNCHANGED <<row, draft, announced, prompt, prune, lost>>
  BY DEF letters
<1>4. Typed'
  <2>2. Holds(row)' /\ Holds(req[q].copy)'
    BY <1>1, <1>2, <1>3 DEF CertificatesOK, Typed, Carries, Holds
  <2>3. Carries(req[q])'
    BY <1>1, <1>2, <2>2 DEF Carries, Unsaved
  <2>4. \A p \in Request : req'[p] = req[p] \/ Carries(req[p])'
    BY <1>1, <2>3 DEF Carries
  <2>5. draft' \subseteq Of("picture")' /\ announced' \subseteq Of("picture")'
    BY <1>2, <1>3 DEF CertificatesOK, Typed
  <2> QED
    BY <1>1, <1>2, <1>3, <2>2, <2>4, <2>5, TypedMoves DEF CertificatesOK, Typed, TypeOK
<1>5. UploadsOwn'
  <2> SUFFICES ASSUME NEW p \in Request, Uploading(req[p])'
               PROVE  /\ req'[p].new \in stored' \ old'
                      /\ req'[p].new \notin FilesOf(row')
                      /\ \A t \in Request :
                           /\ req'[t] # Idle => req'[p].new \notin FilesOf(req'[t].copy)
                           /\ t # p /\ Uploading(req[t])' => req'[t].new # req'[p].new
    BY DEF UploadsOwn, FilesOf
  <2>1. name \notin old
    BY <1>2 DEF CertificatesOK, Typed, TypeOK
  <2>2. \A t \in Request : req'[t] # Idle => req[t] # Idle /\ req'[t].copy = req[t].copy
    BY <1>1
  <2>3. \A t \in Request : t # q /\ Uploading(req[t])' => Uploading(req[t]) /\ req'[t] = req[t]
    BY <1>1 DEF Uploading
  <2>4. CASE p = q
    BY <1>1, <1>2, <1>3, <2>1, <2>2, <2>3, <2>4
  <2>5. CASE p # q
    BY <1>1, <1>2, <1>3, <2>2, <2>3, <2>5 DEF CertificatesOK, UploadsOwn
  <2> QED
    BY <2>4, <2>5
<1>6. ASSUME ~lost' PROVE Sound'
  <2>1. Sound
    BY <1>3, <1>6 DEF CertificatesOK, Kept
  <2>2. ASSUME NEW p \in Request
        PROVE  /\ req'[p].at = "replaced" => req'[p].copy.file \notin FilesOf(row)
               /\ req'[p].at = "deleted" => row = Gone
    BY <1>1, <2>1 DEF Sound, Unsaved
  <2> QED
    BY <1>2, <1>3, <2>1, <2>2 DEF Sound, FilesOf
<1>7. Pruned'
  BY <1>2, <1>3 DEF CertificatesOK, Pruned, FilesOf
<1> QED
  BY <1>4, <1>5, <1>6, <1>7 DEF CertificatesOK, Kept

(* A row is saved, with a file stored before or in this very step. *)
LEMMA SavedTyped ==
  ASSUME CertificatesOK, FilesAssumption, NEW q \in Request, NEW instance \in Profile,
         row' = instance, Holds(row)', lost' \in BOOLEAN,
         minted' \in 0..MaxFiles, minted <= minted',
         stored' \subseteq Name, old' \subseteq stored', \A n \in stored' : n[2] <= minted',
         req' \in [Request -> Busy \cup {Idle}], Carries(req[q])',
         \A p \in Request : p # q => req'[p] = req[p],
         UNCHANGED <<letters, prune>>
  PROVE  Typed'
<1>1. UNCHANGED <<draft, announced, prompt, prune>> /\ minted \in Nat /\ minted' \in Nat
  BY DEF letters, FilesAssumption, CertificatesOK, Typed, TypeOK
<1>2. draft' \subseteq Of("picture")' /\ announced' \subseteq Of("picture")'
  BY <1>1, MoreNames DEF CertificatesOK, Typed
<1>3. \A p \in Request : req'[p] = req[p] \/ Carries(req[p])'
  BY DEF Carries
<1> QED
  BY <1>1, <1>2, <1>3, TypedMoves DEF CertificatesOK, Typed, TypeOK

LEMMA StorePhotoOK ==
  ASSUME CertificatesOK, FilesAssumption, NEW q \in Request, StorePhoto(q)
  PROVE  CertificatesOK'
<1>1. PICK name \in Name : Store(name, "photo")
                           /\ req' = [req EXCEPT ![q].at = "photo_stored", ![q].new = name]
  BY DEF StorePhoto
<1> QED
  BY <1>1, StoreOK DEF StorePhoto, At, Unsaved

LEMMA StoreCertificateOK ==
  ASSUME CertificatesOK, FilesAssumption, NEW q \in Request, StoreCertificate(q)
  PROVE  CertificatesOK'
<1>1. PICK name \in Name : Store(name, "certificate")
                           /\ req' = [req EXCEPT ![q].at = "certificate_stored", ![q].new = name]
  BY DEF StoreCertificate
<1> QED
  BY <1>1, StoreOK DEF StoreCertificate, At, Unsaved

LEMMA RequestFields ==
  ASSUME CertificatesOK, NEW q \in Request, req[q] # Idle
  PROVE  /\ req[q] \in Busy /\ req[q].copy \in Profile /\ Carries(req[q]) /\ Holds(req[q].copy)
         /\ req[q].copy.file # NoFile => req[q].copy.file \in Name
         /\ req[q].copy.photo # NoFile => req[q].copy.photo \in Name
BY BusyFields, KindsApart DEF CertificatesOK, Typed, Carries, Holds

(* The row with its photo as the form has it, and on to the certificate. *)
LEMMA SaveProfileOK ==
  ASSUME CertificatesOK, FilesAssumption, NEW q \in Request, SaveProfile(q)
  PROVE  CertificatesOK'
<1> DEFINE c == req[q].copy
           extra == IF req[q].op \in PhotoPost THEN {req[q].new} ELSE {}
<1>1. PICK photo \in IF req[q].op \in PhotoPost THEN {req[q].new} ELSE {c.photo, NoFile} :
        LET instance == [c EXCEPT !.photo = photo]
        IN  /\ Save(q, instance)
            /\ IF req[q].op \in CertificatePost
               THEN req' = [req EXCEPT ![q].at = "saved", ![q].copy = instance, ![q].new = NoFile]
               ELSE End(q)
  BY DEF SaveProfile
<1> DEFINE instance == [c EXCEPT !.photo = photo]
<1>2. req[q] # Idle /\ (req[q].op \in PhotoPost => req[q].at = "photo_stored")
  BY DEF SaveProfile, At
<1>3. c \in Profile /\ Carries(req[q]) /\ Holds(c) /\ req[q] \in Busy
  BY <1>2, RequestFields
<1>4. photo \in Of("photo") \cup {NoFile} /\ photo \in Name \cup {NoFile}
  BY <1>1, <1>2, <1>3, KindsApart DEF Carries, Holds
<1>5. /\ instance \in Profile /\ instance.photo = photo /\ instance.file = c.file
      /\ instance.checked = c.checked
  <2> HIDE DEF c, extra
  <2> QED
    BY <1>3, <1>4 DEF Profile
<1>6. /\ UNCHANGED <<stored, old, minted>> /\ UNCHANGED <<letters, prune>>
      /\ row' = instance /\ lost' \in BOOLEAN
  BY <1>1 DEF SaveProfile, files, Save, CertificatesOK, Typed, TypeOK
<1>7. /\ req' \in [Request -> Busy \cup {Idle}]
      /\ \A p \in Request : p # q => req'[p] = req[p]
      /\ \/ req'[q] = Idle
         \/ req'[q] \in Busy /\ req'[q].at = "saved" /\ req'[q].copy = instance
  <2>1. CASE req[q].op \in CertificatePost
    <3> DEFINE b == [req[q] EXCEPT !.at = "saved", !.copy = instance, !.new = NoFile]
    <3>1. b \in Busy /\ b.at = "saved" /\ b.copy = instance
      BY <1>3, <1>5 DEF Busy, Step
    <3>2. req' = [req EXCEPT ![q] = b]
      BY <1>1, <2>1
    <3> HIDE DEF b
    <3> QED
      BY <3>1, <3>2, RequestMoves DEF CertificatesOK, Typed
  <2>2. CASE req[q].op \notin CertificatePost
    BY <1>1, <2>2, RequestEnds DEF CertificatesOK, Typed
  <2> QED
    BY <2>1, <2>2
<1>8. Save(q, instance)
  BY <1>1
<1>9. FilesOf(instance) \subseteq FilesOf(c) \cup extra
  BY <1>1, <1>5 DEF FilesOf
<1> HIDE DEF instance, c
<1>10. Typed'
  <2>1. Holds(row)'
    <3>1. \A k : Of(k)' = Of(k)
      BY <1>6 DEF Of
    <3> QED
      BY <1>3, <1>4, <1>5, <1>6, <3>1 DEF Holds
  <2>2. Carries(req[q])'
    BY <1>5, <1>6, <1>7, <2>1, BusyFields DEF Carries, Holds
  <2>3. minted \in 0..MaxFiles /\ minted \in Nat
    BY DEF CertificatesOK, Typed, TypeOK, FilesAssumption
  <2> QED
    BY <1>5, <1>6, <1>7, <2>1, <2>2, <2>3, SavedTyped DEF CertificatesOK, Typed, TypeOK
<1>11. ~Uploading(req'[q]) /\ req'[q].at # "deleted" /\ req'[q].at # "replaced"
  BY <1>7, BusyFields DEF Uploading, Unsaved, Step
<1>12. extra \subseteq stored' \ old'
       /\ \A p \in Request : /\ req[p] # Idle => req[p].copy.file \notin extra
                             /\ p # q /\ Uploading(req[p]) => req[p].new \notin extra
  <2>1. CASE req[q].op \in PhotoPost
    <3>1. Uploading(req[q]) /\ req[q].new # NoFile /\ extra = {req[q].new}
      BY <1>2, <2>1, UploadFields DEF Uploading, Unsaved, CertificatesOK
    <3>2. \A p \in Request : req[p] # Idle => req[q].new # req[p].copy.file
      BY <3>1 DEF CertificatesOK, UploadsOwn, FilesOf
    <3> HIDE DEF extra
    <3> QED
      BY <1>6, <3>1, <3>2 DEF CertificatesOK, UploadsOwn
  <2> QED
    BY <2>1
<1>13. c = row /\ ~lost =>
         (instance.file # NoFile /\ instance.checked # NoFile => instance.checked = instance.file)
  BY <1>5 DEF CertificatesOK, Kept, Sound
<1>14. req'[q] # Idle => FilesOf(req'[q].copy) \subseteq FilesOf(c) \cup extra
  BY <1>7, <1>9
<1> HIDE DEF extra
<1>15. UploadsOwn' /\ Kept' /\ Pruned'
  BY <1>2, <1>5, <1>6, <1>7, <1>8, <1>9, <1>11, <1>12, <1>13, <1>14, Saved DEF c
<1> QED
  BY <1>10, <1>15 DEF CertificatesOK

(* The row with the new certificate, unchecked. *)
LEMMA SaveCertificateOK ==
  ASSUME CertificatesOK, FilesAssumption, NEW q \in Request, SaveCertificate(q)
  PROVE  CertificatesOK'
<1> DEFINE c == req[q].copy
           new == req[q].new
           instance == Replaced(c, new)
<1>1. /\ req[q] # Idle /\ req[q].at = "certificate_stored" /\ Uploading(req[q])
      /\ Save(q, instance)
      /\ req' = [req EXCEPT ![q].at = "replaced", ![q].new = NoFile]
      /\ UNCHANGED <<stored, old, minted>> /\ UNCHANGED <<letters, prune>>
  BY DEF SaveCertificate, At, files, Uploading, Unsaved
<1>2. c \in Profile /\ Carries(req[q]) /\ Holds(c) /\ req[q] \in Busy
  BY <1>1, RequestFields
<1>3. new \in Of("certificate") /\ new \in Name /\ new # NoFile
  BY <1>1, <1>2, KindsApart DEF Carries
<1>4. /\ instance \in Profile /\ instance.file = new /\ instance.photo = c.photo
      /\ instance.checked = NoFile
  BY <1>2, <1>3, ProfileFields
<1>5. row' = instance /\ lost' \in BOOLEAN
  BY <1>1 DEF Save, CertificatesOK, Typed, TypeOK
<1>6. /\ req' \in [Request -> Busy \cup {Idle}]
      /\ req'[q] \in Busy /\ req'[q].at = "replaced" /\ req'[q].copy = c
      /\ \A p \in Request : p # q => req'[p] = req[p]
  BY <1>1, RequestSteps DEF CertificatesOK, Typed, Step
<1>7. FilesOf(instance) \subseteq FilesOf(c) \cup {new}
  BY <1>4 DEF FilesOf
<1>8. new \notin FilesOf(c) /\ \A p \in Request : req[p] # Idle => new \notin FilesOf(req[p].copy)
  BY <1>1 DEF CertificatesOK, UploadsOwn
<1>9. c.file \notin FilesOf(instance)
  BY <1>2, <1>3, <1>4, <1>8, KindsApart DEF FilesOf, Holds
<1> HIDE DEF instance, c, new
<1>10. Typed'
  <2> \A k : Of(k)' = Of(k)
    BY <1>1 DEF Of
  <2>1. Holds(row)'
    BY <1>2, <1>3, <1>4, <1>5 DEF Holds
  <2>2. Carries(req[q])'
    BY <1>2, <1>6 DEF Carries, Holds
  <2>3. minted \in 0..MaxFiles /\ minted \in Nat
    BY DEF CertificatesOK, Typed, TypeOK, FilesAssumption
  <2> QED
    BY <1>1, <1>4, <1>5, <1>6, <2>1, <2>2, <2>3, SavedTyped DEF CertificatesOK, Typed, TypeOK
<1>11. /\ ~Uploading(req'[q]) /\ req'[q].at # "deleted"
       /\ {new} \subseteq stored' \ old'
       /\ \A p \in Request : /\ req[p] # Idle => req[p].copy.file \notin {new}
                             /\ p # q /\ Uploading(req[p]) => req[p].new \notin {new}
  <2>1. new \in stored \ old
        /\ \A p \in Request : p # q /\ Uploading(req[p]) => req[p].new # new
    BY <1>1 DEF CertificatesOK, UploadsOwn, new
  <2>2. \A p \in Request : req[p] # Idle => req[p].copy.file # new
    BY <1>3, <1>8 DEF FilesOf
  <2> QED
    BY <1>1, <1>6, <2>1, <2>2 DEF Uploading, Unsaved
<1>12. UploadsOwn' /\ Kept' /\ Pruned'
  BY <1>1, <1>4, <1>6, <1>7, <1>9, <1>11, Saved DEF c
<1> QED
  BY <1>10, <1>12 DEF CertificatesOK

(* The office's form, in one transaction: with a file stored on the way ...*)
LEMMA OfficeStores ==
  ASSUME CertificatesOK, FilesAssumption, NEW q \in Request, req[q] # Idle, End(q),
         NEW name \in Name, NEW kind \in {"certificate", "photo"}, Store(name, kind),
         NEW instance \in Profile, Save(q, instance), UNCHANGED <<letters, prune>>,
         \/ /\ kind = "certificate"
            /\ instance.file = name /\ instance.photo = req[q].copy.photo
            /\ instance.checked = NoFile
         \/ /\ kind = "photo"
            /\ instance.photo = name /\ instance.file = req[q].copy.file
            /\ instance.checked = req[q].copy.checked
  PROVE  CertificatesOK'
<1>1. /\ minted \in Nat /\ minted' \in 0..MaxFiles /\ minted <= minted'
      /\ stored' = stored \cup {name} /\ old' = old
      /\ name \in Of(kind)' /\ name # NoFile
      /\ \A k \in {"certificate", "photo", "picture"} : Of(k) \subseteq Of(k)'
      /\ name \notin stored
      /\ \A p \in Request : /\ req[p] # Idle => name \notin FilesOf(req[p].copy)
                            /\ Uploading(req[p]) => req[p].new # name
      /\ stored' \subseteq Name /\ old' \subseteq stored' /\ \A n \in stored' : n[2] <= minted'
  BY StoreFresh DEF CertificatesOK
<1>2. /\ req' \in [Request -> Busy \cup {Idle}] /\ req'[q] = Idle
      /\ \A p \in Request : p # q => req'[p] = req[p]
  BY RequestEnds DEF CertificatesOK, Typed
<1>3. req[q].copy \in Profile /\ Holds(req[q].copy)
  BY RequestFields
<1>4. row' = instance /\ lost' \in BOOLEAN
  BY DEF Save, CertificatesOK, Typed, TypeOK
<1>5. Typed'
  <2>1. Holds(row)'
    BY <1>1, <1>3, <1>4 DEF Holds
  <2>2. Carries(req[q])'
    BY <1>2 DEF Carries
  <2> QED
    BY <1>1, <1>2, <1>4, <2>1, <2>2, SavedTyped
<1>6. /\ ~Uploading(req'[q]) /\ req'[q].at # "deleted" /\ req'[q].at # "replaced"
  BY <1>2, BusyFields DEF Uploading, Unsaved, Step
<1>7. FilesOf(instance) \subseteq FilesOf(req[q].copy) \cup {name}
  BY DEF FilesOf
<1>8. \A p \in Request : req[p] # Idle => req[p].copy.file # name
  BY <1>1 DEF FilesOf
<1>9. name \notin old
  BY <1>1 DEF CertificatesOK, Typed, TypeOK
<1>10. req[q].copy = row /\ ~lost =>
         (instance.file # NoFile /\ instance.checked # NoFile => instance.checked = instance.file)
  BY DEF CertificatesOK, Kept, Sound
<1>11. UploadsOwn' /\ Kept' /\ Pruned'
  <2> DEFINE extra == {name}
  <2>1. /\ FilesOf(instance) \subseteq FilesOf(req[q].copy) \cup extra
        /\ extra \subseteq stored' \ old' /\ stored \subseteq stored' /\ old' = old
        /\ \A p \in Request : /\ req[p] # Idle => req[p].copy.file \notin extra
                              /\ p # q /\ Uploading(req[p]) => req[p].new \notin extra
    BY <1>1, <1>7, <1>8, <1>9
  <2> HIDE DEF extra
  <2> QED
    BY <1>2, <1>6, <1>10, <2>1, Saved
<1> QED
  BY <1>5, <1>11 DEF CertificatesOK

(* ... or with none.                                                       *)
LEMMA OfficeKeeps ==
  ASSUME CertificatesOK, FilesAssumption, NEW q \in Request, req[q] # Idle, End(q), UNCHANGED files,
         NEW instance \in Profile, Save(q, instance), UNCHANGED <<letters, prune>>,
         instance.file \in {NoFile, req[q].copy.file}, instance.photo \in {NoFile, req[q].copy.photo},
         instance.checked = req[q].copy.checked
  PROVE  CertificatesOK'
<1>1. UNCHANGED <<stored, old, minted>> /\ minted \in 0..MaxFiles /\ minted \in Nat
  BY DEF files, CertificatesOK, Typed, TypeOK, FilesAssumption
<1>2. /\ req' \in [Request -> Busy \cup {Idle}] /\ req'[q] = Idle
      /\ \A p \in Request : p # q => req'[p] = req[p]
  BY RequestEnds DEF CertificatesOK, Typed
<1>3. req[q].copy \in Profile /\ Holds(req[q].copy)
  BY RequestFields
<1>4. row' = instance /\ lost' \in BOOLEAN
  BY DEF Save, CertificatesOK, Typed, TypeOK
<1>5. Typed'
  <2>1. Holds(row)'
    <3>1. \A k : Of(k)' = Of(k)
      BY <1>1 DEF Of
    <3> QED
      BY <1>3, <1>4, <3>1 DEF Holds
  <2>2. Carries(req[q])'
    BY <1>2 DEF Carries
  <2> QED
    BY <1>1, <1>2, <1>4, <2>1, <2>2, SavedTyped DEF CertificatesOK, Typed, TypeOK
<1>6. /\ ~Uploading(req'[q]) /\ req'[q].at # "deleted" /\ req'[q].at # "replaced"
  BY <1>2, BusyFields DEF Uploading, Unsaved, Step
<1>7. FilesOf(instance) \subseteq FilesOf(req[q].copy)
  BY DEF FilesOf
<1>8. req[q].copy = row /\ ~lost =>
        (instance.file # NoFile /\ instance.checked # NoFile => instance.checked = instance.file)
  BY DEF CertificatesOK, Kept, Sound
<1>9. UploadsOwn' /\ Kept' /\ Pruned'
  <2> DEFINE extra == {}
  <2>1. /\ FilesOf(instance) \subseteq FilesOf(req[q].copy) \cup extra
        /\ extra \subseteq stored' \ old' /\ stored \subseteq stored' /\ old' = old
        /\ \A p \in Request : /\ req[p] # Idle => req[p].copy.file \notin extra
                              /\ p # q /\ Uploading(req[p]) => req[p].new \notin extra
    BY <1>1, <1>7
  <2> HIDE DEF extra
  <2> QED
    BY <1>2, <1>6, <1>8, <2>1, Saved
<1> QED
  BY <1>5, <1>9 DEF CertificatesOK

LEMMA SaveOfficeOK ==
  ASSUME CertificatesOK, FilesAssumption, NEW q \in Request, SaveOffice(q)
  PROVE  CertificatesOK'
<1> DEFINE c == req[q].copy
<1>1. req[q] # Idle /\ End(q) /\ UNCHANGED <<letters, prune>>
  BY DEF SaveOffice, At
<1>2. c \in Profile
  BY <1>1, RequestFields
<1>3. \/ \E name \in Name : Store(name, "certificate") /\ Save(q, Replaced(c, name))
      \/ \E name \in Name : Store(name, "photo") /\ Save(q, [c EXCEPT !.photo = name])
      \/ UNCHANGED files /\ Save(q, c)
      \/ UNCHANGED files /\ Save(q, [c EXCEPT !.file = NoFile])
      \/ UNCHANGED files /\ Save(q, [c EXCEPT !.photo = NoFile])
  BY DEF SaveOffice
<1>4. ASSUME NEW name \in Name, Store(name, "certificate"), Save(q, Replaced(c, name))
      PROVE  CertificatesOK'
  <2> DEFINE instance == Replaced(c, name)
  <2>1. /\ instance \in Profile /\ instance.file = name /\ instance.photo = c.photo
        /\ instance.checked = NoFile
    BY <1>2 DEF Replaced, Profile
  <2> HIDE DEF instance
  <2> QED
    BY <1>1, <1>4, <2>1, OfficeStores DEF instance
<1>5. ASSUME NEW name \in Name, Store(name, "photo"), Save(q, [c EXCEPT !.photo = name])
      PROVE  CertificatesOK'
  <2> DEFINE instance == [c EXCEPT !.photo = name]
  <2>1. /\ instance \in Profile /\ instance.photo = name /\ instance.file = c.file
        /\ instance.checked = c.checked
    BY <1>2 DEF Profile
  <2> HIDE DEF instance
  <2> QED
    BY <1>1, <1>5, <2>1, OfficeStores DEF instance
<1>6. CASE UNCHANGED files /\ Save(q, c)
  BY <1>1, <1>2, <1>6, OfficeKeeps
<1>7. CASE UNCHANGED files /\ Save(q, [c EXCEPT !.file = NoFile])
  <2> DEFINE instance == [c EXCEPT !.file = NoFile]
  <2>1. /\ instance \in Profile /\ instance.photo = c.photo /\ instance.file = NoFile
        /\ instance.checked = c.checked
    BY <1>2 DEF Profile
  <2> HIDE DEF instance
  <2> QED
    BY <1>1, <1>7, <2>1, OfficeKeeps DEF instance
<1>8. CASE UNCHANGED files /\ Save(q, [c EXCEPT !.photo = NoFile])
  <2> DEFINE instance == [c EXCEPT !.photo = NoFile]
  <2>1. /\ instance \in Profile /\ instance.photo = NoFile /\ instance.file = c.file
        /\ instance.checked = c.checked
    BY <1>2 DEF Profile
  <2> HIDE DEF instance
  <2> QED
    BY <1>1, <1>8, <2>1, OfficeKeeps DEF instance
<1> QED
  BY <1>3, <1>4, <1>5, <1>6, <1>7, <1>8

(* What is deleted after a replacement, or after the row has gone. *)
LEMMA DeleteReplacedOK ==
  ASSUME CertificatesOK, FilesAssumption, NEW q \in Request, DeleteReplaced(q)
  PROVE  CertificatesOK'
<1>1. /\ req[q] # Idle /\ req[q].at = "replaced" /\ Delete({req[q].copy.file}) /\ End(q)
      /\ UNCHANGED <<row, letters, prune, lost>>
  BY DEF DeleteReplaced, At
<1>2. ~lost => {req[q].copy.file} \cap FilesOf(row) = {}
  BY <1>1 DEF CertificatesOK, Kept, Sound
<1>3. {req[q].copy.file} \subseteq FilesOf(req[q].copy) \cup {NoFile}
  BY DEF FilesOf
<1> DEFINE names == {req[q].copy.file}
<1> HIDE DEF names
<1> QED
  BY <1>1, <1>2, <1>3, Deleted DEF names

LEMMA DeleteRemovedOK ==
  ASSUME CertificatesOK, FilesAssumption, NEW q \in Request, DeleteRemoved(q)
  PROVE  CertificatesOK'
<1>1. /\ req[q] # Idle /\ req[q].at = "deleted" /\ Delete(FilesOf(req[q].copy)) /\ End(q)
      /\ UNCHANGED <<row, letters, prune, lost>>
  BY DEF DeleteRemoved, At
<1>2. ~lost => FilesOf(req[q].copy) \cap FilesOf(row) = {}
  BY <1>1, GoneFields DEF CertificatesOK, Kept, Sound
<1> QED
  BY <1>1, <1>2, Deleted

LEMMA CrashOK ==
  ASSUME CertificatesOK, FilesAssumption, NEW q \in Request, Crash(q)
  PROVE  CertificatesOK'
<1>1. /\ req[q] # Idle /\ End(q) /\ UNCHANGED <<row, letters, prune, lost>>
      /\ UNCHANGED <<stored, old, minted>>
  BY DEF Crash, files
<1> DEFINE names == {}
<1>2. Delete(names) /\ names \subseteq FilesOf(req[q].copy) \cup {NoFile} /\ names \cap FilesOf(row) = {}
  BY <1>1 DEF Delete
<1> HIDE DEF names
<1> QED
  BY <1>1, <1>2, Deleted

(* The check is of the file the office was shown; if the row has another   *)
(* by now, that is a lost update.                                          *)
LEMMA MarkCheckedOK ==
  ASSUME CertificatesOK, FilesAssumption, NEW q \in Request, MarkChecked(q)
  PROVE  CertificatesOK'
<1> DEFINE c == req[q].copy
<1>1. /\ req[q] # Idle /\ End(q) /\ UNCHANGED <<stored, old, minted>>
      /\ UNCHANGED <<draft, announced, prompt, prune>> /\ mark_certificate_checked(c)
  BY DEF MarkChecked, At, files, letters
<1>2. /\ req' \in [Request -> Busy \cup {Idle}] /\ req'[q] = Idle
      /\ \A p \in Request : p # q => req'[p] = req[p]
  BY <1>1, RequestEnds DEF CertificatesOK, Typed
<1>3. c \in Profile
  BY <1>1, RequestFields
<1> HIDE DEF c
<1>4. /\ row' \in Profile \cup {Gone} /\ lost' \in BOOLEAN /\ (~lost' => ~lost)
      /\ row'.file = row.file /\ row'.photo = row.photo
      /\ row = Gone => row' = Gone
      /\ row'.file # NoFile /\ row'.checked # NoFile /\ ~lost' => row'.checked = row'.file
  <2>1. row \in Profile \cup {Gone} /\ lost \in BOOLEAN
        /\ (~lost /\ row.file # NoFile /\ row.checked # NoFile => row.checked = row.file)
    BY DEF CertificatesOK, Typed, TypeOK, Kept, Sound
  <2>2. CASE row.exists /\ c.file # NoFile
    <3>1. row' = [row EXCEPT !.checked = c.file] /\ lost' = (lost \/ row.file # c.file)
      BY <1>1, <2>2 DEF mark_certificate_checked
    <3>2. row \in Profile /\ row # Gone
      BY <2>1, <2>2, GoneFields
    <3>3. c.file \in Name \cup {NoFile}
      BY <1>3 DEF Profile
    <3>4. /\ row' \in Profile /\ row'.file = row.file /\ row'.photo = row.photo
          /\ row'.checked = c.file
      BY <3>1, <3>2, <3>3 DEF Profile
    <3> QED
      BY <2>1, <3>1, <3>2, <3>4
  <2>3. CASE ~(row.exists /\ c.file # NoFile)
    <3>1. row' = row /\ lost' = lost
      BY <1>1, <2>3 DEF mark_certificate_checked
    <3> QED
      BY <2>1, <3>1
  <2> QED
    BY <2>2, <2>3
<1>5. FilesOf(row') = FilesOf(row)
  BY <1>4 DEF FilesOf
<1>6. Typed'
  <2>1. /\ minted \in 0..MaxFiles /\ minted \in Nat /\ \A k : Of(k)' = Of(k)
    BY <1>1 DEF CertificatesOK, Typed, TypeOK, FilesAssumption, Of
  <2>2. Holds(row)'
    BY <1>4, <2>1 DEF CertificatesOK, Typed, Holds
  <2>3. \A p \in Request : req'[p] = req[p] \/ Carries(req[p])'
    BY <1>2 DEF Carries
  <2> QED
    BY <1>1, <1>2, <1>4, <2>1, <2>2, <2>3, TypedMoves DEF CertificatesOK, Typed, TypeOK
<1>7. UploadsOwn'
  <2>1. ~Uploading(req'[q])
    BY <1>2, BusyFields DEF Uploading, Unsaved, Step
  <2> QED
    BY <1>1, <1>2, <1>5, <2>1, UploadsMove DEF CertificatesOK, UploadsOwn
<1>8. ASSUME ~lost' PROVE Sound'
  <2>1. Sound
    BY <1>4, <1>8 DEF CertificatesOK, Kept
  <2>2. ASSUME NEW p \in Request
        PROVE  /\ req'[p].at = "replaced" => req'[p].copy.file \notin FilesOf(row')
               /\ req'[p].at = "deleted" => row' = Gone
    BY <1>2, <1>4, <1>5, <2>1, BusyFields DEF Sound, Step
  <2> QED
    BY <1>1, <1>4, <1>5, <1>8, <2>1, <2>2 DEF Sound, FilesOf
<1>9. Pruned'
  BY <1>1, <1>4, <1>5 DEF CertificatesOK, Pruned, FilesOf
<1> QED
  BY <1>6, <1>7, <1>8, <1>9 DEF CertificatesOK, Kept

LEMMA RemoveRowOK ==
  ASSUME CertificatesOK, FilesAssumption, NEW q \in Request, RemoveRow(q)
  PROVE  CertificatesOK'
<1> DEFINE b == [req[q] EXCEPT !.at = "deleted"]
<1>1. /\ req[q] # Idle /\ row' = Gone /\ (lost => lost') /\ lost' \in BOOLEAN
      /\ req' = [req EXCEPT ![q] = b] /\ UNCHANGED <<files, letters, prune>>
  BY DEF RemoveRow, At, CertificatesOK, Typed, TypeOK
<1>2. req[q] \in Busy /\ Holds(req[q].copy)
  BY <1>1, RequestFields
<1>3. b \in Busy /\ b.at = "deleted" /\ b.copy = req[q].copy
  BY <1>2 DEF Busy, Step
<1> HIDE DEF b
<1>4. /\ req' \in [Request -> Busy \cup {Idle}] /\ req'[q] = b
      /\ \A p \in Request : p # q => req'[p] = req[p]
  BY <1>1, <1>3, RequestMoves DEF CertificatesOK, Typed
<1>5. Carries(req[q])'
  <2>1. \A k : Of(k)' = Of(k)
    BY <1>1 DEF Of, files
  <2> QED
    BY <1>2, <1>3, <1>4, <2>1 DEF Carries, Holds
<1> QED
  BY <1>1, <1>3, <1>4, <1>5, RowGone

LEMMA DeleteInAdminOK ==
  ASSUME CertificatesOK, FilesAssumption, DeleteInAdmin
  PROVE  CertificatesOK'
BY RowGone DEF DeleteInAdmin, CertificatesOK, Typed, TypeOK

(* Steps that leave the row and the requests alone. *)
LEMMA RequestsStay ==
  ASSUME CertificatesOK, UNCHANGED <<row, req, lost>>, stored \subseteq stored', old' = old
  PROVE  UploadsOwn' /\ Kept'
BY DEF CertificatesOK, UploadsOwn, Uploading, Kept, Sound, FilesOf

LEMMA UploadImageOK ==
  ASSUME CertificatesOK, FilesAssumption, upload_announcement_image
  PROVE  CertificatesOK'
<1>1. PICK name \in Name : Store(name, "picture") /\ draft' = draft \cup {name}
  BY DEF upload_announcement_image
<1>2. UNCHANGED <<row, req, announced, prompt, prune, lost>>
  BY DEF upload_announcement_image
<1>3. /\ minted \in Nat /\ minted' \in 0..MaxFiles /\ minted' \in Nat /\ minted <= minted'
      /\ stored' = stored \cup {name} /\ old' = old
      /\ name \in Of("picture")'
      /\ \A k \in {"certificate", "photo", "picture"} : Of(k) \subseteq Of(k)'
      /\ stored' \subseteq Name /\ old' \subseteq stored' /\ \A n \in stored' : n[2] <= minted'
  BY <1>1, StoreFresh DEF CertificatesOK
<1>4. Typed'
  <2>1. Holds(row)'
    BY <1>2, <1>3 DEF CertificatesOK, Typed, Holds
  <2>2. draft' \subseteq Of("picture")' /\ announced' \subseteq Of("picture")'
    BY <1>1, <1>2, <1>3 DEF CertificatesOK, Typed
  <2> QED
    BY <1>2, <1>3, <2>1, <2>2, TypedMoves DEF CertificatesOK, Typed, TypeOK
<1>5. UploadsOwn' /\ Kept'
  BY <1>2, <1>3, RequestsStay
<1>6. Pruned'
  BY <1>2, <1>3 DEF CertificatesOK, Pruned, FilesOf
<1> QED
  BY <1>4, <1>5, <1>6 DEF CertificatesOK

(* What is sent is fresh, or is not promised to stay. *)
LEMMA BroadcastOK ==
  ASSUME CertificatesOK, FilesAssumption, create_broadcast
  PROVE  CertificatesOK'
<1>1. PICK used \in SUBSET draft :
        announced' = announced \cup used /\ prompt' = prompt \cup (used \cap (stored \ old))
  BY DEF create_broadcast
<1>2. UNCHANGED <<stored, old, minted, row, req, prune, lost>> /\ draft' = {}
  BY DEF create_broadcast, files
<1>3. Typed'
  <2>1. /\ minted \in 0..MaxFiles /\ minted \in Nat /\ \A k : Of(k)' = Of(k)
    BY <1>2 DEF CertificatesOK, Typed, TypeOK, FilesAssumption, Of
  <2>2. Holds(row)'
    BY <1>2, <2>1 DEF CertificatesOK, Typed, Holds
  <2>3. draft' \subseteq Of("picture")' /\ announced' \subseteq Of("picture")' /\ prompt' \subseteq announced'
    BY <1>1, <1>2, <2>1 DEF CertificatesOK, Typed, TypeOK
  <2> QED
    BY <1>2, <2>1, <2>2, <2>3, TypedMoves DEF CertificatesOK, Typed, TypeOK
<1>4. UploadsOwn' /\ Kept'
  BY <1>2, RequestsStay
<1>5. prompt' \cap old = prompt \cap old
  BY <1>1
<1>6. Pruned'
  BY <1>1, <1>2, <1>5 DEF CertificatesOK, Pruned, FilesOf
<1> QED
  BY <1>3, <1>4, <1>6 DEF CertificatesOK

LEMMA StorageStays ==
  ASSUME CertificatesOK, FilesAssumption, UNCHANGED <<row, req, letters, lost, minted>>,
         stored' \subseteq stored, old' \subseteq stored',
         prune' = NotPruning \/ (prune'.at = "read" /\ prune'.keep \subseteq Name)
  PROVE  Typed'
<1>1. /\ minted \in 0..MaxFiles /\ minted \in Nat /\ \A k : Of(k)' = Of(k)
  BY DEF CertificatesOK, Typed, TypeOK, FilesAssumption, Of
<1>2. Holds(row)'
  BY <1>1 DEF CertificatesOK, Typed, Holds
<1>3. draft' \subseteq Of("picture")' /\ announced' \subseteq Of("picture")' /\ prompt' \subseteq announced'
  BY <1>1 DEF CertificatesOK, Typed, TypeOK, letters
<1> QED
  BY <1>1, <1>2, <1>3, TypedMoves DEF CertificatesOK, Typed, TypeOK

(* Pruning finds what is referenced now ...                                *)
LEMMA PruneReadOK ==
  ASSUME CertificatesOK, FilesAssumption, PruneRead
  PROVE  CertificatesOK'
<1>1. UNCHANGED <<stored, old, minted, row, req, draft, announced, prompt, lost>>
  BY DEF PruneRead, files, letters
<1>2. prune' = [at |-> "read", keep |-> FilesOf(row) \cup announced]
  BY DEF PruneRead, referenced_names, announcement_image_names
<1>3. FilesOf(row) \cup announced \subseteq Name
  BY KindsApart DEF FilesOf, CertificatesOK, Typed, Holds
<1>4. prune'.at = "read" /\ prune'.keep = FilesOf(row) \cup announced
  BY <1>2
<1>5. Typed'
  BY <1>1, <1>3, <1>4, StorageStays DEF letters, CertificatesOK, Typed, TypeOK
<1>6. UploadsOwn' /\ Kept'
  BY <1>1, RequestsStay
<1>7. Pruned'
  BY <1>1, <1>4 DEF CertificatesOK, Typed, TypeOK, Pruned, FilesOf
<1> QED
  BY <1>5, <1>6, <1>7 DEF CertificatesOK

(* ... and deletes what was old and not referenced then: neither the files *)
(* of the row of now, nor an upload under way, nor a prompt picture.       *)
LEMMA PruneDeleteOK ==
  ASSUME CertificatesOK, FilesAssumption, PruneDelete
  PROVE  CertificatesOK'
<1> DEFINE gone == old \ prune.keep
<1>1. /\ prune # NotPruning /\ prune' = NotPruning
      /\ stored' = stored \ gone /\ old' = old \ gone
      /\ UNCHANGED <<minted, row, req, draft, announced, prompt, lost>>
  BY DEF PruneDelete, Delete, Orphans, letters
<1>2. prompt \cap gone = {} /\ (~lost => FilesOf(row) \cap gone = {})
  BY <1>1 DEF CertificatesOK, Pruned
<1> HIDE DEF gone
<1>3. Typed'
  BY <1>1, StorageStays DEF letters, CertificatesOK, Typed, TypeOK
<1>4. UploadsOwn'
  BY <1>1 DEF CertificatesOK, UploadsOwn, Uploading, FilesOf, gone
<1>5. Kept'
  BY <1>1, <1>2 DEF CertificatesOK, Kept, Sound, FilesOf
<1>6. Pruned'
  BY <1>1, <1>2 DEF CertificatesOK, Pruned
<1> QED
  BY <1>3, <1>4, <1>5, <1>6 DEF CertificatesOK

LEMMA AgeOK ==
  ASSUME CertificatesOK, FilesAssumption, Age
  PROVE  CertificatesOK'
<1>1. /\ old' = stored /\ prune = NotPruning /\ \A q \in Request : req[q] = Idle
      /\ UNCHANGED <<stored, minted, row, req, draft, announced, prompt, prune, lost>>
  BY DEF Age, letters
<1>2. Typed'
  BY <1>1, StorageStays DEF letters, CertificatesOK, Typed, TypeOK
<1>3. UploadsOwn'
  BY <1>1, BusyFields DEF UploadsOwn, Uploading, Unsaved, Step
<1>4. Kept' /\ Pruned'
  BY <1>1 DEF CertificatesOK, Kept, Sound, Pruned, FilesOf
<1> QED
  BY <1>2, <1>3, <1>4 DEF CertificatesOK

LEMMA Stutter ==
  ASSUME CertificatesOK, UNCHANGED vars
  PROVE  CertificatesOK'
BY DEF CertificatesOK, Typed, TypeOK, UploadsOwn, Uploading, Kept, Sound, Pruned, FilesOf, Holds,
       Carries, Of, vars, files, letters

LEMMA NextCertificates == CertificatesOK /\ [Next]_vars => CertificatesOK'
<1> SUFFICES ASSUME CertificatesOK, [Next]_vars PROVE CertificatesOK'
  OBVIOUS
<1>1. FilesAssumption
  BY FilesAssumption DEF FilesAssumption
<1>2. ASSUME NEW q \in Request, ProfileStep(q) PROVE CertificatesOK'
  BY <1>1, <1>2, StorePhotoOK, SaveProfileOK, StoreCertificateOK, SaveCertificateOK, DeleteReplacedOK
     DEF ProfileStep
<1> QED
  BY <1>1, <1>2, LoadOK, SaveOfficeOK, MarkCheckedOK, RemoveRowOK, DeleteRemovedOK, CrashOK,
     DeleteInAdminOK, UploadImageOK, BroadcastOK, PruneReadOK, PruneDeleteOK, AgeOK, Stutter
     DEF Next

LEMMA InitCertificates == Init => CertificatesOK
<1> SUFFICES ASSUME Init PROVE CertificatesOK
  OBVIOUS
<1>1. /\ Blank \in Profile /\ Blank.file = NoFile /\ Blank.photo = NoFile /\ Blank.checked = NoFile
  BY DEF Blank, Gone, Profile
<1>2. /\ stored = {} /\ old = {} /\ minted = 0 /\ row = Blank /\ \A q \in Request : req[q] = Idle
      /\ req \in [Request -> Busy \cup {Idle}]
      /\ draft = {} /\ announced = {} /\ prompt = {} /\ prune = NotPruning /\ lost = FALSE
  BY DEF Init
<1>3. FilesOf(row) = {}
  BY <1>1, <1>2 DEF FilesOf
<1>4. Typed
  <2>1. 0 \in 0..MaxFiles
    BY FilesAssumption DEF FilesAssumption
  <2>2. TypeOK
    BY <1>1, <1>2, <2>1 DEF TypeOK
  <2>3. Holds(row)
    BY <1>1, <1>2 DEF Holds
  <2> QED
    BY <1>2, <2>2, <2>3 DEF Typed, Carries
<1>5. UploadsOwn /\ Kept /\ Pruned
  BY <1>1, <1>2, <1>3, BusyFields DEF UploadsOwn, Uploading, Unsaved, Kept, Sound, Pruned, Step
<1> QED
  BY <1>4, <1>5 DEF CertificatesOK

-----------------------------------------------------------------------------
(* The theorems. *)

(* Every variable has its type. *)
THEOREM TypeCorrect == Spec => []TypeOK
<1>1. CertificatesOK => TypeOK
  BY DEF CertificatesOK, Typed
<1> QED
  BY <1>1, InitCertificates, NextCertificates, PTL DEF Spec

(* "Checked by the school" is said of the file the office was shown, as    *)
(* long as no request has written over a change it had not seen.           *)
THEOREM CheckedMeansSeen == Spec => []CheckedWasSeen
<1>1. CertificatesOK => CheckedWasSeen
  BY DEF CertificatesOK, Kept, Sound, CheckedWasSeen, certificate_status
<1> QED
  BY <1>1, InitCertificates, NextCertificates, PTL DEF Spec

(* The profile never names a file that is not there, whatever crashes, is  *)
(* replaced, removed or pruned, until an update is lost.                   *)
THEOREM FilesAreThere == Spec => []CertificateOpens
<1>1. ASSUME CertificatesOK, ~lost
      PROVE  instructor_certificate(row) # "error" /\ FilesOf(row) \subseteq stored
  <2>1. FilesOf(row) \subseteq stored
    BY <1>1 DEF CertificatesOK, Kept, Sound
  <2>2. row.file # NoFile => row.file \in stored
    BY <2>1 DEF FilesOf
  <2> QED
    BY <2>1, <2>2 DEF instructor_certificate, certificate_status
<1>2. CertificatesOK => CertificateOpens
  BY <1>1 DEF CertificateOpens
<1> QED
  BY <1>2, InitCertificates, NextCertificates, PTL DEF Spec

(* Neither a file whose row is not saved yet nor the picture of a prompt   *)
(* announcement is ever pruned.                                            *)
THEOREM UploadsSurvive == Spec => []FreshUploadSurvives
<1>1. CertificatesOK => FreshUploadSurvives
  BY DEF CertificatesOK, UploadsOwn, Uploading, Pruned, FreshUploadSurvives, NewOf, InStep
<1> QED
  BY <1>1, InitCertificates, NextCertificates, PTL DEF Spec

-----------------------------------------------------------------------------
(* Strays.  A certificate that is stored is claimed by the row, by the     *)
(* request that stored it or by the one that is to delete it.              *)

Claims(b, n) == \/ b.at \in Unsaved /\ b.new = n
                \/ b.at \in Deleting /\ n \in FilesOf(b.copy)

Claimed(n) == n \in FilesOf(row) \/ \E q \in Request : Claims(req[q], n)

LEMMA StraysUnclaimed == Stray = {n \in stored : n[1] = "certificate" /\ ~Claimed(n)}
BY DEF Stray, Claimed, Claims, NewOf, OldOf, InStep

NoneStrays == Stray' \subseteq Stray

LEMMA ClaimsLast ==
  ASSUME NEW q \in Request, \A p \in Request : p # q => req'[p] = req[p],
         \A n \in stored' : n[1] = "certificate" =>
            /\ n \in stored \/ Claimed(n)'
            /\ n \in FilesOf(row) \/ Claims(req[q], n) => Claimed(n)'
  PROVE  NoneStrays
<1> SUFFICES ASSUME NEW n \in Stray' PROVE n \in Stray
  BY DEF NoneStrays
<1>1. n \in stored' /\ n[1] = "certificate" /\ ~Claimed(n)'
  BY DEF Stray, Claimed, Claims, NewOf, OldOf, InStep
<1>2. \A p \in Request : p # q /\ Claims(req[p], n) => Claimed(n)'
  BY DEF Claimed, Claims, FilesOf
<1>3. ~Claimed(n)
  BY <1>1, <1>2 DEF Claimed
<1> QED
  BY <1>1, <1>3, StraysUnclaimed

LEMMA ClaimsStay ==
  ASSUME UNCHANGED <<row, req>>, \A n \in stored' : n[1] = "certificate" => n \in stored
  PROVE  NoneStrays
<1>1. \A n : Claimed(n)' <=> Claimed(n)
  BY DEF Claimed, Claims, FilesOf
<1>2. Stray' = {n \in stored' : n[1] = "certificate" /\ ~Claimed(n)'}
  BY DEF Stray, Claimed, Claims, NewOf, OldOf, InStep
<1> QED
  BY <1>1, <1>2, StraysUnclaimed DEF NoneStrays

(* The certificate is the only file of its kind a row names. *)
LEMMA CertificateColumn ==
  ASSUME NEW r, Holds(r), NEW n, n[1] = "certificate"
  PROVE  n \in FilesOf(r) <=> (n = r.file /\ n # NoFile)
<1>1. n \notin Of("photo")
  BY DEF Of
<1> QED
  BY <1>1 DEF Holds, FilesOf

LEMMA ProfileNoStray ==
  ASSUME CertificatesOK, FilesAssumption, NEW q \in Request, ProfileStep(q)
  PROVE  NoneStrays \/ lost'
<1>1. CASE StorePhoto(q) \/ StoreCertificate(q)
  <2>1. PICK name \in Name, kind \in {"photo", "certificate"}, s \in Unsaved :
          /\ Store(name, kind) /\ req' = [req EXCEPT ![q].at = s, ![q].new = name]
          /\ req[q] # Idle /\ req[q].at \in {"loaded", "saved"} /\ row' = row
    BY <1>1 DEF StorePhoto, StoreCertificate, At, Unsaved
  <2>2. /\ req'[q].at \in Unsaved /\ req'[q].new = name
        /\ \A p \in Request : p # q => req'[p] = req[p]
    BY <2>1, RequestSteps DEF CertificatesOK, Typed, Unsaved, Step
  <2>3. stored' = stored \cup {name}
    BY <2>1 DEF Store
  <2>4. Claimed(name)'
    BY <2>2 DEF Claimed, Claims
  <2>5. \A n : n \in FilesOf(row) => Claimed(n)'
    BY <2>1 DEF Claimed, FilesOf
  <2>6. \A n : ~Claims(req[q], n)
    BY <2>1 DEF Claims, Unsaved, Deleting
  <2> QED
    BY <2>2, <2>3, <2>4, <2>5, <2>6, ClaimsLast
<1>2. CASE SaveProfile(q)
  <2>1. PICK photo, instance : /\ instance = [req[q].copy EXCEPT !.photo = photo]
                               /\ Save(q, instance)
                               /\ req' = [req EXCEPT ![q] = req'[q]]
    BY <1>2 DEF SaveProfile, End, CertificatesOK, Typed, TypeOK
  <2>2. /\ req[q] # Idle /\ UNCHANGED stored /\ req[q].at \in {"loaded", "photo_stored"}
        /\ req[q].at = "photo_stored" => req[q].new \in Of("photo")
    BY <1>2, RequestFields DEF SaveProfile, At, files, Carries
  <2>3. instance.file = req[q].copy.file /\ Holds(req[q].copy)
    BY <2>1, <2>2, RequestFields DEF Profile
  <2>4. \A p \in Request : p # q => req'[p] = req[p]
    BY <2>1 DEF CertificatesOK, Typed, TypeOK
  <2>5. ASSUME ~lost' PROVE NoneStrays
    <3>1. row = req[q].copy /\ row' = instance
      BY <2>1, <2>5 DEF Save
    <3>2. ASSUME NEW n, n[1] = "certificate" PROVE n \in FilesOf(row) => Claimed(n)'
      BY <2>3, <3>1, <3>2, CertificateColumn DEF Claimed, FilesOf
    <3>3. ASSUME NEW n, n[1] = "certificate" PROVE ~Claims(req[q], n)
      BY <2>2, <3>3 DEF Claims, Unsaved, Deleting, Of
    <3> QED
      BY <2>2, <2>4, <3>2, <3>3, ClaimsLast
  <2> QED
    BY <2>5 DEF Save, CertificatesOK, Typed, TypeOK
<1>3. CASE SaveCertificate(q)
  <2> DEFINE c == req[q].copy
             new == req[q].new
  <2>1. /\ req[q] # Idle /\ req[q].at = "certificate_stored" /\ UNCHANGED stored
        /\ Save(q, Replaced(c, new)) /\ req' = [req EXCEPT ![q].at = "replaced", ![q].new = NoFile]
    BY <1>3 DEF SaveCertificate, At, files
  <2>2. /\ req'[q].at = "replaced" /\ req'[q].copy = c
        /\ \A p \in Request : p # q => req'[p] = req[p]
    BY <2>1, RequestSteps DEF CertificatesOK, Typed, Step
  <2>3. new \in Of("certificate") /\ c \in Profile
    BY <2>1, RequestFields DEF Carries
  <2>4. row'.file = new /\ new # NoFile
    BY <2>1, <2>3, KindsApart DEF Save, Replaced, Profile
  <2>5. ASSUME ~lost' PROVE NoneStrays
    <3>1. row = c
      BY <2>1, <2>5 DEF Save
    <3>2. \A n : n \in FilesOf(row) => Claimed(n)'
      BY <2>2, <3>1 DEF Claimed, Claims, Deleting
    <3>3. \A n : Claims(req[q], n) => n = new
      BY <2>1 DEF Claims, Unsaved, Deleting
    <3>4. \A n : n = new => Claimed(n)'
      BY <2>4 DEF Claimed, FilesOf
    <3> QED
      BY <2>1, <2>2, <3>2, <3>3, <3>4, ClaimsLast
  <2> QED
    BY <2>5 DEF Save, CertificatesOK, Typed, TypeOK
<1>4. CASE DeleteReplaced(q)
  <2>1. /\ req[q] # Idle /\ req[q].at = "replaced" /\ stored' = stored \ {req[q].copy.file}
        /\ End(q) /\ row' = row
    BY <1>4 DEF DeleteReplaced, At, Delete
  <2>2. Holds(req[q].copy) /\ \A p \in Request : p # q => req'[p] = req[p]
    BY <2>1, RequestFields, RequestEnds DEF CertificatesOK, Typed
  <2>3. ASSUME NEW n \in stored', n[1] = "certificate" PROVE ~Claims(req[q], n)
    BY <2>1, <2>2, <2>3, CertificateColumn DEF Claims, Unsaved
  <2>4. \A n : n \in FilesOf(row) => Claimed(n)'
    BY <2>1 DEF Claimed, FilesOf
  <2> QED
    BY <2>1, <2>2, <2>3, <2>4, ClaimsLast
<1> QED
  BY <1>1, <1>2, <1>3, <1>4 DEF ProfileStep

LEMMA OtherNoStray ==
  ASSUME CertificatesOK, FilesAssumption, NEW q \in Request,
         \/ \E op \in Operation : Load(q, op)
         \/ MarkChecked(q) \/ RemoveRow(q) \/ DeleteRemoved(q)
  PROVE  NoneStrays \/ lost'
<1>1. ASSUME NEW op \in Operation, Load(q, op) PROVE NoneStrays
  <2>1. /\ req[q] = Idle /\ row' = row /\ stored' = stored
        /\ \A p \in Request : p # q => req'[p] = req[p]
    BY <1>1 DEF Load, files, CertificatesOK, Typed, TypeOK
  <2>2. \A n : ~Claims(req[q], n)
    BY <2>1, BusyFields DEF Claims, Unsaved, Deleting, Step
  <2>3. \A n : n \in FilesOf(row) => Claimed(n)'
    BY <2>1 DEF Claimed, FilesOf
  <2> QED
    BY <2>1, <2>2, <2>3, ClaimsLast
<1>2. CASE MarkChecked(q)
  <2>1. /\ req[q].at = "loaded" /\ stored' = stored /\ End(q)
        /\ mark_certificate_checked(req[q].copy)
    BY <1>2 DEF MarkChecked, At, files
  <2>2. \A p \in Request : p # q => req'[p] = req[p]
    BY <2>1, RequestEnds DEF CertificatesOK, Typed
  <2>3. FilesOf(row') = FilesOf(row)
    BY <2>1, GoneFields DEF mark_certificate_checked, FilesOf, CertificatesOK, Typed, TypeOK, Profile
  <2>4. \A n : ~Claims(req[q], n)
    BY <2>1 DEF Claims, Unsaved, Deleting
  <2>5. \A n : n \in FilesOf(row) => Claimed(n)'
    BY <2>3 DEF Claimed, FilesOf
  <2> QED
    BY <2>1, <2>2, <2>4, <2>5, ClaimsLast
<1>3. CASE RemoveRow(q)
  <2> DEFINE b == [req[q] EXCEPT !.at = "deleted"]
  <2>1. /\ req[q] # Idle /\ req[q].at = "loaded" /\ stored' = stored /\ req' = [req EXCEPT ![q] = b]
        /\ lost' = (lost \/ (row.exists /\ FilesOf(row) # FilesOf(req[q].copy)))
    BY <1>3 DEF RemoveRow, At, files
  <2>2. b.at = "deleted" /\ b.copy = req[q].copy
    BY <2>1, RequestFields DEF Busy
  <2> HIDE DEF b
  <2>3. req'[q] = b /\ \A p \in Request : p # q => req'[p] = req[p]
    BY <2>1 DEF CertificatesOK, Typed, TypeOK
  <2>4. \A n : n \in FilesOf(req[q].copy) => Claimed(n)'
    BY <2>2, <2>3 DEF Claimed, Claims, Deleting
  <2>5. row.exists \/ FilesOf(row) = {}
    BY GoneFields, ProfileFields DEF CertificatesOK, Typed, TypeOK
  <2>6. \A n : ~Claims(req[q], n)
    BY <2>1 DEF Claims, Unsaved, Deleting
  <2>7. ASSUME ~lost' PROVE NoneStrays
    BY <2>1, <2>3, <2>4, <2>5, <2>6, <2>7, ClaimsLast
  <2> QED
    BY <2>7
<1>4. CASE DeleteRemoved(q)
  <2>1. /\ req[q].at = "deleted" /\ stored' = stored \ FilesOf(req[q].copy) /\ row' = row /\ End(q)
    BY <1>4 DEF DeleteRemoved, At, Delete
  <2>2. \A p \in Request : p # q => req'[p] = req[p]
    BY <2>1, RequestEnds DEF CertificatesOK, Typed
  <2>3. \A n \in stored' : ~Claims(req[q], n)
    BY <2>1 DEF Claims, Unsaved
  <2>4. \A n : n \in FilesOf(row) => Claimed(n)'
    BY <2>1 DEF Claimed, FilesOf
  <2> QED
    BY <2>1, <2>2, <2>3, <2>4, ClaimsLast
<1> QED
  BY <1>1, <1>2, <1>3, <1>4

LEMMA NextNoStray ==
  ASSUME CertificatesOK, [Next]_vars
  PROVE  \/ NoneStrays \/ lost' \/ DeleteInAdmin
         \/ \E q \in Request : SaveOffice(q) \/ Crash(q)
<1>1. FilesAssumption
  BY FilesAssumption DEF FilesAssumption
<1>2. CASE upload_announcement_image
  <2>1. PICK name \in Name : Store(name, "picture")
    BY <1>2 DEF upload_announcement_image
  <2>2. stored' = stored \cup {name} /\ name[1] = "picture" /\ UNCHANGED <<row, req>>
    BY <1>2, <2>1 DEF Store, upload_announcement_image
  <2> QED
    BY <2>2, ClaimsStay
<1>3. CASE create_broadcast \/ PruneRead \/ PruneDelete \/ Age \/ UNCHANGED vars
  <2>1. UNCHANGED <<row, req>> /\ stored' \subseteq stored
    BY <1>3 DEF create_broadcast, PruneRead, PruneDelete, Delete, Age, vars, files
  <2> QED
    BY <2>1, ClaimsStay
<1> QED
  BY <1>1, <1>2, <1>3, ProfileNoStray, OtherNoStray DEF Next

(* The pages of instructors and managers leave no certificate behind that  *)
(* no profile names; the admin, a killed request and a lost update may.    *)
THEOREM NothingLeftBehind == Spec => NoStrayCertificate
<1>1. CertificatesOK /\ [Next]_vars =>
        [Stray' \subseteq Stray \/ lost' \/ DeleteInAdmin
           \/ \E q \in Request : SaveOffice(q) \/ Crash(q)]_vars
  BY NextNoStray DEF NoneStrays
<1> QED
  BY <1>1, InitCertificates, NextCertificates, PTL DEF Spec, NoStrayCertificate
=============================================================================
