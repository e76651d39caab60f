---------------------------- MODULE PeopleProofs ----------------------------
(***************************************************************************)
(* Proofs about People, for all people, children, providers and classes,   *)
(* and for any number of invitations and edits: the types, whom alerts go  *)
(* to, that a guardian who was taken off a child stays off, that no        *)
(* instructor is locked out, and how a class comes by its instructors.     *)
(***************************************************************************)
EXTENDS People, SequenceTheorems, TLAPS

(* The types, by the part of the system that has them.  Beyond TypeOK:     *)
(* what is linked, invited to or unlinked is a child somebody has added,   *)
(* an acceptance is of an invitation that was sent, and an instructor has  *)
(* an account.                                                             *)
AccountsTyped == account \in [Person -> Account \cup {NoAccount}]

FamiliesTyped ==
  /\ children \subseteq Child
  /\ guardian \subseteq Person \X children
  /\ invite \in Seq(Invite) /\ Len(invite) <= MaxInvites
  /\ \A i \in DOMAIN invite : invite[i].child \in children
  /\ accepting \subseteq Person \X (1..MaxInvites) \X {"checked", "linked"}
  /\ \A x \in accepting : x[2] \in DOMAIN invite
  /\ unlinked \subseteq Person \X children

TeachingTyped ==
  /\ member \subseteq Provider \X Person
  /\ instructor \subseteq Instructors
  /\ class \in [Class -> [provider : Provider, status : {"PUBLISHED", "ARCHIVED"}]]
  /\ teaches \subseteq instructor \X Class
  /\ offWhenMade \subseteq instructor
  /\ \A r \in instructor : Exists(r[2])

DeskTyped ==
  /\ administers \subseteq Person \X Class
  /\ office \in 0..MaxOffice
  /\ officeOff \subseteq Person

Typed == AccountsTyped /\ FamiliesTyped /\ TeachingTyped /\ DeskTyped

-----------------------------------------------------------------------------
(* Accounts *)

LEMMA AccountFields ==
  ASSUME AccountsTyped, NEW p \in Person, Exists(p)
  PROVE  /\ account[p] \in Account
         /\ account[p].active \in BOOLEAN /\ account[p].super \in BOOLEAN
         /\ account[p].role \in Role
BY DEF AccountsTyped, Exists, Account

LEMMA NewAccounts ==
  /\ \A role \in Role : NewAccount(role) \in Account /\ NewAccount(role) # NoAccount
                        /\ NewAccount(role).active
  /\ SuperAdmin \in Account /\ SuperAdmin # NoAccount /\ SuperAdmin.active
  /\ \A a \in Account : a # NoAccount
<1>1. \A a \in Account : a # NoAccount
  BY DEF Account, NoAccount, Role
<1>2. \A role \in Role : NewAccount(role) \in Account /\ NewAccount(role).active
  BY DEF NewAccount, Account
<1>3. SuperAdmin \in Account /\ SuperAdmin.active
  BY DEF SuperAdmin, Account, Role
<1> QED
  BY <1>1, <1>2, <1>3

(* An account is never deleted. *)
AccountsLast == AccountsTyped' /\ \A p \in Person : Exists(p) => Exists(p)'

LEMMA OneAccount ==
  ASSUME AccountsTyped, NEW p \in Person, NEW new \in Account,
         account' = [account EXCEPT ![p] = new]
  PROVE  AccountsLast
BY NewAccounts DEF AccountsTyped, AccountsLast, Exists

(* Taken off the last provider, an instructor is switched off. *)
LEMMA RemovedAccount ==
  ASSUME Typed, NEW m \in Person, NEW r \in instructor, instructor_remove(m, r)
  PROVE  /\ r[2] \in Person /\ r[1] \in Provider /\ r = <<r[1], r[2]>>
         /\ AccountsLast
         /\ \A p \in Person : p # r[2] => account'[p] = account[p]
         /\ still_used(r[2], m, instructor \ {r}) => account'[r[2]] = account[r[2]]
<1>1. r[2] \in Person /\ r[1] \in Provider /\ r = <<r[1], r[2]>> /\ Exists(r[2])
  BY DEF Typed, TeachingTyped, Instructors
<1>2. [account[r[2]] EXCEPT !.active = FALSE] \in Account
  BY <1>1, AccountFields DEF Typed, Account
<1>3. \/ account' = account
      \/ account' = [account EXCEPT ![r[2]] = [account[r[2]] EXCEPT !.active = FALSE]]
  BY DEF instructor_remove
<1>4. AccountsLast
  BY <1>1, <1>2, <1>3, OneAccount DEF Typed, AccountsLast, AccountsTyped, Exists
<1>5. \A p \in Person : p # r[2] => account'[p] = account[p]
  BY <1>3 DEF Typed, AccountsTyped
<1>6. still_used(r[2], m, instructor \ {r}) => account'[r[2]] = account[r[2]]
  BY DEF instructor_remove
<1> QED
  BY <1>1, <1>4, <1>5, <1>6

(* What a step of the accounts is. *)
LEMMA NextAccounts ==
  ASSUME PeopleAssumption, Typed, [Next]_vars
  PROVE  AccountsLast
<1>1. ASSUME UNCHANGED account PROVE AccountsLast
  BY <1>1 DEF Typed, AccountsLast, AccountsTyped, Exists
<1>2. ASSUME NEW p \in Person, signup(p) PROVE AccountsLast
  BY <1>2, OneAccount, NewAccounts DEF signup, Role, Typed
<1>3. ASSUME NEW a \in Person, NEW p \in Person, NEW role \in Role, AddUser(a, p, role)
      PROVE  AccountsLast
  BY <1>3, OneAccount, NewAccounts DEF AddUser, Typed
<1>4. ASSUME NEW a \in Person, NEW p \in Person, NEW new \in Account, EditUser(a, p, new)
      PROVE  AccountsLast
  BY <1>4, OneAccount DEF EditUser, Typed
<1>5. CASE ensure_admin
  BY <1>5, PeopleAssumption, OneAccount, NewAccounts DEF ensure_admin, Typed
<1>6. ASSUME NEW m \in Person, NEW pr \in Provider, NEW p \in Person, NEW cs \in SUBSET Class,
             instructor_add(m, pr, p, cs)
      PROVE  AccountsLast
  <2>1. CASE Exists(p)
    <3>1. account' = account
      BY <1>6, <2>1 DEF instructor_add, Typed, AccountsTyped
    <3> QED
      BY <1>1, <3>1
  <2>2. CASE ~Exists(p)
    <3>1. account' = [account EXCEPT ![p] = NewAccount("PROVIDER")]
      BY <1>6, <2>2 DEF instructor_add
    <3> QED
      BY <3>1, OneAccount, NewAccounts DEF Typed, Role
  <2> QED
    BY <2>1, <2>2
<1>7. ASSUME NEW m \in Person, NEW r \in instructor, instructor_remove(m, r)
      PROVE  AccountsLast
  BY <1>7, RemovedAccount
<1>8. CASE Families
  BY <1>1, <1>2, <1>8
     DEF Families, child_add, child_invite_guardian, CheckInvite, LinkGuardian, StampInvite,
         AcceptDies, InviteExpires
<1>9. CASE ProviderPages
  BY <1>1, <1>6, <1>7, <1>9 DEF ProviderPages, instructor_add_self, instructor_detail
<1>10. CASE OfficeAccounts
  BY <1>1, <1>3, <1>4, <1>10 DEF OfficeAccounts, SaveMember, SaveInline
<1>11. CASE OfficeForms
  <2>1. ASSUME NEW a, NEW c, NEW S, SaveGuardians(a, c, S) PROVE AccountsLast
    BY <1>1, <2>1 DEF SaveGuardians
  <2>2. ASSUME NEW a, NEW r, NEW pr, NEW cs, SaveInstructor(a, r, pr, cs) PROVE AccountsLast
    BY <1>1, <2>2 DEF SaveInstructor
  <2>3. ASSUME NEW a, NEW c, NEW pr, NEW rows, NEW S, SaveClass(a, c, pr, rows, S) PROVE AccountsLast
    BY <1>1, <2>3 DEF SaveClass
  <2>4. ASSUME NEW a, NEW c, NEW S, NEW replace, assign_administrators(a, c, S, replace)
        PROVE  AccountsLast
    BY <1>1, <2>4 DEF assign_administrators
  <2> QED
    BY <1>11, <2>1, <2>2, <2>3, <2>4 DEF OfficeForms
<1>12. CASE Classes
  BY <1>1, <1>12 DEF Classes, upsert_class, SetStatus
<1> QED
  BY <1>1, <1>5, <1>8, <1>9, <1>10, <1>11, <1>12 DEF Next, Deployment, vars

-----------------------------------------------------------------------------
(* Families.  Whom the office has taken off a child no open invitation and *)
(* no acceptance under way can bring back, and who accepts is whom the     *)
(* invitation was sent to.                                                 *)

Addressee(i) == <<invite[i].email, invite[i].child>>

TakenOff ==
  /\ RemovedStaysRemoved
  /\ \A i \in DOMAIN invite : invite[i].state = "open" => Addressee(i) \notin unlinked
  /\ \A x \in accepting : invite[x[2]].email = x[1] /\ Addressee(x[2]) \notin unlinked

FamiliesOK == FamiliesTyped /\ TakenOff

LEMMA FamiliesAlone ==
  ASSUME FamiliesOK, UNCHANGED families
  PROVE  FamiliesOK'
BY DEF FamiliesOK, FamiliesTyped, TakenOff, RemovedStaysRemoved, Addressee, families

LEMMA InviteFields ==
  ASSUME FamiliesTyped
  PROVE  /\ DOMAIN invite = 1..Len(invite) /\ Len(invite) \in Nat
         /\ \A i \in DOMAIN invite :
              /\ invite[i] \in Invite
              /\ invite[i].email \in Person /\ invite[i].child \in children
<1>1. DOMAIN invite = 1..Len(invite) /\ Len(invite) \in Nat
  BY LenProperties DEF FamiliesTyped
<1>2. \A i \in DOMAIN invite : invite[i] \in Invite
  BY <1>1, ElementOfSeq DEF FamiliesTyped
<1> QED
  BY <1>1, <1>2 DEF FamiliesTyped, Invite

(* An acceptance names a person, an invitation and a statement. *)
LEMMA AcceptingFields ==
  ASSUME FamiliesTyped, NEW x \in accepting
  PROVE  /\ x[1] \in Person /\ x[2] \in DOMAIN invite /\ x[3] \in {"checked", "linked"}
         /\ x = <<x[1], x[2], x[3]>>
BY DEF FamiliesTyped

LEMMA ChildAddOK ==
  ASSUME FamiliesOK, NEW p \in Person, NEW c \in Child, child_add(p, c)
  PROVE  FamiliesOK'
<1>1. c \notin children /\ <<p, c>> \notin unlinked
  BY DEF child_add, FamiliesOK, FamiliesTyped
<1>2. FamiliesTyped'
  BY DEF child_add, FamiliesOK, FamiliesTyped
<1>3. TakenOff'
  BY <1>1 DEF child_add, FamiliesOK, TakenOff, RemovedStaysRemoved, Addressee
<1> QED
  BY <1>2, <1>3 DEF FamiliesOK

LEMMA InviteOK ==
  ASSUME FamiliesOK, MaxInvites \in Nat,
         NEW p \in Person, NEW c \in Child, NEW email \in Person, child_invite_guardian(p, c, email)
  PROVE  FamiliesOK'
<1> DEFINE new == [child |-> c, email |-> email, state |-> "open"]
           last == Len(invite) + 1
<1>1. new \in Invite /\ c \in children
  BY DEF Invite, child_invite_guardian, FamiliesOK, FamiliesTyped
<1>2. DOMAIN invite = 1..Len(invite) /\ Len(invite) \in Nat
  BY InviteFields DEF FamiliesOK
<1>3. /\ invite' \in Seq(Invite) /\ Len(invite') = last /\ DOMAIN invite' = 1..last
      /\ invite'[last] = new
      /\ \A i \in DOMAIN invite : invite'[i] = invite[i]
  <2>1. invite \in Seq(Invite) /\ invite' = Append(invite, new)
    BY DEF child_invite_guardian, FamiliesOK, FamiliesTyped
  <2> HIDE DEF new
  <2> QED
    BY <1>1, <1>2, <2>1
<1>4. last <= MaxInvites
  BY <1>2 DEF child_invite_guardian
<1>5. DOMAIN invite' = DOMAIN invite \cup {last} /\ last \notin DOMAIN invite
  BY <1>2, <1>3
<1>6. UNCHANGED <<children, guardian, accepting>> /\ unlinked' = unlinked \ {<<email, c>>}
  BY DEF child_invite_guardian
<1>7. new.child = c /\ new.email = email
  OBVIOUS
<1>8. <<email, c>> \notin unlinked'
  BY <1>6
<1> HIDE DEF new, last
<1>9. FamiliesTyped'
  BY <1>1, <1>3, <1>4, <1>5, <1>6, <1>7 DEF FamiliesOK, FamiliesTyped
<1>10. \A i \in DOMAIN invite : Addressee(i)' = Addressee(i)
  BY <1>3 DEF Addressee
<1>11. invite'[last].email = email /\ invite'[last].child = c
  BY <1>3, <1>7
<1>12. RemovedStaysRemoved'
  BY <1>6 DEF FamiliesOK, TakenOff, RemovedStaysRemoved
<1>13. ASSUME NEW i \in DOMAIN invite', invite'[i].state = "open"
       PROVE  Addressee(i)' \notin unlinked'
  <2>1. CASE i = last
    <3>1. <<invite'[i].email, invite'[i].child>> = <<email, c>>
      BY <1>11, <2>1
    <3> QED
      BY <1>8, <3>1 DEF Addressee
  <2>2. CASE i \in DOMAIN invite
    <3>1. invite[i].state = "open" /\ Addressee(i)' = Addressee(i)
      BY <1>3, <1>10, <1>13, <2>2
    <3> QED
      BY <1>6, <2>2, <3>1 DEF FamiliesOK, TakenOff
  <2> QED
    BY <1>5, <2>1, <2>2
<1>14. ASSUME NEW x \in accepting'
       PROVE  invite'[x[2]].email = x[1] /\ Addressee(x[2])' \notin unlinked'
  <2>1. x \in accepting /\ x[2] \in DOMAIN invite
    BY <1>6, AcceptingFields DEF FamiliesOK
  <2> QED
    BY <1>3, <1>6, <1>10, <2>1 DEF FamiliesOK, TakenOff
<1> QED
  BY <1>9, <1>12, <1>13, <1>14 DEF FamiliesOK, TakenOff

LEMMA CheckOK ==
  ASSUME FamiliesOK, NEW p \in Person, NEW i \in DOMAIN invite, CheckInvite(p, i)
  PROVE  FamiliesOK'
<1>1. i \in 1..MaxInvites
  BY InviteFields, PeopleAssumption DEF FamiliesOK, FamiliesTyped
<1>2. /\ accepting' = accepting \cup {<<p, i, "checked">>}
      /\ UNCHANGED <<children, guardian, invite, unlinked>>
      /\ invite[i].state = "open" /\ invite[i].email = p
  BY DEF CheckInvite, valid_invite
<1>3. FamiliesTyped'
  BY <1>1, <1>2 DEF FamiliesOK, FamiliesTyped
<1>4. Addressee(i) \notin unlinked
  BY <1>2 DEF FamiliesOK, TakenOff
<1>5. TakenOff'
  BY <1>2, <1>4 DEF FamiliesOK, TakenOff, RemovedStaysRemoved, Addressee
<1> QED
  BY <1>3, <1>5 DEF FamiliesOK

LEMMA LinkOK ==
  ASSUME FamiliesOK, NEW p \in Person, NEW i \in DOMAIN invite, LinkGuardian(p, i)
  PROVE  FamiliesOK'
<1> DEFINE x == <<p, i, "checked">>
           y == <<p, i, "linked">>
<1>1. /\ x \in accepting /\ accepting' = (accepting \ {x}) \cup {y}
      /\ guardian' = guardian \cup {<<p, invite[i].child>>}
      /\ UNCHANGED <<children, invite, unlinked>>
  BY DEF LinkGuardian
<1>2. x[1] = p /\ x[2] = i /\ y[1] = p /\ y[2] = i
  OBVIOUS
<1>3. i \in 1..MaxInvites /\ invite[i].child \in children
  BY InviteFields, PeopleAssumption DEF FamiliesOK, FamiliesTyped
<1>4. y \in Person \X (1..MaxInvites) \X {"checked", "linked"}
  BY <1>3
<1> HIDE DEF x, y
<1>5. invite[i].email = p /\ Addressee(i) \notin unlinked
  BY <1>1, <1>2 DEF FamiliesOK, TakenOff
<1>6. Addressee(i) = <<p, invite[i].child>>
  BY <1>5 DEF Addressee
<1>7. FamiliesTyped'
  BY <1>1, <1>2, <1>3, <1>4 DEF FamiliesOK, FamiliesTyped
<1>8. RemovedStaysRemoved'
  BY <1>1, <1>5, <1>6 DEF FamiliesOK, TakenOff, RemovedStaysRemoved
<1>9. TakenOff'
  BY <1>1, <1>2, <1>5, <1>8 DEF FamiliesOK, TakenOff, Addressee
<1> QED
  BY <1>7, <1>9 DEF FamiliesOK

(* An invitation that is used up or has expired is not open. *)
LEMMA ClosedOK ==
  ASSUME FamiliesOK, NEW i \in DOMAIN invite, NEW s \in {"accepted", "expired"},
         invite' = [invite EXCEPT ![i].state = s],
         accepting' \subseteq accepting, UNCHANGED <<children, guardian, unlinked>>
  PROVE  FamiliesOK'
<1> DEFINE closed == [invite[i] EXCEPT !.state = s]
<1>1. closed \in Invite /\ closed.email = invite[i].email /\ closed.child = invite[i].child
        /\ closed.state = s
  BY InviteFields DEF FamiliesOK, Invite
<1>2. invite' = [invite EXCEPT ![i] = closed]
  OBVIOUS
<1>3. i \in 1..Len(invite) /\ DOMAIN invite = 1..Len(invite) /\ invite \in Seq(Invite)
  BY InviteFields DEF FamiliesOK, FamiliesTyped
<1> HIDE DEF closed
<1>4. /\ invite' \in Seq(Invite) /\ Len(invite') = Len(invite)
      /\ \A j \in 1..Len(invite) : invite'[j] = IF j = i THEN closed ELSE invite[j]
  BY <1>1, <1>2, <1>3, ExceptSeq
<1>5. DOMAIN invite' = DOMAIN invite
  BY <1>2
<1>6. \A j \in DOMAIN invite : /\ Addressee(j)' = Addressee(j)
                               /\ invite'[j].email = invite[j].email
                               /\ invite'[j].child = invite[j].child
                               /\ invite'[j].state = "open" => invite[j].state = "open"
  BY <1>1, <1>3, <1>4 DEF Addressee
<1>7. FamiliesTyped'
  BY <1>4, <1>5, <1>6 DEF FamiliesOK, FamiliesTyped
<1>8. ASSUME NEW x \in accepting'
      PROVE  invite'[x[2]].email = x[1] /\ Addressee(x[2])' \notin unlinked'
  <2>1. x \in accepting /\ x[2] \in DOMAIN invite
    BY AcceptingFields DEF FamiliesOK
  <2> QED
    BY <1>6, <2>1 DEF FamiliesOK, TakenOff
<1>9. TakenOff'
  BY <1>5, <1>6, <1>8 DEF FamiliesOK, TakenOff, RemovedStaysRemoved
<1> QED
  BY <1>7, <1>9 DEF FamiliesOK

LEMMA DiesOK ==
  ASSUME FamiliesOK, NEW x \in accepting, AcceptDies(x)
  PROVE  FamiliesOK'
BY DEF AcceptDies, FamiliesOK, FamiliesTyped, TakenOff, RemovedStaysRemoved, Addressee

LEMMA SaveGuardiansOK ==
  ASSUME FamiliesOK, NEW a \in Person, NEW c \in Child, NEW people \in SUBSET Person,
         SaveGuardians(a, c, people)
  PROVE  FamiliesOK'
<1> DEFINE gone == {l \in guardian : l[2] = c /\ l[1] \notin people}
           Restorable(l) ==
             \/ \E i \in DOMAIN invite : invite[i] = [child |-> c, email |-> l[1], state |-> "open"]
             \/ \E x \in accepting : x[1] = l[1] /\ invite[x[2]].child = c
<1>1. /\ c \in children
      /\ guardian' = {l \in guardian : l[2] # c} \cup (people \X {c})
      /\ unlinked' = (unlinked \ guardian') \cup {l \in gone : ~Restorable(l)}
      /\ UNCHANGED <<children, invite, accepting>>
  BY DEF SaveGuardians
<1>2. guardian \subseteq Person \X children
  BY DEF FamiliesOK, FamiliesTyped
<1>3. FamiliesTyped'
  BY <1>1, <1>2 DEF FamiliesOK, FamiliesTyped
<1>4. gone \cap guardian' = {}
  BY <1>1, <1>2
<1>5. RemovedStaysRemoved'
  BY <1>1, <1>4 DEF RemovedStaysRemoved
<1>6. ASSUME NEW i \in DOMAIN invite, Addressee(i) \in unlinked', Addressee(i) \notin unlinked
      PROVE  /\ invite[i].child = c
             /\ invite[i].state # "open"
             /\ ~\E x \in accepting : x[1] = invite[i].email /\ invite[x[2]].child = c
  <2>1. Addressee(i) \in gone /\ ~Restorable(Addressee(i))
    BY <1>1, <1>6
  <2>2. Addressee(i)[1] = invite[i].email /\ Addressee(i)[2] = invite[i].child
    BY DEF Addressee
  <2>3. invite[i].child = c /\ invite[i] \in Invite
    BY <2>1, <2>2, InviteFields DEF FamiliesOK
  <2>4. invite[i] # [child |-> c, email |-> invite[i].email, state |-> "open"]
    BY <2>1, <2>2
  <2>5. invite[i].state # "open"
    BY <2>3, <2>4 DEF Invite
  <2> QED
    BY <2>1, <2>2, <2>3, <2>5
<1>7. \A i \in DOMAIN invite : invite[i].state = "open" => Addressee(i) \notin unlinked'
  BY <1>6 DEF FamiliesOK, TakenOff
<1>8. \A x \in accepting : invite[x[2]].email = x[1] /\ Addressee(x[2]) \notin unlinked'
  BY <1>6, AcceptingFields DEF FamiliesOK, TakenOff
<1>9. TakenOff'
  BY <1>1, <1>5, <1>7, <1>8 DEF TakenOff, Addressee
<1> QED
  BY <1>3, <1>9 DEF FamiliesOK

LEMMA NextFamilies ==
  ASSUME FamiliesOK, [Next]_vars
  PROVE  FamiliesOK'
<1>1. ASSUME NEW p \in Person, NEW i \in DOMAIN invite, StampInvite(p, i) PROVE FamiliesOK'
  BY <1>1, ClosedOK DEF StampInvite
<1>2. ASSUME NEW i \in DOMAIN invite, InviteExpires(i) PROVE FamiliesOK'
  BY <1>2, ClosedOK DEF InviteExpires
<1>3. ASSUME NEW p \in Person, signup(p) PROVE FamiliesOK'
  BY <1>3, FamiliesAlone DEF signup
<1>4. CASE Families
  BY <1>1, <1>2, <1>3, <1>4, ChildAddOK, InviteOK, CheckOK, LinkOK, DiesOK, PeopleAssumption
     DEF Families
<1>5. CASE ProviderPages
  BY <1>5, FamiliesAlone
     DEF ProviderPages, instructor_add, instructor_add_self, instructor_detail, instructor_remove
<1>6. CASE OfficeAccounts
  BY <1>6, FamiliesAlone DEF OfficeAccounts, AddUser, EditUser, SaveMember, SaveInline
<1>7. CASE OfficeForms
  <2>1. ASSUME NEW a \in Person, NEW c \in Child, NEW S \in SUBSET Person, SaveGuardians(a, c, S)
        PROVE  FamiliesOK'
    BY <2>1, SaveGuardiansOK
  <2>2. ASSUME NEW a, NEW r, NEW pr, NEW cs, SaveInstructor(a, r, pr, cs) PROVE FamiliesOK'
    BY <2>2, FamiliesAlone DEF SaveInstructor
  <2>3. ASSUME NEW a, NEW c, NEW pr, NEW rows, NEW S, SaveClass(a, c, pr, rows, S) PROVE FamiliesOK'
    BY <2>3, FamiliesAlone DEF SaveClass
  <2>4. ASSUME NEW a, NEW c, NEW S, NEW replace, assign_administrators(a, c, S, replace)
        PROVE  FamiliesOK'
    BY <2>4, FamiliesAlone DEF assign_administrators
  <2> QED
    BY <1>7, <2>1, <2>2, <2>3, <2>4 DEF OfficeForms
<1>8. CASE Classes \/ Deployment \/ UNCHANGED vars
  BY <1>8, FamiliesAlone DEF Classes, upsert_class, SetStatus, Deployment, ensure_admin, vars
<1> QED
  BY <1>4, <1>5, <1>6, <1>7, <1>8 DEF Next

LEMMA InitFamilies == Init => FamiliesOK
<1> SUFFICES ASSUME Init PROVE FamiliesOK
  OBVIOUS
<1>1. invite = <<>> /\ invite \in Seq(Invite) /\ Len(invite) = 0 /\ DOMAIN invite = {}
  BY EmptySeq DEF Init
<1>2. 0 <= MaxInvites
  BY PeopleAssumption
<1> QED
  BY <1>1, <1>2 DEF Init, FamiliesOK, FamiliesTyped, TakenOff, RemovedStaysRemoved

(* A guardian the office has taken off a child, with no invitation open or *)
(* being accepted, stays off, whatever is clicked twice, dies or expires.  *)
THEOREM RemovedForGood == Spec => []RemovedStaysRemoved
<1>1. FamiliesOK /\ [Next]_vars => FamiliesOK'
  BY NextFamilies
<1>2. FamiliesOK => RemovedStaysRemoved
  BY DEF FamiliesOK, TakenOff
<1> QED
  BY <1>1, <1>2, InitFamilies, PTL DEF Spec

-----------------------------------------------------------------------------
(* Providers and their instructors. *)

TeachingOK == TeachingTyped /\ NobodyLockedOut

LEMMA InstructorFields ==
  ASSUME TeachingTyped, NEW r \in instructor
  PROVE  r[1] \in Provider /\ r[2] \in Person /\ r = <<r[1], r[2]>> /\ Exists(r[2])
BY DEF TeachingTyped, Instructors

LEMMA TeachesFields ==
  ASSUME TeachingTyped, NEW t \in teaches
  PROVE  t[1] \in instructor /\ t[2] \in Class /\ t = <<t[1], t[2]>>
BY DEF TeachingTyped

(* Nobody is switched off but by the office, and nothing else moves. *)
LEMMA AccountsMove ==
  ASSUME AccountsTyped, TeachingOK, UNCHANGED teaching, AccountsLast,
         \A p \in Person : \/ account'[p] = account[p] /\ (p \in officeOff => p \in officeOff')
                           \/ Active(p)'
                           \/ p \in officeOff'
                           \/ ~Exists(p)
  PROVE  TeachingOK'
<1>1. TeachingTyped'
  BY InstructorFields DEF TeachingOK, TeachingTyped, teaching, AccountsLast
<1>2. ASSUME NEW r \in instructor
      PROVE  Active(r[2])' \/ r[2] \in officeOff' \/ r \in offWhenMade
  BY InstructorFields DEF TeachingOK, NobodyLockedOut, Active, Exists
<1> QED
  BY <1>1, <1>2 DEF TeachingOK, NobodyLockedOut, teaching

LEMMA SignupOK ==
  ASSUME Typed, TeachingOK, AccountsLast, NEW p \in Person, signup(p)
  PROVE  TeachingOK'
<1>1. \A q \in Person : account'[q] = account[q] \/ ~Exists(q)
  BY DEF signup, Typed, AccountsTyped
<1> QED
  BY <1>1, AccountsMove DEF signup, Typed

LEMMA AddUserOK ==
  ASSUME Typed, TeachingOK, AccountsLast,
         NEW a \in Person, NEW p \in Person, NEW role \in Role, AddUser(a, p, role)
  PROVE  TeachingOK'
<1>1. \A q \in Person : account'[q] = account[q] \/ ~Exists(q)
  BY DEF AddUser, Typed, AccountsTyped
<1> QED
  BY <1>1, AccountsMove DEF AddUser, Typed

(* Whoever the office switches off is on its list, and leaves the list as  *)
(* the account is switched on.                                             *)
LEMMA EditUserOK ==
  ASSUME Typed, TeachingOK, AccountsLast,
         NEW a \in Person, NEW p \in Person, NEW new \in Account, EditUser(a, p, new)
  PROVE  TeachingOK'
<1>1. account'[p] = new /\ new # NoAccount /\ \A q \in Person : q # p => account'[q] = account[q]
  BY NewAccounts DEF EditUser, Typed, AccountsTyped
<1>2. officeOff \ {p} \subseteq officeOff'
  BY DEF EditUser
<1>3. new.active \in BOOLEAN /\ account[p].active \in BOOLEAN /\ Exists(p)
  BY AccountFields DEF EditUser, Typed, Account
<1>4. CASE new.active
  <2>1. Active(p)'
    BY <1>1, <1>4 DEF Active, Exists
  <2> QED
    BY <1>1, <1>2, <2>1, AccountsMove DEF EditUser, Typed
<1>5. CASE ~new.active /\ account[p].active
  <2>1. p \in officeOff'
    BY <1>5 DEF EditUser
  <2> QED
    BY <1>1, <1>2, <2>1, AccountsMove DEF EditUser, Typed
<1>6. CASE ~new.active /\ ~account[p].active
  <2>1. officeOff' = officeOff
    BY <1>6 DEF EditUser
  <2>2. ASSUME NEW r \in instructor
        PROVE  Active(r[2])' \/ r[2] \in officeOff' \/ r \in offWhenMade
    <3>1. CASE r[2] = p
      BY <1>6, <2>1, <3>1 DEF TeachingOK, NobodyLockedOut, Active
    <3>2. CASE r[2] # p
      BY <1>1, <2>1, <3>2, InstructorFields DEF TeachingOK, NobodyLockedOut, Active, Exists
    <3> QED
      BY <3>1, <3>2
  <2>3. UNCHANGED teaching
    BY DEF EditUser
  <2>4. TeachingTyped'
    BY <2>3, InstructorFields DEF TeachingOK, TeachingTyped, teaching, AccountsLast
  <2> QED
    BY <2>2, <2>3, <2>4 DEF TeachingOK, NobodyLockedOut, teaching
<1> QED
  BY <1>3, <1>4, <1>5, <1>6

LEMMA EnsureAdminOK ==
  ASSUME PeopleAssumption, Typed, TeachingOK, AccountsLast, ensure_admin
  PROVE  TeachingOK'
<1>1. Founder \in Person /\ Active(Founder)'
  BY PeopleAssumption, NewAccounts DEF ensure_admin, Typed, AccountsTyped, Active, Exists
<1>2. \A p \in Person : p # Founder => account'[p] = account[p] /\ (p \in officeOff => p \in officeOff')
  BY DEF ensure_admin, Typed, AccountsTyped
<1> QED
  BY <1>1, <1>2, AccountsMove DEF ensure_admin, Typed

(* Accounts stay as they are, and so does the office's list: what is left  *)
(* to see is the instructors.                                              *)
LEMMA InstructorsMove ==
  ASSUME TeachingOK, AccountsLast, UNCHANGED <<member, class, officeOff>>,
         instructor' \subseteq Instructors, teaches' \subseteq instructor' \X Class,
         offWhenMade' \subseteq instructor',
         \A r \in instructor' :
            /\ Exists(r[2])'
            /\ Active(r[2])' \/ r[2] \in officeOff \/ r \in offWhenMade'
  PROVE  TeachingOK'
BY DEF TeachingOK, TeachingTyped, NobodyLockedOut

LEMMA SaveInlineOK ==
  ASSUME Typed, TeachingOK, AccountsLast,
         NEW a \in Person, NEW pr \in Provider, NEW p \in Person, SaveInline(a, <<pr, p>>)
  PROVE  TeachingOK'
<1> DEFINE r == <<pr, p>>
<1>1. r[2] = p /\ r \in Instructors
  BY DEF Instructors
<1> HIDE DEF r
<1>2. UNCHANGED <<account, officeOff, member, class>> /\ Exists(p)
  BY <1>1 DEF SaveInline, r
<1>3. CASE r \in instructor
  <2>1. instructor' = instructor \ {r} /\ teaches' = Without(r) /\ offWhenMade' = offWhenMade \ {r}
    BY <1>3 DEF SaveInline, r
  <2>2. teaches' \subseteq instructor' \X Class
    BY <2>1, TeachesFields DEF Without, TeachingOK
  <2>3. \A q \in instructor' : /\ Exists(q[2])'
                               /\ Active(q[2])' \/ q[2] \in officeOff \/ q \in offWhenMade'
    BY <1>2, <2>1, InstructorFields DEF TeachingOK, NobodyLockedOut, Active, Exists
  <2> QED
    BY <1>2, <2>1, <2>2, <2>3, InstructorsMove DEF TeachingOK, TeachingTyped
<1>4. CASE r \notin instructor
  <2>1. instructor' = instructor \cup {r} /\ teaches' = teaches
        /\ offWhenMade' = IF Active(p) THEN offWhenMade ELSE offWhenMade \cup {r}
    BY <1>1, <1>4 DEF SaveInline, MadeOff, r
  <2>2. ASSUME NEW q \in instructor'
        PROVE  /\ Exists(q[2])'
               /\ Active(q[2])' \/ q[2] \in officeOff \/ q \in offWhenMade'
    <3>1. CASE q = r
      BY <1>1, <1>2, <2>1, <3>1 DEF Active, Exists
    <3>2. CASE q \in instructor
      BY <1>2, <2>1, <3>2, InstructorFields DEF TeachingOK, NobodyLockedOut, Active, Exists
    <3> QED
      BY <2>1, <3>1, <3>2
  <2>3. /\ instructor' \subseteq Instructors
        /\ teaches' \subseteq instructor' \X Class
        /\ offWhenMade' \subseteq instructor'
    BY <1>1, <2>1 DEF TeachingOK, TeachingTyped
  <2> QED
    BY <1>2, <2>2, <2>3, InstructorsMove
<1> QED
  BY <1>3, <1>4

LEMMA InstructorAddOK ==
  ASSUME Typed, TeachingOK, AccountsLast,
         NEW m \in Person, NEW pr \in Provider, NEW p \in Person, NEW cs \in SUBSET Class,
         instructor_add(m, pr, p, cs)
  PROVE  TeachingOK'
<1> DEFINE r == <<pr, p>>
<1>1. r[2] = p /\ r \in Instructors
  BY DEF Instructors
<1> HIDE DEF r
<1>2. /\ UNCHANGED <<officeOff, member, class>>
      /\ instructor' = instructor \cup {r} /\ teaches' = SetTaught(r, cs)
      /\ offWhenMade' = IF Exists(p) THEN MadeOff(r) ELSE offWhenMade
  BY DEF instructor_add, r
<1>3. offWhenMade \subseteq offWhenMade' /\ offWhenMade' \subseteq offWhenMade \cup {r}
  BY <1>2 DEF MadeOff
<1>4. \A q \in Person : Exists(q) => account'[q] = account[q]
  BY DEF instructor_add, Typed, AccountsTyped
<1>5. Exists(p)' /\ (Active(p)' \/ r \in offWhenMade')
  <2>1. CASE Exists(p)
    <3>1. offWhenMade' = IF Active(p) THEN offWhenMade ELSE offWhenMade \cup {r}
      BY <1>1, <1>2, <2>1 DEF MadeOff
    <3> QED
      BY <1>4, <2>1, <3>1 DEF Active, Exists
  <2>2. CASE ~Exists(p)
    <3>1. account'[p] = NewAccount("PROVIDER")
      BY <2>2 DEF instructor_add, Typed, AccountsTyped
    <3> QED
      BY <3>1, NewAccounts DEF Active, Exists, Role
  <2> QED
    BY <2>1, <2>2
<1>6. ASSUME NEW q \in instructor'
      PROVE  /\ Exists(q[2])'
             /\ Active(q[2])' \/ q[2] \in officeOff \/ q \in offWhenMade'
  <2>1. CASE q = r
    BY <1>1, <1>5, <2>1
  <2>2. CASE q \in instructor
    <3>1. q[2] \in Person /\ Exists(q[2]) /\ account'[q[2]] = account[q[2]]
      BY <1>4, <2>2, InstructorFields DEF TeachingOK
    <3> QED
      BY <1>3, <2>2, <3>1 DEF TeachingOK, NobodyLockedOut, Active, Exists
  <2> QED
    BY <1>2, <2>1, <2>2
<1>7. teaches' \subseteq instructor' \X Class
  BY <1>2 DEF SetTaught, TeachingOK, TeachingTyped
<1>8. instructor' \subseteq Instructors /\ offWhenMade' \subseteq instructor'
  BY <1>1, <1>2, <1>3 DEF TeachingOK, TeachingTyped
<1> QED
  BY <1>2, <1>6, <1>7, <1>8, InstructorsMove

LEMMA InstructorAddSelfOK ==
  ASSUME Typed, TeachingOK, AccountsLast,
         NEW m \in Person, NEW pr \in Provider, instructor_add_self(m, pr)
  PROVE  TeachingOK'
<1>1. /\ UNCHANGED <<account, officeOff, member, class, teaches, offWhenMade>>
      /\ instructor' = instructor \cup {<<pr, m>>}
      /\ Active(m)
  BY DEF instructor_add_self, Manages
<1>2. ASSUME NEW q \in instructor'
      PROVE  /\ Exists(q[2])'
             /\ Active(q[2])' \/ q[2] \in officeOff \/ q \in offWhenMade'
  <2>1. CASE q = <<pr, m>>
    BY <1>1, <2>1 DEF Active, Exists
  <2>2. CASE q \in instructor
    BY <1>1, <2>2, InstructorFields DEF TeachingOK, NobodyLockedOut, Active, Exists
  <2> QED
    BY <1>1, <2>1, <2>2
<1>3. instructor' \subseteq Instructors /\ teaches' \subseteq instructor' \X Class
      /\ offWhenMade' \subseteq instructor'
  BY <1>1 DEF TeachingOK, TeachingTyped, Instructors
<1> QED
  BY <1>1, <1>2, <1>3, InstructorsMove

LEMMA InstructorDetailOK ==
  ASSUME Typed, TeachingOK, AccountsLast,
         NEW m \in Person, NEW r \in instructor, NEW cs \in SUBSET Class, instructor_detail(m, r, cs)
  PROVE  TeachingOK'
<1>1. UNCHANGED <<account, officeOff, member, class, instructor, offWhenMade>>
  BY DEF instructor_detail
<1>2. teaches' \subseteq instructor' \X Class
  BY <1>1 DEF instructor_detail, SetTaught, TaughtBy, TeachingOK, TeachingTyped
<1>3. \A q \in instructor' : /\ Exists(q[2])'
                             /\ Active(q[2])' \/ q[2] \in officeOff \/ q \in offWhenMade'
  BY <1>1, InstructorFields DEF TeachingOK, NobodyLockedOut, Active, Exists
<1> QED
  BY <1>1, <1>2, <1>3, InstructorsMove DEF TeachingOK, TeachingTyped

(* Whose account is switched off with the last row is nobody's instructor. *)
LEMMA InstructorRemoveOK ==
  ASSUME Typed, TeachingOK, AccountsLast,
         NEW m \in Person, NEW r \in instructor, instructor_remove(m, r)
  PROVE  TeachingOK'
<1>1. /\ UNCHANGED <<officeOff, member, class>>
      /\ instructor' = instructor \ {r} /\ teaches' = Without(r) /\ offWhenMade' = offWhenMade \ {r}
  BY DEF instructor_remove
<1>2. ASSUME NEW q \in instructor'
      PROVE  /\ Exists(q[2])'
             /\ Active(q[2])' \/ q[2] \in officeOff \/ q \in offWhenMade'
  <2>1. q \in instructor /\ q # r /\ q[1] \in Provider /\ q[2] \in Person
        /\ q = <<q[1], q[2]>> /\ Exists(q[2])
    BY <1>1, InstructorFields DEF TeachingOK
  <2>2. q[2] = r[2] => still_used(r[2], m, instructor \ {r})
    BY <2>1 DEF still_used
  <2>3. account'[q[2]] = account[q[2]]
    BY <2>1, <2>2, RemovedAccount
  <2> QED
    BY <1>1, <2>1, <2>3 DEF TeachingOK, NobodyLockedOut, Active, Exists
<1>3. teaches' \subseteq instructor' \X Class
  BY <1>1, TeachesFields DEF Without, TeachingOK
<1> QED
  BY <1>1, <1>2, <1>3, InstructorsMove DEF TeachingOK, TeachingTyped

LEMMA SaveInstructorOK ==
  ASSUME Typed, TeachingOK, AccountsLast,
         NEW a \in Person, NEW r \in instructor, NEW pr \in Provider, NEW cs \in SUBSET Class,
         SaveInstructor(a, r, pr, cs)
  PROVE  TeachingOK'
<1> DEFINE s == <<pr, r[2]>>
<1>1. s \in Instructors /\ s[2] = r[2]
  BY InstructorFields DEF Instructors, TeachingOK
<1> HIDE DEF s
<1>2. /\ UNCHANGED <<account, officeOff, member, class>>
      /\ instructor' = (instructor \ {r}) \cup {s}
      /\ teaches' = Without(r) \cup ({s} \X cs)
      /\ offWhenMade' = IF r \in offWhenMade THEN (offWhenMade \ {r}) \cup {s} ELSE offWhenMade
  BY DEF SaveInstructor, s
<1>3. ASSUME NEW q \in instructor'
      PROVE  /\ Exists(q[2])'
             /\ Active(q[2])' \/ q[2] \in officeOff \/ q \in offWhenMade'
  <2>1. CASE q = s
    <3>1. r \in offWhenMade => q \in offWhenMade'
      BY <1>2, <2>1
    <3>2. Exists(r[2]) /\ (Active(r[2]) \/ r[2] \in officeOff \/ r \in offWhenMade)
      BY InstructorFields DEF TeachingOK, NobodyLockedOut
    <3> QED
      BY <1>1, <1>2, <2>1, <3>1, <3>2 DEF Active, Exists
  <2>2. CASE q \in instructor /\ q # r
    <3>1. Exists(q[2]) /\ (Active(q[2]) \/ q[2] \in officeOff \/ q \in offWhenMade)
      BY <2>2, InstructorFields DEF TeachingOK, NobodyLockedOut
    <3> QED
      BY <1>2, <2>2, <3>1 DEF Active, Exists
  <2> QED
    BY <1>2, <2>1, <2>2
<1>4. teaches' \subseteq instructor' \X Class
  BY <1>2, TeachesFields DEF Without, TeachingOK
<1>5. instructor' \subseteq Instructors /\ offWhenMade' \subseteq instructor'
  BY <1>1, <1>2 DEF TeachingOK, TeachingTyped
<1> QED
  BY <1>2, <1>3, <1>4, <1>5, InstructorsMove

(* The classes. *)
LEMMA ClassesMove ==
  ASSUME TeachingOK, UNCHANGED <<account, member, officeOff, instructor, offWhenMade>>,
         teaches' \subseteq instructor \X Class,
         class' \in [Class -> [provider : Provider, status : {"PUBLISHED", "ARCHIVED"}]]
  PROVE  TeachingOK'
BY DEF TeachingOK, TeachingTyped, NobodyLockedOut, Active, Exists

LEMMA ClassSaved ==
  ASSUME TeachingTyped, NEW c \in Class, NEW pr \in Provider,
         class' = [class EXCEPT ![c].provider = pr]
  PROVE  /\ class' \in [Class -> [provider : Provider, status : {"PUBLISHED", "ARCHIVED"}]]
         /\ class'[c].provider = pr
         /\ \A d \in Class : d # c => class'[d] = class[d]
BY DEF TeachingTyped

LEMMA StatusSaved ==
  ASSUME TeachingTyped, NEW c \in Class, NEW s \in {"PUBLISHED", "ARCHIVED"},
         class' = [class EXCEPT ![c].status = s]
  PROVE  /\ class' \in [Class -> [provider : Provider, status : {"PUBLISHED", "ARCHIVED"}]]
         /\ \A d \in Class : class'[d].provider = class[d].provider
<1> DEFINE saved == [class[c] EXCEPT !.status = s]
<1>1. saved \in [provider : Provider, status : {"PUBLISHED", "ARCHIVED"}]
      /\ saved.provider = class[c].provider
  BY DEF TeachingTyped
<1>2. class' = [class EXCEPT ![c] = saved]
  OBVIOUS
<1> HIDE DEF saved
<1> QED
  BY <1>1, <1>2 DEF TeachingTyped

LEMMA NextTeaching ==
  ASSUME PeopleAssumption, Typed, TeachingOK, [Next]_vars
  PROVE  TeachingOK'
<1>1. AccountsLast
  BY NextAccounts
<1>2. ASSUME UNCHANGED <<account, officeOff, teaching>> PROVE TeachingOK'
  BY <1>1, <1>2, AccountsMove DEF Typed
<1>3. CASE Families \/ UNCHANGED vars
  BY <1>1, <1>2, <1>3, SignupOK
     DEF Families, child_add, child_invite_guardian, CheckInvite, LinkGuardian, StampInvite,
         AcceptDies, InviteExpires, vars
<1>4. CASE ProviderPages
  BY <1>1, <1>4, InstructorAddOK, InstructorAddSelfOK, InstructorDetailOK, InstructorRemoveOK
     DEF ProviderPages
<1>5. CASE OfficeAccounts
  <2>1. ASSUME NEW a, NEW pr \in Provider, NEW p \in Person, SaveMember(a, pr, p)
        PROVE  TeachingOK'
    <3>1. /\ UNCHANGED <<account, officeOff, class, instructor, teaches, offWhenMade>>
          /\ member' \subseteq Provider \X Person
      BY <2>1 DEF SaveMember, TeachingOK, TeachingTyped
    <3> QED
      BY <3>1 DEF TeachingOK, TeachingTyped, NobodyLockedOut, Active, Exists
  <2> QED
    BY <1>1, <1>5, <2>1, AddUserOK, EditUserOK, SaveInlineOK DEF OfficeAccounts
<1>6. CASE OfficeForms
  <2>1. ASSUME NEW a, NEW c, NEW S, SaveGuardians(a, c, S) PROVE TeachingOK'
    BY <1>2, <2>1 DEF SaveGuardians
  <2>2. ASSUME NEW a \in Person, NEW r \in instructor, NEW pr \in Provider, NEW cs \in SUBSET Class,
               SaveInstructor(a, r, pr, cs)
        PROVE  TeachingOK'
    BY <1>1, <2>2, SaveInstructorOK
  <2>3. ASSUME NEW a, NEW c \in Class, NEW pr \in Provider, NEW rows \in SUBSET instructor, NEW S,
               SaveClass(a, c, pr, rows, S)
        PROVE  TeachingOK'
    <3>1. /\ UNCHANGED <<account, member, officeOff, instructor, offWhenMade>>
          /\ class' = [class EXCEPT ![c].provider = pr]
          /\ teaches' = {t \in teaches : t[2] # c} \cup (rows \X {c})
      BY <2>3 DEF SaveClass
    <3>2. teaches' \subseteq instructor \X Class
      BY <3>1 DEF TeachingOK, TeachingTyped
    <3> QED
      BY <3>1, <3>2, ClassSaved, ClassesMove DEF TeachingOK
  <2>4. ASSUME NEW a, NEW c, NEW S, NEW replace, assign_administrators(a, c, S, replace)
        PROVE  TeachingOK'
    BY <1>2, <2>4 DEF assign_administrators
  <2> QED
    BY <1>6, <2>1, <2>2, <2>3, <2>4 DEF OfficeForms
<1>7. CASE Deployment
  BY <1>1, <1>7, EnsureAdminOK DEF Deployment
<1>8. ASSUME NEW c \in Class, NEW pr \in Provider, upsert_class(c, pr) PROVE TeachingOK'
  BY <1>8, ClassSaved, ClassesMove DEF upsert_class, TeachingOK, TeachingTyped
<1>9. ASSUME NEW c \in Class, NEW s \in {"PUBLISHED", "ARCHIVED"}, SetStatus(c, s) PROVE TeachingOK'
  BY <1>9, StatusSaved, ClassesMove DEF SetStatus, TeachingOK, TeachingTyped
<1> QED
  BY <1>3, <1>4, <1>5, <1>6, <1>7, <1>8, <1>9 DEF Next, Classes

-----------------------------------------------------------------------------
(* The office's own. *)

LEMMA Edited == ASSUME DeskTyped, PeopleAssumption, OfficeEdit
                PROVE  office' \in 0..MaxOffice /\ office' # office
BY DEF DeskTyped, PeopleAssumption, OfficeEdit

LEMMA NextDesk ==
  ASSUME PeopleAssumption, Typed, [Next]_vars
  PROVE  DeskTyped'
<1>1. ASSUME UNCHANGED <<desk, officeOff>> PROVE DeskTyped'
  BY <1>1 DEF desk, Typed, DeskTyped
<1>2. ASSUME OfficeEdit, administers' \subseteq Person \X Class, officeOff' \subseteq Person
      PROVE  DeskTyped'
  BY <1>2, Edited DEF Typed, DeskTyped
<1>3. administers \subseteq Person \X Class /\ officeOff \subseteq Person
  BY DEF Typed, DeskTyped
<1>4. CASE Families \/ UNCHANGED vars
  BY <1>1, <1>4
     DEF Families, signup, child_add, child_invite_guardian, CheckInvite, LinkGuardian, StampInvite,
         AcceptDies, InviteExpires, vars
<1>5. CASE ProviderPages
  BY <1>1, <1>5
     DEF ProviderPages, instructor_add, instructor_add_self, instructor_detail, instructor_remove
<1>6. CASE OfficeAccounts
  <2>1. ASSUME NEW a, NEW p, NEW role, AddUser(a, p, role) PROVE DeskTyped'
    BY <1>2, <1>3, <2>1 DEF AddUser
  <2>2. ASSUME NEW a, NEW p \in Person, NEW new, EditUser(a, p, new) PROVE DeskTyped'
    BY <1>2, <1>3, <2>2 DEF EditUser
  <2>3. ASSUME NEW a, NEW p, NEW pr, SaveMember(a, pr, p) PROVE DeskTyped'
    BY <1>2, <1>3, <2>3 DEF SaveMember
  <2>4. ASSUME NEW a, NEW r, SaveInline(a, r) PROVE DeskTyped'
    BY <1>2, <1>3, <2>4 DEF SaveInline
  <2> QED
    BY <1>6, <2>1, <2>2, <2>3, <2>4 DEF OfficeAccounts
<1>7. CASE OfficeForms
  <2>1. ASSUME NEW a, NEW c, NEW S, SaveGuardians(a, c, S) PROVE DeskTyped'
    BY <1>2, <1>3, <2>1 DEF SaveGuardians
  <2>2. ASSUME NEW a, NEW r, NEW pr, NEW cs, SaveInstructor(a, r, pr, cs) PROVE DeskTyped'
    BY <1>2, <1>3, <2>2 DEF SaveInstructor
  <2>3. ASSUME NEW a, NEW c \in Class, NEW pr, NEW rows, NEW S \in SUBSET Person,
               SaveClass(a, c, pr, rows, S)
        PROVE  DeskTyped'
    <3>1. administers' = {l \in administers : l[2] # c} \cup (S \X {c}) /\ OfficeEdit
          /\ officeOff' = officeOff
      BY <2>3 DEF SaveClass
    <3> QED
      BY <1>2, <1>3, <3>1
  <2>4. ASSUME NEW a, NEW c \in Class, NEW S \in SUBSET Person, NEW replace,
               assign_administrators(a, c, S, replace)
        PROVE  DeskTyped'
    <3>1. administers' \subseteq administers \cup (S \X {c}) /\ OfficeEdit
          /\ officeOff' = officeOff
      BY <2>4 DEF assign_administrators
    <3> QED
      BY <1>2, <1>3, <3>1
  <2> QED
    BY <1>7, <2>1, <2>2, <2>3, <2>4 DEF OfficeForms
<1>8. CASE Deployment
  <2>1. UNCHANGED desk /\ officeOff' \subseteq officeOff
    BY <1>8 DEF Deployment, ensure_admin
  <2> QED
    BY <2>1 DEF desk, Typed, DeskTyped
<1>9. CASE Classes
  BY <1>1, <1>2, <1>3, <1>9 DEF Classes, upsert_class, SetStatus
<1> QED
  BY <1>4, <1>5, <1>6, <1>7, <1>8, <1>9 DEF Next

-----------------------------------------------------------------------------
(* The inductive invariant. *)

PeopleOK == Typed /\ TakenOff /\ NobodyLockedOut

LEMMA InitPeople == Init => PeopleOK
<1> SUFFICES ASSUME Init PROVE PeopleOK
  OBVIOUS
<1>1. AccountsTyped
  BY NewAccounts DEF Init, AccountsTyped, Role
<1>2. FamiliesTyped /\ TakenOff
  BY InitFamilies DEF FamiliesOK
<1>3. TeachingTyped /\ NobodyLockedOut
  BY PeopleAssumption DEF Init, TeachingTyped, NobodyLockedOut
<1>4. DeskTyped
  <2>1. administers \subseteq Person \X Class
    BY DEF Init, active_admins
  <2> QED
    BY <2>1, PeopleAssumption DEF Init, DeskTyped
<1> QED
  BY <1>1, <1>2, <1>3, <1>4 DEF PeopleOK, Typed

LEMMA NextPeople == PeopleOK /\ [Next]_vars => PeopleOK'
<1> SUFFICES ASSUME PeopleOK, [Next]_vars PROVE PeopleOK'
  OBVIOUS
<1>1. Typed /\ FamiliesOK /\ TeachingOK
  BY DEF PeopleOK, Typed, FamiliesOK, TeachingOK
<1>2. AccountsTyped' /\ DeskTyped'
  BY <1>1, PeopleAssumption, NextAccounts, NextDesk DEF AccountsLast
<1>3. FamiliesOK'
  BY <1>1, NextFamilies
<1>4. TeachingOK'
  BY <1>1, PeopleAssumption, NextTeaching
<1> QED
  BY <1>2, <1>3, <1>4 DEF PeopleOK, Typed, FamiliesOK, TeachingOK

(* Every variable has its type. *)
THEOREM TypeCorrect == Spec => []TypeOK
<1>1. ASSUME PeopleOK PROVE TypeOK
  <2>1. \A i \in DOMAIN invite : invite[i] \in Invite
    BY <1>1, InviteFields DEF PeopleOK, Typed
  <2>2. unlinked \subseteq Person \X Child
    BY <1>1 DEF PeopleOK, Typed, FamiliesTyped
  <2> QED
    BY <1>1, <2>1, <2>2
       DEF PeopleOK, Typed, AccountsTyped, FamiliesTyped, TeachingTyped, DeskTyped, TypeOK
<1> QED
  BY <1>1, InitPeople, NextPeople, PTL DEF Spec

(* An instructor can sign in unless the office switched the account off,   *)
(* however many providers take them on and let them go.                    *)
THEOREM InstructorsKeepAccess == Spec => []NobodyLockedOut
<1>1. PeopleOK => NobodyLockedOut
  BY DEF PeopleOK
<1> QED
  BY <1>1, InitPeople, NextPeople, PTL DEF Spec

(* An alert about a class goes to admins on duty, to somebody if there is  *)
(* one, and to people who see the class if any admin does.                 *)
THEOREM AlertsArrive == Spec => []AlertsReachTheOffice
<1>1. ASSUME PeopleOK, NEW c \in Class
      PROVE  /\ responsible_admins(c) \subseteq active_admins
             /\ active_admins # {} => responsible_admins(c) # {}
             /\ \A p \in responsible_admins(c) :
                  managed_by(p, c) \/ \A q \in active_admins : ~managed_by(q, c)
  <2> DEFINE assigned == {p \in active_admins : <<p, c>> \in administers}
  <2>1. \A p \in active_admins : Active(p) /\ account[p].role = "ADMIN" /\ p \in Person
    BY DEF active_admins, is_school_admin
  <2>2. CASE assigned # {}
    <3>1. responsible_admins(c) = assigned
      BY <2>2 DEF responsible_admins
    <3> QED
      BY <2>1, <2>2, <3>1 DEF managed_by
  <2>3. CASE assigned = {} /\ super_admins # {}
    <3>1. responsible_admins(c) = super_admins
      BY <2>3 DEF responsible_admins
    <3>2. \A p \in super_admins : p \in active_admins /\ managed_by(p, c)
      BY <2>1 DEF super_admins, managed_by, sees_everything
    <3> QED
      BY <2>3, <3>1, <3>2
  <2>4. CASE assigned = {} /\ super_admins = {}
    <3>1. responsible_admins(c) = active_admins
      BY <2>4 DEF responsible_admins
    <3>2. \A q \in active_admins : ~managed_by(q, c)
      BY <2>1, <2>4 DEF super_admins, managed_by, sees_everything
    <3> QED
      BY <3>1, <3>2
  <2> QED
    BY <2>2, <2>3, <2>4
<1>2. PeopleOK => AlertsReachTheOffice
  BY <1>1 DEF AlertsReachTheOffice
<1> QED
  BY <1>2, InitPeople, NextPeople, PTL DEF Spec

-----------------------------------------------------------------------------
(* How a class comes by its instructors, and what becomes of them. *)

LEMMA ClassFields ==
  ASSUME TeachingTyped, NEW c \in Class
  PROVE  class[c].provider \in Provider /\ class[c].status \in {"PUBLISHED", "ARCHIVED"}
BY DEF TeachingTyped

(* What a step does to one who teaches a class of another provider. *)
Explained(t) ==
  Stranger(t)' =>
    \/ t \in teaches /\ (Stranger(t) \/ class'[t[2]].provider # class[t[2]].provider)
    \/ \E r \in instructor \ instructor' : r[2] = t[1][2]

Archived(c) == class[c].status = "ARCHIVED"

(* What the provider's pages owe an archived class. *)
Remembered(t) ==
  office' = office => (Archived(t[2]) /\ t[1] \in instructor' => t \in teaches')

ExplainedStep == \A t \in teaches' : Explained(t)
RememberedStep == \A t \in teaches : Remembered(t)

LEMMA OnlyLeaving ==
  ASSUME teaches' \subseteq teaches, UNCHANGED class
  PROVE  ExplainedStep
BY DEF ExplainedStep, Explained, Stranger

LEMMA AddExplained ==
  ASSUME Typed, NEW m \in Person, NEW pr \in Provider, NEW p \in Person,
         NEW cs \in SUBSET Class, instructor_add(m, pr, p, cs)
  PROVE  ExplainedStep /\ RememberedStep
<1> DEFINE r == <<pr, p>>
<1>1. r[1] = pr
  OBVIOUS
<1> HIDE DEF r
<1>2. teaches' = {t \in teaches : t[1] # r} \cup ({r} \X cs) /\ UNCHANGED class
      /\ cs \subseteq assignable_classes(pr) /\ r \notin instructor
  BY DEF instructor_add, SetTaught, r
<1>3. ASSUME NEW t \in teaches' PROVE Explained(t)
  <2>1. CASE t \in teaches
    BY <1>2, <2>1 DEF Explained, Stranger
  <2>2. CASE t \in {r} \X cs
    <3>1. t[1] = r /\ class[t[2]].provider = pr
      BY <1>2, <2>2 DEF assignable_classes, ClassesOf
    <3> QED
      BY <1>1, <1>2, <3>1 DEF Explained, Stranger
  <2> QED
    BY <1>2, <2>1, <2>2
<1>4. \A t \in teaches : t \in teaches'
  BY <1>2, TeachesFields DEF Typed
<1> QED
  BY <1>3, <1>4 DEF ExplainedStep, RememberedStep, Remembered

LEMMA DetailExplained ==
  ASSUME Typed, NEW m \in Person, NEW r \in instructor, NEW cs \in SUBSET Class,
         instructor_detail(m, r, cs)
  PROVE  ExplainedStep /\ RememberedStep
<1> DEFINE kept == TaughtBy(r) \ assignable_classes(r[1])
<1>1. teaches' = {t \in teaches : t[1] # r} \cup ({r} \X (cs \cup kept)) /\ UNCHANGED class
      /\ cs \subseteq assignable_classes(r[1])
  BY DEF instructor_detail, SetTaught
<1>2. \A c \in kept : <<r, c>> \in teaches
  BY DEF TaughtBy
<1>3. \A c \in cs : class[c].provider = r[1]
  BY <1>1 DEF assignable_classes, ClassesOf
<1>4. \A c \in Class : <<r, c>> \in teaches /\ Archived(c) => c \in kept
  BY DEF TaughtBy, assignable_classes, Archived
<1> HIDE DEF kept
<1>5. ASSUME NEW t \in teaches' PROVE Explained(t)
  <2>1. CASE t \in teaches
    BY <1>1, <2>1 DEF Explained, Stranger
  <2>2. CASE t \in {r} \X (cs \cup kept) /\ t \notin teaches
    <3>1. t[1] = r /\ t[2] \in cs
      BY <1>2, <2>2
    <3> QED
      BY <1>1, <1>3, <3>1 DEF Explained, Stranger
  <2> QED
    BY <1>1, <2>1, <2>2
<1>6. ASSUME NEW t \in teaches, Archived(t[2]) PROVE t \in teaches'
  <2>1. t[2] \in Class /\ t = <<t[1], t[2]>>
    BY TeachesFields DEF Typed
  <2>2. CASE t[1] = r
    <3>1. t[2] \in kept
      BY <1>4, <1>6, <2>1, <2>2
    <3> QED
      BY <1>1, <2>1, <2>2, <3>1
  <2> QED
    BY <1>1, <2>2
<1> QED
  BY <1>5, <1>6 DEF ExplainedStep, RememberedStep, Remembered

LEMMA SaveInstructorExplained ==
  ASSUME Typed, NEW a \in Person, NEW r \in instructor, NEW pr \in Provider,
         NEW cs \in SUBSET Class, SaveInstructor(a, r, pr, cs)
  PROVE  ExplainedStep
<1> DEFINE s == <<pr, r[2]>>
<1>1. s[1] = pr /\ s[2] = r[2]
  OBVIOUS
<1> HIDE DEF s
<1>2. instructor' = (instructor \ {r}) \cup {s} /\ teaches' = Without(r) \cup ({s} \X cs)
      /\ UNCHANGED class /\ \A c \in cs : class[c].provider = r[1]
  BY DEF SaveInstructor, ClassesOf, s
<1>3. ASSUME NEW t \in teaches' PROVE Explained(t)
  <2>1. CASE t \in teaches
    BY <1>2, <2>1 DEF Explained, Stranger
  <2>2. CASE t \in {s} \X cs
    <3>1. t[1] = s /\ class'[t[2]].provider = r[1]
      BY <1>2, <2>2
    <3>2. CASE pr = r[1]
      BY <1>1, <3>1, <3>2 DEF Explained, Stranger
    <3>3. CASE pr # r[1]
      <4>1. r \in instructor \ instructor'
        BY <1>1, <1>2, <3>3
      <4> QED
        BY <1>1, <3>1, <4>1 DEF Explained
    <3> QED
      BY <3>2, <3>3
  <2> QED
    BY <1>2, <2>1, <2>2 DEF Without
<1> QED
  BY <1>3 DEF ExplainedStep

LEMMA SaveClassExplained ==
  ASSUME Typed, NEW a \in Person, NEW c \in Class, NEW pr \in Provider, NEW rows \in SUBSET instructor,
         NEW S \in SUBSET Person, SaveClass(a, c, pr, rows, S)
  PROVE  ExplainedStep
<1>1. /\ class' = [class EXCEPT ![c].provider = pr]
      /\ teaches' = {t \in teaches : t[2] # c} \cup (rows \X {c})
      /\ \A r \in rows : r[1] = pr
  BY DEF SaveClass, OwnInstructors
<1>2. class'[c].provider = pr /\ \A d \in Class : d # c => class'[d] = class[d]
  BY <1>1, ClassSaved DEF Typed
<1>3. ASSUME NEW t \in teaches' PROVE Explained(t)
  <2>1. CASE t \in teaches /\ t[2] # c
    BY <1>2, <2>1, TeachesFields DEF Explained, Stranger, Typed
  <2>2. CASE t \in rows \X {c}
    BY <1>1, <1>2, <2>2 DEF Explained, Stranger
  <2> QED
    BY <1>1, <2>1, <2>2
<1> QED
  BY <1>3 DEF ExplainedStep

LEMMA UpsertExplained ==
  ASSUME Typed, NEW c \in Class, NEW pr \in Provider, upsert_class(c, pr)
  PROVE  ExplainedStep
<1>1. class' = [class EXCEPT ![c].provider = pr] /\ teaches' = teaches
      /\ pr # class[c].provider
  BY DEF upsert_class
<1>2. class'[c].provider = pr /\ \A d \in Class : d # c => class'[d] = class[d]
  BY <1>1, ClassSaved DEF Typed
<1> QED
  BY <1>1, <1>2, TeachesFields DEF ExplainedStep, Explained, Stranger, Typed

LEMMA StatusExplained ==
  ASSUME Typed, NEW c \in Class, NEW s \in {"PUBLISHED", "ARCHIVED"}, SetStatus(c, s)
  PROVE  ExplainedStep
<1>1. class' = [class EXCEPT ![c].status = s] /\ teaches' = teaches
  BY DEF SetStatus
<1>2. \A d \in Class : class'[d].provider = class[d].provider
  BY <1>1, StatusSaved DEF Typed
<1> QED
  BY <1>1, <1>2, TeachesFields DEF ExplainedStep, Explained, Stranger, Typed

LEMMA NextExplained ==
  ASSUME PeopleAssumption, Typed, [Next]_vars
  PROVE  ExplainedStep /\ RememberedStep
<1>1. ASSUME UNCHANGED <<class, teaches>> PROVE ExplainedStep /\ RememberedStep
  BY <1>1, OnlyLeaving DEF RememberedStep, Remembered
<1>2. ASSUME OfficeEdit PROVE RememberedStep
  BY <1>2, Edited DEF Typed, RememberedStep, Remembered
<1>3. CASE Families \/ Deployment \/ UNCHANGED vars
  BY <1>1, <1>3
     DEF Families, signup, child_add, child_invite_guardian, CheckInvite, LinkGuardian, StampInvite,
         AcceptDies, InviteExpires, Deployment, ensure_admin, vars, teaching
<1>4. CASE ProviderPages
  <2>1. ASSUME NEW m, NEW r \in instructor, instructor_remove(m, r)
        PROVE  ExplainedStep /\ RememberedStep
    <3>1. teaches' = {t \in teaches : t[1] # r} /\ UNCHANGED class /\ instructor' = instructor \ {r}
      BY <2>1 DEF instructor_remove, Without
    <3> QED
      BY <3>1, OnlyLeaving DEF RememberedStep, Remembered
  <2>2. ASSUME NEW m, NEW pr, instructor_add_self(m, pr) PROVE ExplainedStep /\ RememberedStep
    BY <1>1, <2>2 DEF instructor_add_self
  <2> QED
    BY <1>4, <2>1, <2>2, AddExplained, DetailExplained DEF ProviderPages
<1>5. CASE OfficeAccounts
  <2>1. ASSUME NEW a, NEW r, SaveInline(a, r) PROVE ExplainedStep /\ RememberedStep
    <3>1. teaches' \subseteq teaches /\ UNCHANGED class /\ OfficeEdit
      BY <2>1 DEF SaveInline, Without
    <3> QED
      BY <1>2, <3>1, OnlyLeaving
  <2>2. ASSUME UNCHANGED teaching PROVE ExplainedStep /\ RememberedStep
    BY <1>1, <2>2 DEF teaching
  <2>3. ASSUME NEW a, NEW pr, NEW p, SaveMember(a, pr, p) PROVE ExplainedStep /\ RememberedStep
    BY <1>1, <2>3 DEF SaveMember
  <2> QED
    BY <1>5, <2>1, <2>2, <2>3 DEF OfficeAccounts, AddUser, EditUser
<1>6. CASE OfficeForms
  <2>1. ASSUME NEW a, NEW c, NEW S, SaveGuardians(a, c, S) PROVE ExplainedStep /\ RememberedStep
    BY <1>1, <2>1 DEF SaveGuardians, teaching
  <2>2. ASSUME NEW a \in Person, NEW r \in instructor, NEW pr \in Provider, NEW cs \in SUBSET Class,
               SaveInstructor(a, r, pr, cs)
        PROVE  ExplainedStep /\ RememberedStep
    <3>1. OfficeEdit
      BY <2>2 DEF SaveInstructor
    <3> QED
      BY <1>2, <2>2, <3>1, SaveInstructorExplained
  <2>3. ASSUME NEW a \in Person, NEW c \in Class, NEW pr \in Provider, NEW rows \in SUBSET instructor,
               NEW S \in SUBSET Person, SaveClass(a, c, pr, rows, S)
        PROVE  ExplainedStep /\ RememberedStep
    <3>1. OfficeEdit
      BY <2>3 DEF SaveClass
    <3> QED
      BY <1>2, <2>3, <3>1, SaveClassExplained
  <2>4. ASSUME NEW a, NEW c, NEW S, NEW replace, assign_administrators(a, c, S, replace)
        PROVE  ExplainedStep /\ RememberedStep
    BY <1>1, <2>4 DEF assign_administrators, teaching
  <2> QED
    BY <1>6, <2>1, <2>2, <2>3, <2>4 DEF OfficeForms
<1>7. ASSUME NEW c \in Class, NEW pr \in Provider, upsert_class(c, pr)
      PROVE  ExplainedStep /\ RememberedStep
  <2>1. OfficeEdit
    BY <1>7 DEF upsert_class
  <2> QED
    BY <1>2, <1>7, <2>1, UpsertExplained
<1>8. ASSUME NEW c \in Class, NEW s \in {"PUBLISHED", "ARCHIVED"}, SetStatus(c, s)
      PROVE  ExplainedStep /\ RememberedStep
  <2>1. teaches' = teaches
    BY <1>8 DEF SetStatus
  <2> QED
    BY <1>8, <2>1, StatusExplained DEF RememberedStep, Remembered
<1> QED
  BY <1>3, <1>4, <1>5, <1>6, <1>7, <1>8 DEF Next, Classes

(* A class has instructors of another provider only after it, or they,     *)
(* changed provider.                                                       *)
THEOREM StrangersExplained == Spec => StrangersByMovesOnly
<1>1. PeopleOK /\ [Next]_vars =>
        [\A t \in teaches' :
           Stranger(t)' =>
             \/ t \in teaches /\ (Stranger(t) \/ class'[t[2]].provider # class[t[2]].provider)
             \/ \E r \in instructor \ instructor' : r[2] = t[1][2]]_vars
  BY NextExplained, PeopleAssumption DEF PeopleOK, ExplainedStep, Explained
<1> QED
  BY <1>1, InitPeople, NextPeople, PTL DEF Spec, StrangersByMovesOnly

(* The provider's pages take nobody's name off an archived class, but of   *)
(* an instructor who leaves the provider.                                  *)
THEOREM HistoryRemembered == Spec => HistoryKeepsTeachers
<1>1. PeopleOK /\ [Next]_vars =>
        [office' = office =>
           \A t \in teaches : class[t[2]].status = "ARCHIVED" /\ t[1] \in instructor' => t \in teaches']_vars
  BY NextExplained, PeopleAssumption DEF PeopleOK, RememberedStep, Remembered, Archived
<1> QED
  BY <1>1, InitPeople, NextPeople, PTL DEF Spec, HistoryKeepsTeachers
=============================================================================
