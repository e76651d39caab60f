------------------------------- MODULE People -------------------------------
(***************************************************************************)
(* The accounts and what they are to a child, a provider and a class:      *)
(* guardians and the invitations that make them, the members of a provider *)
(* and its instructors, the administrators of a class and whom its alerts  *)
(* go to (apps/accounts, apps/catalog/models.py, the provider's and the    *)
(* parents' pages, the office's forms).                                    *)
(*                                                                         *)
(* An e-mail address is the person who reads it; upper and lower case are  *)
(* not told apart, as in the code.  is_staff is left out: a school admin's *)
(* save sets it.  A step is one request, but for the acceptance of an      *)
(* invitation, which checks, links and stamps in statements of its own.    *)
(***************************************************************************)
EXTENDS Integers, Sequences, FiniteSets

CONSTANTS
  Person,      \* people, and their addresses
  Child,
  Provider,
  Class,
  Founder,     \* whom ensure_admin is run for at deployment
  Deputy,      \* whom the office may have as a second admin
  Organiser,   \* the first provider account, and ...
  Academy,     \* ... the provider it runs
  MaxInvites,  \* bound: invitations sent to guardians
  MaxOffice    \* bound: edits the office makes in the admin

ASSUME PeopleAssumption ==
  /\ Founder \in Person /\ Deputy \in Person /\ Organiser \in Person
  /\ Cardinality({Founder, Deputy, Organiser}) = 3
  /\ Academy \in Provider
  /\ MaxInvites \in Nat /\ MaxOffice \in Nat

VARIABLES
  account,     \* the User rows, by address
  children,    \* the Child rows
  guardian,    \* the Guardian rows: <<person, child>>
  invite,      \* the GuardianInvite rows, by the order they were sent in
  accepting,   \* acceptances between two of their statements
  member,      \* Provider.members: <<provider, person>>
  instructor,  \* the Instructor rows: <<provider, person>>
  class,       \* provider and status of each class
  teaches,     \* ActivityClass.instructors: <<instructor, class>>
  administers, \* ActivityClass.administrators: <<person, class>>
  office,      \* edits the office has made
  officeOff,   \* people the office has switched off
  offWhenMade, \* instructors made of an account that was off already
  unlinked     \* links the office took away that nothing was left to restore

families == <<children, guardian, invite, accepting, unlinked>>
teaching == <<member, instructor, class, teaches, offWhenMade>>
desk == <<administers, office>>
vars == <<account, officeOff, families, teaching, desk>>

Role == {"ADMIN", "READONLY", "PROVIDER", "PARENT"}
Family_Roles == {"PARENT", "ADMIN", "READONLY"}
NoAccount == [role |-> "none"]
Account == [role : Role, active : BOOLEAN, super : BOOLEAN]
NewAccount(role) == [role |-> role, active |-> TRUE, super |-> FALSE]
SuperAdmin == [role |-> "ADMIN", active |-> TRUE, super |-> TRUE]

Instructors == Provider \X Person
Invite == [child : Child, email : Person, state : {"open", "accepted", "expired"}]

TypeOK ==
  /\ account \in [Person -> Account \cup {NoAccount}]
  /\ children \subseteq Child
  /\ guardian \subseteq Person \X children
  /\ Len(invite) <= MaxInvites /\ \A i \in DOMAIN invite : invite[i] \in Invite
  /\ accepting \subseteq Person \X (1..MaxInvites) \X {"checked", "linked"}
  /\ member \subseteq Provider \X Person
  /\ instructor \subseteq Instructors
  /\ class \in [Class -> [provider : Provider, status : {"PUBLISHED", "ARCHIVED"}]]
  /\ teaches \subseteq instructor \X Class
  /\ administers \subseteq Person \X Class
  /\ office \in 0..MaxOffice
  /\ officeOff \subseteq Person
  /\ offWhenMade \subseteq instructor
  /\ unlinked \subseteq Person \X Child

(***************************************************************************)
(* Who may do what.                                                        *)
(***************************************************************************)

Exists(p) == account[p] # NoAccount
Active(p) == Exists(p) /\ account[p].active

(* User.is_parent, behind parent_required. *)
is_parent(p) == Active(p) /\ account[p].role \in Family_Roles

(* is_school_admin, and what has_perm leaves to a superuser. *)
is_school_admin(p) == Active(p) /\ account[p].role = "ADMIN"
IsSuperuser(p) == Active(p) /\ account[p].super /\ account[p].role # "READONLY"
sees_everything(p) == Active(p) /\ (account[p].super \/ account[p].role = "READONLY")

(* Provider.objects.managed_by, behind provider_required. *)
Manages(p, pr) == Active(p) /\ account[p].role = "PROVIDER" /\ <<pr, p>> \in member

active_admins == {p \in Person : is_school_admin(p)}
super_admins == {p \in active_admins : account[p].super}

(* Mutant: whoever is assigned is written to, on duty or not. *)
ResponsibleAsAssigned(c) ==
  LET assigned == {p \in Person : <<p, c>> \in administers}
  IN  IF assigned # {} THEN assigned ELSE IF super_admins # {} THEN super_admins ELSE active_admins

responsible_admins(c) ==
  LET assigned == {p \in active_admins : <<p, c>> \in administers}
  IN  IF assigned # {} THEN assigned ELSE IF super_admins # {} THEN super_admins ELSE active_admins

(* ActivityClass.objects.managed_by: the class is on the admin's dashboard. *)
managed_by(p, c) == sees_everything(p) \/ (Active(p) /\ <<p, c>> \in administers)

(***************************************************************************)
(* Accounts.                                                               *)
(***************************************************************************)

OfficeEdit == office < MaxOffice /\ office' = office + 1

signup(p) ==
  /\ ~Exists(p)
  /\ account' = [account EXCEPT ![p] = NewAccount("PARENT")]
  /\ UNCHANGED <<officeOff, families, teaching, desk>>

AddUser(a, p, role) ==
  /\ IsSuperuser(a) /\ ~Exists(p) /\ OfficeEdit
  /\ account' = [account EXCEPT ![p] = NewAccount(role)]
  /\ UNCHANGED <<officeOff, families, teaching, administers>>

(* UserAdmin, with User.clean. *)
EditUser(a, p, new) ==
  /\ IsSuperuser(a) /\ Exists(p) /\ OfficeEdit
  /\ new # account[p]
  /\ ~(new.super /\ new.role = "READONLY")
  /\ account' = [account EXCEPT ![p] = new]
  /\ officeOff' = IF new.active THEN officeOff \ {p}
                  ELSE IF account[p].active THEN officeOff \cup {p} ELSE officeOff
  /\ UNCHANGED <<families, teaching, administers>>

(* Run by hand or at a deployment, for the address in ADMIN_EMAIL. *)
ensure_admin ==
  /\ account[Founder] # SuperAdmin
  /\ account' = [account EXCEPT ![Founder] = SuperAdmin]
  /\ officeOff' = officeOff \ {Founder}
  /\ UNCHANGED <<families, teaching, desk>>

(***************************************************************************)
(* Families.                                                               *)
(***************************************************************************)

child_add(p, c) ==
  /\ is_parent(p) /\ c \notin children
  /\ children' = children \cup {c}
  /\ guardian' = guardian \cup {<<p, c>>}
  /\ UNCHANGED <<account, officeOff, invite, accepting, unlinked, teaching, desk>>

child_invite_guardian(p, c, email) ==
  /\ is_parent(p) /\ <<p, c>> \in guardian
  /\ <<email, c>> \notin guardian
  /\ Len(invite) < MaxInvites
  /\ invite' = Append(invite, [child |-> c, email |-> email, state |-> "open"])
  /\ unlinked' = unlinked \ {<<email, c>>}
  /\ UNCHANGED <<account, officeOff, children, guardian, accepting, teaching, desk>>

(* Mutant: an invitation once accepted stays good. *)
ValidUsed(i) == i \in DOMAIN invite /\ invite[i].state # "expired"

valid_invite(i) == i \in DOMAIN invite /\ invite[i].state = "open"

(* accept_guardian_invite: the checks, ... *)
CheckInvite(p, i) ==
  /\ valid_invite(i) /\ is_parent(p) /\ invite[i].email = p
  /\ accepting' = accepting \cup {<<p, i, "checked">>}
  /\ UNCHANGED <<account, officeOff, children, guardian, invite, unlinked, teaching, desk>>

(* ... get_or_create of the link, ... *)
LinkGuardian(p, i) ==
  /\ <<p, i, "checked">> \in accepting
  /\ guardian' = guardian \cup {<<p, invite[i].child>>}
  /\ accepting' = (accepting \ {<<p, i, "checked">>}) \cup {<<p, i, "linked">>}
  /\ UNCHANGED <<account, officeOff, children, invite, unlinked, teaching, desk>>

(* ... and the stamp that uses the invitation up. *)
StampInvite(p, i) ==
  /\ <<p, i, "linked">> \in accepting
  /\ invite' = [invite EXCEPT ![i].state = "accepted"]
  /\ accepting' = accepting \ {<<p, i, "linked">>}
  /\ UNCHANGED <<account, officeOff, children, guardian, unlinked, teaching, desk>>

(* The process dies on the way; what is written is committed. *)
AcceptDies(x) ==
  /\ x \in accepting
  /\ accepting' = accepting \ {x}
  /\ UNCHANGED <<account, officeOff, children, guardian, invite, unlinked, teaching, desk>>

(* INVITE_TTL_DAYS have gone by. *)
InviteExpires(i) ==
  /\ valid_invite(i)
  /\ invite' = [invite EXCEPT ![i].state = "expired"]
  /\ UNCHANGED <<account, officeOff, children, guardian, accepting, unlinked, teaching, desk>>

(* GuardianInline. *)
SaveGuardians(a, c, people) ==
  LET gone == {l \in guardian : l[2] = c /\ l[1] \notin people}
      Restorable(l) ==
        \/ \E i \in DOMAIN invite : invite[i] = [child |-> c, email |-> l[1], state |-> "open"]
        \/ \E x \in accepting : x[1] = l[1] /\ invite[x[2]].child = c
  IN  /\ IsSuperuser(a) /\ OfficeEdit
      /\ c \in children /\ \A p \in people : Exists(p)
      /\ guardian' = {l \in guardian : l[2] # c} \cup (people \X {c})
      /\ guardian' # guardian
      /\ unlinked' = (unlinked \ guardian') \cup {l \in gone : ~Restorable(l)}
      /\ UNCHANGED <<account, officeOff, children, invite, accepting, teaching, administers>>

(***************************************************************************)
(* Providers, instructors and who teaches what.                            *)
(***************************************************************************)

ClassesOf(pr) == {c \in Class : class[c].provider = pr}

assignable_classes(pr) == {c \in ClassesOf(pr) : class[c].status # "ARCHIVED"}

TaughtBy(r) == {c \in Class : <<r, c>> \in teaches}
SetTaught(r, cs) == {t \in teaches : t[1] # r} \cup ({r} \X cs)

(* Django's cascade: the row and its classes go. *)
Without(r) == {t \in teaches : t[1] # r}

(* ProviderAdmin: the accounts of the provider, and its instructors inline. *)
SaveMember(a, pr, p) ==
  /\ IsSuperuser(a) /\ Exists(p) /\ OfficeEdit
  /\ member' = IF <<pr, p>> \in member THEN member \ {<<pr, p>>} ELSE member \cup {<<pr, p>>}
  /\ UNCHANGED <<account, officeOff, families, instructor, class, teaches, offWhenMade, administers>>

MadeOff(r) == IF Active(r[2]) THEN offWhenMade ELSE offWhenMade \cup {r}

SaveInline(a, r) ==
  /\ IsSuperuser(a) /\ Exists(r[2]) /\ OfficeEdit
  /\ IF r \in instructor
     THEN instructor' = instructor \ {r} /\ teaches' = Without(r) /\ offWhenMade' = offWhenMade \ {r}
     ELSE instructor' = instructor \cup {r} /\ UNCHANGED teaches /\ offWhenMade' = MadeOff(r)
  /\ UNCHANGED <<account, officeOff, families, member, class, administers>>

instructor_add(m, pr, p, cs) ==
  /\ Manages(m, pr) /\ <<pr, p>> \notin instructor
  /\ Exists(p) => account[p].role = "PROVIDER"
  /\ cs \subseteq assignable_classes(pr)
  /\ account' = [account EXCEPT ![p] = IF Exists(p) THEN @ ELSE NewAccount("PROVIDER")]
  /\ instructor' = instructor \cup {<<pr, p>>}
  /\ teaches' = SetTaught(<<pr, p>>, cs)
  /\ offWhenMade' = IF Exists(p) THEN MadeOff(<<pr, p>>) ELSE offWhenMade
  /\ UNCHANGED <<officeOff, families, member, class, desk>>

instructor_add_self(m, pr) ==
  /\ Manages(m, pr) /\ <<pr, m>> \notin instructor
  /\ instructor' = instructor \cup {<<pr, m>>}
  /\ UNCHANGED <<account, officeOff, families, member, class, teaches, offWhenMade, desk>>

(* Mutant: what is ticked is all there is. *)
DetailSetsAll(m, r, cs) ==
  /\ r \in instructor /\ Manages(m, r[1])
  /\ cs \subseteq assignable_classes(r[1])
  /\ teaches' = SetTaught(r, cs)
  /\ UNCHANGED <<account, officeOff, families, member, instructor, class, offWhenMade, desk>>

(* InstructorClassesForm: the classes that are not on offer are kept. *)
instructor_detail(m, r, cs) ==
  /\ r \in instructor /\ Manages(m, r[1])
  /\ cs \subseteq assignable_classes(r[1])
  /\ teaches' = SetTaught(r, cs \cup (TaughtBy(r) \ assignable_classes(r[1])))
  /\ UNCHANGED <<account, officeOff, families, member, instructor, class, offWhenMade, desk>>

(* Mutant: only the memberships are looked at. *)
UsedAsMember(p, m, rows) == p = m \/ \E pr \in Provider : <<pr, p>> \in member

still_used(p, m, rows) ==
  p = m \/ \E pr \in Provider : <<pr, p>> \in member \/ <<pr, p>> \in rows

instructor_remove(m, r) ==
  LET p == r[2] IN
  /\ r \in instructor /\ Manages(m, r[1])
  /\ instructor' = instructor \ {r}
  /\ teaches' = Without(r)
  /\ offWhenMade' = offWhenMade \ {r}
  /\ account' = IF still_used(p, m, instructor \ {r}) THEN account
                ELSE [account EXCEPT ![p].active = FALSE]
  /\ UNCHANGED <<officeOff, families, member, class, desk>>

(* InstructorAdminForm: the classes offered are those of the provider the  *)
(* row had when the form was opened, whatever provider it is saved with.   *)
SaveInstructor(a, r, pr, cs) ==
  /\ IsSuperuser(a) /\ OfficeEdit
  /\ r \in instructor /\ (pr # r[1] => <<pr, r[2]>> \notin instructor)
  /\ cs \subseteq ClassesOf(r[1])
  /\ instructor' = (instructor \ {r}) \cup {<<pr, r[2]>>}
  /\ teaches' = Without(r) \cup ({<<pr, r[2]>>} \X cs)
  /\ offWhenMade' = IF r \in offWhenMade THEN (offWhenMade \ {r}) \cup {<<pr, r[2]>>} ELSE offWhenMade
  /\ UNCHANGED <<account, officeOff, families, member, class, administers>>

(***************************************************************************)
(* The class: its provider, its instructors and its administrators.        *)
(***************************************************************************)

(* Mutant: the form does not look at the provider it saves. *)
OwnAtOpening(rows, c, pr) == \A r \in rows : r[1] = class[c].provider

(* ActivityClassForm: the rows offered when it was opened, and clean. *)
OwnInstructors(rows, c, pr) == \A r \in rows : r[1] = class[c].provider /\ r[1] = pr

SaveClass(a, c, pr, rows, admins) ==
  /\ IsSuperuser(a) \/ (is_school_admin(a) /\ <<a, c>> \in administers)
  /\ OfficeEdit
  /\ rows \subseteq instructor /\ OwnInstructors(rows, c, pr)
  /\ IF IsSuperuser(a) THEN admins \subseteq active_admins
     ELSE admins = {p \in Person : <<p, c>> \in administers}
  /\ class' = [class EXCEPT ![c].provider = pr]
  /\ teaches' = {t \in teaches : t[2] # c} \cup (rows \X {c})
  /\ administers' = {l \in administers : l[2] # c} \cup (admins \X {c})
  /\ UNCHANGED <<account, officeOff, families, member, instructor, offWhenMade>>

(* The MCP tool sets the provider and leaves the instructors alone. *)
upsert_class(c, pr) ==
  /\ pr # class[c].provider /\ OfficeEdit
  /\ class' = [class EXCEPT ![c].provider = pr]
  /\ UNCHANGED <<account, officeOff, families, member, instructor, teaches, offWhenMade, administers>>

SetStatus(c, status) ==
  /\ status # class[c].status
  /\ class' = [class EXCEPT ![c].status = status]
  /\ UNCHANGED <<account, officeOff, families, member, instructor, teaches, offWhenMade, desk>>

assign_administrators(a, c, admins, replace) ==
  /\ IsSuperuser(a) /\ OfficeEdit
  /\ admins # {} /\ admins \subseteq active_admins
  /\ administers' = (IF replace THEN {l \in administers : l[2] # c} ELSE administers) \cup (admins \X {c})
  /\ UNCHANGED <<account, officeOff, families, teaching>>

(***************************************************************************)
(* The specification: the office has run ensure_admin, opened an academy   *)
(* with its first class, and may have a second admin by then.              *)
(***************************************************************************)

Init ==
  /\ account \in {[p \in Person |-> CASE p = Founder -> SuperAdmin
                                      [] p = Organiser -> NewAccount("PROVIDER")
                                      [] p = Deputy -> deputy
                                      [] OTHER -> NoAccount] :
                     deputy \in {NoAccount, NewAccount("ADMIN")}}
  /\ administers \in {S \X Class : S \in SUBSET active_admins}
  /\ children = {} /\ guardian = {} /\ invite = <<>> /\ accepting = {} /\ unlinked = {}
  /\ member = {<<Academy, Organiser>>}
  /\ instructor = {} /\ teaches = {} /\ offWhenMade = {}
  /\ class = [c \in Class |-> [provider |-> Academy, status |-> "PUBLISHED"]]
  /\ office = 0 /\ officeOff = {}

Families ==
  \/ \E p \in Person : signup(p)
  \/ \E p \in Person, c \in Child : child_add(p, c) \/ \E e \in Person : child_invite_guardian(p, c, e)
  \/ \E p \in Person, i \in DOMAIN invite : CheckInvite(p, i) \/ LinkGuardian(p, i) \/ StampInvite(p, i)
  \/ \E x \in accepting : AcceptDies(x)
  \/ \E i \in DOMAIN invite : InviteExpires(i)

ProviderPages ==
  \E m \in Person :
    \/ \E pr \in Provider :
         \/ instructor_add_self(m, pr)
         \/ \E p \in Person, cs \in SUBSET Class : instructor_add(m, pr, p, cs)
    \/ \E r \in instructor :
         instructor_remove(m, r) \/ \E cs \in SUBSET Class : instructor_detail(m, r, cs)

OfficeAccounts ==
  /\ office < MaxOffice
  /\ \E a, p \in Person :
       \/ \E role \in Role : AddUser(a, p, role)
       \/ \E new \in Account : EditUser(a, p, new)
       \/ \E pr \in Provider : SaveMember(a, pr, p) \/ SaveInline(a, <<pr, p>>)

OfficeForms ==
  /\ office < MaxOffice
  /\ \E a \in {p \in Person : IsSuperuser(p) \/ is_school_admin(p)} :
       \/ \E c \in Child, S \in SUBSET Person : SaveGuardians(a, c, S)
       \/ \E r \in instructor, pr \in Provider, cs \in SUBSET Class : SaveInstructor(a, r, pr, cs)
       \/ \E c \in Class, S \in SUBSET Person :
            \/ \E pr \in Provider, rows \in SUBSET instructor : SaveClass(a, c, pr, rows, S)
            \/ \E replace \in BOOLEAN : assign_administrators(a, c, S, replace)

Deployment == ensure_admin

Classes ==
  \E c \in Class :
    \/ \E pr \in Provider : upsert_class(c, pr)
    \/ \E status \in {"PUBLISHED", "ARCHIVED"} : SetStatus(c, status)

Next == Families \/ ProviderPages \/ OfficeAccounts \/ OfficeForms \/ Deployment \/ Classes

Spec == Init /\ [][Next]_vars

(***************************************************************************)
(* Properties.                                                             *)
(***************************************************************************)

(* However accounts are demoted, switched off and classes handed over, an  *)
(* alert goes to active school admins only, to somebody as long as there   *)
(* is one, and to people who have the class on their dashboard unless      *)
(* nobody in the office has.                                               *)
AlertsReachTheOffice ==
  \A c \in Class :
    /\ responsible_admins(c) \subseteq active_admins
    /\ active_admins # {} => responsible_admins(c) # {}
    /\ \A p \in responsible_admins(c) :
         managed_by(p, c) \/ \A q \in active_admins : ~managed_by(q, c)

(* A guardian the office has taken off a child, with no invitation of      *)
(* theirs open or being accepted at that moment, stays off until somebody  *)
(* invites or links them anew: a used invitation does not come back, with  *)
(* any order of double clicks, crashes and expiries.                       *)
RemovedStaysRemoved == guardian \cap unlinked = {}

(* An instructor can sign in, unless the office switched the account off,  *)
(* or the profile was made of an account that was off already: removing    *)
(* somebody from one provider never locks them out of another.             *)
NobodyLockedOut ==
  \A r \in instructor : Active(r[2]) \/ r[2] \in officeOff \/ r \in offWhenMade

Stranger(t) == t[1][1] # class[t[2]].provider

(* A class has instructors of another provider only after it, or they,     *)
(* changed provider: no form that assigns instructors brings one in.       *)
StrangersByMovesOnly ==
  [][\A t \in teaches' :
       Stranger(t)' =>
         \/ t \in teaches /\ (Stranger(t) \/ class'[t[2]].provider # class[t[2]].provider)
         \/ \E r \in instructor \ instructor' : r[2] = t[1][2]]_vars

(* The provider's pages leave the record of an archived class alone, but   *)
(* for an instructor who is taken off the provider altogether.             *)
HistoryKeepsTeachers ==
  [][office' = office =>
       \A t \in teaches : class[t[2]].status = "ARCHIVED" /\ t[1] \in instructor' => t \in teaches']_vars

=============================================================================
