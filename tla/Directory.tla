------------------------------ MODULE Directory ------------------------------
(***************************************************************************)
(* The people and the campuses of the organizations sharing the database:  *)
(* persons, their profiles, the guardians of students, and the campuses    *)
(* the catalog refers to.  The module also defines how every registry      *)
(* table is written, read and paged through; Registry adds the academic    *)
(* tables to it.                                                           *)
(*                                                                         *)
(* Rows are only ever inserted, never changed or deleted, so the checks a  *)
(* registration makes in earlier transactions still hold when it inserts   *)
(* its row, and a registration is one step here.  A request the code       *)
(* refuses changes nothing and is no step.                                 *)
(***************************************************************************)
EXTENDS Naturals, FiniteSets

CONSTANTS
    Administrator,  \* the tenant whose administrators are at work
    NewIds,         \* the identifiers new rows are given
    Codes,          \* codes and names: what rows of a tenant are unique by
    MaxRows,        \* bound on the registrations
    Limit,          \* the page size of the client paging through a table
    Stored          \* the rows stored before, by table

VARIABLES
    db,             \* the rows of every table
    registered,     \* the number of registrations
    walk            \* a client paging through one table

NoFilter == 99
NoRefs == << >>
NoPin == 0

(* A stored row: its owner, what it is unique by in its tenant, the rows   *)
(* the database holds it to (parents), the rows of other modules it only   *)
(* names (others), the column pages are ordered by, and its other data.    *)
Row(o, i, key, parents, others, rank, about) ==
    [id |-> i, organization |-> o, key |-> key, parents |-> parents,
     others |-> others, rank |-> rank, about |-> about]

Known(t) == {r.id : r \in db[t]}

(* Read one row by identifier, in the tenant asking for it. *)
Get(t, o, i) == {r \in db[t] : r.organization = o /\ r.id = i}
Exists(t, o, i) == Get(t, o, i) # {}

(* Insert one row: the primary key, the tenant's unique constraint and the *)
(* tenant-composite foreign keys must hold.                                *)
Add(t, row) ==
    /\ registered < MaxRows
    /\ \A r \in db[t] :
         /\ r.id # row.id
         /\ <<r.organization, r.key>> # <<row.organization, row.key>>
    /\ \A c \in DOMAIN row.parents : Exists(c, row.organization, row.parents[c])
    /\ db' = [db EXCEPT ![t] = @ \union {row}]
    /\ registered' = registered + 1
    /\ UNCHANGED walk

-----------------------------------------------------------------------------
(* Campuses. *)

CampusRow(o, i, b) == Row(o, i, <<b.code>>, NoRefs, NoRefs, b.code, "active")
SaveCampus(row) == Add("campus", row)
CreateCampus(o) ==
    \E i \in NewIds, b \in [code : Codes] : SaveCampus(CampusRow(o, i, b))

(* What the catalog asks before it refers to a campus.  No operation ever  *)
(* makes a campus inactive, but some are stored so.                        *)
CampusExists(o, i) == \E r \in Get("campus", o, i) : r.about = "active"

-----------------------------------------------------------------------------
(* Persons and their profiles. *)

ProfileKinds == {"student", "staff", "teacher", "guardian"}

(* A person is stored with the digest of its national identifier; before   *)
(* the digest was bound to the tenant it had another form.                 *)
Digest(pin) == <<"tenant", pin>>
LegacyDigest(pin) == <<"legacy", pin>>

PersonRow(o, i, b) ==
    Row(o, i, IF b.pin = NoPin THEN <<"unknown", i>> ELSE Digest(b.pin),
        NoRefs, NoRefs, b.name, b.pin)

(* The new form is unique by constraint, the old one by looking first. *)
AddPerson(row) ==
    /\ \A r \in db["person"] :
         r.organization = row.organization /\ row.about # NoPin
           => r.key \notin {Digest(row.about), LegacyDigest(row.about)}
    /\ Add("person", row)

CreatePerson(o) ==
    \E i \in NewIds, b \in [pin : Codes \union {NoPin}, name : Codes] :
      AddPerson(PersonRow(o, i, b))

ProfileRow(o, i, b) ==
    Row(o, i, <<b.person, b.kind>>, [person |-> b.person], NoRefs, registered,
        b.kind)
SaveProfile(row) == Add("profile", row)
AddProfile(row) ==
    /\ Exists("person", row.organization, row.parents["person"])
    /\ SaveProfile(row)
CreateProfile(o) ==
    \E i \in NewIds, b \in [person : Known("person"), kind : ProfileKinds] :
      AddProfile(ProfileRow(o, i, b))

(* Read a profile of one kind, in the tenant asking for it. *)
GetProfile(o, i, kind) == {r \in Get("profile", o, i) : r.about = kind}
ExistingProfiles(o, ids, kind) ==
    {i \in ids : GetProfile(o, i, kind) # {}}
TeacherProfileExists(o, i) == i \in ExistingProfiles(o, {i}, "teacher")
StudentProfileExists(o, i) == i \in ExistingProfiles(o, {i}, "student")

-----------------------------------------------------------------------------
(* Guardians. *)

LinkRow(o, i, b) ==
    Row(o, i, <<b.guardian, b.student>>, NoRefs,
        [guardian |-> b.guardian, student |-> b.student], i, "link")

(* The database holds both ends to profiles of the tenant, of any kind. *)
AddGuardianRelationship(row) ==
    /\ \A c \in DOMAIN row.others :
         Exists("profile", row.organization, row.others[c])
    /\ Add("link", row)

LinkGuardian(row) ==
    /\ GetProfile(row.organization, row.others["guardian"], "guardian") # {}
    /\ GetProfile(row.organization, row.others["student"], "student") # {}
    /\ AddGuardianRelationship(row)

CreateGuardianRelationship(o) ==
    \E i \in NewIds,
       b \in [guardian : Known("profile"), student : Known("profile")] :
      LinkGuardian(LinkRow(o, i, b))

RegisterPeople(o) ==
    \/ CreateCampus(o)
    \/ CreatePerson(o)
    \/ CreateProfile(o)
    \/ CreateGuardianRelationship(o)

-----------------------------------------------------------------------------
(* Paging: a page is the rows at offset .. offset + Limit - 1 of the       *)
(* tenant's rows in the table's order.                                     *)

(* Pages are ordered by the table's own column and then by identifier, so  *)
(* that the order is total.                                                *)
PageBefore(q, r) == q.rank < r.rank \/ (q.rank = r.rank /\ q.id < r.id)
Page(rows, offset) ==
    {r \in rows : LET at == Cardinality({q \in rows : PageBefore(q, r)})
                  IN  offset <= at /\ at < offset + Limit}
OfTenant(t, o) == {r \in db[t] : r.organization = o}
Below(t, o, c, i) ==
    {r \in OfTenant(t, o) :
       i = NoFilter \/ (c \in DOMAIN r.parents /\ r.parents[c] = i)
                    \/ (c \in DOMAIN r.others /\ r.others[c] = i)}

PeoplePage(o, offset) == Page(OfTenant("person", o), offset)
ProfilesPage(o, kind, offset) ==
    Page({r \in OfTenant("profile", o) : r.about = kind}, offset)
=============================================================================
