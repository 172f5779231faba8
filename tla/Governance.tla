----------------------------- MODULE Governance -----------------------------
(***************************************************************************)
(* Who may govern: the platform administrators of Identity and the         *)
(* memberships of one organization in People, its owners among them.       *)
(*                                                                         *)
(* A call on a membership reads it without locks, plans the change,        *)
(* records its intent and then, in one transaction, locks and reads again: *)
(* the one membership row, or every owner row of the organization in the   *)
(* order of their identifiers when an owner is suspended or revoked.  The  *)
(* change is decided anew on what the locked rows say.  A change of the    *)
(* administrators counts and writes under one advisory lock.               *)
(*                                                                         *)
(* Roles other than ORGANIZATION_OWNER are left out: no rule here asks for *)
(* them once an actor has been admitted.  Every call first passes the      *)
(* check of its session in Sessions; whose session it is is left open.     *)
(***************************************************************************)
EXTENDS Sessions, FiniteSets

CONSTANTS Subjects, Members

\* The rows of a table, locked in the order of their identifiers.
ASSUME MembersAssumption == Members \subseteq Nat /\ IsFiniteSet(Members)

VARIABLES
    admins,     \* the subjects of active platform_administrators rows
    members,    \* organization_memberships
    pc, request,   \* each call's progress, and its operation and target
    wanted,     \* the rows its locking statement selected
    seen        \* the rows it has locked, as they were read then

rows == <<admins, members>>
progress == <<pc, request, wanted, seen>>
governance == <<rows, progress>>
vars == <<svars, governance>>

OwnerOps == {"suspendOwner", "revokeOwner"}
TenantOps == {"suspend", "reactivate", "revoke", "replaceRoles"}
RowOps == {"recover"} \cup TenantOps
AddOps == {"appoint", "create"}
AdminOps == {"bootstrap", "assign", "revokeAdmin"}

Statuses == {"absent", "active", "suspended", "revoked"}
Membership == [status : Statuses, owner : BOOLEAN]
Absent == [status |-> "absent", owner |-> FALSE]
Founder == [status |-> "active", owner |-> TRUE]

MembershipRequests == [op : OwnerOps \cup RowOps \cup AddOps, target : Members]
AdminRequests == [op : AdminOps, target : Subjects]
NoRequest == [op |-> "none"]

Nothing == [m \in {} |-> Absent]
Ended == {"done", "failed"}
InTransaction == {"locking", "governing"}

GovernanceTypeOK ==
    /\ admins \subseteq Subjects
    /\ members \in [Members -> Membership]
    /\ pc \in [Calls -> {"idle", "planned"} \cup InTransaction \cup Ended]
    /\ request \in [Calls -> MembershipRequests \cup AdminRequests \cup {NoRequest}]
    /\ wanted \in [Calls -> SUBSET Members]
    /\ seen \in [Calls -> UNION {[locked -> Membership] : locked \in SUBSET Members}]

\* An organization that has an active owner, and any assignment of administrators.
Init ==
    /\ SInit
    /\ admins \in SUBSET Subjects
    /\ members \in [Members -> {r \in Membership : r.status = "absent" => ~r.owner}]
    /\ Founder \in {members[m] : m \in Members}
    /\ pc = [c \in Calls |-> "idle"]
    /\ request = [c \in Calls |-> NoRequest]
    /\ wanted = [c \in Calls |-> {}]
    /\ seen = [c \in Calls |-> Nothing]

----------------------------------------------------------------------------
Locked(c) == DOMAIN seen[c]
Target(c) == request[c].target
ActiveOwner(r) == r.owner /\ r.status = "active"

\* The transaction of a call ends and releases its locks.
End(c, outcome) ==
    /\ pc' = [pc EXCEPT ![c] = outcome]
    /\ wanted' = [wanted EXCEPT ![c] = {}]
    /\ seen' = [seen EXCEPT ![c] = Nothing]
    /\ request' = [request EXCEPT ![c] = NoRequest]

\* A request of a current session is admitted and its intent recorded.
Begin(c, r) ==
    /\ spc[c] = "current" /\ use[c] = "check"
    /\ pc[c] = "idle"
    /\ pc' = [pc EXCEPT ![c] = "planned"]
    /\ request' = [request EXCEPT ![c] = r]
    /\ UNCHANGED <<rows, wanted, seen>>

----------------------------------------------------------------------------
(***************************************************************************)
(* Memberships.                                                            *)
(***************************************************************************)

Suspensions == {"suspendOwner", "suspend"}
Revocations == {"revokeOwner", "revoke"}
Appointments == {"appoint", "recover"}

\* What an operation demands of the membership it changes.
Allows(op, r) ==
    /\ op \in OwnerOps => r.owner
    /\ op \in TenantOps => ~r.owner
    /\ op \in AddOps <=> r.status = "absent"
    /\ op \in Suspensions => r.status = "active"
    /\ op = "reactivate" => r.status = "suspended"
    /\ r.status # "revoked"

\* What it makes of it.
Changed(op, r) ==
    [status |-> IF op \in Suspensions THEN "suspended"
                ELSE IF op \in Revocations THEN "revoked"
                ELSE IF op = "replaceRoles" THEN r.status ELSE "active",
     owner |-> op \in Appointments \/ (r.owner /\ op # "replaceRoles")]

\* Owners are governed by platform administrators, other memberships by a member
\* who is active: require_actor, resolve_tenant_context.
Admitted(op) ==
    IF op \in OwnerOps \cup Appointments
    THEN admins # {}
    ELSE \E m \in Members : members[m].status = "active"

\* The call reads its target without a lock and plans the change.
Plan(c) == \E r \in MembershipRequests :
    /\ Admitted(r.op)
    /\ Allows(r.op, members[r.target])
    /\ Begin(c, r)

\* SQLAlchemyMembershipRepository.add: one membership per identity.
Add(c) ==
    /\ pc[c] = "planned" /\ request[c].op \in AddOps
    /\ members[Target(c)] = Absent
    /\ members' = [members EXCEPT ![Target(c)] = Changed(request[c].op, Absent)]
    /\ End(c, "done")
    /\ UNCHANGED admins

\* _owner_membership_query of mutate_owner, the row of mutate_existing.
Selected(c) ==
    IF request[c].op \in OwnerOps
    THEN {m \in Members : members[m].owner}
    ELSE {Target(c)}

Select(c) ==
    /\ pc[c] = "planned" /\ request[c].op \in OwnerOps \cup RowOps
    /\ pc' = [pc EXCEPT ![c] = "locking"]
    /\ wanted' = [wanted EXCEPT ![c] = Selected(c)]
    /\ UNCHANGED <<rows, request, seen>>

\* Slip: the rows are read without FOR UPDATE.
RowFreeAlways(m) == m \in Members

RowFree(m) == \A d \in Calls : m \notin Locked(d)

\* Slip: the statement has no ORDER BY.
NextRowsInAnyOrder(c) == wanted[c] \ Locked(c)

NextRows(c) == {m \in wanted[c] \ Locked(c) : \A n \in wanted[c] \ Locked(c) : m <= n}

\* FOR UPDATE: a row is waited for, and read when it is granted.
LockRow(c) ==
    /\ pc[c] = "locking"
    /\ \E m \in NextRows(c) :
          /\ RowFree(m)
          /\ seen' = [seen EXCEPT ![c] =
                [n \in Locked(c) \cup {m} |-> IF n = m THEN members[m] ELSE seen[c][n]]]
    /\ UNCHANGED <<rows, pc, request, wanted>>

\* _require_owner_with_active_replacement, on the locked rows.
HasReplacement(c) ==
    \E m \in Locked(c) \ {Target(c)} : ActiveOwner(seen[c][m])

\* Slip: what was planned before the lock is stored.
DecideAsPlanned(c) == Target(c) \in Locked(c)

\* The mutation decides on the locked rows, never on what was planned.
Decide(c) ==
    /\ Target(c) \in Locked(c)
    /\ Allows(request[c].op, seen[c][Target(c)])
    /\ request[c].op \in OwnerOps => HasReplacement(c)

\* mutate_existing, mutate_owner: _persist_mutation and the commit.
Mutate(c) ==
    /\ pc[c] = "locking" /\ Locked(c) = wanted[c]
    /\ Decide(c)
    /\ members' = [members EXCEPT ![Target(c)] =
          Changed(request[c].op, seen[c][Target(c)])]
    /\ End(c, "done")
    /\ UNCHANGED admins

----------------------------------------------------------------------------
(***************************************************************************)
(* Platform administrators.                                                *)
(***************************************************************************)

\* Slip: the advisory lock is not taken.
GovernanceFreeAlways == TRUE

GovernanceFree == \A d \in Calls : pc[d] # "governing"

\* Bootstrap demands no administrator but a secret; assign and revoke are calls of one.
Govern(c) == \E r \in AdminRequests :
    /\ r.op # "bootstrap" => admins # {}
    /\ Begin(c, r)

\* The active rows are counted under the lock.  The statement that writes follows it.
CountAdmins(c) ==
    /\ pc[c] = "planned" /\ request[c].op \in AdminOps
    /\ GovernanceFree
    /\ request[c].op = "bootstrap" => admins = {}
    /\ request[c].op = "revokeAdmin" /\ Target(c) \in admins => Cardinality(admins) > 1
    /\ pc' = [pc EXCEPT ![c] = "governing"]
    /\ UNCHANGED <<rows, request, wanted, seen>>

WriteAdmin(c) ==
    /\ pc[c] = "governing"
    /\ admins' = IF request[c].op = "revokeAdmin"
                 THEN admins \ {Target(c)} ELSE admins \cup {Target(c)}
    /\ End(c, "done")
    /\ UNCHANGED members

----------------------------------------------------------------------------
\* A refusal, a failed audit append or the end of the process: nothing is written.
Abandon(c) ==
    /\ pc[c] \in {"planned"} \cup InTransaction
    /\ End(c, "failed")
    /\ UNCHANGED rows

GovernanceStep(c) ==
    \/ Plan(c) \/ Add(c) \/ Select(c) \/ LockRow(c) \/ Mutate(c)
    \/ Govern(c) \/ CountAdmins(c) \/ WriteAdmin(c)
    \/ Abandon(c)

Next ==
    \/ SNext /\ UNCHANGED governance
    \/ (\E c \in Calls : GovernanceStep(c)) /\ UNCHANGED svars

Spec == Init /\ [][Next]_vars
----------------------------------------------------------------------------
(***************************************************************************)
(* Properties.                                                             *)
(***************************************************************************)

\* Zero active owners is never an outcome, whichever suspensions, revocations,
\* recoveries and tenant changes overlap.
AnOwnerRemains == \E m \in Members : ActiveOwner(members[m])

\* Two administrators cannot revoke one another's last colleague, nor can the
\* empty set that bootstrap requires come back.
AnAdministratorRemains == [][admins # {} => admins' # {}]_admins

\* A stale request neither restores revoked access nor erases owner status.
StaleRequestsChangeNothing ==
    [][\A m \in Members :
          /\ members[m].status = "revoked" => members'[m] = members[m]
          /\ members[m].owner => members'[m].owner]_members

\* Calls that lock every owner row never wait for one another in a circle: while
\* calls hold row locks, one of them has all it wants or finds its next row free.
\* (Of well-typed calls.)
LocksNeverCircle ==
    /\ GovernanceTypeOK
    /\ (\E c \in Calls : pc[c] = "locking") =>
          \E c \in Calls :
             /\ pc[c] = "locking"
             /\ wanted[c] # Locked(c) => \E m \in wanted[c] \ Locked(c) : RowFree(m)
=============================================================================
