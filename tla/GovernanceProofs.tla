-------------------------- MODULE GovernanceProofs --------------------------
(***************************************************************************)
(* Owners and administrators remain, nobody waits in a circle, and browser *)
(* sessions are safe, for every number of calls, members and subjects.     *)
(*                                                                         *)
(* The inductive invariant is GovernanceInv.  Its core is RowsAreHeld: a   *)
(* row that a transaction has locked is locked by no other and still reads *)
(* as it did, so that a decision on what was read is a decision on what is *)
(* stored.  RowsExist keeps the one write that takes no row lock, the      *)
(* insertion of a membership, away from the rows that are locked.          *)
(* CountHolds says the same of the administrators under their one lock.    *)
(*                                                                         *)
(* Sessions have an invariant of their own, SessionsInv, since the calls   *)
(* that govern never touch them; OrderKept, the order in which rows are    *)
(* locked, stands on GovernanceInv.                                        *)
(***************************************************************************)
EXTENDS Governance, FiniteSetTheorems, TLAPS

AbsentOwnsNothing ==
    \A m \in Members : members[m].status = "absent" => ~members[m].owner

RequestOf(c) ==
    /\ pc[c] = "planned" => request[c] \in MembershipRequests \cup AdminRequests
    /\ pc[c] = "locking" => /\ request[c] \in MembershipRequests
                            /\ request[c].op \in OwnerOps \cup RowOps
    /\ pc[c] = "governing" => request[c] \in AdminRequests

TargetExists(c) ==
    pc[c] = "planned" /\ request[c].op \in RowOps =>
        members[request[c].target].status # "absent"

RowsExist(c) ==
    /\ pc[c] # "locking" => wanted[c] = {}
    /\ Locked(c) \subseteq wanted[c]
    /\ \A m \in wanted[c] : members[m].status # "absent"

RowsAreHeld(c) ==
    /\ \A m \in Locked(c) : seen[c][m] = members[m]
    /\ \A d \in Calls \ {c} : Locked(c) \cap Locked(d) = {}

CountHolds(c) ==
    pc[c] = "governing" =>
        /\ \A d \in Calls \ {c} : pc[d] # "governing"
        /\ request[c].op = "revokeAdmin" /\ request[c].target \in admins
              => Cardinality(admins) > 1

GovernanceInv ==
    /\ GovernanceTypeOK
    /\ AbsentOwnsNothing
    /\ \A c \in Calls : RequestOf(c) /\ TargetExists(c)
    /\ \A c \in Calls : RowsExist(c) /\ RowsAreHeld(c)
    /\ \A c \in Calls : CountHolds(c)
    /\ AnOwnerRemains

----------------------------------------------------------------------------
\* An operation that is allowed leaves a membership, never an absent one; it takes
\* no owner's role, and only the owner operations end an active owner.
LEMMA OperationsAreTame ==
    ASSUME NEW r \in Membership, NEW op \in OwnerOps \cup RowOps, Allows(op, r)
    PROVE  /\ Changed(op, r) \in Membership
           /\ r.status \notin {"absent", "revoked"}
           /\ Changed(op, r).status # "absent"
           /\ r.owner => Changed(op, r).owner
           /\ ActiveOwner(r) /\ op \notin OwnerOps => ActiveOwner(Changed(op, r))
BY DEF Allows, Changed, Membership, Statuses, OwnerOps, RowOps, TenantOps, AddOps,
       Suspensions, Revocations, Appointments, ActiveOwner

\* A membership that is added is a membership, and there.
LEMMA AdditionsAreTame ==
    ASSUME NEW op \in AddOps
    PROVE  /\ Changed(op, Absent) \in Membership
           /\ Changed(op, Absent).status # "absent"
BY DEF Changed, Membership, Statuses, AddOps, Suspensions, Revocations, Appointments, Absent

\* The type of the rows a call has seen, and what they say of it.
LEMMA SeenIsTyped ==
    ASSUME GovernanceTypeOK, NEW c \in Calls
    PROVE  /\ Locked(c) \subseteq Members
           /\ seen[c] \in [Locked(c) -> Membership]
           /\ DOMAIN seen = Calls
BY DEF GovernanceTypeOK, Locked

\* The rows a call has seen before it locks any.
LEMMA NothingIsTyped ==
    /\ Nothing \in UNION {[locked -> Membership] : locked \in SUBSET Members}
    /\ DOMAIN Nothing = {}
<1>1. Nothing \in [{} -> Membership]
  BY DEF Nothing
<1>2. {} \in SUBSET Members
  OBVIOUS
<1> QED BY <1>1, <1>2 DEF Nothing

\* No call is under way at first, and somebody owns the organization.
LEMMA InitInv == Init => GovernanceInv
<1> SUFFICES ASSUME Init PROVE GovernanceInv
  OBVIOUS
<1> USE DEF Init
<1>1. GovernanceTypeOK
  BY NothingIsTyped DEF GovernanceTypeOK, InTransaction, Ended
<1>2. AbsentOwnsNothing
  BY DEF AbsentOwnsNothing
<1>3. ASSUME NEW c \in Calls
      PROVE  RequestOf(c) /\ TargetExists(c) /\ RowsExist(c) /\ RowsAreHeld(c) /\ CountHolds(c)
  BY NothingIsTyped DEF RequestOf, TargetExists, RowsExist, RowsAreHeld, CountHolds, Locked
<1>4. AnOwnerRemains
  BY DEF AnOwnerRemains, ActiveOwner, Founder
<1> QED BY <1>1, <1>2, <1>3, <1>4 DEF GovernanceInv

----------------------------------------------------------------------------
(***************************************************************************)
(* The steps.                                                              *)
(***************************************************************************)

\* A transaction that ends holds nothing, and the other calls are as they were.
LEMMA Released ==
    ASSUME GovernanceTypeOK, NEW c \in Calls, NEW outcome \in Ended, End(c, outcome)
    PROVE  /\ pc' \in [Calls -> {"idle", "planned"} \cup InTransaction \cup Ended]
           /\ request' \in [Calls -> MembershipRequests \cup AdminRequests \cup {NoRequest}]
           /\ wanted' \in [Calls -> SUBSET Members]
           /\ seen' \in [Calls -> UNION {[locked -> Membership] : locked \in SUBSET Members}]
           /\ pc'[c] = outcome /\ wanted'[c] = {} /\ Locked(c)' = {}
           /\ \A d \in Calls \ {c} :
                 /\ pc'[d] = pc[d] /\ request'[d] = request[d]
                 /\ wanted'[d] = wanted[d] /\ seen'[d] = seen[d]
                 /\ Locked(d)' = Locked(d)
<1> USE DEF End, GovernanceTypeOK
<1>1. pc' \in [Calls -> {"idle", "planned"} \cup InTransaction \cup Ended]
  OBVIOUS
<1>2. request' \in [Calls -> MembershipRequests \cup AdminRequests \cup {NoRequest}]
  OBVIOUS
<1>3. wanted' \in [Calls -> SUBSET Members]
  OBVIOUS
<1>4. seen' \in [Calls -> UNION {[locked -> Membership] : locked \in SUBSET Members}]
  BY NothingIsTyped
<1>5. pc'[c] = outcome /\ wanted'[c] = {} /\ Locked(c)' = {}
  BY NothingIsTyped DEF Locked
<1>6. ASSUME NEW d \in Calls \ {c}
      PROVE  /\ pc'[d] = pc[d] /\ request'[d] = request[d]
             /\ wanted'[d] = wanted[d] /\ seen'[d] = seen[d]
             /\ Locked(d)' = Locked(d)
  BY DEF Locked
<1> QED BY <1>1, <1>2, <1>3, <1>4, <1>5, <1>6

\* A call begins without a lock.
LEMMA BeginInv ==
    ASSUME GovernanceInv, NEW c \in Calls,
           NEW r \in MembershipRequests \cup AdminRequests, Begin(c, r),
           r \in MembershipRequests => Allows(r.op, members[r.target])
    PROVE  GovernanceInv'
<1> USE DEF Begin, GovernanceInv, rows
<1>1. GovernanceTypeOK'
  BY DEF GovernanceTypeOK
<1>2. AbsentOwnsNothing' /\ AnOwnerRemains'
  BY DEF AbsentOwnsNothing, AnOwnerRemains
<1>3. RequestOf(c)' /\ TargetExists(c)'
  <2>1. pc'[c] = "planned" /\ request'[c] = r
    BY DEF GovernanceTypeOK
  <2>2. r.op \in RowOps => r \in MembershipRequests
    BY DEF AdminRequests, AdminOps, RowOps, TenantOps
  <2>3. r.op \in RowOps => members[r.target].status # "absent"
    BY <2>2 DEF Allows, RowOps, TenantOps, AddOps
  <2> QED BY <2>1, <2>3 DEF RequestOf, TargetExists
<1>4. ASSUME NEW d \in Calls \ {c} PROVE RequestOf(d)' /\ TargetExists(d)'
  BY DEF GovernanceTypeOK, RequestOf, TargetExists
<1>5. ASSUME NEW d \in Calls PROVE RowsExist(d)' /\ RowsAreHeld(d)' /\ CountHolds(d)'
  <2>1. pc'[d] = pc[d] \/ (d = c /\ pc[d] = "idle" /\ pc'[d] = "planned")
    BY DEF GovernanceTypeOK
  <2>2. RowsExist(d)' /\ RowsAreHeld(d)'
    BY <2>1 DEF RowsExist, RowsAreHeld, Locked
  <2>3. CountHolds(d)'
    BY <2>1 DEF CountHolds, GovernanceTypeOK
  <2> QED BY <2>2, <2>3
<1> QED BY <1>1, <1>2, <1>3, <1>4, <1>5

\* A membership is added to nobody who has one.
LEMMA AddInv ==
    ASSUME GovernanceInv, NEW c \in Calls, Add(c)
    PROVE  GovernanceInv'
<1> DEFINE t == request[c].target
<1> USE DEF GovernanceInv
<1>1. End(c, "done") /\ admins' = admins
  BY DEF Add
<1>2. request[c] \in MembershipRequests
  BY DEF Add, RequestOf, AddOps, MembershipRequests, AdminRequests, AdminOps
<1>3. t \in Members /\ request[c].op \in AddOps /\ members[t] = Absent
      /\ members' = [members EXCEPT ![t] = Changed(request[c].op, Absent)]
  BY <1>2 DEF Add, Target, MembershipRequests
<1>4. GovernanceTypeOK'
  BY <1>1, <1>3, Released, AdditionsAreTame DEF GovernanceTypeOK, Ended
<1>5. \A m \in Members : m # t => members'[m] = members[m]
  BY <1>3 DEF GovernanceTypeOK
<1>6. members'[t] = Changed(request[c].op, Absent) /\ members'[t].status # "absent"
  BY <1>3, AdditionsAreTame DEF GovernanceTypeOK
<1>7. AbsentOwnsNothing'
  BY <1>5, <1>6 DEF AbsentOwnsNothing
<1>8. AnOwnerRemains'
  BY <1>3, <1>5 DEF AnOwnerRemains, ActiveOwner, Absent
<1>9. ASSUME NEW d \in Calls
      PROVE  RequestOf(d)' /\ TargetExists(d)' /\ RowsExist(d)' /\ CountHolds(d)'
  <2>1. \A m \in Members : members[m].status # "absent" => members'[m].status # "absent"
    BY <1>5, <1>6
  <2>2. CASE d = c
    BY <1>1, <2>2, Released DEF Ended, RequestOf, TargetExists, RowsExist, CountHolds
  <2>3. CASE d # c
    <3>1. pc'[d] = pc[d] /\ request'[d] = request[d] /\ wanted'[d] = wanted[d]
          /\ Locked(d)' = Locked(d)
      BY <1>1, <2>3, Released DEF Ended
    <3>2. RequestOf(d)'
      BY <3>1 DEF RequestOf
    <3>3. TargetExists(d)'
      <4> SUFFICES ASSUME pc[d] = "planned", request[d].op \in RowOps
                   PROVE  members'[request[d].target].status # "absent"
        BY <3>1 DEF TargetExists
      <4>1. request[d] \in MembershipRequests
        BY DEF RequestOf, RowOps, TenantOps, AdminRequests, AdminOps
      <4> QED BY <4>1, <2>1 DEF TargetExists, MembershipRequests
    <3>4. RowsExist(d)'
      BY <3>1, <2>1 DEF RowsExist, GovernanceTypeOK
    <3>5. CountHolds(d)'
      BY <1>1, <3>1, Released DEF CountHolds, Ended
    <3> QED BY <3>2, <3>3, <3>4, <3>5
  <2> QED BY <2>2, <2>3
<1>10. ASSUME NEW d \in Calls PROVE RowsAreHeld(d)'
  <2>1. \A e \in Calls : Locked(e)' = {} \/ (Locked(e)' = Locked(e) /\ seen'[e] = seen[e])
    BY <1>1, Released DEF Ended
  <2>2. t \notin Locked(d)
    BY <1>3 DEF RowsExist, Absent
  <2>3. \A m \in Locked(d) : m \in Members
    BY SeenIsTyped
  <2> QED BY <1>5, <2>1, <2>2, <2>3 DEF RowsAreHeld
<1> QED BY <1>4, <1>7, <1>8, <1>9, <1>10

\* Only the progress of call c changes, and it keeps its locks: everything said of
\* the other calls and of the stored rows still holds.
LEMMA SelectInv ==
    ASSUME GovernanceInv, NEW c \in Calls, Select(c)
    PROVE  GovernanceInv'
<1> USE DEF GovernanceInv, Select, rows
<1>1. request[c] \in MembershipRequests /\ request[c].target \in Members
  BY DEF RequestOf, MembershipRequests, AdminRequests, AdminOps, OwnerOps, RowOps, TenantOps
<1>2. Selected(c) \subseteq Members
  BY <1>1 DEF Selected, Target
<1>3. GovernanceTypeOK'
  BY <1>2 DEF GovernanceTypeOK, InTransaction
<1>4. AbsentOwnsNothing' /\ AnOwnerRemains'
  BY DEF AbsentOwnsNothing, AnOwnerRemains
<1>5. \A m \in Selected(c) : members[m].status # "absent"
  BY <1>1 DEF Selected, Target, AbsentOwnsNothing, TargetExists
<1>6. pc'[c] = "locking" /\ wanted'[c] = Selected(c) /\ Locked(c) = {}
  BY DEF GovernanceTypeOK, RowsExist
<1>7. ASSUME NEW d \in Calls
      PROVE  RequestOf(d)' /\ TargetExists(d)' /\ RowsExist(d)' /\ RowsAreHeld(d)'
             /\ CountHolds(d)'
  <2>1. Locked(d)' = Locked(d) /\ request'[d] = request[d] /\ seen'[d] = seen[d]
        /\ members' = members /\ admins' = admins
    BY DEF Locked
  <2>2. d # c => pc'[d] = pc[d] /\ wanted'[d] = wanted[d]
    BY DEF GovernanceTypeOK
  <2>3. RequestOf(d)' /\ TargetExists(d)'
    BY <1>1, <1>6, <2>1, <2>2 DEF RequestOf, TargetExists
  <2>4. RowsExist(d)'
    BY <1>5, <1>6, <2>1, <2>2 DEF RowsExist
  <2>5. RowsAreHeld(d)'
    BY DEF RowsAreHeld, Locked
  <2>6. CountHolds(d)'
    BY <1>6, <2>1, <2>2 DEF CountHolds, GovernanceTypeOK
  <2> QED BY <2>3, <2>4, <2>5, <2>6
<1> QED BY <1>3, <1>4, <1>7

\* A row is read as it is stored, when its lock is granted.
LEMMA LockRowInv ==
    ASSUME GovernanceInv, NEW c \in Calls, LockRow(c)
    PROVE  GovernanceInv'
<1> USE DEF GovernanceInv, rows
<1> PICK m \in NextRows(c) :
      /\ RowFree(m)
      /\ seen' = [seen EXCEPT ![c] =
            [n \in Locked(c) \cup {m} |-> IF n = m THEN members[m] ELSE seen[c][n]]]
  BY DEF LockRow
<1> DEFINE new == [n \in Locked(c) \cup {m} |-> IF n = m THEN members[m] ELSE seen[c][n]]
<1>1. m \in wanted[c] /\ m \in Members /\ m \notin Locked(c)
  BY DEF NextRows, GovernanceTypeOK
<1>2. UNCHANGED <<admins, members, pc, request, wanted>>
  BY DEF LockRow
<1>3. Locked(c) \cup {m} \subseteq Members
  BY <1>1, SeenIsTyped
<1>4. new \in [Locked(c) \cup {m} -> Membership]
  <2>1. members[m] \in Membership
    BY <1>1 DEF GovernanceTypeOK
  <2>2. \A n \in Locked(c) : seen[c][n] \in Membership
    BY SeenIsTyped
  <2> QED BY <2>1, <2>2
<1>5. new \in UNION {[locked -> Membership] : locked \in SUBSET Members}
  <2> HIDE DEF new
  <2> QED BY <1>3, <1>4
<1>6. GovernanceTypeOK'
  <2> HIDE DEF new
  <2>1. seen' = [seen EXCEPT ![c] = new]
    BY DEF new
  <2> QED BY <1>2, <1>5, <2>1 DEF GovernanceTypeOK
<1>7. seen'[c] = new /\ Locked(c)' = Locked(c) \cup {m}
  BY SeenIsTyped DEF Locked
<1>8. \A d \in Calls \ {c} : seen'[d] = seen[d] /\ Locked(d)' = Locked(d)
  BY SeenIsTyped DEF Locked
<1>9. AbsentOwnsNothing' /\ AnOwnerRemains'
  BY <1>2 DEF AbsentOwnsNothing, AnOwnerRemains
<1>10. ASSUME NEW d \in Calls
       PROVE  RequestOf(d)' /\ TargetExists(d)' /\ CountHolds(d)'
  BY <1>2 DEF RequestOf, TargetExists, CountHolds
<1>11. ASSUME NEW d \in Calls PROVE RowsExist(d)'
  <2>1. pc[c] = "locking"
    BY DEF LockRow
  <2> QED BY <1>1, <1>2, <1>7, <1>8, <2>1 DEF RowsExist
<1>12. ASSUME NEW d \in Calls PROVE RowsAreHeld(d)'
  <2>1. \A e \in Calls : m \notin Locked(e)
    BY DEF RowFree
  <2>2. CASE d = c
    BY <1>2, <1>7, <1>8, <2>1, <2>2 DEF RowsAreHeld
  <2>3. CASE d # c
    <3>1. \A n \in Locked(d) : seen'[d][n] = members'[n]
      BY <1>2, <1>8, <2>3 DEF RowsAreHeld
    <3>2. \A e \in Calls \ {d} : Locked(d) \cap Locked(e)' = {}
      BY <1>7, <1>8, <2>1, <2>3 DEF RowsAreHeld
    <3> QED BY <3>1, <3>2, <1>8, <2>3 DEF RowsAreHeld
  <2> QED BY <2>2, <2>3
<1> QED BY <1>6, <1>9, <1>10, <1>11, <1>12

\* The decision was on the row as it is stored.
LEMMA MutationIsCurrent ==
    ASSUME GovernanceInv, NEW c \in Calls, Mutate(c)
    PROVE  LET t == request[c].target
               op == request[c].op IN
           /\ t \in Members /\ op \in OwnerOps \cup RowOps
           /\ t \in Locked(c) /\ members[t] \in Membership /\ Allows(op, members[t])
           /\ members' = [members EXCEPT ![t] = Changed(op, members[t])]
           /\ op \in OwnerOps =>
                 \E m \in Members \ {t} : ActiveOwner(members[m])
           /\ End(c, "done") /\ admins' = admins
<1> DEFINE t == request[c].target
<1> USE DEF GovernanceInv
<1>1. request[c] \in MembershipRequests /\ request[c].op \in OwnerOps \cup RowOps
  BY DEF Mutate, RequestOf
<1>2. t \in Members
  BY <1>1 DEF MembershipRequests
<1>3. t \in Locked(c) /\ seen[c][t] = members[t] /\ Allows(request[c].op, members[t])
  BY DEF Mutate, Decide, Target, RowsAreHeld
<1>4. ASSUME request[c].op \in OwnerOps
      PROVE  \E m \in Members \ {t} : ActiveOwner(members[m])
  <2>1. HasReplacement(c)
    BY <1>4 DEF Mutate, Decide
  <2>2. PICK m \in Locked(c) \ {t} : ActiveOwner(seen[c][m])
    BY <2>1 DEF HasReplacement, Target
  <2>3. m \in Members /\ seen[c][m] = members[m]
    BY SeenIsTyped DEF RowsAreHeld
  <2> QED BY <2>2, <2>3
<1> QED BY <1>1, <1>2, <1>3, <1>4 DEF Mutate, Target, GovernanceTypeOK
\* A call changes a row it has locked, and an owner's only beside another owner.
LEMMA MutateInv ==
    ASSUME GovernanceInv, NEW c \in Calls, Mutate(c)
    PROVE  GovernanceInv'
<1> DEFINE t == request[c].target
           op == request[c].op
<1> USE DEF GovernanceInv
<1>1. /\ t \in Members /\ op \in OwnerOps \cup RowOps
      /\ t \in Locked(c) /\ members[t] \in Membership /\ Allows(op, members[t])
      /\ members' = [members EXCEPT ![t] = Changed(op, members[t])]
      /\ op \in OwnerOps => \E m \in Members \ {t} : ActiveOwner(members[m])
      /\ End(c, "done") /\ admins' = admins
  BY MutationIsCurrent
<1>2. /\ Changed(op, members[t]) \in Membership
      /\ members[t].status # "absent" /\ Changed(op, members[t]).status # "absent"
      /\ ActiveOwner(members[t]) /\ op \notin OwnerOps => ActiveOwner(Changed(op, members[t]))
  BY <1>1, OperationsAreTame
<1>3. members'[t] = Changed(op, members[t])
      /\ \A m \in Members : m # t => members'[m] = members[m]
  BY <1>1 DEF GovernanceTypeOK
<1>4. GovernanceTypeOK'
  BY <1>1, <1>2, Released DEF GovernanceTypeOK, Ended
<1>5. AbsentOwnsNothing'
  BY <1>2, <1>3 DEF AbsentOwnsNothing
<1>6. AnOwnerRemains'
  BY <1>1, <1>2, <1>3 DEF AnOwnerRemains
<1>7. \A m \in Members : members[m].status # "absent" => members'[m].status # "absent"
  BY <1>2, <1>3
<1>8. ASSUME NEW d \in Calls
      PROVE  RequestOf(d)' /\ TargetExists(d)' /\ RowsExist(d)' /\ CountHolds(d)'
  <2>1. CASE d = c
    BY <1>1, <2>1, Released DEF Ended, RequestOf, TargetExists, RowsExist, CountHolds
  <2>2. CASE d # c
    <3>1. pc'[d] = pc[d] /\ request'[d] = request[d] /\ wanted'[d] = wanted[d]
          /\ Locked(d)' = Locked(d)
      BY <1>1, <2>2, Released DEF Ended
    <3>2. RequestOf(d)'
      BY <3>1 DEF RequestOf
    <3>3. TargetExists(d)'
      <4> SUFFICES ASSUME pc[d] = "planned", request[d].op \in RowOps
                   PROVE  members'[request[d].target].status # "absent"
        BY <3>1 DEF TargetExists
      <4>1. request[d] \in MembershipRequests
        BY DEF RequestOf, RowOps, TenantOps, AdminRequests, AdminOps
      <4> QED BY <4>1, <1>7 DEF TargetExists, MembershipRequests
    <3>4. RowsExist(d)'
      BY <3>1, <1>7 DEF RowsExist, GovernanceTypeOK
    <3>5. CountHolds(d)'
      BY <1>1, <3>1, Released DEF CountHolds, Ended
    <3> QED BY <3>2, <3>3, <3>4, <3>5
  <2> QED BY <2>1, <2>2
<1>9. ASSUME NEW d \in Calls PROVE RowsAreHeld(d)'
  <2>1. CASE d = c
    BY <1>1, <2>1, Released DEF Ended, RowsAreHeld
  <2>2. CASE d # c
    <3>1. Locked(d)' = Locked(d) /\ seen'[d] = seen[d] /\ t \notin Locked(d)
      BY <1>1, <2>2, Released DEF Ended, RowsAreHeld
    <3>2. \A m \in Locked(d) : seen'[d][m] = members'[m]
      BY <1>3, <3>1, SeenIsTyped DEF RowsAreHeld
    <3>3. \A e \in Calls \ {d} : Locked(e)' \subseteq Locked(e)
      BY <1>1, Released DEF Ended
    <3> QED BY <3>1, <3>2, <3>3 DEF RowsAreHeld
  <2> QED BY <2>1, <2>2
<1> QED BY <1>4, <1>5, <1>6, <1>8, <1>9

\* Calls that only write administrators, or nothing at all, leave the memberships and
\* the locks of the others as they were.
LEMMA EndInv ==
    ASSUME GovernanceInv, NEW c \in Calls, NEW outcome \in Ended, End(c, outcome),
           UNCHANGED members, admins' \subseteq Subjects,
           \A d \in Calls \ {c} : CountHolds(d)'
    PROVE  GovernanceInv'
<1> USE DEF GovernanceInv
<1>1. GovernanceTypeOK'
  BY Released DEF GovernanceTypeOK
<1>2. AbsentOwnsNothing' /\ AnOwnerRemains'
  BY DEF AbsentOwnsNothing, AnOwnerRemains
<1>3. RequestOf(c)' /\ TargetExists(c)' /\ RowsExist(c)' /\ RowsAreHeld(c)' /\ CountHolds(c)'
  BY Released DEF Ended, RequestOf, TargetExists, RowsExist, RowsAreHeld, CountHolds
<1>4. ASSUME NEW d \in Calls \ {c}
      PROVE  RequestOf(d)' /\ TargetExists(d)' /\ RowsExist(d)' /\ RowsAreHeld(d)'
  <2>1. /\ pc'[d] = pc[d] /\ request'[d] = request[d] /\ wanted'[d] = wanted[d]
        /\ Locked(d)' = Locked(d) /\ seen'[d] = seen[d]
    BY Released
  <2>2. RequestOf(d)' /\ TargetExists(d)' /\ RowsExist(d)'
    BY <2>1 DEF RequestOf, TargetExists, RowsExist
  <2>3. \A e \in Calls \ {d} : Locked(e)' \subseteq Locked(e)
    BY Released
  <2>4. RowsAreHeld(d)'
    BY <2>1, <2>3 DEF RowsAreHeld
  <2> QED BY <2>2, <2>4
<1> QED BY <1>1, <1>2, <1>3, <1>4

\* A call that is cut short releases its locks and has written nothing.
LEMMA AbandonInv ==
    ASSUME GovernanceInv, NEW c \in Calls, Abandon(c)
    PROVE  GovernanceInv'
<1>1. End(c, "failed") /\ UNCHANGED <<admins, members>> /\ "failed" \in Ended
  BY DEF Abandon, rows, Ended
<1>2. ASSUME NEW d \in Calls \ {c} PROVE CountHolds(d)'
  BY <1>1, Released DEF GovernanceInv, CountHolds, Ended
<1>3. admins' \subseteq Subjects
  BY <1>1 DEF GovernanceInv, GovernanceTypeOK
<1> QED BY <1>1, <1>2, <1>3, EndInv

\* An administrator is revoked under the governance lock.
LEMMA WriteAdminInv ==
    ASSUME GovernanceInv, NEW c \in Calls, WriteAdmin(c)
    PROVE  GovernanceInv'
<1> USE DEF GovernanceInv
<1>1. End(c, "done") /\ UNCHANGED members /\ "done" \in Ended /\ pc[c] = "governing"
  BY DEF WriteAdmin, Ended
<1>2. request[c].target \in Subjects
  BY <1>1 DEF RequestOf, AdminRequests
<1>3. admins' \subseteq Subjects
  BY <1>2 DEF WriteAdmin, Target, GovernanceTypeOK
<1>4. ASSUME NEW d \in Calls \ {c} PROVE CountHolds(d)'
  BY <1>1, Released DEF CountHolds, Ended
<1> QED BY <1>1, <1>3, <1>4, EndInv

\* The administrators are counted under the governance lock.
LEMMA CountAdminsInv ==
    ASSUME GovernanceInv, NEW c \in Calls, CountAdmins(c)
    PROVE  GovernanceInv'
<1> USE DEF GovernanceInv, CountAdmins, rows
<1>1. request[c] \in AdminRequests
  BY DEF RequestOf, MembershipRequests, AdminOps, OwnerOps, RowOps, TenantOps, AddOps
<1>2. GovernanceTypeOK'
  BY DEF GovernanceTypeOK, InTransaction
<1>3. AbsentOwnsNothing' /\ AnOwnerRemains'
  BY DEF AbsentOwnsNothing, AnOwnerRemains
<1>4. pc'[c] = "governing" /\ \A d \in Calls \ {c} : pc'[d] = pc[d]
  BY DEF GovernanceTypeOK
<1>5. ASSUME NEW d \in Calls
      PROVE  RequestOf(d)' /\ TargetExists(d)' /\ RowsExist(d)' /\ RowsAreHeld(d)'
  <2>1. RequestOf(d)' /\ TargetExists(d)'
    BY <1>1, <1>4 DEF RequestOf, TargetExists
  <2>2. RowsExist(d)'
    BY <1>4 DEF RowsExist, Locked
  <2>3. RowsAreHeld(d)'
    BY DEF RowsAreHeld, Locked
  <2> QED BY <2>1, <2>2, <2>3
<1>6. CountHolds(c)'
  BY <1>4 DEF CountHolds, GovernanceFree, Target
<1>7. ASSUME NEW d \in Calls \ {c} PROVE CountHolds(d)'
  BY <1>4 DEF CountHolds, GovernanceFree
<1> QED BY <1>2, <1>3, <1>5, <1>6, <1>7

\* A step of a session changes nothing here.
LEMMA StepInv == GovernanceInv /\ [Next]_vars => GovernanceInv'
<1> SUFFICES ASSUME GovernanceInv, [Next]_vars PROVE GovernanceInv'
  OBVIOUS
<1>1. CASE UNCHANGED governance
  <2> USE <1>1 DEF governance, rows, progress
  <2>1. GovernanceTypeOK' /\ AbsentOwnsNothing' /\ AnOwnerRemains'
    BY DEF GovernanceInv, GovernanceTypeOK, AbsentOwnsNothing, AnOwnerRemains
  <2>2. ASSUME NEW c \in Calls
        PROVE  RequestOf(c)' /\ TargetExists(c)' /\ RowsExist(c)' /\ RowsAreHeld(c)'
               /\ CountHolds(c)'
    BY DEF GovernanceInv, RequestOf, TargetExists, RowsExist, RowsAreHeld, CountHolds, Locked
  <2> QED BY <2>1, <2>2 DEF GovernanceInv
<1>2. ASSUME NEW c \in Calls, GovernanceStep(c) PROVE GovernanceInv'
  <2>1. CASE Plan(c)
    BY <2>1, BeginInv DEF Plan
  <2>2. CASE Add(c)
    BY <2>2, AddInv
  <2>3. CASE Select(c)
    BY <2>3, SelectInv
  <2>4. CASE LockRow(c)
    BY <2>4, LockRowInv
  <2>5. CASE Mutate(c)
    BY <2>5, MutateInv
  <2>6. CASE Govern(c)
    <3>1. PICK r \in AdminRequests : Begin(c, r)
      BY <2>6 DEF Govern
    <3>2. r \notin MembershipRequests
      BY DEF AdminRequests, MembershipRequests, AdminOps, OwnerOps, RowOps, TenantOps, AddOps
    <3> QED BY <3>1, <3>2, BeginInv
  <2>7. CASE CountAdmins(c)
    BY <2>7, CountAdminsInv
  <2>8. CASE WriteAdmin(c)
    BY <2>8, WriteAdminInv
  <2>9. CASE Abandon(c)
    BY <2>9, AbandonInv
  <2> QED BY <1>2, <2>1, <2>2, <2>3, <2>4, <2>5, <2>6, <2>7, <2>8, <2>9 DEF GovernanceStep
<1> QED BY <1>1, <1>2 DEF Next, vars

\* The inductive invariant: locked rows are read as they are stored, one call at most
\* governs the administrators, and an owner's call that is to write has locked another owner.
THEOREM GovernanceInvHolds == Spec => []GovernanceInv
BY InitInv, StepInv, PTL DEF Spec

----------------------------------------------------------------------------
(***************************************************************************)
(* The properties.                                                         *)
(***************************************************************************)

\* However many owners suspend, revoke and recover one another at once, an
\* organization keeps an active owner.
THEOREM OwnerRemains == Spec => []AnOwnerRemains
BY GovernanceInvHolds, PTL DEF GovernanceInv

\* Of the steps of a call only those that write administrators can end one.
LEMMA OnlyWriteAdminEnds ==
    ASSUME GovernanceInv, [Next]_vars, admins # {}
    PROVE  admins' # {}
<1>1. CASE admins' = admins
  BY <1>1
<1>2. CASE \E c \in Calls : WriteAdmin(c)
  <2> PICK c \in Calls : WriteAdmin(c)
    BY <1>2
  <2> DEFINE t == request[c].target
  <2>1. CASE request[c].op = "revokeAdmin" /\ t \in admins
    <3> SUFFICES ASSUME admins \ {t} = {} PROVE FALSE
      BY <2>1 DEF WriteAdmin, Target
    <3>1. admins = {t}
      BY <2>1
    <3>2. Cardinality(admins) = 1
      BY <3>1, FS_Singleton
    <3>3. Cardinality(admins) > 1
      BY <2>1 DEF WriteAdmin, GovernanceInv, CountHolds
    <3> QED BY <3>2, <3>3
  <2>2. CASE ~(request[c].op = "revokeAdmin" /\ t \in admins)
    BY <2>2 DEF WriteAdmin, Target
  <2> QED BY <2>1, <2>2
<1> QED BY <1>1, <1>2 DEF Next, vars, governance, rows, GovernanceStep,
           Plan, Add, Select, LockRow, Mutate, Govern, Begin, CountAdmins, Abandon

\* However many administrators revoke one another at once, one remains.
THEOREM AdministratorRemains == Spec => AnAdministratorRemains
<1>1. GovernanceInv /\ [Next]_vars => [admins # {} => admins' # {}]_admins
  BY OnlyWriteAdminEnds
<1> QED BY <1>1, GovernanceInvHolds, PTL DEF Spec, AnAdministratorRemains

\* Memberships are only written by what added them or by what holds their row.
LEMMA OnlyTameChanges ==
    ASSUME GovernanceInv, [Next]_vars, NEW m \in Members
    PROVE  /\ members[m].status = "revoked" => members'[m] = members[m]
           /\ members[m].owner => members'[m].owner
<1> USE DEF GovernanceInv
<1>1. CASE members' = members
  BY <1>1
<1>2. ASSUME NEW c \in Calls, Mutate(c)
      PROVE  /\ members[m].status = "revoked" => members'[m] = members[m]
             /\ members[m].owner => members'[m].owner
  BY <1>2, MutationIsCurrent, OperationsAreTame DEF GovernanceTypeOK
<1>3. ASSUME NEW c \in Calls, Add(c)
      PROVE  /\ members[m].status = "revoked" => members'[m] = members[m]
             /\ members[m].owner => members'[m].owner
  <2>1. /\ members[request[c].target] = Absent
        /\ members' = [members EXCEPT ![request[c].target] = Changed(request[c].op, Absent)]
    BY <1>3 DEF Add, Target
  <2> QED BY <2>1 DEF Absent, GovernanceTypeOK
<1> QED BY <1>1, <1>2, <1>3 DEF Next, vars, governance, rows, GovernanceStep,
           Plan, Select, LockRow, Govern, Begin, CountAdmins, WriteAdmin, Abandon

\* No request, however stale, brings a revoked membership back or takes the role of
\* an owner.
THEOREM StaleRequestsAreHarmless == Spec => StaleRequestsChangeNothing
<1>1. GovernanceInv /\ [Next]_vars
        => [\A m \in Members :
              /\ members[m].status = "revoked" => members'[m] = members[m]
              /\ members[m].owner => members'[m].owner]_members
  BY OnlyTameChanges
<1> QED BY <1>1, GovernanceInvHolds, PTL DEF Spec, StaleRequestsChangeNothing

----------------------------------------------------------------------------
(***************************************************************************)
(* The sessions every call is admitted by.                                 *)
(*                                                                         *)
(* KeysAreIssued: a key is on nobody's lips before the login that makes it,*)
(* and a login makes it once, so a deleted session does not come back.     *)
(* RowsAreLocked: what a refresh holds the lock of is stored as it read it,*)
(* and versions tell rows apart.  FamiliesFollow relates the stored token  *)
(* to the latest of its family and to the tokens presented so far: a       *)
(* rotation is ahead of the row by one token, for as long as its           *)
(* transaction lasts.                                                      *)
(***************************************************************************)

Holding(c) == spc[c] \in {"locked", "rotated", "refused"}
Issued(k) == k \in Calls => spc[k] = "current" /\ use[k] = "login"
Named(c) == spc[c] # "idle" /\ use[c] # "login"

UsesFit == \A c \in Calls :
    /\ use[c] = "login" => spc[c] \in {"consumed", "replacing", "current", "denied"}
    /\ spc[c] \in {"consumed", "replacing"} => use[c] = "login"
    /\ Holding(c) => use[c] = "refresh"
    /\ spc[c] = "inactive" => use[c] = "check"
    /\ spc[c] \in {"deleted", "loggedOut"} => use[c] = "logout"
    /\ spc[c] \in {"again", "expired", "read", "inactive"} \/ Holding(c) => tries[c] # 0

KeysAreIssued ==
    /\ \A k \in DOMAIN session : Issued(k)
    /\ \A c \in Calls : Named(c) => Issued(key[c])
    /\ \A k \in Keys : ~Issued(k) => family[k] = NewFamily

RowsAreLocked ==
    /\ \A k \in DOMAIN session : session[k].version = session[k].token
    /\ \A c \in Calls : row[c].version = row[c].token
    /\ \A c \in Calls : Holding(c) => key[c] \in DOMAIN session /\ session[key[c]] = row[c]
    /\ \A c, d \in Calls : Holding(c) /\ Holding(d) /\ key[c] = key[d] => c = d

FamilyFollows(k) ==
    /\ session[k].token <= family[k].token
    /\ family[k].intact =>
          /\ (\A c \in Calls : key[c] = k => spc[c] # "rotated") =>
                family[k].token = session[k].token
          /\ (\A c \in Calls : key[c] = k => spc[c] \notin {"rotated", "refused"}) =>
                session[k].token \notin family[k].presented
          /\ \A t \in family[k].presented : t <= session[k].token

FamiliesFollow ==
    /\ \A k \in DOMAIN session : FamilyFollows(k)
    /\ \A c \in Calls : Named(c) => row[c].token <= family[key[c]].token
    /\ \A c \in Calls : spc[c] = "rotated" => family[key[c]].token = row[c].token + 1

AnswersHold == \A c \in Calls : spc[c] = "inactive" =>
    ~family[key[c]].active \/ row[c].token < family[key[c]].token

LogoutsComplete == \A c \in Calls :
    /\ spc[c] \in {"deleted", "loggedOut"} => key[c] \notin DOMAIN session
    /\ spc[c] = "deleted" /\ family[key[c]].intact => row[c].token = family[key[c]].token
    /\ spc[c] = "loggedOut" /\ family[key[c]].active => ~family[key[c]].intact

SessionsInv ==
    /\ SessionTypeOK
    /\ UsesFit /\ KeysAreIssued /\ RowsAreLocked /\ FamiliesFollow
    /\ AnswersHold /\ LogoutsComplete

USE KeysAssumption, TokensAssumption

\* A step of c leaves the other calls as they are.
Moves(c) == \A d \in Calls \ {c} :
    /\ spc'[d] = spc[d] /\ use'[d] = use[d] /\ key'[d] = key[d]
    /\ row'[d] = row[d] /\ tries'[d] = tries[d]

\* Nobody but c has the row lock of the session it names.
NobodyElseHolds(c) == \A d \in Calls \ {c} : key[d] = key[c] => ~Holding(d)

\* The state a call that passes on has to be in.
PassesTo(c) ==
    /\ use'[c] = "login" => spc'[c] \in {"consumed", "replacing", "current", "denied"}
    /\ spc'[c] \in {"consumed", "replacing"} => use'[c] = "login"
    /\ spc'[c] = "inactive" =>
          /\ use'[c] = "check"
          /\ ~family[key'[c]].active \/ row'[c].token < family[key'[c]].token
    /\ Named(c)' => Issued(key'[c]) /\ row'[c].token <= family[key'[c]].token
    /\ row'[c].version = row'[c].token
    /\ spc'[c] \in {"again", "expired", "read", "inactive", "locked"} => tries'[c] # 0
    /\ Holding(c)' => /\ spc'[c] = "locked" /\ use'[c] = "refresh"
                      /\ key'[c] \in DOMAIN session /\ session[key'[c]] = row'[c]
                      /\ \A d \in Calls \ {c} : key[d] = key'[c] => ~Holding(d)
    /\ spc'[c] \notin {"deleted", "loggedOut"}

\* Sessions are typed rows, tokens are numbers.
LEMMA TokensAreNumbers ==
    ASSUME SessionTypeOK
    PROVE  /\ \A k \in DOMAIN session : k \in Keys /\ session[k] \in Rows
                 /\ session[k].token \in 1..MaxToken /\ session[k].version \in 1..MaxToken
           /\ \A c \in Calls : key[c] \in Keys /\ row[c] \in Rows
                 /\ row[c].token \in 1..MaxToken /\ row[c].version \in 1..MaxToken
           /\ \A k \in Keys : /\ family[k] \in Families /\ family[k].token \in 1..MaxToken
                              /\ family[k].presented \subseteq 1..MaxToken
                              /\ family[k].intact \in BOOLEAN /\ family[k].active \in BOOLEAN
BY DEF SessionTypeOK, StoreTypeOK, CallTypeOK, Rows, Families

\* Two rows of one version are the same row.
LEMMA VersionsTellRows ==
    ASSUME SessionsInv, NEW c \in Calls, IsVersion(c)
    PROVE  key[c] \in DOMAIN session /\ session[key[c]] = row[c]
<1>1. /\ key[c] \in DOMAIN session /\ session[key[c]].version = row[c].version
      /\ session[key[c]].token = row[c].token
  BY DEF IsVersion, SessionsInv, RowsAreLocked
<1>2. session[key[c]] \in Rows /\ row[c] \in Rows
  BY <1>1, TokensAreNumbers DEF SessionsInv
<1> QED BY <1>1, <1>2 DEF Rows

\* One session at first, which every browser has.
LEMMA SessionsInit == SInit => SessionsInv
<1> SUFFICES ASSUME SInit PROVE SessionsInv
  OBVIOUS
<1>1. 1 \in 1..MaxToken
  OBVIOUS
<1>2. NewRow \in Rows /\ NewFamily \in Families /\ NewRow.token = 1 /\ NewRow.version = 1
  BY <1>1 DEF NewRow, NewFamily, Rows, Families
<1>3. /\ DOMAIN session = {First} /\ session[First] = NewRow
      /\ \A c \in Calls : /\ spc[c] = "idle" /\ use[c] = "check" /\ key[c] = First
                          /\ row[c] = NewRow
      /\ \A k \in Keys : family[k] = NewFamily
  BY DEF SInit
<1>4. SessionTypeOK
  BY <1>2 DEF SInit, SessionTypeOK, StoreTypeOK, CallTypeOK, Keys, Uses
<1>5. UsesFit /\ KeysAreIssued /\ RowsAreLocked /\ AnswersHold /\ LogoutsComplete
  BY <1>2, <1>3 DEF UsesFit, KeysAreIssued, RowsAreLocked, AnswersHold, LogoutsComplete,
                    Holding, Issued, Named
<1>6. FamiliesFollow
  BY <1>2, <1>3 DEF FamiliesFollow, FamilyFollows, Named, NewFamily, Keys
<1> QED BY <1>4, <1>5, <1>6 DEF SessionsInv

\* A call that neither stores nor deletes anything, and asks nothing of the provider
\* that changes it.
LEMMA CallPasses ==
    ASSUME SessionsInv, NEW c \in Calls, session' = session, family' = family,
           expired' \subseteq Keys, flows' \subseteq Flows, CallTypeOK', Moves(c),
           spc[c] \notin {"current", "rotated", "refused"},
           spc'[c] = "current" => use'[c] # "login", PassesTo(c)
    PROVE  SessionsInv'
<1> USE DEF SessionsInv
<1>1. SessionTypeOK'
  BY DEF SessionTypeOK, StoreTypeOK
<1>2. \A k \in Keys : Issued(k)' <=> Issued(k)
  BY DEF Issued, Moves
<1>3. UsesFit'
  BY DEF UsesFit, Moves, PassesTo, Holding
<1>4. KeysAreIssued'
  <2>1. /\ \A k \in DOMAIN session : k \in Keys
        /\ \A d \in Calls : key[d] \in Keys /\ key'[d] \in Keys
    BY DEF SessionTypeOK, StoreTypeOK, CallTypeOK
  <2>2. \A d \in Calls \ {c} : Named(d)' <=> Named(d)
    BY DEF Moves, Named
  <2> QED BY <1>2, <2>1, <2>2 DEF KeysAreIssued, Moves, PassesTo
<1>5. RowsAreLocked'
  BY DEF RowsAreLocked, Moves, PassesTo, Holding
<1>6. FamiliesFollow'
  <2>1. ASSUME NEW k \in DOMAIN session PROVE FamilyFollows(k)'
    <3>1. \A d \in Calls : key'[d] = k /\ spc'[d] \in {"rotated", "refused"} <=>
                           key[d] = k /\ spc[d] \in {"rotated", "refused"}
      BY DEF Moves, PassesTo, Holding
    <3>2. \A d \in Calls : key'[d] = k /\ spc'[d] = "rotated" <=>
                           key[d] = k /\ spc[d] = "rotated"
      BY DEF Moves, PassesTo, Holding
    <3> QED BY <3>1, <3>2 DEF FamiliesFollow, FamilyFollows
  <2>2. \A d \in Calls : Named(d)' => row'[d].token <= family[key'[d]].token
    BY DEF FamiliesFollow, Moves, PassesTo, Named
  <2>3. \A d \in Calls : spc'[d] = "rotated" => family[key'[d]].token = row'[d].token + 1
    BY DEF FamiliesFollow, Moves, PassesTo, Holding
  <2> QED BY <2>1, <2>2, <2>3 DEF FamiliesFollow
<1>7. AnswersHold' /\ LogoutsComplete'
  BY DEF AnswersHold, LogoutsComplete, Moves, PassesTo
<1> QED BY <1>1, <1>3, <1>4, <1>5, <1>6, <1>7

\* A call that goes to another step, and nothing more of it is new.
LEMMA CallGoes ==
    ASSUME SessionTypeOK, NEW c \in Calls, NEW step, Goto(c, step)
    PROVE  /\ spc'[c] = step
           /\ \A d \in Calls \ {c} : spc'[d] = spc[d]
BY DEF Goto, SessionTypeOK, CallTypeOK

\* A call names a session that there is, and reads its row.
LEMMA RequireInv ==
    ASSUME SessionsInv, NEW c \in Calls, NEW k \in Keys, NEW operation \in Uses \ {"login"},
           Require(c, operation, k)
    PROVE  SessionsInv'
<1>1. /\ spc[c] = "idle" /\ k \in DOMAIN session
      /\ use'[c] = operation /\ key'[c] = k /\ row'[c] = session[k]
      /\ spc'[c] = IF k \in expired THEN "expired" ELSE "read"
      /\ Moves(c) /\ UNCHANGED <<store, family>>
  BY CallGoes DEF Require, SessionsInv, SessionTypeOK, CallTypeOK, Moves
<1>2. CallTypeOK'
  <2>1. session[k] \in Rows
    BY <1>1, TokensAreNumbers DEF SessionsInv
  <2> QED BY <2>1 DEF Require, Goto, SessionsInv, SessionTypeOK, CallTypeOK
<1>3. PassesTo(c)
  <2>1. tries'[c] # 0
    BY DEF Require, SessionsInv, SessionTypeOK, CallTypeOK
  <2>2. Issued(k) /\ session[k].token <= family[k].token /\ session[k].version = session[k].token
    BY <1>1 DEF SessionsInv, KeysAreIssued, RowsAreLocked, FamiliesFollow, FamilyFollows
  <2> QED BY <1>1, <2>1, <2>2 DEF PassesTo, Holding, Named
<1> QED BY <1>1, <1>2, <1>3, CallPasses DEF store, SessionsInv, SessionTypeOK, StoreTypeOK

\* A call that passes on under the session and the operation it has.
LEMMA SameCallPasses ==
    ASSUME SessionsInv, NEW c \in Calls, NEW step, Goto(c, step),
           session' = session, expired' = expired, flows' = flows, family' = family,
           use' = use, key' = key, CallTypeOK',
           row'[c] = row[c] \/ (key[c] \in DOMAIN session /\ row'[c] = session[key[c]]),
           \A d \in Calls \ {c} : row'[d] = row[d],
           use[c] = "login" => spc[c] = "consumed" \/ spc[c] = "replacing",
           spc[c] \in {"again", "expired", "read", "inactive", "locked", "deleted",
                       "consumed", "replacing"},
           step \in {"read", "expired", "again", "inactive", "locked", "current", "denied"},
           step # "denied" => spc[c] \in {"again", "read", "inactive"},
           \A d \in Calls \ {c} : tries'[d] = tries[d],
           tries'[c] = tries[c] \/ (tries'[c] = 1 /\ tries[c] = 2) \/ step = "denied",
           step = "inactive" =>
              /\ use[c] = "check" /\ row'[c] = row[c]
              /\ ~family[key[c]].active \/ row[c].token < family[key[c]].token,
           step = "locked" =>
              /\ use[c] = "refresh" /\ row'[c] = row[c]
              /\ IsVersion(c) /\ Unlocked(key[c])
    PROVE  SessionsInv'
<1>1. /\ spc'[c] = step /\ use' = use /\ key' = key /\ Moves(c)
      /\ session' = session /\ family' = family
      /\ expired' \subseteq Keys /\ flows' \subseteq Flows
  BY CallGoes DEF SessionsInv, SessionTypeOK, StoreTypeOK, CallTypeOK, Moves, store
<1>2. PassesTo(c)
  <2>1. Named(c)' => Issued(key[c]) /\ row'[c].token <= family[key[c]].token
    <3> SUFFICES ASSUME Named(c)'
                 PROVE  Issued(key[c]) /\ row'[c].token <= family[key[c]].token
      OBVIOUS
    <3>1. Named(c)
      BY <1>1 DEF Named
    <3> QED BY <3>1 DEF SessionsInv, KeysAreIssued, FamiliesFollow, FamilyFollows
  <2>2. row'[c].version = row'[c].token
    BY DEF SessionsInv, RowsAreLocked
  <2>3. step = "locked" => /\ key[c] \in DOMAIN session /\ session[key[c]] = row[c]
                           /\ \A d \in Calls : key[d] = key[c] => ~Holding(d)
    BY VersionsTellRows DEF Unlocked, Holding
  <2>4. step # "denied" => tries'[c] # 0
    <3>1. tries[c] \in 0..2 /\ DOMAIN tries = Calls
      BY DEF SessionsInv, SessionTypeOK, CallTypeOK
    <3>2. step # "denied" => tries[c] # 0
      BY DEF SessionsInv, UsesFit, Holding
    <3> QED BY <3>1, <3>2
  <2> QED BY <1>1, <2>1, <2>2, <2>3, <2>4 DEF PassesTo, Holding
<1> QED BY <1>1, <1>2, CallPasses

\* The token a call has read is not ahead of its family.
LEMMA TokenIsBehind ==
    ASSUME SessionsInv, NEW c \in Calls, Named(c)
    PROVE  row[c].token <= family[key[c]].token
BY DEF SessionsInv, FamiliesFollow

\* A check starts over, gives up, or hears from the provider.
LEMMA RequireAgainInv ==
    ASSUME SessionsInv, NEW c \in Calls, RequireAgain(c)
    PROVE  SessionsInv'
<1>1. PICK step \in {"read", "expired", "denied"} : Goto(c, step)
  BY DEF RequireAgain
<1>2. /\ spc[c] = "again" /\ tries' = tries
      /\ session' = session /\ expired' = expired /\ flows' = flows
      /\ family' = family /\ use' = use /\ key' = key
  BY DEF RequireAgain, store
<1>5. /\ row'[c] = row[c] \/ (key[c] \in DOMAIN session /\ row'[c] = session[key[c]])
      /\ \A d \in Calls \ {c} : row'[d] = row[d]
  <2>1. CASE key[c] \in DOMAIN session
    BY <2>1 DEF RequireAgain, SessionsInv, SessionTypeOK, CallTypeOK
  <2>2. CASE key[c] \notin DOMAIN session
    BY <2>2 DEF RequireAgain
  <2> QED BY <2>1, <2>2
<1>3. use[c] # "login"
  BY <1>2 DEF SessionsInv, UsesFit
<1>4. CallTypeOK'
  <2>1. row' \in [Calls -> Rows]
    BY TokensAreNumbers DEF RequireAgain, SessionsInv, SessionTypeOK, CallTypeOK
  <2> QED BY <1>1, <1>2, <2>1 DEF Goto, SEnded, SessionsInv, SessionTypeOK, CallTypeOK
<1> QED BY <1>1, <1>2, <1>3, <1>4, <1>5, SameCallPasses

\* A call ends where it is; what it has written stays written.
LEMMA GiveUpInv ==
    ASSUME SessionsInv, NEW c \in Calls, GiveUp(c)
    PROVE  SessionsInv'
<1>1. CallTypeOK'
  BY DEF GiveUp, Goto, SEnded, SessionsInv, SessionTypeOK, CallTypeOK
<1>2. use[c] = "login" => spc[c] = "consumed" \/ spc[c] = "replacing"
  BY DEF GiveUp, SessionsInv, UsesFit
<1> QED BY <1>1, <1>2, SameCallPasses DEF GiveUp, store

\* The provider's answer, which is as good later as it was when it was given.
LEMMA AskProviderInv ==
    ASSUME SessionsInv, NEW c \in Calls, AskProvider(c)
    PROVE  SessionsInv'
<1>1. PICK step : /\ step = IF Usable(key[c], row[c]) THEN "current" ELSE "inactive"
                  /\ Goto(c, step)
  BY DEF AskProvider
<1>2. spc[c] = "read" /\ use[c] = "check" /\ UNCHANGED <<store, family, use, key, row, tries>>
  BY DEF AskProvider
<1>3. CallTypeOK'
  BY <1>1, <1>2 DEF Goto, SEnded, SessionsInv, SessionTypeOK, CallTypeOK
<1>4. step = "inactive" => ~family[key[c]].active \/ row[c].token < family[key[c]].token
  <2>1. row[c].token <= family[key[c]].token
    BY <1>2, TokenIsBehind DEF Named
  <2>2. row[c].token \in Nat /\ family[key[c]].token \in Nat
    BY TokensAreNumbers DEF SessionsInv
  <2> QED BY <1>1, <2>1, <2>2 DEF Usable
<1> QED BY <1>1, <1>2, <1>3, <1>4, SameCallPasses DEF store

\* A deletion that finds another version leaves the call one more try.
LEMMA CheckAgainInv ==
    ASSUME SessionsInv, NEW c \in Calls, CheckAgain(c)
    PROVE  SessionsInv'
<1>1. PICK step \in {"again", "denied"} : Goto(c, step)
  BY DEF CheckAgain
<1>2. /\ spc[c] = "inactive" /\ UNCHANGED <<store, family, use, key, row>>
      /\ tries' = [tries EXCEPT ![c] = tries[c] - 1]
  BY DEF CheckAgain
<1>3. use[c] = "check"
  BY <1>2 DEF SessionsInv, UsesFit
<1>4. /\ tries'[c] = tries[c] - 1 /\ \A d \in Calls \ {c} : tries'[d] = tries[d]
      /\ tries[c] \in 1..2
  BY <1>2 DEF SessionsInv, UsesFit, SessionTypeOK, CallTypeOK
<1>5. step = "again" => tries[c] = 2
  <2>1. Goto(c, IF tries[c] = 2 THEN "again" ELSE "denied") /\ c \in DOMAIN spc
    BY DEF CheckAgain, SessionsInv, SessionTypeOK, CallTypeOK
  <2> QED BY <1>1, <2>1 DEF Goto
<1>6. CallTypeOK'
  BY <1>1, <1>2, <1>4 DEF Goto, SEnded, SessionsInv, SessionTypeOK, CallTypeOK
<1> QED BY <1>1, <1>2, <1>3, <1>4, <1>5, <1>6, SameCallPasses DEF store

\* A refresh has the row it read, and nobody else's.
LEMMA LockForRefreshInv ==
    ASSUME SessionsInv, NEW c \in Calls, LockForRefresh(c)
    PROVE  SessionsInv'
<1>1. CallTypeOK'
  BY DEF LockForRefresh, Goto, SessionsInv, SessionTypeOK, CallTypeOK
<1> QED BY <1>1, SameCallPasses DEF LockForRefresh, store

\* A login takes its flow.
LEMMA ConsumePendingInv ==
    ASSUME SessionsInv, NEW c \in Calls, NEW f \in Flows, NEW k \in Keys, ConsumePending(c, f, k)
    PROVE  SessionsInv'
<1>1. /\ spc[c] = "idle" /\ spc'[c] = "consumed" /\ use'[c] = "login" /\ key'[c] = k
      /\ row' = row /\ session' = session /\ family' = family /\ expired' = expired
      /\ flows' = flows \ {f} /\ Moves(c)
  BY CallGoes DEF ConsumePending, SessionsInv, SessionTypeOK, CallTypeOK, Moves
<1>2. CallTypeOK'
  BY DEF ConsumePending, Goto, SessionsInv, SessionTypeOK, CallTypeOK, Uses
<1>3. PassesTo(c)
  BY <1>1 DEF PassesTo, Holding, Named, SessionsInv, RowsAreLocked
<1> QED BY <1>1, <1>2, <1>3, CallPasses DEF SessionsInv, SessionTypeOK, StoreTypeOK

----------------------------------------------------------------------------
\* The sessions without one key.
LEMMA WithoutFacts ==
    ASSUME NEW k
    PROVE  /\ DOMAIN Without(k) = DOMAIN session \ {k}
           /\ \A j \in DOMAIN session \ {k} : Without(k)[j] = session[j]
BY DEF Without

\* The sessions with one.
LEMMA WithFacts ==
    ASSUME NEW k, NEW r
    PROVE  /\ DOMAIN With(k, r) = DOMAIN session \cup {k} /\ With(k, r)[k] = r
           /\ \A j \in DOMAIN session \ {k} : With(k, r)[j] = session[j]
BY DEF With

\* A session ends by the hand of a call, while nobody else holds its row.
LEMMA SessionEnds ==
    ASSUME SessionsInv, NEW c \in Calls, session' = Without(key[c]), NobodyElseHolds(c),
           NEW step \in {"denied", "deleted", "replacing"}, Goto(c, step),
           UNCHANGED <<expired, flows, family, use, key, tries>>, CallTypeOK',
           \A d \in Calls \ {c} : row'[d] = row[d],
           spc[c] \notin {"idle", "current", "deleted", "loggedOut"},
           step # "deleted" => row'[c] = row[c],
           step = "deleted" => /\ use[c] = "logout" /\ ~Holding(c)
                               /\ key[c] \in DOMAIN session /\ row'[c] = session[key[c]],
           step = "replacing" <=> use[c] = "login"
    PROVE  SessionsInv'
<1> USE DEF SessionsInv
<1>1. spc'[c] = step /\ use' = use /\ key' = key /\ family' = family /\ Moves(c)
  BY CallGoes DEF Moves, CallTypeOK, SessionTypeOK
<1>2. /\ DOMAIN session' = DOMAIN session \ {key[c]}
      /\ \A k \in DOMAIN session' : session'[k] = session[k]
  BY WithoutFacts
<1>3. SessionTypeOK'
  BY <1>1, <1>2 DEF SessionTypeOK, StoreTypeOK
<1>4. \A k \in Keys : Issued(k)' <=> Issued(k)
  BY <1>1 DEF Issued, Moves
<1>5. UsesFit'
  BY <1>1 DEF UsesFit, Moves, Holding
<1>6. \A d \in Calls : Named(d)' <=> Named(d)
  BY <1>1 DEF Moves, Named
<1>7. KeysAreIssued'
  <2>1. /\ \A k \in DOMAIN session : k \in Keys
        /\ \A d \in Calls : key[d] \in Keys
    BY DEF SessionTypeOK, StoreTypeOK, CallTypeOK
  <2> QED BY <1>1, <1>2, <1>4, <1>6, <2>1 DEF KeysAreIssued
<1>8. \A d \in Calls : Holding(d)' <=> d # c /\ Holding(d)
  BY <1>1 DEF Moves, Holding
<1>9. RowsAreLocked'
  <2>1. row'[c].version = row'[c].token
    BY DEF RowsAreLocked
  <2> QED BY <1>1, <1>2, <1>8, <2>1 DEF RowsAreLocked, NobodyElseHolds, Moves
<1>10. FamiliesFollow'
  <2>1. ASSUME NEW k \in DOMAIN session' PROVE FamilyFollows(k)'
    <3>1. k # key[c] /\ session'[k] = session[k] /\ FamilyFollows(k)
      BY <1>2 DEF FamiliesFollow
    <3>2. \A d \in Calls : key[d] = k => spc'[d] = spc[d]
      BY <1>1, <3>1 DEF Moves
    <3> QED BY <1>1, <3>1, <3>2 DEF FamilyFollows
  <2>2. \A d \in Calls : Named(d)' => row'[d].token <= family[key[d]].token
    BY <1>1, <1>6 DEF FamiliesFollow, FamilyFollows, Moves
  <2>3. \A d \in Calls : spc'[d] = "rotated" => family[key[d]].token = row'[d].token + 1
    BY <1>1 DEF FamiliesFollow, Moves
  <2> QED BY <1>1, <2>1, <2>2, <2>3 DEF FamiliesFollow
<1>11. AnswersHold'
  BY <1>1 DEF AnswersHold, Moves
<1>12. LogoutsComplete'
  <2>1. ASSUME step = "deleted", family[key[c]].intact
        PROVE  row'[c].token = family[key[c]].token
    <3>1. \A d \in Calls : key[d] = key[c] => spc[d] # "rotated"
      BY <2>1 DEF NobodyElseHolds, Holding
    <3>2. FamilyFollows(key[c])
      BY <2>1 DEF FamiliesFollow
    <3> QED BY <2>1, <3>1, <3>2 DEF FamilyFollows
  <2> QED BY <1>1, <1>2, <2>1 DEF LogoutsComplete, Moves
<1> QED BY <1>3, <1>5, <1>7, <1>9, <1>10, <1>11, <1>12

\* The deletions: of an expired session, of one whose token is found inactive, of one
\* whose exchange failed, on logout, and by the login that replaces it.
LEMMA DeletionsInv ==
    ASSUME SessionsInv, NEW c \in Calls,
           \/ RemoveExpired(c) \/ DeleteIfVersion(c) \/ DeleteRefused(c)
           \/ DeleteForLogout(c) \/ ReplaceSession(c)
    PROVE  SessionsInv'
<1> USE DEF SessionsInv
<1>1. Unlocked(key[c]) => NobodyElseHolds(c)
  BY DEF Unlocked, NobodyElseHolds, Holding
<1>2. CASE RemoveExpired(c)
  <2>1. CallTypeOK'
    BY <1>2 DEF RemoveExpired, Goto, SEnded, SessionTypeOK, CallTypeOK
  <2>2. use[c] # "login"
    BY <1>2 DEF RemoveExpired, UsesFit
  <2> QED BY <1>1, <1>2, <2>1, <2>2, SessionEnds DEF RemoveExpired, DeleteSession
<1>3. CASE DeleteIfVersion(c)
  <2>1. CallTypeOK'
    BY <1>3 DEF DeleteIfVersion, Goto, SEnded, SessionTypeOK, CallTypeOK
  <2>2. use[c] # "login"
    BY <1>3 DEF DeleteIfVersion, UsesFit
  <2> QED BY <1>1, <1>3, <2>1, <2>2, SessionEnds DEF DeleteIfVersion
<1>4. CASE DeleteRefused(c)
  <2>1. CallTypeOK'
    BY <1>4 DEF DeleteRefused, Goto, SEnded, SessionTypeOK, CallTypeOK
  <2>2. use[c] # "login" /\ NobodyElseHolds(c)
    BY <1>4 DEF DeleteRefused, UsesFit, RowsAreLocked, NobodyElseHolds, Holding
  <2> QED BY <1>4, <2>1, <2>2, SessionEnds DEF DeleteRefused
<1>5. CASE DeleteForLogout(c)
  <2>1. session[key[c]] \in Rows
    BY <1>5, TokensAreNumbers DEF DeleteForLogout
  <2>2. CallTypeOK'
    BY <1>5, <2>1 DEF DeleteForLogout, Goto, SessionTypeOK, CallTypeOK
  <2>3. /\ row'[c] = session[key[c]] /\ \A d \in Calls \ {c} : row'[d] = row[d]
        /\ use[c] # "login" /\ ~Holding(c)
    BY <1>5 DEF DeleteForLogout, SessionTypeOK, CallTypeOK, Holding
  <2> QED BY <1>1, <1>5, <2>2, <2>3, SessionEnds DEF DeleteForLogout, DeleteSession
<1>6. CASE ReplaceSession(c)
  <2>1. CallTypeOK'
    BY <1>6 DEF ReplaceSession, Goto, SessionTypeOK, CallTypeOK
  <2>2. use[c] = "login"
    BY <1>6 DEF ReplaceSession, UsesFit
  <2> QED BY <1>1, <1>6, <2>1, <2>2, SessionEnds DEF ReplaceSession, DeleteSession
<1> QED BY <1>2, <1>3, <1>4, <1>5, <1>6

----------------------------------------------------------------------------
\* What a refresh that holds the lock knows of its session.
LEMMA HolderKnows ==
    ASSUME SessionsInv, NEW c \in Calls, Holding(c)
    PROVE  /\ key[c] \in DOMAIN session /\ session[key[c]] = row[c]
           /\ FamilyFollows(key[c]) /\ Issued(key[c]) /\ use[c] = "refresh"
           /\ \A d \in Calls \ {c} : key[d] = key[c] => ~Holding(d)
BY DEF SessionsInv, RowsAreLocked, FamiliesFollow, KeysAreIssued, UsesFit

\* The provider hears of a refresh that holds the lock, or its answer is lost.
LEMMA HolderAsks ==
    ASSUME SessionsInv, NEW c \in Calls, Holding(c), NEW step \in {"rotated", "refused", "denied"},
           Goto(c, step), UNCHANGED <<session, expired, flows, use, key, row, tries>>,
           family' \in [Keys -> Families],
           \A k \in Keys \ {key[c]} : family'[k] = family[k],
           family'[key[c]].active = family[key[c]].active,
           family'[key[c]].intact => family[key[c]].intact,
           family[key[c]].token <= family'[key[c]].token,
           step = "rotated" => family'[key[c]].token = row[c].token + 1,
           step = "refused" /\ family'[key[c]].intact => family'[key[c]].token = row[c].token,
           step = "denied" => ~family'[key[c]].intact,
           family'[key[c]].intact => \A t \in family'[key[c]].presented : t <= row[c].token
    PROVE  SessionsInv'
<1> USE DEF SessionsInv
<1>1. spc'[c] = step /\ Moves(c) /\ session' = session
  BY CallGoes DEF Moves
<1>2. /\ key[c] \in DOMAIN session /\ session[key[c]] = row[c]
      /\ FamilyFollows(key[c]) /\ Issued(key[c]) /\ use[c] = "refresh"
      /\ \A d \in Calls \ {c} : key[d] = key[c] => ~Holding(d)
  BY HolderKnows
<1>3. key[c] \in Keys
  BY DEF SessionTypeOK, CallTypeOK
<1>4. SessionTypeOK'
  BY DEF SessionTypeOK, StoreTypeOK, CallTypeOK, Goto, SEnded
<1>5. /\ \A k \in DOMAIN session : k \in Keys
      /\ \A d \in Calls : key[d] \in Keys /\ row[d].token \in Nat
      /\ \A k \in Keys : family[k].token \in Nat /\ family'[k].token \in Nat
  BY <1>4, TokensAreNumbers DEF SessionTypeOK, StoreTypeOK, Families
<1>6. /\ \A k \in Keys : Issued(k)' <=> Issued(k)
      /\ \A d \in Calls : Named(d)' <=> Named(d)
      /\ \A d \in Calls : Holding(d)' => Holding(d)
  BY <1>1 DEF Issued, Moves, Named, Holding
<1>7. UsesFit'
  BY <1>1, <1>2, <1>6 DEF UsesFit, Moves, Holding
<1>8. KeysAreIssued'
  BY <1>2, <1>3, <1>5, <1>6 DEF KeysAreIssued
<1>9. RowsAreLocked'
  BY <1>6 DEF RowsAreLocked
<1>10. \A k \in Keys : family[k].token <= family'[k].token
  BY <1>3, <1>5
<1>11. FamiliesFollow'
  <2>1. FamilyFollows(key[c])'
    <3>1. row[c].token <= family'[key[c]].token
      BY <1>2, <1>3, <1>5, <1>10 DEF FamilyFollows
    <3>2. step = "denied" \/ spc'[c] \in {"rotated", "refused"}
      BY <1>1
    <3>3. family'[key[c]].intact /\ (\A d \in Calls : key[d] = key[c] => spc'[d] # "rotated") =>
             family'[key[c]].token = row[c].token
      BY <1>1
    <3> QED BY <1>1, <1>2, <1>3, <3>1, <3>2, <3>3 DEF FamilyFollows
  <2>2. ASSUME NEW k \in DOMAIN session, k # key[c] PROVE FamilyFollows(k)'
    <3>1. family'[k] = family[k] /\ FamilyFollows(k)
      BY <1>3, <1>5, <2>2 DEF FamiliesFollow
    <3>2. \A d \in Calls : key[d] = k => spc'[d] = spc[d]
      BY <1>1, <2>2 DEF Moves
    <3> QED BY <1>1, <3>1, <3>2 DEF FamilyFollows
  <2>3. \A d \in Calls : Named(d)' => row[d].token <= family'[key[d]].token
    BY <1>5, <1>6, <1>10 DEF FamiliesFollow
  <2>4. ASSUME NEW d \in Calls, spc'[d] = "rotated"
        PROVE  family'[key[d]].token = row[d].token + 1
    <3>1. CASE d = c
      BY <1>1, <1>3, <2>4, <3>1
    <3>2. CASE d # c
      BY <1>1, <1>2, <1>3, <1>5, <2>4, <3>2 DEF FamiliesFollow, Moves, Holding
    <3> QED BY <3>1, <3>2
  <2> QED BY <1>1, <2>1, <2>2, <2>3, <2>4 DEF FamiliesFollow
<1>12. AnswersHold'
  <2> SUFFICES ASSUME NEW d \in Calls, spc'[d] = "inactive"
               PROVE  ~family'[key[d]].active \/ row[d].token < family'[key[d]].token
    BY DEF AnswersHold
  <2>1. ~family[key[d]].active \/ row[d].token < family[key[d]].token
    BY <1>1 DEF AnswersHold, Moves
  <2> QED BY <1>3, <1>5, <1>10, <2>1
<1>13. LogoutsComplete'
  BY <1>1, <1>2, <1>3, <1>5 DEF LogoutsComplete, Moves
<1> QED BY <1>4, <1>7, <1>8, <1>9, <1>11, <1>12, <1>13

\* The ways in which the provider's side of a family is written.
LEMMA FamilyUpdates ==
    ASSUME family \in [Keys -> Families], NEW k \in Keys, NEW n \in 1..MaxToken,
           NEW told \in SUBSET (1..MaxToken), NEW next
    PROVE  /\ next = [family EXCEPT ![k].token = n, ![k].presented = told] =>
                 next = [family EXCEPT ![k] = [token |-> n, active |-> family[k].active,
                            intact |-> family[k].intact, presented |-> told]]
           /\ next = [family EXCEPT ![k].token = n, ![k].intact = FALSE, ![k].presented = told] =>
                 next = [family EXCEPT ![k] = [token |-> n, active |-> family[k].active,
                            intact |-> FALSE, presented |-> told]]
           /\ next = [family EXCEPT ![k].presented = told] =>
                 next = [family EXCEPT ![k] = [token |-> family[k].token,
                            active |-> family[k].active,
                            intact |-> family[k].intact, presented |-> told]]
           /\ next = [family EXCEPT ![k].intact = FALSE] =>
                 next = [family EXCEPT ![k] = [token |-> family[k].token,
                            active |-> family[k].active,
                            intact |-> FALSE, presented |-> family[k].presented]]
<1>1. family[k] \in Families
  OBVIOUS
<1>2. next = [family EXCEPT ![k].token = n, ![k].presented = told] =>
         next = [family EXCEPT ![k] = [token |-> n, active |-> family[k].active,
                    intact |-> family[k].intact, presented |-> told]]
  BY <1>1 DEF Families
<1>3. next = [family EXCEPT ![k].token = n, ![k].intact = FALSE, ![k].presented = told] =>
         next = [family EXCEPT ![k] = [token |-> n, active |-> family[k].active,
                    intact |-> FALSE, presented |-> told]]
  BY <1>1 DEF Families
<1>4. next = [family EXCEPT ![k].presented = told] =>
         next = [family EXCEPT ![k] = [token |-> family[k].token,
                    active |-> family[k].active,
                    intact |-> family[k].intact, presented |-> told]]
  BY <1>1 DEF Families
<1>5. next = [family EXCEPT ![k].intact = FALSE] =>
         next = [family EXCEPT ![k] = [token |-> family[k].token,
                    active |-> family[k].active,
                    intact |-> FALSE, presented |-> family[k].presented]]
  BY <1>1 DEF Families
<1> QED BY <1>2, <1>3, <1>4, <1>5

\* An exchange succeeds, fails, succeeds unheard, or what it said is not stored.
LEMMA RefreshInv ==
    ASSUME SessionsInv, NEW c \in Calls,
           Exchange(c) \/ ExchangeFails(c) \/ ResponseLost(c) \/ LoseCommit(c)
    PROVE  SessionsInv'
<1> DEFINE k == key[c]
           told == family[k].presented \cup {row[c].token}
<1>1. Holding(c)
  BY DEF Holding, Exchange, ExchangeFails, ResponseLost, LoseCommit
<1>2. session[k] = row[c] /\ FamilyFollows(k)
  BY <1>1, HolderKnows
<1>3. /\ family \in [Keys -> Families] /\ k \in Keys /\ family[k] \in Families
      /\ family[k].token \in 1..MaxToken /\ row[c].token \in 1..MaxToken
      /\ told \in SUBSET (1..MaxToken)
  BY TokensAreNumbers DEF SessionsInv, SessionTypeOK, StoreTypeOK
<1>4. family[k].intact => \A t \in told : t <= row[c].token
  BY <1>2, <1>3 DEF FamilyFollows
<1>5. UNCHANGED <<session, expired, flows, use, key, row, tries>>
  BY DEF Exchange, ExchangeFails, ResponseLost, LoseCommit, store
<1>6. CASE Exchange(c) \/ ResponseLost(c)
  <2>1. family[k].token = row[c].token /\ row[c].token < MaxToken
    BY <1>6 DEF Exchange, ResponseLost, Usable
  <2>2. family[k].token + 1 \in 1..MaxToken
    BY <1>3, <2>1
  <2>3. /\ family' \in [Keys -> Families]
        /\ \A j \in Keys \ {k} : family'[j] = family[j]
        /\ family'[k].token = family[k].token + 1
        /\ family'[k].active = family[k].active
        /\ family'[k].intact => family[k].intact
        /\ family'[k].presented = told
    <3>1. CASE Exchange(c)
      <4>1. family' = [family EXCEPT ![k].token = family[k].token + 1, ![k].presented = told]
        BY <3>1 DEF Exchange
      <4> HIDE DEF told
      <4> QED BY <1>3, <2>2, <4>1, FamilyUpdates DEF Families
    <3>2. CASE ResponseLost(c)
      <4>1. family' = [family EXCEPT ![k].token = family[k].token + 1, ![k].intact = FALSE,
                                     ![k].presented = told]
        BY <3>2 DEF ResponseLost
      <4> HIDE DEF told
      <4> QED BY <1>3, <2>2, <4>1, FamilyUpdates DEF Families
    <3> QED BY <1>6, <3>1, <3>2
  <2>4. PICK step \in {"rotated", "refused"} :
            Goto(c, step) /\ (step = "refused" => ~family'[k].intact)
    <3>1. CASE Exchange(c)
      BY <3>1 DEF Exchange
    <3>2. CASE ResponseLost(c)
      <4>1. family' = [family EXCEPT ![k].token = family[k].token + 1, ![k].intact = FALSE,
                                     ![k].presented = told]
        BY <3>2 DEF ResponseLost
      <4>2. family'[k].intact = FALSE
        <5> HIDE DEF told
        <5> QED BY <1>3, <2>2, <4>1, FamilyUpdates DEF Families
      <4> QED BY <3>2, <4>2 DEF ResponseLost
    <3> QED BY <1>6, <3>1, <3>2
  <2>5. /\ family[k].token <= family'[k].token
        /\ step = "rotated" => family'[k].token = row[c].token + 1
        /\ ~(step = "refused" /\ family'[k].intact) /\ step # "denied"
        /\ family'[k].intact => \A t \in family'[k].presented : t <= row[c].token
    BY <1>3, <1>4, <2>1, <2>3, <2>4
  <2> QED BY ONLY SessionsInv, <1>1, <1>5, <2>3, <2>4, <2>5, HolderAsks
<1>7. CASE ExchangeFails(c)
  <2>1. family' = [family EXCEPT ![k].presented = told] /\ Goto(c, "refused")
    BY <1>7 DEF ExchangeFails
  <2>2. /\ family' \in [Keys -> Families]
        /\ \A j \in Keys \ {k} : family'[j] = family[j]
        /\ family'[k].token = family[k].token
        /\ family'[k].active = family[k].active
        /\ family'[k].intact = family[k].intact
        /\ family'[k].presented = told
    <3> HIDE DEF told
    <3> QED BY <1>3, <2>1, FamilyUpdates DEF Families
  <2>3. family[k].intact => family[k].token = row[c].token
    <3>1. \A d \in Calls : key[d] = k => spc[d] # "rotated"
      BY <1>1, <1>7, HolderKnows DEF ExchangeFails, Holding
    <3> QED BY <1>2, <3>1 DEF FamilyFollows
  <2> HIDE DEF told
  <2> QED BY <1>1, <1>3, <1>4, <1>5, <2>1, <2>2, <2>3, HolderAsks
<1>8. CASE LoseCommit(c)
  <2>1. family' = [family EXCEPT ![k].intact = FALSE] /\ Goto(c, "denied")
    BY <1>8 DEF LoseCommit
  <2>2. /\ family' \in [Keys -> Families]
        /\ \A j \in Keys \ {k} : family'[j] = family[j]
        /\ family'[k].token = family[k].token
        /\ family'[k].active = family[k].active
        /\ family'[k].intact = FALSE
    BY <1>3, <2>1, FamilyUpdates DEF Families
  <2>3. family[k].token <= family'[k].token
    BY <1>3, <2>2
  <2> QED BY ONLY SessionsInv, <1>1, <1>5, <2>1, <2>2, <2>3, HolderAsks
<1> QED BY <1>6, <1>7, <1>8

\* A family that ends is of no use to anybody.
LEMMA FamilyEnds ==
    ASSUME SessionTypeOK, NEW k \in Keys, NEW live \in BOOLEAN,
           family' = [family EXCEPT ![k].active = live], live => family[k].active
    PROVE  /\ family' \in [Keys -> Families]
           /\ family'[k].active = live
           /\ \A j \in Keys : /\ family'[j].token = family[j].token
                              /\ family'[j].intact = family[j].intact
                              /\ family'[j].presented = family[j].presented
                              /\ family'[j].active => family[j].active
                              /\ j # k => family'[j] = family[j]
BY DEF SessionTypeOK, StoreTypeOK, Families

\* A logout revokes the token that the row held when it was deleted.
LEMMA RevokeInv ==
    ASSUME SessionsInv, NEW c \in Calls, Revoke(c)
    PROVE  SessionsInv'
<1> USE DEF SessionsInv
<1> DEFINE live == family[key[c]].active /\ row[c].token # family[key[c]].token
<1>1. /\ spc[c] = "deleted" /\ spc'[c] = "loggedOut" /\ Moves(c)
      /\ family' = [family EXCEPT ![key[c]].active = live]
      /\ UNCHANGED <<session, expired, flows, use, key, row, tries>>
  BY CallGoes DEF Revoke, Moves, store
<1>2. use[c] = "logout" /\ key[c] \in Keys
  BY <1>1 DEF UsesFit, SessionTypeOK, CallTypeOK
<1>3. live \in BOOLEAN /\ (live => family[key[c]].active)
  BY <1>2, TokensAreNumbers
<1>4. /\ family' \in [Keys -> Families] /\ family'[key[c]].active = live
      /\ \A j \in Keys : /\ family'[j].token = family[j].token
                         /\ family'[j].intact = family[j].intact
                         /\ family'[j].presented = family[j].presented
                         /\ family'[j].active => family[j].active
                         /\ j # key[c] => family'[j] = family[j]
  <2> HIDE DEF live
  <2> QED BY <1>1, <1>2, <1>3, FamilyEnds
<1>5. SessionTypeOK'
  BY <1>1, <1>4 DEF Revoke, Goto, SEnded, SessionTypeOK, StoreTypeOK, CallTypeOK
<1>6. /\ \A k \in Keys : Issued(k)' <=> Issued(k)
      /\ \A d \in Calls : Named(d)' <=> Named(d)
      /\ \A d \in Calls : Holding(d)' <=> Holding(d)
      /\ \A d \in Calls : key[d] \in Keys
      /\ \A k \in DOMAIN session : k \in Keys
  BY <1>1 DEF Issued, Moves, Named, Holding, SessionTypeOK, StoreTypeOK, CallTypeOK
<1>7. UsesFit'
  BY <1>1, <1>2, <1>6 DEF UsesFit, Moves
<1>8. KeysAreIssued'
  BY <1>1, <1>2, <1>4, <1>6 DEF KeysAreIssued, Named
<1>9. RowsAreLocked'
  BY <1>1, <1>6 DEF RowsAreLocked
<1>10. FamiliesFollow'
  <2>1. \A d \in Calls : /\ spc'[d] = "rotated" <=> spc[d] = "rotated"
                         /\ spc'[d] = "refused" <=> spc[d] = "refused"
    BY <1>1 DEF Moves
  <2>2. ASSUME NEW k \in DOMAIN session PROVE FamilyFollows(k)'
    BY <1>1, <1>4, <1>6, <2>1 DEF FamiliesFollow, FamilyFollows
  <2> QED BY <1>1, <1>4, <1>6, <2>1, <2>2 DEF FamiliesFollow
<1>11. AnswersHold'
  BY <1>1, <1>4, <1>6 DEF AnswersHold, Moves
<1>12. LogoutsComplete'
  <2> SUFFICES ASSUME NEW d \in Calls
               PROVE  /\ spc'[d] \in {"deleted", "loggedOut"} => key[d] \notin DOMAIN session
                      /\ spc'[d] = "deleted" /\ family'[key[d]].intact =>
                            row[d].token = family'[key[d]].token
                      /\ spc'[d] = "loggedOut" /\ family'[key[d]].active =>
                            ~family'[key[d]].intact
    BY <1>1 DEF LogoutsComplete
  <2>1. CASE d = c
    BY <1>1, <1>2, <1>4, <2>1 DEF LogoutsComplete
  <2>2. CASE d # c
    BY <1>1, <1>4, <1>6, <2>2 DEF LogoutsComplete, Moves
  <2> QED BY <2>1, <2>2
<1> QED BY <1>5, <1>7, <1>8, <1>9, <1>10, <1>11, <1>12

\* The provider may end a family at any time.
LEMMA ProviderEndsInv ==
    ASSUME SessionsInv, NEW k \in Keys, ProviderEnds(k)
    PROVE  SessionsInv'
<1> USE DEF SessionsInv
<1>1. /\ k \in DOMAIN session /\ family' = [family EXCEPT ![k].active = FALSE]
      /\ UNCHANGED <<session, expired, flows, spc, use, key, row, tries>>
  BY DEF ProviderEnds, store, call
<1>2. /\ family' \in [Keys -> Families]
      /\ \A j \in Keys : /\ family'[j].token = family[j].token
                         /\ family'[j].intact = family[j].intact
                         /\ family'[j].presented = family[j].presented
                         /\ family'[j].active => family[j].active
                         /\ j # k => family'[j] = family[j]
  BY <1>1, FamilyEnds
<1>3. SessionTypeOK'
  BY <1>1, <1>2 DEF SessionTypeOK, StoreTypeOK, CallTypeOK
<1>4. /\ \A j \in DOMAIN session : j \in Keys
      /\ \A d \in Calls : key[d] \in Keys
  BY DEF SessionTypeOK, StoreTypeOK, CallTypeOK
<1>5. UsesFit' /\ RowsAreLocked' /\ AnswersHold' /\ LogoutsComplete'
  BY <1>1, <1>2, <1>4 DEF UsesFit, RowsAreLocked, AnswersHold, LogoutsComplete, Holding
<1>6. KeysAreIssued'
  BY <1>1, <1>2 DEF KeysAreIssued, Issued, Named
<1>7. FamiliesFollow'
  BY <1>1, <1>2, <1>4 DEF FamiliesFollow, FamilyFollows, Named
<1> QED BY <1>3, <1>5, <1>6, <1>7

\* The row catches up with its family.
LEMMA ReplaceTokensInv ==
    ASSUME SessionsInv, NEW c \in Calls, ReplaceTokens(c)
    PROVE  SessionsInv'
<1> USE DEF SessionsInv
<1> DEFINE k == key[c]
           new == [version |-> session[k].version + 1, token |-> row[c].token + 1]
<1>1. /\ spc[c] = "rotated" /\ Holding(c) /\ spc'[c] = "again" /\ use'[c] = "check"
      /\ session' = With(k, new) /\ Moves(c)
      /\ UNCHANGED <<expired, flows, family, key, row, tries>>
  BY CallGoes DEF ReplaceTokens, Holding, Moves, SessionTypeOK, CallTypeOK
<1>2. /\ k \in DOMAIN session /\ session[k] = row[c] /\ FamilyFollows(k) /\ use[c] = "refresh"
      /\ \A d \in Calls \ {c} : key[d] = k => ~Holding(d)
  BY <1>1, HolderKnows
<1>3. /\ k \in Keys /\ row[c].token \in 1..MaxToken /\ family[k].token \in 1..MaxToken
      /\ family[k].presented \subseteq 1..MaxToken
      /\ family[k].token = row[c].token + 1 /\ session[k].version = row[c].token
      /\ tries[c] # 0
  BY <1>1, <1>2, TokensAreNumbers DEF FamiliesFollow, RowsAreLocked, UsesFit
<1>4. /\ new \in Rows /\ new.token = family[k].token /\ new.version = new.token
  BY <1>3 DEF Rows
<1> HIDE DEF new
<1>5. /\ DOMAIN session' = DOMAIN session /\ session'[k] = new
      /\ \A j \in DOMAIN session \ {k} : session'[j] = session[j]
  BY <1>1, <1>2, WithFacts
<1>6. SessionTypeOK'
  <2>1. CallTypeOK'
    BY DEF ReplaceTokens, Goto, SessionTypeOK, CallTypeOK, Uses
  <2> QED BY <1>1, <1>4, <1>5, <2>1 DEF SessionTypeOK, StoreTypeOK
<1>7. /\ \A j \in Keys : Issued(j)' <=> Issued(j)
      /\ \A d \in Calls : Named(d)' => Named(d)
      /\ \A d \in Calls : Holding(d)' <=> d # c /\ Holding(d)
  BY <1>1, <1>2 DEF Issued, Moves, Named, Holding
<1>8. /\ \A j \in DOMAIN session : j \in Keys
      /\ \A d \in Calls : key[d] \in Keys
  BY DEF SessionTypeOK, StoreTypeOK, CallTypeOK
<1>9. UsesFit'
  BY <1>1, <1>3, <1>7 DEF UsesFit, Moves
<1>10. KeysAreIssued'
  BY <1>1, <1>5, <1>7, <1>8 DEF KeysAreIssued
<1>11. RowsAreLocked'
  BY <1>1, <1>2, <1>4, <1>5, <1>7 DEF RowsAreLocked
<1>12. FamiliesFollow'
  <2>1. FamilyFollows(k)'
    <3>1. family[k].intact => \A t \in family[k].presented : t < new.token
      BY <1>2, <1>3, <1>4 DEF FamilyFollows
    <3>2. new.token \in Nat /\ \A t \in family[k].presented : t \in Nat
      BY <1>3, <1>4
    <3> QED BY <1>1, <1>4, <1>5, <3>1, <3>2 DEF FamilyFollows
  <2>2. ASSUME NEW j \in DOMAIN session, j # k PROVE FamilyFollows(j)'
    <3>1. \A d \in Calls : key[d] = j => spc'[d] = spc[d]
      BY <1>1, <2>2 DEF Moves
    <3> QED BY <1>1, <1>5, <2>2, <3>1 DEF FamiliesFollow, FamilyFollows
  <2>3. \A d \in Calls : spc'[d] = "rotated" => spc[d] = "rotated"
    BY <1>1 DEF Moves
  <2> QED BY <1>1, <1>5, <1>7, <2>1, <2>2, <2>3 DEF FamiliesFollow
<1>13. AnswersHold'
  BY <1>1 DEF AnswersHold, Moves
<1>14. LogoutsComplete'
  BY <1>1, <1>5 DEF LogoutsComplete, Moves
<1> QED BY <1>6, <1>9, <1>10, <1>11, <1>12, <1>13, <1>14

\* A login stores its session under a key that nobody knew.
LEMMA SaveSessionInv ==
    ASSUME SessionsInv, NEW c \in Calls, SaveSession(c)
    PROVE  SessionsInv'
<1> USE DEF SessionsInv
<1>1. /\ spc[c] = "replacing" /\ spc'[c] = "current" /\ session' = With(c, NewRow)
      /\ Moves(c) /\ UNCHANGED <<expired, flows, family, use, key, row, tries>>
  BY CallGoes DEF SaveSession, Moves
<1>2. use[c] = "login" /\ ~Issued(c) /\ c \in Keys
  BY <1>1 DEF UsesFit, Issued, Keys
<1>3. c \notin DOMAIN session /\ family[c] = NewFamily
  BY <1>2 DEF KeysAreIssued
<1>4. /\ DOMAIN session' = DOMAIN session \cup {c} /\ session'[c] = NewRow
      /\ \A j \in DOMAIN session : session'[j] = session[j]
  <2>1. \A j \in DOMAIN session : j \in DOMAIN session \ {c}
    BY <1>3
  <2>2. /\ DOMAIN With(c, NewRow) = DOMAIN session \cup {c}
        /\ With(c, NewRow)[c] = NewRow
        /\ \A j \in DOMAIN session \ {c} : With(c, NewRow)[j] = session[j]
    BY DEF With
  <2> QED BY <1>1, <2>1, <2>2
<1>5. NewRow \in Rows /\ NewRow.token = 1 /\ NewRow.version = 1
  <2>1. 1 \in 1..MaxToken
    OBVIOUS
  <2> QED BY <2>1 DEF NewRow, Rows
<1>6. SessionTypeOK'
  <2>1. CallTypeOK'
    BY DEF SaveSession, Goto, SEnded, SessionTypeOK, CallTypeOK
  <2> QED BY <1>1, <1>2, <1>4, <1>5, <2>1 DEF SessionTypeOK, StoreTypeOK
<1>7. /\ \A j \in Keys : Issued(j)' <=> Issued(j) \/ j = c
      /\ \A d \in Calls : Named(d)' <=> Named(d)
      /\ \A d \in Calls : Holding(d)' <=> Holding(d)
  BY <1>1, <1>2 DEF Issued, Moves, Named, Holding
<1>8. /\ \A j \in DOMAIN session : j \in Keys
      /\ \A d \in Calls : key[d] \in Keys
  BY DEF SessionTypeOK, StoreTypeOK, CallTypeOK
<1>9. UsesFit'
  BY <1>1, <1>2, <1>7 DEF UsesFit, Moves
<1>10. KeysAreIssued'
  BY <1>1, <1>2, <1>4, <1>7, <1>8 DEF KeysAreIssued
<1>11. RowsAreLocked'
  BY <1>1, <1>4, <1>5, <1>7 DEF RowsAreLocked
<1>12. FamiliesFollow'
  <2>1. FamilyFollows(c)'
    BY <1>1, <1>3, <1>4, <1>5 DEF FamilyFollows, NewFamily
  <2>2. \A d \in Calls : /\ spc'[d] = "rotated" <=> spc[d] = "rotated"
                         /\ spc'[d] = "refused" <=> spc[d] = "refused"
    BY <1>1 DEF Moves
  <2>3. ASSUME NEW j \in DOMAIN session PROVE FamilyFollows(j)'
    BY <1>1, <1>4, <2>2 DEF FamiliesFollow, FamilyFollows
  <2> QED BY <1>1, <1>4, <1>7, <2>1, <2>2, <2>3 DEF FamiliesFollow
<1>13. AnswersHold'
  BY <1>1 DEF AnswersHold, Moves
<1>14. LogoutsComplete'
  <2> SUFFICES ASSUME NEW d \in Calls, spc'[d] \in {"deleted", "loggedOut"}
               PROVE  spc'[d] = spc[d] /\ key[d] # c
    BY <1>1, <1>4 DEF LogoutsComplete
  <2>1. spc'[d] = spc[d] /\ use[d] = "logout"
    BY <1>1 DEF Moves, UsesFit
  <2>2. Issued(key[d])
    BY <2>1 DEF KeysAreIssued, Named
  <2> QED BY <1>2, <2>1, <2>2
<1> QED BY <1>6, <1>9, <1>10, <1>11, <1>12, <1>13, <1>14

\* What is not of the sessions, and their expiry, disturb nothing.
LEMMA SessionsStay ==
    ASSUME SessionsInv, expired' \subseteq Keys, UNCHANGED <<session, flows, family, call>>
    PROVE  SessionsInv'
<1> USE DEF SessionsInv, call
<1>1. SessionTypeOK' /\ UsesFit' /\ KeysAreIssued'
  BY DEF SessionTypeOK, StoreTypeOK, CallTypeOK, UsesFit, KeysAreIssued, Holding, Issued, Named
<1>2. RowsAreLocked' /\ FamiliesFollow' /\ AnswersHold' /\ LogoutsComplete'
  BY DEF RowsAreLocked, FamiliesFollow, FamilyFollows, AnswersHold, LogoutsComplete,
         Holding, Named
<1> QED BY <1>1, <1>2

\* Every step keeps the invariant of the sessions.
LEMMA SessionsStep == SessionsInv /\ [SNext]_svars => SessionsInv'
<1> SUFFICES ASSUME SessionsInv, [SNext]_svars PROVE SessionsInv'
  OBVIOUS
<1>1. ASSUME NEW c \in Calls, SStep(c) PROVE SessionsInv'
  <2>1. ASSUME NEW k \in Keys, NEW operation \in Uses \ {"login"}, Require(c, operation, k)
        PROVE  SessionsInv'
    BY <2>1, RequireInv
  <2>2. ASSUME NEW f \in Flows, NEW k \in Keys, ConsumePending(c, f, k) PROVE SessionsInv'
    BY <2>2, ConsumePendingInv
  <2>3. CASE RequireAgain(c) \/ GiveUp(c) \/ AskProvider(c) \/ CheckAgain(c) \/ LockForRefresh(c)
    BY <2>3, RequireAgainInv, GiveUpInv, AskProviderInv, CheckAgainInv, LockForRefreshInv
  <2>4. CASE \/ RemoveExpired(c) \/ DeleteIfVersion(c) \/ DeleteRefused(c)
             \/ DeleteForLogout(c) \/ ReplaceSession(c)
    BY <2>4, DeletionsInv
  <2>5. CASE Exchange(c) \/ ExchangeFails(c) \/ ResponseLost(c) \/ LoseCommit(c)
    BY <2>5, RefreshInv
  <2>6. CASE ReplaceTokens(c) \/ Revoke(c) \/ SaveSession(c)
    BY <2>6, ReplaceTokensInv, RevokeInv, SaveSessionInv
  <2> QED BY <1>1, <2>1, <2>2, <2>3, <2>4, <2>5, <2>6 DEF SStep
<1>2. ASSUME NEW k \in Keys, Expire(k) PROVE SessionsInv'
  <2>1. expired' \subseteq Keys /\ UNCHANGED <<session, flows, family, call>>
    BY <1>2 DEF Expire, SessionsInv, SessionTypeOK, StoreTypeOK
  <2> QED BY <2>1, SessionsStay
<1>3. ASSUME NEW k \in Keys, ProviderEnds(k) PROVE SessionsInv'
  BY <1>3, ProviderEndsInv
<1>4. CASE UNCHANGED svars
  <2>1. expired' \subseteq Keys /\ UNCHANGED <<session, flows, family, call>>
    BY <1>4 DEF svars, store, SessionsInv, SessionTypeOK, StoreTypeOK
  <2> QED BY <2>1, SessionsStay
<1> QED BY <1>1, <1>2, <1>3, <1>4 DEF SNext

----------------------------------------------------------------------------
\* The invariant behind the safety of the sessions, for every number of calls, flows
\* and rotations.
THEOREM SessionsCorrect == Spec => []SessionsInv
<1>1. Init => SessionsInv
  BY SessionsInit DEF Init
<1>2. SessionsInv /\ [Next]_vars => SessionsInv'
  <2>1. [Next]_vars => [SNext]_svars
    BY DEF Next, vars
  <2> QED BY <2>1, SessionsStep
<1> QED BY <1>1, <1>2, PTL DEF Spec

\* A logout that the provider answered leaves neither a session nor a live token.
THEOREM LogoutIsComplete == Spec => []LogoutLeavesNothing
<1>1. SessionsInv => LogoutLeavesNothing
  BY DEF SessionsInv, LogoutsComplete, LogoutLeavesNothing
<1> QED BY <1>1, SessionsCorrect, PTL

\* A token is presented by the call that holds its session's lock, which has not
\* presented it before.
LEMMA PresentedOnce ==
    ASSUME SessionsInv, NEW c \in Calls, spc[c] = "locked"
    PROVE  row[c].token \notin family[key[c]].presented \/ ~family[key[c]].intact
<1>1. Holding(c)
  BY DEF Holding
<1>2. /\ session[key[c]] = row[c] /\ FamilyFollows(key[c])
      /\ \A d \in Calls \ {c} : key[d] = key[c] => ~Holding(d)
  BY <1>1, HolderKnows
<1> QED BY <1>2 DEF FamilyFollows, Holding

\* The only session a check deletes is the one it asked about.
LEMMA CheckDeletesItsOwn ==
    ASSUME SessionsInv, [SNext]_svars, NEW c \in Calls, spc[c] = "inactive",
           spc'[c] = "denied", key[c] \in DOMAIN session \ DOMAIN session'
    PROVE  ~Usable(key[c], session[key[c]])
<1>1. \A d \in Calls : SStep(d) => d = c
  <2> SUFFICES ASSUME NEW d \in Calls, SStep(d), d # c PROVE FALSE
    OBVIOUS
  <2>1. ASSUME NEW step, Goto(d, step) PROVE FALSE
    BY <2>1, CallGoes DEF SessionsInv
  <2> QED BY <2>1 DEF SStep, Require, ConsumePending, RequireAgain, RemoveExpired, GiveUp,
          AskProvider, DeleteIfVersion, CheckAgain, LockForRefresh, Exchange, ExchangeFails,
          ResponseLost, ReplaceTokens, LoseCommit, DeleteRefused, DeleteForLogout, Revoke,
          ReplaceSession, SaveSession
<1>2. \E d \in Calls : SStep(d)
  BY DEF SNext, Expire, ProviderEnds, call, store, svars
<1>3. SStep(c)
  BY <1>1, <1>2
<1>4. DeleteIfVersion(c) \/ GiveUp(c) \/ CheckAgain(c)
  BY <1>3 DEF SStep, Require, ConsumePending, RequireAgain, RemoveExpired,
     AskProvider, LockForRefresh, Exchange, ExchangeFails, ResponseLost, ReplaceTokens,
     LoseCommit, DeleteRefused, DeleteForLogout, Revoke, ReplaceSession, SaveSession
<1>5. IsVersion(c)
  BY <1>4 DEF DeleteIfVersion, GiveUp, CheckAgain, store
<1>6. session[key[c]] = row[c]
  BY <1>5, VersionsTellRows
<1>7. ~family[key[c]].active \/ row[c].token < family[key[c]].token
  BY DEF SessionsInv, AnswersHold
<1>8. row[c].token \in Nat /\ key[c] \in Keys
  BY TokensAreNumbers DEF SessionsInv
<1> QED BY <1>6, <1>7, <1>8 DEF Usable

\* Rotation presents no token twice, and no stale answer deletes a fresh session.
THEOREM RotationSafe == Spec => RotationIsSafe
<1> DEFINE Once == \A c \in Calls :
              LET k == key[c] IN
              spc[c] = "locked" /\ spc'[c] \in {"rotated", "refused"}
                 => row[c].token \notin family[k].presented \/ ~family[k].intact
           Fresh == \A c \in Calls :
              LET k == key[c] IN
              spc[c] = "inactive" /\ spc'[c] = "denied" /\ k \in DOMAIN session \ DOMAIN session'
                 => ~Usable(k, session[k])
<1>1. SessionsInv /\ [Next]_vars => [Once]_svars
  BY PresentedOnce
<1>2. SessionsInv /\ [Next]_vars => [Fresh]_svars
  <2>1. [Next]_vars => [SNext]_svars
    BY DEF Next, vars
  <2> QED BY <2>1, CheckDeletesItsOwn
<1>3. Spec => [][Once]_svars
  <2> HIDE DEF Once
  <2> QED BY <1>1, SessionsCorrect, PTL DEF Spec
<1>4. Spec => [][Fresh]_svars
  <2> HIDE DEF Fresh
  <2> QED BY <1>2, SessionsCorrect, PTL DEF Spec
<1> QED BY <1>3, <1>4, PTL DEF RotationIsSafe, TokenPresentedOnce, FreshSessionSurvives

----------------------------------------------------------------------------
(***************************************************************************)
(* Nobody waits in a circle.  Every call locks upwards, OrderKept.  If all *)
(* calls that are locking waited, the highest row that is locked would be  *)
(* held by a call that waits for a higher one, which is locked, too.       *)
(***************************************************************************)

OrderKept == \A c \in Calls : \A m \in Locked(c), n \in wanted[c] \ Locked(c) : m < n

\* A finite set of numbers has a highest one.
LEMMA HighestExists ==
    ASSUME NEW S \in SUBSET Nat, IsFiniteSet(S), S # {}
    PROVE  \E top \in S : \A n \in S : n <= top
<1> DEFINE Above(t) == {m \in S : t < m}
           Tails == {Above(t) : t \in S}
<1>1. Tails \subseteq FiniteSubsetsOf(S) /\ Tails # {}
  <2>1. \A t \in S : Above(t) \in SUBSET S /\ IsFiniteSet(Above(t))
    BY FS_Subset
  <2> QED BY <2>1 DEF FiniteSubsetsOf
<1>2. PICK tail \in Tails : \A other \in Tails : <<other, tail>> \notin StrictSubsetOrdering(S)
  <2> HIDE DEF Tails
  <2> QED BY <1>1, FS_StrictSubsetOrderingWellFounded, WFMin
<1>3. PICK top \in S : tail = Above(top)
  OBVIOUS
<1>4. ASSUME NEW n \in S, n > top PROVE FALSE
  <2>1. n \in Above(top) /\ n \notin Above(n)
    <3>1. n \in Nat /\ top \in Nat /\ ~(n < n)
      <4>1. n \in Nat /\ top \in Nat
        OBVIOUS
      <4> HIDE DEF Above, Tails
      <4> QED BY <4>1
    <3>2. n \in Above(top)
      <4>1. top < n
        BY <1>4, <3>1
      <4> HIDE DEF Tails
      <4> QED BY <4>1
    <3>3. n \notin Above(n)
      BY <3>1
    <3> QED BY <3>2, <3>3
  <2>2. Above(n) \subseteq Above(top)
    <3>1. \A m \in S : n < m => top < m
      BY <1>4
    <3> HIDE DEF Tails
    <3> QED BY <3>1
  <2>3. <<Above(n), tail>> \in StrictSubsetOrdering(S)
    BY <1>3, <2>1, <2>2 DEF StrictSubsetOrdering
  <2> QED BY <1>2, <2>3
<1> QED BY <1>4

\* Rows are locked in ascending order.
LEMMA OrderStep ==
    ASSUME GovernanceInv, OrderKept, [Next]_vars
    PROVE  OrderKept'
<1>1. CASE UNCHANGED <<wanted, seen>>
  BY <1>1 DEF OrderKept, Locked
<1>2. ASSUME NEW c \in Calls, LockRow(c) PROVE OrderKept'
  <2>1. PICK m \in NextRows(c) :
            seen' = [seen EXCEPT ![c] =
                [n \in Locked(c) \cup {m} |-> IF n = m THEN members[m] ELSE seen[c][n]]]
    BY <1>2 DEF LockRow
  <2>2. /\ m \in wanted[c] \ Locked(c) /\ \A n \in wanted[c] \ Locked(c) : m <= n
        /\ wanted' = wanted /\ wanted[c] \subseteq Nat /\ DOMAIN seen = Calls
    BY <1>2, MembersAssumption DEF NextRows, LockRow, GovernanceInv, GovernanceTypeOK
  <2>3. /\ Locked(c)' = Locked(c) \cup {m}
        /\ \A d \in Calls \ {c} : Locked(d)' = Locked(d)
    BY <2>1, <2>2 DEF Locked
  <2>4. \A a \in Locked(c)', n \in wanted[c] \ Locked(c)' : a < n
    BY <2>2, <2>3 DEF OrderKept
  <2> QED BY <2>2, <2>3, <2>4 DEF OrderKept
<1>3. ASSUME NEW c \in Calls, Select(c) PROVE OrderKept'
  <2>1. Locked(c) = {} /\ seen' = seen /\ \A d \in Calls \ {c} : wanted'[d] = wanted[d]
    BY <1>3 DEF Select, GovernanceInv, GovernanceTypeOK, RowsExist
  <2> QED BY <2>1 DEF OrderKept, Locked
<1>4. ASSUME NEW c \in Calls, NEW outcome \in Ended, End(c, outcome) PROVE OrderKept'
  <2>1. /\ Locked(c)' = {}
        /\ \A d \in Calls \ {c} : wanted'[d] = wanted[d] /\ Locked(d)' = Locked(d)
    BY <1>4, Released DEF GovernanceInv
  <2> QED BY <2>1 DEF OrderKept
<1>5. ASSUME NEW c \in Calls, GovernanceStep(c) PROVE OrderKept'
  <2>1. CASE Add(c) \/ Mutate(c) \/ WriteAdmin(c) \/ Abandon(c)
    BY <1>4, <2>1 DEF Add, Mutate, WriteAdmin, Abandon, Ended
  <2>2. CASE Plan(c) \/ Govern(c) \/ CountAdmins(c)
    BY <1>1, <2>2 DEF Plan, Govern, CountAdmins, Begin
  <2> QED BY <1>2, <1>3, <1>5, <2>1, <2>2 DEF GovernanceStep
<1>6. CASE UNCHANGED governance
  BY <1>1, <1>6 DEF governance, progress
<1> QED BY <1>5, <1>6 DEF Next, vars

\* Calls that lock upwards cannot all wait.
LEMMA SomebodyMoves ==
    ASSUME GovernanceInv, OrderKept
    PROVE  LocksNeverCircle
<1> USE DEF GovernanceInv
<1> DEFINE Waits(c) == /\ pc[c] = "locking" /\ wanted[c] # Locked(c)
                       /\ \A m \in wanted[c] \ Locked(c) : ~RowFree(m)
           Held == {m \in Members : \E d \in Calls : m \in Locked(d)}
<1> SUFFICES ASSUME \A c \in Calls : pc[c] = "locking" => Waits(c),
                    NEW c \in Calls, pc[c] = "locking"
             PROVE  FALSE
  BY DEF LocksNeverCircle
<1>1. \A d \in Calls : /\ wanted[d] \subseteq Members /\ Locked(d) \subseteq wanted[d]
                       /\ Locked(d) # {} => pc[d] = "locking"
  BY DEF GovernanceTypeOK, RowsExist
<1>2. ASSUME NEW d \in Calls, pc[d] = "locking"
      PROVE  \E n \in Held : n \in wanted[d] \ Locked(d)
  <2>1. PICK n \in wanted[d] \ Locked(d) : ~RowFree(n)
    <3>1. Waits(d)
      BY <1>2
    <3> QED BY <1>1, <3>1
  <2> QED BY <1>1, <2>1 DEF RowFree
<1>3. Held # {} /\ Held \in SUBSET Nat /\ IsFiniteSet(Held)
  <2>1. IsFiniteSet(Held)
    BY MembersAssumption, FS_Subset
  <2> QED BY <1>2, <2>1, MembersAssumption
<1>4. PICK top \in Held : \A n \in Held : n <= top
  <2> HIDE DEF Held
  <2> QED BY <1>3, HighestExists
<1>5. PICK d \in Calls : top \in Locked(d)
  OBVIOUS
<1>6. PICK n \in Held : n \in wanted[d] \ Locked(d)
  BY <1>1, <1>2, <1>5
<1>7. top < n
  BY <1>5, <1>6 DEF OrderKept
<1> HIDE DEF Held
<1>8. n <= top /\ n \in Nat /\ top \in Nat
  BY <1>3, <1>4
<1> QED BY <1>7, <1>8

\* However many calls lock owner rows at once, they never wait in a circle.
THEOREM LocksAreOrdered == Spec => []LocksNeverCircle
<1>1. Init => OrderKept
  BY NothingIsTyped DEF Init, OrderKept, Locked
<1>2. GovernanceInv /\ OrderKept /\ [Next]_vars => OrderKept'
  BY OrderStep
<1>3. GovernanceInv /\ OrderKept => LocksNeverCircle
  BY SomebodyMoves
<1> QED BY <1>1, <1>2, <1>3, GovernanceInvHolds, PTL DEF Spec
=============================================================================
