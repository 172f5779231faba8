------------------------------ MODULE Tenancy ------------------------------
(***************************************************************************)
(* One organization and its subscription, as the services of Organizations *)
(* and Entitlements change them.                                           *)
(*                                                                         *)
(* Every call reads what is stored, applies a domain rule, records its     *)
(* intent, writes in a transaction of its own and records its success; it  *)
(* may stop after any of these steps.  The two services differ in what     *)
(* they write: a subscription is updated only if its row still has the     *)
(* identifier and the status that were read, whereas an organization is    *)
(* overwritten with the complete aggregate the call has computed, status   *)
(* included.                                                               *)
(*                                                                         *)
(* Branding and configuration are one value.  An assignment takes the name *)
(* of the call that makes it for its new identifier.  Entitlements adds    *)
(* the features and their overrides; the catalog of plans is left out.     *)
(***************************************************************************)

CONSTANTS
    Calls,
    Plans,             \* active plans: no operation deactivates one
    Configurations,
    None               \* no organization, no subscription, nothing read

VARIABLES
    organization,      \* the row of organizations
    subscription,      \* the row of organization_subscriptions
    pc, op,            \* each call's progress and its operation
    base, value        \* what it has read, and what it is to write

vars == <<organization, subscription, pc, op, base, value>>

Organizations == [status : {"active", "suspended"}, configuration : Configurations]
SubscriptionStatuses == {"trialing", "active", "suspended", "canceled"}
Subscriptions == [id : Calls, plan : Plans, status : SubscriptionStatuses]

OrganizationOps == {"create", "suspendOrganization", "reactivateOrganization", "configure"}
Transitions == {"suspend", "reactivate", "cancel"}
Ops == OrganizationOps \cup Transitions \cup {"assign"}

Unfinished == {"planned", "intended", "written"}

TypeOK ==
    /\ organization \in Organizations \cup {None}
    /\ subscription \in Subscriptions \cup {None}
    /\ pc \in [Calls -> {"idle"} \cup Unfinished \cup {"done", "failed"}]
    /\ op \in [Calls -> Ops \cup {"none"}]
    /\ base \in [Calls -> Organizations \cup Subscriptions \cup {None}]
    /\ value \in [Calls -> Organizations \cup Subscriptions \cup {None}]

Init ==
    /\ organization = None
    /\ subscription = None
    /\ pc = [c \in Calls |-> "idle"]
    /\ op = [c \in Calls |-> "none"]
    /\ base = [c \in Calls |-> None]
    /\ value = [c \in Calls |-> None]

----------------------------------------------------------------------------
\* A call has read what is stored, and its domain rule admits the change.
Plan(c, operation, read, written) ==
    /\ pc[c] = "idle"
    /\ pc' = [pc EXCEPT ![c] = "planned"]
    /\ op' = [op EXCEPT ![c] = operation]
    /\ base' = [base EXCEPT ![c] = read]
    /\ value' = [value EXCEPT ![c] = written]
    /\ UNCHANGED <<organization, subscription>>

HasStatus(row, status) == row # None /\ row.status = status

CreateOrganization(c) ==
    /\ organization = None
    /\ \E configuration \in Configurations :
          Plan(c, "create", None, [status |-> "active", configuration |-> configuration])

SuspendOrganization(c) ==
    /\ HasStatus(organization, "active")
    /\ Plan(c, "suspendOrganization", organization,
            [organization EXCEPT !.status = "suspended"])

ReactivateOrganization(c) ==
    /\ HasStatus(organization, "suspended")
    /\ Plan(c, "reactivateOrganization", organization,
            [organization EXCEPT !.status = "active"])

\* Access to the tenant and the domain rule both ask for an active organization.
ConfigureOrganization(c) ==
    /\ HasStatus(organization, "active")
    /\ \E configuration \in Configurations :
          Plan(c, "configure", organization,
               [organization EXCEPT !.configuration = configuration])

Assign(c) ==
    /\ HasStatus(organization, "active")
    /\ \E plan \in Plans, status \in {"trialing", "active"} :
          Plan(c, "assign", None, [id |-> c, plan |-> plan, status |-> status])

\* The statuses a transition starts from, and the one it leads to.
Sources(transition) ==
    CASE transition = "suspend" -> {"trialing", "active"}
      [] transition = "reactivate" -> {"suspended"}
      [] transition = "cancel" -> {"trialing", "active", "suspended"}

Result(transition) ==
    CASE transition = "suspend" -> "suspended"
      [] transition = "reactivate" -> "active"
      [] transition = "cancel" -> "canceled"

TransitionSubscription(c) ==
    /\ subscription # None
    /\ \E transition \in Transitions :
          /\ subscription.status \in Sources(transition)
          /\ Plan(c, transition, subscription,
                  [subscription EXCEPT !.status = Result(transition)])

----------------------------------------------------------------------------
Advance(c, from, to) ==
    /\ pc[c] = from
    /\ pc' = [pc EXCEPT ![c] = to]
    /\ UNCHANGED <<op, base, value>>

RecordIntent(c) ==
    /\ Advance(c, "planned", "intended")
    /\ UNCHANGED <<organization, subscription>>

\* add: the slug is unique.
AddOrganization(c) ==
    /\ op[c] = "create" /\ organization = None
    /\ organization' = value[c]
    /\ Advance(c, "intended", "written")
    /\ UNCHANGED subscription

\* _save locks the row and applies the complete aggregate to it.
SaveOrganization(c) ==
    /\ op[c] \in OrganizationOps \ {"create"}
    /\ organization' = value[c]
    /\ Advance(c, "intended", "written")
    /\ UNCHANGED subscription

\* assign_subscription replaces whatever the locked row says.
AssignSubscription(c) ==
    /\ op[c] = "assign"
    /\ subscription' = value[c]
    /\ Advance(c, "intended", "written")
    /\ UNCHANGED organization

\* update_subscription: the locked row must have the identifier and status read.
UpdateSubscription(c) ==
    /\ op[c] \in Transitions
    /\ subscription.id = base[c].id
    /\ subscription.status = base[c].status
    /\ subscription' = value[c]
    /\ Advance(c, "intended", "written")
    /\ UNCHANGED organization

RecordSuccess(c) ==
    /\ Advance(c, "written", "done")
    /\ UNCHANGED <<organization, subscription>>

\* A conflict, a failing transaction or the end of the process.
Fail(c) ==
    /\ pc[c] \in Unfinished
    /\ pc' = [pc EXCEPT ![c] = "failed"]
    /\ UNCHANGED <<organization, subscription, op, base, value>>

Read(c) ==
    \/ CreateOrganization(c) \/ SuspendOrganization(c) \/ ReactivateOrganization(c)
    \/ ConfigureOrganization(c)
    \/ Assign(c) \/ TransitionSubscription(c)

Write(c) ==
    \/ AddOrganization(c) \/ SaveOrganization(c)
    \/ AssignSubscription(c) \/ UpdateSubscription(c)

Next == \E c \in Calls :
    Read(c) \/ RecordIntent(c) \/ Write(c) \/ RecordSuccess(c) \/ Fail(c)

Spec == Init /\ [][Next]_vars

----------------------------------------------------------------------------
(***************************************************************************)
(* Properties.                                                             *)
(***************************************************************************)

Lifecycle == UNION {Sources(t) \X {Result(t)} : t \in Transitions}

\* However transitions and assignments overlap, an assignment keeps its plan and
\* its status only moves along the lifecycle: a canceled one never serves again.
AssignmentsKeepTheirCourse ==
    [][subscription # None /\ subscription'.id = subscription.id =>
          /\ subscription'.plan = subscription.plan
          /\ \/ subscription'.status = subscription.status
             \/ <<subscription.status, subscription'.status>> \in Lifecycle]_vars

\* Whoever is suspended stays so until a platform operator reactivates: no other
\* call makes a suspended organization active.
SuspensionHolds ==
    [][HasStatus(organization, "suspended") /\ HasStatus(organization', "active") =>
          \E c \in Calls : op[c] = "reactivateOrganization" /\ pc[c] # pc'[c]]_vars
=============================================================================
