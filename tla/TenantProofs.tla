---------------------------- MODULE TenantProofs ----------------------------
(***************************************************************************)
(* What a tenant subscribes to, may use, registers, is proposed as its     *)
(* timetable and is notified of, for any number of calls, plans, features, *)
(* rows, activities, slots, rooms, courses and channels, and what its      *)
(* people read of their own data, for any persons and sections.  The       *)
(* components share nothing; each part is about one of them.               *)
(*                                                                         *)
(* Tenancy.  The update of a subscription compares its identifier and its  *)
(* status with what was read, not its plan.  That is enough because        *)
(* identifiers are new: nobody can have read one before its call has       *)
(* written it, so that two rows with one identifier are of one plan.       *)
(*                                                                         *)
(* Entitlements.  A feature is resolved from two reads of different        *)
(* moments.  One change falls on one side of either read, so that what was *)
(* read is what one of the moments had; two changes may not.               *)
(*                                                                         *)
(* Generation.  A session is only ever added where it conflicts with       *)
(* nothing, so that all conflicts are among the preserved sessions, and    *)
(* nothing is ever taken away, so that a place which is not free stays so. *)
(* Only sessions of one name may be booked over one another, and a list    *)
(* with a name twice is never applied.                                     *)
(*                                                                         *)
(* Registry.  Rows others refer to are never removed and, but for          *)
(* policies, never replaced, so that what a registration has looked up     *)
(* stands. Rows registered while a client pages push those it has not been *)
(* shown to later pages, never to earlier ones.                            *)
(*                                                                         *)
(* Curriculum.  Every version gives its courses new row identifiers, and   *)
(* prerequisites refer to those: what is stored for the rows a reader      *)
(* holds is all of their version, or nothing once they are replaced.       *)
(*                                                                         *)
(* Notifications.  A message keeps its recipient and its channel.  One     *)
(* without an adapter is never asked and one with an adapter never fails a *)
(* message for good, so that what a row says follows, however its          *)
(* deliveries overlap.                                                     *)
(*                                                                         *)
(* Self-service.  A read is a list of steps, and where it is in the list   *)
(* says what it has found.  That is as the world it began in or the        *)
(* present one has it, when no more than one change was made meanwhile:    *)
(* a change is of what was found or of what is still to be found, and one  *)
(* that is of both (a withdrawal ends the enrollment and what is attended) *)
(* leaves all of it as it was or as it is.  Nothing is ever unassigned,    *)
(* unlinked or unmapped, so that what a read goes on from stands.          *)
(***************************************************************************)
EXTENDS Entitlements, Generation, Registry, Curriculum, Notifications, SelfService,
        FiniteSetTheorems, FunctionTheorems, SequenceTheorems, TLAPS

(***************************************************************************)
(* Tenancy: an assignment keeps its course.                                *)
(***************************************************************************)

HasWritten(c) == pc[c] \in {"written", "done", "failed"}

\* What a call is to write, by its operation.
ValuesFit == \A c \in Calls :
    /\ op[c] = "assign" =>
          value[c] \in Subscriptions /\ value[c].id = c
    /\ op[c] \in Transitions =>
          /\ base[c] \in Subscriptions
          /\ base[c].status \in Sources(op[c])
          /\ value[c] = [base[c] EXCEPT !.status = Result(op[c])]
    /\ op[c] \in OrganizationOps => value[c] \in Organizations

\* No row has been stored or read under the identifier of a call yet to write it.
IdentifiersAreNew == \A c \in Calls :
    /\ subscription # None /\ subscription.id = c => HasWritten(c)
    /\ \A d \in Calls :
          op[d] \in Transitions /\ base[d].id = c => HasWritten(c)

\* An identifier stands for one plan.
PlansAgree == \A d \in Calls :
    op[d] \in Transitions /\ subscription.id = base[d].id =>
        subscription.plan = base[d].plan

SubscriptionInv == TypeOK /\ ValuesFit /\ IdentifiersAreNew /\ PlansAgree

----------------------------------------------------------------------------
\* A transition leads from a row to a row of the same identifier and plan.
LEMMA TransitionsFit ==
    ASSUME NEW row \in Subscriptions, NEW t \in Transitions, row.status \in Sources(t)
    PROVE  /\ [row EXCEPT !.status = Result(t)] \in Subscriptions
           /\ [row EXCEPT !.status = Result(t)].id = row.id
           /\ [row EXCEPT !.status = Result(t)].plan = row.plan
           /\ [row EXCEPT !.status = Result(t)].status = Result(t)
           /\ <<row.status, Result(t)>> \in Lifecycle
<1>1. Result(t) \in SubscriptionStatuses
  BY DEF Result, Transitions, SubscriptionStatuses
<1>2. <<row.status, Result(t)>> \in Lifecycle
  BY DEF Lifecycle
<1> QED  BY <1>1, <1>2 DEF Subscriptions

\* No subscription is assigned at first.
LEMMA InvInitially == Init => SubscriptionInv
BY DEF Init, SubscriptionInv, TypeOK, ValuesFit, IdentifiersAreNew, PlansAgree,
       OrganizationOps, Transitions, Ops

----------------------------------------------------------------------------
\* Reading and planning: nothing is stored, and what is read is what is stored.
LEMMA PlanKeepsInv ==
    ASSUME SubscriptionInv, NEW c \in Calls, NEW o \in Ops, NEW read, NEW written,
           Plan(c, o, read, written),
           read \in Organizations \cup Subscriptions \cup {None},
           written \in Organizations \cup Subscriptions,
           o = "assign" => written \in Subscriptions /\ written.id = c,
           o \in OrganizationOps => written \in Organizations,
           o \in Transitions =>
              /\ read = subscription /\ subscription # None
              /\ subscription.status \in Sources(o)
              /\ written = [read EXCEPT !.status = Result(o)]
    PROVE  SubscriptionInv'
<1> USE DEF SubscriptionInv, Plan
<1>1. TypeOK'
  BY DEF TypeOK, Unfinished
<1>2. ValuesFit'
  BY DEF ValuesFit, TypeOK
<1>3. IdentifiersAreNew'
  BY DEF IdentifiersAreNew, HasWritten, TypeOK
<1>4. PlansAgree'
  BY DEF PlansAgree, TypeOK
<1> QED  BY <1>1, <1>2, <1>3, <1>4

\* A call reads the assignment it is to change, or names a new one after itself.
LEMMA ReadKeepsInv ==
    ASSUME SubscriptionInv, NEW c \in Calls, Read(c)
    PROVE  SubscriptionInv'
<1>0. TypeOK
  BY DEF SubscriptionInv
<1>1. CASE CreateOrganization(c)
  <2>1. PICK configuration \in Configurations :
           Plan(c, "create", None, [status |-> "active", configuration |-> configuration])
    BY <1>1 DEF CreateOrganization
  <2> QED  BY <2>1, PlanKeepsInv DEF Organizations, Ops, OrganizationOps, Transitions
<1>2. CASE SuspendOrganization(c)
  BY <1>0, <1>2, PlanKeepsInv
     DEF SuspendOrganization, HasStatus, TypeOK, Organizations, Ops, OrganizationOps, Transitions
<1>3. CASE ReactivateOrganization(c)
  BY <1>0, <1>3, PlanKeepsInv
     DEF ReactivateOrganization, HasStatus, TypeOK, Organizations, Ops, OrganizationOps, Transitions
<1>4. CASE ConfigureOrganization(c)
  <2>1. PICK configuration \in Configurations :
           Plan(c, "configure", organization,
                [organization EXCEPT !.configuration = configuration])
    BY <1>4 DEF ConfigureOrganization
  <2>2. organization \in Organizations
    BY <1>0, <1>4 DEF ConfigureOrganization, HasStatus, TypeOK
  <2> QED  BY <2>1, <2>2, PlanKeepsInv DEF Organizations, Ops, OrganizationOps, Transitions
<1>5. CASE Assign(c)
  <2>1. PICK plan \in Plans, status \in {"trialing", "active"} :
           Plan(c, "assign", None, [id |-> c, plan |-> plan, status |-> status])
    BY <1>5 DEF Assign
  <2>2. [id |-> c, plan |-> plan, status |-> status] \in Subscriptions
    BY DEF Subscriptions, SubscriptionStatuses
  <2> QED  BY <2>1, <2>2, PlanKeepsInv DEF Ops, OrganizationOps, Transitions
<1>6. CASE TransitionSubscription(c)
  <2>1. PICK t \in Transitions :
           /\ subscription.status \in Sources(t)
           /\ Plan(c, t, subscription, [subscription EXCEPT !.status = Result(t)])
    BY <1>6 DEF TransitionSubscription
  <2>2. subscription \in Subscriptions /\ subscription # None
    BY <1>0, <1>6 DEF TransitionSubscription, TypeOK
  <2>3. [subscription EXCEPT !.status = Result(t)] \in Subscriptions
    BY <2>1, <2>2, TransitionsFit
  <2>4. t \in Ops /\ t \notin OrganizationOps /\ t # "assign"
    BY DEF Transitions, Ops, OrganizationOps
  <2> QED  BY <2>1, <2>2, <2>3, <2>4, PlanKeepsInv
<1> QED  BY <1>1, <1>2, <1>3, <1>4, <1>5, <1>6 DEF Read

----------------------------------------------------------------------------
\* A step of the row of the subscription.
SubscriptionStep ==
    subscription'.id = subscription.id =>
        /\ subscription'.plan = subscription.plan
        /\ \/ subscription'.status = subscription.status
           \/ <<subscription.status, subscription'.status>> \in Lifecycle

\* An assignment replaces what is there by one with a new identifier.
LEMMA AssignmentsAreNew ==
    ASSUME SubscriptionInv, NEW c \in Calls, AssignSubscription(c)
    PROVE  SubscriptionInv' /\ (subscription # None => SubscriptionStep)
<1> USE DEF SubscriptionInv, AssignSubscription, Advance
<1>1. value[c] \in Subscriptions /\ value[c].id = c
  BY DEF ValuesFit
<1>2. pc[c] = "intended" /\ ~HasWritten(c)
  BY DEF HasWritten
<1>3. TypeOK'
  BY <1>1 DEF TypeOK, Unfinished
<1>4. ValuesFit'
  BY DEF ValuesFit
<1>5. \A d \in Calls : HasWritten(d) => HasWritten(d)'
  BY DEF HasWritten, TypeOK
<1>6. HasWritten(c)'
  BY DEF HasWritten, TypeOK
<1>7. IdentifiersAreNew'
  BY <1>1, <1>5, <1>6 DEF IdentifiersAreNew
<1>8. PlansAgree'
  BY <1>1, <1>2 DEF PlansAgree, IdentifiersAreNew
<1>9. subscription # None => SubscriptionStep
  BY <1>1, <1>2 DEF IdentifiersAreNew, SubscriptionStep
<1> QED  BY <1>3, <1>4, <1>7, <1>8, <1>9

\* A transition is stored over the assignment it was read from, in the status it was read.
LEMMA UpdatesAreCurrent ==
    ASSUME SubscriptionInv, NEW c \in Calls, UpdateSubscription(c)
    PROVE  SubscriptionInv' /\ SubscriptionStep
<1> USE DEF SubscriptionInv, UpdateSubscription, Advance
<1>1. /\ base[c] \in Subscriptions
      /\ base[c].status \in Sources(op[c])
      /\ value[c] = [base[c] EXCEPT !.status = Result(op[c])]
  BY DEF ValuesFit
<1>2. /\ value[c] \in Subscriptions
      /\ value[c].id = base[c].id
      /\ value[c].plan = base[c].plan
      /\ <<base[c].status, value[c].status>> \in Lifecycle
  BY <1>1, TransitionsFit
<1>3. subscription.plan = base[c].plan
  BY DEF PlansAgree
<1>4. TypeOK'
  BY <1>2 DEF TypeOK, Unfinished
<1>5. ValuesFit'
  BY DEF ValuesFit
<1>6. \A d \in Calls : HasWritten(d) => HasWritten(d)'
  BY DEF HasWritten, TypeOK
<1>7. IdentifiersAreNew'
  BY <1>2, <1>6 DEF IdentifiersAreNew
<1>8. PlansAgree'
  BY <1>2, <1>3 DEF PlansAgree
<1>9. SubscriptionStep
  BY <1>2, <1>3 DEF SubscriptionStep
<1> QED  BY <1>4, <1>5, <1>7, <1>8, <1>9

\* No other step touches the subscription.
LEMMA OtherStepsKeepInv ==
    ASSUME SubscriptionInv, NEW c \in Calls,
           \/ RecordIntent(c) \/ AddOrganization(c) \/ SaveOrganization(c)
           \/ RecordSuccess(c) \/ Fail(c)
    PROVE  SubscriptionInv' /\ subscription' = subscription
<1> USE DEF SubscriptionInv
<1>1. UNCHANGED <<subscription, op, base, value>>
  BY DEF RecordIntent, AddOrganization, SaveOrganization, RecordSuccess, Fail, Advance
<1>2. organization' \in {organization, value[c]}
      /\ (organization' = organization \/ op[c] \in OrganizationOps)
  BY DEF RecordIntent, AddOrganization, SaveOrganization, RecordSuccess, Fail, Advance,
         OrganizationOps
<1>3. \E to \in {"intended", "written", "done", "failed"} : pc' = [pc EXCEPT ![c] = to]
      /\ (HasWritten(c) => to \in {"written", "done", "failed"})
  BY DEF RecordIntent, AddOrganization, SaveOrganization, RecordSuccess, Fail, Advance, HasWritten
<1>4. TypeOK'
  BY <1>1, <1>2, <1>3 DEF TypeOK, Unfinished, ValuesFit
<1>5. ValuesFit'
  BY <1>1 DEF ValuesFit
<1>6. \A d \in Calls : HasWritten(d) => HasWritten(d)'
  BY <1>3 DEF HasWritten, TypeOK
<1>7. IdentifiersAreNew'
  BY <1>1, <1>6 DEF IdentifiersAreNew
<1>8. PlansAgree'
  BY <1>1 DEF PlansAgree
<1> QED  BY <1>1, <1>4, <1>5, <1>7, <1>8

\* Every step keeps the invariant, and moves the subscription as it may.
LEMMA StepsAreRight ==
    ASSUME SubscriptionInv, [Next]_vars
    PROVE  SubscriptionInv' /\ (subscription # None => SubscriptionStep)
<1>1. CASE Next
  <2>1. PICK c \in Calls :
           Read(c) \/ RecordIntent(c) \/ Write(c) \/ RecordSuccess(c) \/ Fail(c)
    BY <1>1 DEF Next
  <2>2. CASE Read(c)
    <3>1. subscription' = subscription
      BY <2>2 DEF Read, CreateOrganization, SuspendOrganization, ReactivateOrganization,
                  ConfigureOrganization, Assign, TransitionSubscription, Plan
    <3> QED  BY <2>2, <3>1, ReadKeepsInv DEF SubscriptionStep
  <2>3. CASE AssignSubscription(c)
    BY <2>3, AssignmentsAreNew
  <2>4. CASE UpdateSubscription(c)
    BY <2>4, UpdatesAreCurrent
  <2>5. CASE \/ RecordIntent(c) \/ AddOrganization(c) \/ SaveOrganization(c)
             \/ RecordSuccess(c) \/ Fail(c)
    BY <2>5, OtherStepsKeepInv DEF SubscriptionStep
  <2> QED  BY <2>1, <2>2, <2>3, <2>4, <2>5 DEF Write
<1>2. CASE UNCHANGED vars
  BY <1>2 DEF vars, SubscriptionInv, TypeOK, ValuesFit, IdentifiersAreNew, HasWritten,
              PlansAgree, SubscriptionStep
<1> QED  BY <1>1, <1>2

----------------------------------------------------------------------------
\* The inductive invariant holds: an identifier is unknown until its call has
\* written it, and stands for one plan from then on.
THEOREM SubscriptionInvHolds == Spec => []SubscriptionInv
<1>1. SubscriptionInv /\ [Next]_vars => SubscriptionInv'
  BY StepsAreRight
<1> QED  BY InvInitially, <1>1, PTL DEF Spec

\* However many calls overlap, an assignment keeps its plan and only moves along
\* the lifecycle of subscriptions: a canceled one never serves again.
THEOREM AssignmentsHold == Spec => AssignmentsKeepTheirCourse
<1>1. SubscriptionInv /\ [Next]_vars =>
         [subscription # None /\ subscription'.id = subscription.id =>
             /\ subscription'.plan = subscription.plan
             /\ \/ subscription'.status = subscription.status
                \/ <<subscription.status, subscription'.status>> \in Lifecycle]_vars
  BY StepsAreRight DEF SubscriptionStep
<1> QED  BY SubscriptionInvHolds, <1>1, PTL DEF Spec, AssignmentsKeepTheirCourse
----------------------------------------------------------------------------
(***************************************************************************)
(* Entitlements: an answer was true while it was resolved.                 *)
(***************************************************************************)

\* Rows of subscriptions, with the one the organization may have held at first.
HeldSubscriptions ==
    [id : Calls \cup {First}, plan : Plans, status : SubscriptionStatuses]
OverrideRequests == [feature : Features, override : Overrides]

\* What is stored, and what the calls are to store.
StoreFits ==
    /\ subscription \in HeldSubscriptions \cup {None}
    /\ overrides \in [Features -> Overrides \cup {None}]
    /\ DOMAIN op = Calls /\ DOMAIN value = Calls
    /\ \A c \in Calls :
          /\ op[c] \in Transitions \cup {"assign"} => value[c] \in HeldSubscriptions
          /\ op[c] = "override" => value[c] \in OverrideRequests

QueryRecords ==
    [phase : {"rest", "subscription", "overrides", "answered"},
     feature : Features \cup {None}, at : Nat,
     subscription : HeldSubscriptions \cup {None},
     answer : {"none", "base_product", "platform_override", "disabled",
               "subscription", "not_entitled"}]

QueryFits ==
    /\ query \in QueryRecords
    /\ query.phase = "rest" => query = NoQuery
    /\ Asking => query.feature \in Features /\ query.feature \notin Base
    /\ changes \in Nat

\* What is true of the feature asked for as things are now, and what would be
\* answered if the overrides were read now.
TrueNow == True(query.feature, subscription, overrides[query.feature], query.at)
AnswerNow ==
    Resolve(query.feature, query.subscription, overrides[query.feature], query.at)

\* Before any change the subscription read is the stored one, and after at most
\* one change the answer to be given is one that was true.
WitnessHolds ==
    /\ Asking => TrueNow \in truths
    /\ query.phase = "overrides" =>
          /\ changes = 0 => query.subscription = subscription
          /\ changes <= 1 => AnswerNow \in truths
    /\ AnswersWereTrue

EntitlementInv == StoreFits /\ QueryFits /\ WitnessHolds

\* What a resolution answers on a subscription and an override is what is true of
\* the feature when both are stored.
LEMMA ResolvedIsTrue ==
    ASSUME PeriodsFit, NEW f \in Features, f \notin Base,
           NEW s \in HeldSubscriptions \cup {None}, NEW o \in Overrides \cup {None},
           NEW at \in Nat
    PROVE  Resolve(f, s, o, at) = True(f, s, o, at)
<1>1. OverrideEffective(o, at) <=> (o # None /\ o.expires > at)
  <2>1. CASE o = None
    BY <2>1 DEF OverrideEffective
  <2>2. CASE o # None
    <3>1. o.expires \in Int
      BY <2>2 DEF Overrides, PeriodsFit
    <3> QED BY <2>2, <3>1 DEF OverrideEffective
  <2> QED BY <2>1, <2>2
<1>2. SubscriptionEffective(s, at) <=>
        /\ s # None /\ s.status \notin {"suspended", "canceled"}
        /\ at \in Periods[s.id][1] .. Periods[s.id][2] - 1
  <2>1. CASE s = None
    BY <2>1 DEF SubscriptionEffective
  <2>2. CASE s # None
    <3>1. s.id \in Calls \cup {First} /\ s.status \in SubscriptionStatuses
      BY <2>2 DEF HeldSubscriptions
    <3>2. Periods[s.id][1] \in Int /\ Periods[s.id][2] \in Int
      BY <3>1 DEF PeriodsFit
    <3> QED BY <2>2, <3>1, <3>2 DEF SubscriptionEffective, SubscriptionStatuses
  <2> QED BY <2>1, <2>2
<1>3. CASE OverrideEffective(o, at)
  <2>1. o.enabled \in BOOLEAN
    BY <1>3 DEF OverrideEffective, Overrides
  <2> QED BY <1>1, <1>3, <2>1 DEF Resolve, True
<1>4. CASE ~OverrideEffective(o, at)
  BY <1>1, <1>2, <1>4 DEF Resolve, True
<1> QED BY <1>3, <1>4

\* At first nothing is asked for.
LEMMA EntitlementInitially == InitialTenancy => EntitlementInv
<1> SUFFICES ASSUME InitialTenancy PROVE EntitlementInv
  OBVIOUS
<1>1. StoreFits
  BY DEF InitialTenancy, StoreFits, HeldSubscriptions, SubscriptionStatuses, Transitions
<1>2. QueryFits /\ WitnessHolds
  BY DEF InitialTenancy, QueryFits, QueryRecords, NoQuery, Asking, WitnessHolds, AnswersWereTrue
<1> QED BY <1>1, <1>2 DEF EntitlementInv

\* A call that plans what fits leaves the store as it is.
LEMMA PlanFits ==
    ASSUME StoreFits, NEW c \in Calls, NEW o, NEW read, NEW written,
           Plan(c, o, read, written), UNCHANGED overrides,
           o \in Transitions \cup {"assign"} => written \in HeldSubscriptions,
           o = "override" => written \in OverrideRequests
    PROVE  StoreFits' /\ UNCHANGED <<subscription, overrides>>
BY DEF StoreFits, Plan

\* Whatever a call reads, it plans what fits.
LEMMA ReadFits ==
    ASSUME StoreFits, NEW c \in Calls, Read(c), UNCHANGED overrides
    PROVE  StoreFits' /\ UNCHANGED <<subscription, overrides>>
<1>1. \A o \in OrganizationOps : o \notin Transitions \cup {"assign", "override"}
  BY DEF OrganizationOps, Transitions
<1>2. CASE CreateOrganization(c)
  <2>1. PICK w : Plan(c, "create", None, w)
    BY <1>2 DEF CreateOrganization
  <2> QED BY <1>1, <2>1, PlanFits DEF OrganizationOps
<1>3. CASE SuspendOrganization(c)
  <2>1. PICK w : Plan(c, "suspendOrganization", organization, w)
    BY <1>3 DEF SuspendOrganization
  <2> QED BY <1>1, <2>1, PlanFits DEF OrganizationOps
<1>4. CASE ReactivateOrganization(c)
  <2>1. PICK w : Plan(c, "reactivateOrganization", organization, w)
    BY <1>4 DEF ReactivateOrganization
  <2> QED BY <1>1, <2>1, PlanFits DEF OrganizationOps
<1>5. CASE ConfigureOrganization(c)
  <2>1. PICK w : Plan(c, "configure", organization, w)
    BY <1>5 DEF ConfigureOrganization
  <2> QED BY <1>1, <2>1, PlanFits DEF OrganizationOps
<1>6. CASE Assign(c)
  <2>1. PICK p \in Plans, status \in {"trialing", "active"} :
           Plan(c, "assign", None, [id |-> c, plan |-> p, status |-> status])
    BY <1>6 DEF Assign
  <2>2. [id |-> c, plan |-> p, status |-> status] \in HeldSubscriptions
    BY DEF HeldSubscriptions, SubscriptionStatuses
  <2> QED BY <2>1, <2>2, PlanFits
<1>7. CASE TransitionSubscription(c)
  <2>1. PICK t \in Transitions :
           Plan(c, t, subscription, [subscription EXCEPT !.status = Result(t)])
    BY <1>7 DEF TransitionSubscription
  <2>2. subscription \in HeldSubscriptions
    BY <1>7 DEF TransitionSubscription, StoreFits
  <2>3. Result(t) \in SubscriptionStatuses
    BY DEF Result, Transitions, SubscriptionStatuses
  <2>4. [subscription EXCEPT !.status = Result(t)] \in HeldSubscriptions
    BY <2>2, <2>3 DEF HeldSubscriptions
  <2>5. t # "override"
    BY DEF Transitions
  <2> QED BY <2>1, <2>4, <2>5, PlanFits
<1> QED BY <1>2, <1>3, <1>4, <1>5, <1>6, <1>7 DEF Read

\* A step of a call leaves the store fit and changes the subscription or the
\* overrides, not both.
LEMMA OneChangeAtATime ==
    ASSUME StoreFits, Step
    PROVE  /\ StoreFits'
           /\ subscription' = subscription \/ overrides' = overrides
           /\ UNCHANGED query \/ (GetSnapshot /\ UNCHANGED <<subscription, overrides>>)
<1>1. ASSUME NEW c \in Calls, UNCHANGED <<overrides, query>>,
             Read(c) \/ RecordIntent(c) \/ Write(c) \/ RecordSuccess(c) \/ Fail(c)
      PROVE  StoreFits' /\ UNCHANGED overrides
  <2>1. CASE Read(c)
    BY <1>1, <2>1, ReadFits
  <2>2. CASE RecordIntent(c) \/ RecordSuccess(c) \/ Fail(c) \/ AddOrganization(c)
                \/ SaveOrganization(c)
    BY <1>1, <2>2 DEF RecordIntent, RecordSuccess, Fail, AddOrganization, SaveOrganization,
       Advance, StoreFits
  <2>3. CASE AssignSubscription(c) \/ UpdateSubscription(c)
    <3>1. value[c] \in HeldSubscriptions /\ subscription' = value[c]
          /\ UNCHANGED <<op, value>>
      BY <2>3 DEF AssignSubscription, UpdateSubscription, Advance, StoreFits
    <3> QED BY <1>1, <3>1 DEF StoreFits
  <2> QED BY <1>1, <2>1, <2>2, <2>3 DEF Write
<1>2. CASE Next /\ UNCHANGED <<catalog, overrides, query>>
  <2>1. PICK c \in Calls :
           Read(c) \/ RecordIntent(c) \/ Write(c) \/ RecordSuccess(c) \/ Fail(c)
    BY <1>2 DEF Next
  <2> QED BY <1>1, <1>2, <2>1
<1>3. ASSUME NEW c \in Calls, SetOverride(c)
      PROVE  StoreFits' /\ UNCHANGED <<subscription, overrides, query>>
  <2>1. PICK f \in Features, o \in Overrides :
           Plan(c, "override", None, [feature |-> f, override |-> o])
    BY <1>3 DEF SetOverride
  <2>2. "override" \notin Transitions \cup {"assign"} /\ UNCHANGED <<overrides, query>>
    BY <1>3 DEF Transitions, SetOverride
  <2>3. [feature |-> f, override |-> o] \in OverrideRequests
    BY DEF OverrideRequests
  <2> QED BY <2>1, <2>2, <2>3, PlanFits
<1>4. ASSUME NEW c \in Calls, SaveOverride(c)
      PROVE  StoreFits' /\ UNCHANGED <<subscription, query>>
  <2>1. value[c].feature \in Features /\ value[c].override \in Overrides
    BY <1>4 DEF SaveOverride, StoreFits, OverrideRequests
  <2> QED BY <1>4, <2>1 DEF SaveOverride, Advance, StoreFits
<1>5. CASE (\E f \in Features : CreateFeature(f)) /\ UNCHANGED vars
  BY <1>5 DEF CreateFeature, vars, StoreFits
<1>6. CASE GetSnapshot
  BY <1>6 DEF GetSnapshot, vars, StoreFits
<1> QED BY <1>2, <1>3, <1>4, <1>5, <1>6 DEF Step

\* Whatever others change while a resolution is under way.
LEMMA ChangesKeepWitness ==
    ASSUME PeriodsFit, EntitlementInv, StoreFits', UNCHANGED query, Witness,
           subscription' = subscription \/ overrides' = overrides
    PROVE  EntitlementInv'
<1> DEFINE changed == <<subscription', overrides'>> # <<subscription, overrides>>
<1>1. QueryFits'
  BY DEF EntitlementInv, QueryFits, Witness, Asking
<1>2. CASE ~Asking
  <2>1. ~(query = NoQuery /\ query' # NoQuery)
    OBVIOUS
  <2>2. truths' = truths /\ changes' = changes /\ ~Asking'
    BY <1>2, <2>1 DEF Witness, Asking
  <2> QED BY <1>1, <1>2, <2>2 DEF EntitlementInv, WitnessHolds, AnswersWereTrue, Asking
<1>3. CASE Asking
  <2>0. /\ query.feature \in Features /\ query.feature \notin Base /\ query.at \in Nat
        /\ query.subscription \in HeldSubscriptions \cup {None} /\ changes \in Nat
        /\ query.phase # "answered"
    BY <1>3 DEF EntitlementInv, QueryFits, QueryRecords, Asking
  <2>1. truths' = truths \cup {TrueNow'} /\ changes' = IF changed THEN changes + 1 ELSE changes
    BY <1>3 DEF Witness, TrueNow
  <2>2. ASSUME query.phase = "overrides", changes' = 0
        PROVE  query.subscription = subscription'
    BY <2>0, <2>1, <2>2 DEF EntitlementInv, WitnessHolds
  <2>3. ASSUME query.phase = "overrides", changes' <= 1
        PROVE  AnswerNow' \in truths'
    <3>1. CASE overrides' = overrides
      <4>1. changes <= 1 /\ AnswerNow' = AnswerNow
        BY <2>0, <2>1, <2>3, <3>1 DEF AnswerNow
      <4> QED BY <2>1, <2>3, <4>1 DEF EntitlementInv, WitnessHolds
    <3>2. CASE overrides' # overrides
      <4>1. subscription' = subscription /\ changes = 0
        BY <2>0, <2>1, <2>3, <3>2
      <4>2. query.subscription = subscription'
        BY <2>3, <4>1 DEF EntitlementInv, WitnessHolds
      <4>3. overrides'[query.feature] \in Overrides \cup {None}
        BY <2>0 DEF StoreFits
      <4>4. AnswerNow' = TrueNow'
        BY <2>0, <4>2, <4>3, ResolvedIsTrue DEF AnswerNow, TrueNow
      <4> QED BY <2>1, <4>4
    <3> QED BY <3>1, <3>2
  <2> QED BY <1>1, <2>0, <2>1, <2>2, <2>3
          DEF EntitlementInv, WitnessHolds, AnswersWereTrue
<1> QED BY <1>2, <1>3

\* The steps of a resolution.
LEMMA SnapshotKeepsWitness ==
    ASSUME PeriodsFit, EntitlementInv, StoreFits', GetSnapshot,
           UNCHANGED <<subscription, overrides>>, Witness
    PROVE  EntitlementInv'
<1>0. changes' = changes /\ changes \in Nat
  BY DEF Witness, EntitlementInv, QueryFits
<1>1. ASSUME NEW f \in Features, NEW at \in 0 .. LastInstant, StartResolution(f, at)
      PROVE  EntitlementInv'
  <2>1. /\ query = NoQuery /\ query' # NoQuery /\ at \in Nat
        /\ query'.feature = f /\ query'.at = at /\ query'.subscription = None
        /\ query'.phase = IF f \in Base THEN "answered" ELSE "subscription"
        /\ query'.answer = IF f \in Base THEN "base_product" ELSE "none"
        /\ query' \in QueryRecords
    <3>1. query' = [phase |-> IF f \in Base THEN "answered" ELSE "subscription",
                    feature |-> f, at |-> at, subscription |-> None,
                    answer |-> IF f \in Base THEN "base_product" ELSE "none"]
      BY <1>1 DEF StartResolution, NoQuery
    <3>2. at \in Nat /\ query = NoQuery
      BY <1>1 DEF StartResolution, PeriodsFit
    <3>3. query' \in QueryRecords
      BY <3>1, <3>2 DEF QueryRecords
    <3> QED BY <3>1, <3>2, <3>3 DEF NoQuery
  <2>2. QueryFits'
    BY <1>0, <2>1 DEF QueryFits, Asking
  <2>3. truths' = truths \cup {TrueNow'}
    BY <2>1 DEF Witness, TrueNow
  <2>4. f \in Base => TrueNow' = "base_product"
    BY <2>1 DEF TrueNow, True
  <2> QED BY <2>1, <2>2, <2>3, <2>4 DEF EntitlementInv, WitnessHolds, AnswersWereTrue, Asking
<1>2. CASE ReadSubscription
  <2>1. /\ query.phase = "subscription" /\ query \in QueryRecords
        /\ query.feature \in Features /\ query.feature \notin Base
        /\ query.at \in Nat
        /\ subscription \in HeldSubscriptions \cup {None}
    BY <1>2 DEF ReadSubscription, EntitlementInv, QueryFits, StoreFits, Asking, QueryRecords
  <2>2. /\ query'.phase = "overrides" /\ query'.subscription = subscription
        /\ query'.feature = query.feature /\ query'.at = query.at /\ query' \in QueryRecords
    BY <1>2, <2>1 DEF ReadSubscription, QueryRecords
  <2>3. TrueNow' \in truths'
    BY <2>1, <2>2 DEF Witness, TrueNow, Asking
  <2>4. AnswerNow' = TrueNow'
    <3>1. overrides'[query.feature] \in Overrides \cup {None}
      BY <2>1 DEF StoreFits
    <3> QED BY <2>1, <2>2, <3>1, ResolvedIsTrue DEF AnswerNow, TrueNow
  <2>5. QueryFits'
    BY <1>0, <2>1, <2>2 DEF QueryFits, Asking
  <2> QED BY <2>2, <2>3, <2>4, <2>5 DEF EntitlementInv, WitnessHolds, AnswersWereTrue, Asking
<1>3. CASE ReadOverrides
  <2>1. query.phase = "overrides" /\ query \in QueryRecords
    BY <1>3 DEF ReadOverrides, EntitlementInv, QueryFits
  <2>2. /\ query'.phase = "answered" /\ query'.answer = AnswerNow
    BY <1>3, <2>1 DEF ReadOverrides, QueryRecords, AnswerNow
  <2>3. AnswerNow \in {"platform_override", "disabled", "subscription", "not_entitled"}
    BY DEF AnswerNow, Resolve
  <2>4. query' \in QueryRecords
    BY <1>3, <2>1, <2>3 DEF ReadOverrides, QueryRecords, AnswerNow
  <2>5. QueryFits'
    BY <1>0, <2>2, <2>4 DEF QueryFits, Asking
  <2>6. truths \subseteq truths'
    BY DEF Witness
  <2>7. changes' <= 1 => AnswerNow \in truths'
    BY <1>0, <2>1, <2>6 DEF EntitlementInv, WitnessHolds
  <2> QED BY <2>2, <2>5, <2>7 DEF EntitlementInv, WitnessHolds, AnswersWereTrue, Asking
<1> QED BY <1>1, <1>2, <1>3 DEF GetSnapshot

\* The inductive invariant of a resolution holds: what it has read and is still to
\* read never gives an answer that was not true, when no more than one change is
\* committed meanwhile.
THEOREM EntitlementInvHolds == EntitlementSpec => []EntitlementInv
<1> USE PeriodsAssumption
<1>1. EntitlementInv /\ [EntitlementNext]_allVars => EntitlementInv'
  <2> SUFFICES ASSUME EntitlementInv, [EntitlementNext]_allVars PROVE EntitlementInv'
    OBVIOUS
  <2>1. CASE EntitlementNext
    <3>1. StoreFits /\ Step /\ Witness
      BY <2>1 DEF EntitlementInv, EntitlementNext
    <3> QED BY <3>1, OneChangeAtATime, ChangesKeepWitness, SnapshotKeepsWitness
  <2>2. CASE UNCHANGED allVars
    BY <2>2 DEF allVars, vars, own, EntitlementInv, StoreFits, QueryFits, WitnessHolds,
                AnswersWereTrue, Asking, TrueNow, AnswerNow
  <2> QED BY <2>1, <2>2
<1> QED BY EntitlementInitially, <1>1, PTL DEF EntitlementSpec

\* A feature is answered for as it was at some moment of its resolution, whatever
\* operators do meanwhile, when no more than one change is committed: for any
\* number of operators, features, plans and periods.
THEOREM AnswersHold == EntitlementSpec => []AnswersWereTrue
<1>1. EntitlementInv => AnswersWereTrue
  BY DEF EntitlementInv, WitnessHolds
<1> QED BY EntitlementInvHolds, <1>1, PTL

----------------------------------------------------------------------------
(***************************************************************************)
(* Generation: what a proposal promises.                                   *)
(***************************************************************************)

Open == stage # "idle"

Sessions == timetable \in SUBSET Session /\ placed \in SUBSET Session

Finite == IsFiniteSet(timetable) /\ IsFiniteSet(placed)

Numbered == ordinal \in [Activities -> Nat]

Closed == ~Open => placed = {} /\ unscheduled = {}

\* An activity's ordinal is placed once, and only when it has been reached.
PlacedOnce ==
    /\ \A s \in placed : s.id[2] < ordinal[ActivityOf(s)]
    /\ \A s, t \in placed : ActivityOf(s) = ActivityOf(t) /\ s.id[2] = t.id[2] => s = t

ConflictsAreKept == Open =>
    \A s, t \in Proposal : Conflict(s, t) => s \in Kept /\ t \in Kept

NoPlaceIsLeft == Open =>
    \A u \in unscheduled : FreePlaces(u[1], u[2], Proposal) = {}

\* Every ordinal the generator has passed was placed or is reported.
Accounted == Open =>
    \A a \in Activities : \A o \in Nat : Count(a, Kept) <= o /\ o < ordinal[a] =>
        \/ <<a, o>> \in unscheduled
        \/ \E s \in placed : ActivityOf(s) = a /\ s.id[2] = o

Exhausted == stage = "proposed" => Remaining = {}

PlacementInv ==
    /\ Sessions /\ Finite /\ Numbered /\ Closed /\ PlacedOnce /\ StoredIsSound
    /\ ConflictsAreKept /\ NoPlaceIsLeft /\ Accounted /\ Exhausted

----------------------------------------------------------------------------
\* A conflict of two sessions is one of either with the other.
LEMMA ConflictIsMutual == \A s, t : Conflict(s, t) => Conflict(t, s)
BY DEF Conflict, BookedTwice, SharesResource

\* What a set of sessions leaves no place for, a larger one leaves none for either.
LEMMA FreePlacesShrink ==
    ASSUME NEW a, NEW o, NEW few, NEW many, few \subseteq many
    PROVE  FreePlaces(a, o, many) \subseteq FreePlaces(a, o, few)
BY DEF FreePlaces

\* The sessions of an activity in a finite timetable can be counted.
LEMMA CountIsNatural ==
    ASSUME NEW a, NEW sessions, IsFiniteSet(sessions)
    PROVE  Count(a, sessions) \in Nat
<1>1. IsFiniteSet({s \in sessions : ActivityOf(s) = a})
  BY FS_Subset
<1> QED  BY <1>1, FS_CardinalityType DEF Count

\* No generation is under way at first.
LEMMA PlacementInitially == GenerationInit => PlacementInv
<1>1. IsFiniteSet({})
  BY FS_EmptySet
<1> QED
  BY <1>1 DEF GenerationInit, PlacementInv, Sessions, Finite, Numbered, Open, Closed, PlacedOnce,
              StoredIsSound, ConflictsAreKept, NoPlaceIsLeft, Accounted, Exhausted

----------------------------------------------------------------------------
\* Generation starts from the sessions to be preserved.
LEMMA BeginKeepsInv ==
    ASSUME PlacementInv, Begin
    PROVE  PlacementInv'
<1>1. PICK ids \in SUBSET Ids(timetable) :
         asserted' = ids /\ ordinal' = [a \in Activities |-> Count(a, Named(ids))]
  BY DEF Begin
<1>2. /\ timetable' = timetable /\ stage' = "placing"
      /\ placed = {} /\ placed' = {} /\ unscheduled' = {}
  BY DEF Begin, PlacementInv, Closed, Open
<1>3. Kept' = Named(ids) /\ Proposal' = Kept'
  BY <1>1, <1>2 DEF Kept, Named, Proposal
<1>4. IsFiniteSet(Named(ids))
  BY FS_Subset DEF Named, PlacementInv, Finite
<1>5. Sessions' /\ Finite' /\ PlacedOnce' /\ Closed'
  BY <1>2 DEF PlacementInv, Sessions, Finite, PlacedOnce, Closed, Open
<1>6. Numbered'
  BY <1>1, <1>4, CountIsNatural DEF Numbered
<1>7. StoredIsSound'
  BY <1>2 DEF PlacementInv, StoredIsSound, BookedTwice, SharesResource, ActivityOf
<1>8. ConflictsAreKept' /\ NoPlaceIsLeft' /\ Exhausted'
  BY <1>2, <1>3 DEF ConflictsAreKept, NoPlaceIsLeft, Exhausted
<1>9. Accounted'
  <2> SUFFICES ASSUME NEW a \in Activities, NEW o \in Nat,
                      Count(a, Kept)' <= o, o < ordinal'[a]
               PROVE  FALSE
    BY DEF Accounted
  <2>1. Count(a, Kept)' = Count(a, Named(ids))
    BY <1>3 DEF Count, ActivityOf
  <2>2. Count(a, Named(ids)) \in Nat
    BY <1>4, CountIsNatural
  <2> QED  BY <1>1, <2>1, <2>2
<1> QED  BY <1>5, <1>6, <1>7, <1>8, <1>9 DEF PlacementInv

\* A placement adds at most one session, where it conflicts with nothing.
LEMMA PlaceKeepsInv ==
    ASSUME PlacementInv, NEW a \in Activities, Place(a)
    PROVE  PlacementInv'
<1> DEFINE free == FreePlaces(a, ordinal[a], Proposal)
<1>1. /\ stage = "placing" /\ stage' = "placing" /\ Open
      /\ timetable' = timetable /\ asserted' = asserted
      /\ ordinal' = [ordinal EXCEPT ![a] = @ + 1]
  BY DEF Place, Open
<1>2. Kept' = Kept
  BY <1>1 DEF Kept, Named
<1>3. Numbered' /\ Closed' /\ Exhausted' /\ StoredIsSound'
  BY <1>1 DEF PlacementInv, Numbered, Closed, Open, Exhausted, StoredIsSound, BookedTwice,
              SharesResource, ActivityOf
<1>4. \A b \in Activities : Count(b, Kept)' = Count(b, Kept)
  BY <1>2 DEF Count, ActivityOf
<1>5. /\ ordinal[a] \in Nat
      /\ \A b \in Activities : ordinal[b] \in Nat /\ ordinal'[b] \in Nat
                               /\ ordinal[b] <= ordinal'[b]
      /\ ordinal'[a] = ordinal[a] + 1
  BY <1>1 DEF PlacementInv, Numbered
<1>6. \A s \in placed : s.id[2] \in Nat /\ ActivityOf(s) \in Activities
  BY DEF PlacementInv, Sessions, Session, Names, ActivityOf
<1>7. \A s \in placed : s.id[2] < ordinal'[ActivityOf(s)]
  <2> TAKE s \in placed
  <2>1. s.id[2] < ordinal[ActivityOf(s)]
    BY DEF PlacementInv, PlacedOnce
  <2> QED BY <1>5, <1>6, <2>1
<1>8. ASSUME NEW b \in Activities, NEW o \in Nat, o < ordinal'[b], ~(o < ordinal[b])
      PROVE  b = a /\ o = ordinal[a]
  BY <1>1, <1>8 DEF PlacementInv, Numbered
<1>9. CASE free = {}
  <2>1. /\ unscheduled' = unscheduled \cup {<<a, ordinal[a]>>}
        /\ placed' = placed /\ Proposal' = Proposal
    BY <1>2, <1>9 DEF Place, Proposal
  <2>2. Sessions' /\ Finite' /\ ConflictsAreKept'
    BY <1>1, <1>2, <2>1
       DEF PlacementInv, Sessions, Finite, ConflictsAreKept, Conflict, BookedTwice,
           SharesResource, ActivityOf
  <2>3. PlacedOnce'
    BY <1>7, <2>1 DEF PlacementInv, PlacedOnce, ActivityOf
  <2>4. NoPlaceIsLeft'
    <3> SUFFICES ASSUME NEW u \in unscheduled'
                 PROVE  FreePlaces(u[1], u[2], Proposal) = {}
      BY <2>1 DEF NoPlaceIsLeft, FreePlaces, Conflict, BookedTwice, Candidate, SharesResource,
                  ActivityOf
    <3>1. CASE u = <<a, ordinal[a]>>
      BY <1>9, <3>1
    <3>2. CASE u \in unscheduled
      BY <1>1, <3>2 DEF PlacementInv, NoPlaceIsLeft
    <3> QED  BY <2>1, <3>1, <3>2
  <2>5. Accounted'
    <3> SUFFICES ASSUME NEW b \in Activities, NEW o \in Nat,
                        Count(b, Kept)' <= o, o < ordinal'[b]
                 PROVE  \/ <<b, o>> \in unscheduled'
                        \/ \E s \in placed : ActivityOf(s) = b /\ s.id[2] = o
      BY <2>1 DEF Accounted, ActivityOf
    <3>1. CASE o < ordinal[b]
      BY <1>1, <1>4, <2>1, <3>1 DEF PlacementInv, Accounted
    <3>2. CASE ~(o < ordinal[b])
      BY <1>8, <2>1, <3>2
    <3> QED  BY <3>1, <3>2
  <2> QED  BY <1>3, <2>2, <2>3, <2>4, <2>5 DEF PlacementInv
<1>10. CASE free # {}
  <2>1. PICK place \in free :
           placed' = placed \cup {Candidate(a, ordinal[a], place)}
    BY <1>10 DEF Place
  <2> DEFINE new == Candidate(a, ordinal[a], place)
  <2>2. /\ unscheduled' = unscheduled /\ placed' = placed \cup {new}
        /\ Proposal' = Proposal \cup {new}
    BY <1>2, <1>10, <2>1 DEF Place, Proposal
  <2>3. \A s \in Proposal : ~Conflict(new, s) /\ ~Conflict(s, new)
    BY <2>1, ConflictIsMutual DEF FreePlaces
  <2>4. ~Conflict(new, new)
    BY DEF Conflict
  <2>5. ActivityOf(new) = a /\ new.id[2] = ordinal[a]
    BY DEF Candidate, ActivityOf
  <2>6. new \in Session
    <3>1. place \in Slots \X Rooms
      BY <2>1, ActivitiesAssumption DEF FreePlaces
    <3> QED BY <1>5, <3>1 DEF Candidate, Session, Names
  <2> HIDE DEF new
  <2>7. Sessions' /\ Finite'
    BY <1>1, <2>2, <2>6, FS_AddElement DEF PlacementInv, Sessions, Finite
  <2>8. PlacedOnce'
    <3>1. \A s \in placed' : s.id[2] < ordinal'[ActivityOf(s)]
      BY <1>5, <1>7, <2>2, <2>5
    <3>2. ASSUME NEW s \in placed', NEW t \in placed',
                 ActivityOf(s) = ActivityOf(t), s.id[2] = t.id[2]
          PROVE  s = t
      <4>1. \A x \in placed : ActivityOf(x) = a => x.id[2] # ordinal[a]
        <5> TAKE x \in placed
        <5>1. x.id[2] < ordinal[ActivityOf(x)] /\ x.id[2] \in Nat
          BY <1>6 DEF PlacementInv, PlacedOnce
        <5> QED BY <1>5, <5>1
      <4>2. CASE s \in placed /\ t \in placed
        BY <3>2, <4>2 DEF PlacementInv, PlacedOnce
      <4>3. CASE s = new \/ t = new
        BY <2>2, <2>5, <3>2, <4>1, <4>3
      <4> QED BY <2>2, <4>2, <4>3
    <3> QED BY <3>1, <3>2 DEF PlacedOnce, ActivityOf
  <2>9. ConflictsAreKept'
    <3> SUFFICES ASSUME NEW s \in Proposal', NEW t \in Proposal', Conflict(s, t)
                 PROVE  s \in Kept /\ t \in Kept
      BY <1>2 DEF ConflictsAreKept, Conflict, BookedTwice, SharesResource, ActivityOf
    <3>1. s \in Proposal /\ t \in Proposal
      BY <2>2, <2>3, <2>4
    <3> QED  BY <1>1, <3>1 DEF PlacementInv, ConflictsAreKept
  <2>10. NoPlaceIsLeft'
    <3> SUFFICES ASSUME NEW u \in unscheduled
                 PROVE  FreePlaces(u[1], u[2], Proposal') = {}
      BY <2>2 DEF NoPlaceIsLeft, FreePlaces, Conflict, BookedTwice, Candidate, SharesResource,
                  ActivityOf
    <3>1. FreePlaces(u[1], u[2], Proposal) = {}
      BY <1>1 DEF PlacementInv, NoPlaceIsLeft
    <3>2. Proposal \subseteq Proposal'
      BY <2>2
    <3> QED  BY <3>1, <3>2, FreePlacesShrink
  <2>11. Accounted'
    <3> SUFFICES ASSUME NEW b \in Activities, NEW o \in Nat,
                        Count(b, Kept)' <= o, o < ordinal'[b]
                 PROVE  \/ <<b, o>> \in unscheduled
                        \/ \E s \in placed' : ActivityOf(s) = b /\ s.id[2] = o
      BY <2>2 DEF Accounted, ActivityOf
    <3>1. CASE o < ordinal[b]
      BY <1>1, <1>4, <2>2, <3>1 DEF PlacementInv, Accounted
    <3>2. CASE ~(o < ordinal[b])
      BY <1>8, <2>2, <2>5, <3>2
    <3> QED  BY <3>1, <3>2
  <2> QED  BY <1>3, <2>7, <2>8, <2>9, <2>10, <2>11 DEF PlacementInv
<1> QED  BY <1>9, <1>10

\* A proposal is finished when nothing remains to be placed.
LEMMA FinishKeepsInv ==
    ASSUME PlacementInv, Finish
    PROVE  PlacementInv'
<1>1. /\ Open /\ Open' /\ Remaining = {}
      /\ UNCHANGED <<timetable, asserted, ordinal, placed, unscheduled>>
  BY DEF Finish, Open
<1>2. UNCHANGED <<Kept, Proposal, Remaining>>
  BY <1>1 DEF Kept, Named, Remaining, Proposal
<1>3. Sessions' /\ Finite' /\ Numbered' /\ Closed' /\ PlacedOnce' /\ StoredIsSound'
  BY <1>1 DEF PlacementInv, Sessions, Finite, Numbered, Closed, PlacedOnce, StoredIsSound,
              BookedTwice, SharesResource, ActivityOf
<1>4. ConflictsAreKept' /\ NoPlaceIsLeft' /\ Accounted' /\ Exhausted'
  BY <1>1, <1>2
     DEF PlacementInv, ConflictsAreKept, NoPlaceIsLeft, Accounted, Exhausted, Count, FreePlaces,
         Conflict, BookedTwice, Candidate, SharesResource, ActivityOf
<1> QED BY <1>3, <1>4 DEF PlacementInv

----------------------------------------------------------------------------
\* Without an open proposal only the timetable matters.
LEMMA IdleKeepsInv ==
    ASSUME stage' = "idle", placed' = {}, unscheduled' = {},
           ordinal' \in [Activities -> Nat], timetable' \in SUBSET Session,
           IsFiniteSet(timetable'), StoredIsSound'
    PROVE  PlacementInv'
<1>1. IsFiniteSet({})
  BY FS_EmptySet
<1> QED BY <1>1 DEF PlacementInv, Sessions, Finite, Numbered, Open, Closed, PlacedOnce,
                    ConflictsAreKept, NoPlaceIsLeft, Accounted, Exhausted

\* A session of another version is the same booking.
LEMMA VersionsBookTheSame ==
    ASSUME NEW s \in Session, NEW version \in Nat
    PROVE  LET other == [s EXCEPT !.version = version] IN
           other \in Session /\ other.id = s.id /\ other.slot = s.slot /\ other.room = s.room
BY DEF Session

\* Bookings are told apart by name, slot and room.
LEMMA BookingsAgree ==
    ASSUME NEW s, NEW t, NEW x, NEW y,
           x.id = s.id, x.slot = s.slot, x.room = s.room,
           y.id = t.id, y.slot = t.slot, y.room = t.room
    PROVE  BookedTwice(x, y) <=> BookedTwice(s, t)
BY DEF BookedTwice, SharesResource, ActivityOf

\* What is prepared of a proposed session is the same booking.
LEMMA PreparedBooksTheSame ==
    ASSUME NEW s \in Session
    PROVE  /\ Prepared(s) \in Session /\ Prepared(s).id = s.id
           /\ Prepared(s).slot = s.slot /\ Prepared(s).room = s.room
<1>1. s.version \in Nat /\ s.version + 1 \in Nat
  BY DEF Session
<1> QED BY <1>1, VersionsBookTheSame DEF Prepared

\* What is applied has every name once and books nothing twice.
LEMMA AppliedIsSound ==
    ASSUME PlacementInv, Applicable, timetable' = {Prepared(s) : s \in Proposal}
    PROVE  timetable' \in SUBSET Session /\ StoredIsSound'
<1>1. Proposal \in SUBSET Session
  BY DEF Proposal, Kept, Named, PlacementInv, Sessions
<1>2. timetable' \in SUBSET Session
  BY <1>1, PreparedBooksTheSame
<1>3. ASSUME NEW s \in Proposal, NEW t \in Proposal, s.id = t.id
      PROVE  s = t
  <2>1. CASE s \in Kept /\ t \in Kept
    BY <1>3, <2>1 DEF PlacementInv, StoredIsSound, Kept, Named
  <2>2. CASE s \in placed /\ t \in placed
    BY <1>3, <2>2 DEF PlacementInv, PlacedOnce, ActivityOf
  <2>3. CASE (s \in Kept /\ t \in placed) \/ (s \in placed /\ t \in Kept)
    BY <1>3, <2>3 DEF Applicable, NamesAreDistinct, Ids
  <2>4. (s \in Kept \/ s \in placed) /\ (t \in Kept \/ t \in placed)
    BY DEF Proposal
  <2> QED BY <2>1, <2>2, <2>3, <2>4
<1>4. ASSUME NEW s \in Proposal, NEW t \in Proposal, BookedTwice(s, t)
      PROVE  s = t
  BY <1>3, <1>4 DEF Applicable, Conflict
<1>5. ASSUME NEW x \in timetable', NEW y \in timetable', x.id = y.id \/ BookedTwice(x, y)
      PROVE  x = y
  <2>1. PICK s \in Proposal, t \in Proposal : x = Prepared(s) /\ y = Prepared(t)
    BY <1>5
  <2>2. /\ x.id = s.id /\ x.slot = s.slot /\ x.room = s.room
        /\ y.id = t.id /\ y.slot = t.slot /\ y.room = t.room
    BY <1>1, <2>1, PreparedBooksTheSame
  <2>3. s = t
    BY <1>3, <1>4, <1>5, <2>2, BookingsAgree
  <2> QED BY <2>1, <2>3
<1>6. StoredIsSound'
  BY <1>5 DEF StoredIsSound, BookedTwice, SharesResource, ActivityOf
<1> QED BY <1>2, <1>6

\* The next generation starts from the timetable that was applied.
LEMMA ApplyKeepsInv ==
    ASSUME PlacementInv, Apply \/ Discard
    PROVE  PlacementInv'
<1>1. stage' = "idle" /\ placed' = {} /\ unscheduled' = {} /\ ordinal' \in [Activities -> Nat]
  BY DEF Apply, Discard, Discarded
<1>2. CASE Discard
  <2>1. timetable' = timetable
    BY <1>2 DEF Discard
  <2>2. StoredIsSound'
    BY <2>1 DEF PlacementInv, StoredIsSound, BookedTwice, SharesResource, ActivityOf
  <2> QED BY <1>1, <2>1, <2>2, IdleKeepsInv DEF PlacementInv, Sessions, Finite
<1>3. CASE Apply
  <2> DEFINE all == {Prepared(s) : s \in Proposal}
             prepare == [s \in Proposal |-> Prepared(s)]
  <2>1. Applicable /\ timetable' = all
    BY <1>3 DEF Apply
  <2>2. IsFiniteSet(Proposal)
    <3>1. IsFiniteSet(Kept)
      BY FS_Subset DEF PlacementInv, Finite, Kept, Named
    <3> QED BY <3>1, FS_Union DEF PlacementInv, Finite, Proposal
  <2>3. prepare \in Surjection(Proposal, all)
    BY DEF Surjection
  <2>4. IsFiniteSet(all)
    BY <2>2, <2>3, FS_Surjection
  <2>5. timetable' \in SUBSET Session /\ StoredIsSound'
    BY <2>1, AppliedIsSound
  <2> HIDE DEF all
  <2> QED BY <1>1, <2>1, <2>4, <2>5, IdleKeepsInv
<1> QED  BY <1>2, <1>3

\* Sessions are edited between generations only, and moved where nothing is booked.
LEMMA EditKeepsInv ==
    ASSUME PlacementInv, NEW s \in timetable, SetLock(s) \/ Move(s)
    PROVE  PlacementInv'
<1>1. s \in Session /\ timetable \in SUBSET Session
  BY DEF PlacementInv, Sessions
<1>2. PICK edited \in Session :
         /\ Edit(s, edited) /\ edited.id = s.id
         /\ \A t \in timetable \ {s} : ~BookedTwice(edited, t)
  <2>1. CASE SetLock(s)
    <3>1. PICK flag \in BOOLEAN : Edit(s, [s EXCEPT !.locked = flag])
      BY <2>1 DEF SetLock
    <3> DEFINE edited == [s EXCEPT !.locked = flag]
    <3>2. edited \in Session /\ edited.id = s.id /\ edited.slot = s.slot /\ edited.room = s.room
      BY <1>1 DEF Session
    <3> HIDE DEF edited
    <3>3. \A t \in timetable \ {s} : ~BookedTwice(edited, t)
      BY <3>2, BookingsAgree DEF PlacementInv, StoredIsSound
    <3> QED BY <3>1, <3>2, <3>3 DEF edited
  <2>2. CASE Move(s)
    <3>1. PICK slot \in Slots :
             /\ Edit(s, [s EXCEPT !.slot = slot])
             /\ \A t \in timetable : ~Conflict([s EXCEPT !.slot = slot], t)
      BY <2>2 DEF Move
    <3> DEFINE edited == [s EXCEPT !.slot = slot]
    <3>2. edited \in Session /\ edited.id = s.id
      BY <1>1 DEF Session
    <3>3. \A t \in timetable : ~Conflict(edited, t)
      BY <3>1
    <3> HIDE DEF edited
    <3>4. \A t \in timetable \ {s} : t.id # s.id
      BY DEF PlacementInv, StoredIsSound
    <3>5. \A t \in timetable \ {s} : ~BookedTwice(edited, t)
      BY <3>2, <3>3, <3>4 DEF Conflict
    <3> QED BY <3>1, <3>2, <3>5 DEF edited
  <2> QED BY <2>1, <2>2
<1> DEFINE new == [edited EXCEPT !.version = @ + 1]
<1>3. /\ stage' = "idle" /\ placed' = {} /\ unscheduled' = {}
      /\ timetable' = (timetable \ {s}) \cup {new}
      /\ ordinal' \in [Activities -> Nat]
  BY <1>2 DEF Edit, PlacementInv, Closed, Open, Numbered
<1>4. /\ new \in Session /\ new.id = edited.id
      /\ new.slot = edited.slot /\ new.room = edited.room
  <2>1. edited.version + 1 \in Nat
    BY DEF Session
  <2> QED BY <2>1, VersionsBookTheSame
<1> HIDE DEF new
<1>5. IsFiniteSet(timetable')
  <2>1. IsFiniteSet(timetable \ {s})
    BY FS_Subset DEF PlacementInv, Finite
  <2> QED BY <1>3, <2>1, FS_AddElement
<1>6. timetable' \in SUBSET Session
  BY <1>1, <1>3, <1>4
<1>7. \A t \in timetable \ {s} : t.id # new.id /\ ~BookedTwice(new, t) /\ ~BookedTwice(t, new)
  <2> TAKE t \in timetable \ {s}
  <2>1. t.id # s.id
    BY DEF PlacementInv, StoredIsSound
  <2>2. ~BookedTwice(edited, t)
    BY <1>2
  <2>3. ~BookedTwice(new, t)
    BY <1>4, <2>2, BookingsAgree
  <2>4. ~BookedTwice(t, new)
    BY <2>3 DEF BookedTwice, SharesResource
  <2> QED BY <1>2, <1>4, <2>1, <2>3, <2>4
<1>8. ASSUME NEW x \in timetable', NEW y \in timetable', x.id = y.id \/ BookedTwice(x, y)
      PROVE  x = y
  BY <1>3, <1>7, <1>8 DEF PlacementInv, StoredIsSound
<1>9. StoredIsSound'
  BY <1>8 DEF StoredIsSound, BookedTwice, SharesResource, ActivityOf
<1> QED  BY <1>3, <1>5, <1>6, <1>9, IdleKeepsInv

\* Every step keeps the invariant of a generation.
LEMMA PlacementStep == PlacementInv /\ [GenerationNext]_proposalVars => PlacementInv'
<1> SUFFICES ASSUME PlacementInv, [GenerationNext]_proposalVars PROVE PlacementInv'
  OBVIOUS
<1>1. CASE UNCHANGED proposalVars
  <2>1. UNCHANGED <<Kept, Proposal, Remaining>>
    BY <1>1 DEF proposalVars, Kept, Named, Proposal, Remaining
  <2>2. Sessions' /\ Finite' /\ Numbered' /\ Closed' /\ PlacedOnce' /\ StoredIsSound'
    BY <1>1 DEF proposalVars, PlacementInv, Sessions, Finite, Numbered, Open, Closed, PlacedOnce,
                StoredIsSound, BookedTwice, SharesResource, ActivityOf
  <2>3. ConflictsAreKept' /\ NoPlaceIsLeft' /\ Accounted' /\ Exhausted'
    BY <1>1, <2>1
       DEF proposalVars, PlacementInv, Open, ConflictsAreKept, NoPlaceIsLeft, Accounted,
           Exhausted, Count, FreePlaces, Conflict, BookedTwice, Candidate, SharesResource,
           ActivityOf
  <2> QED BY <2>2, <2>3 DEF PlacementInv
<1> QED
  BY <1>1, BeginKeepsInv, PlaceKeepsInv, FinishKeepsInv, ApplyKeepsInv, EditKeepsInv DEF GenerationNext

----------------------------------------------------------------------------
\* The inductive invariant of the placement.
THEOREM PlacementHolds == GenerationSpec => []PlacementInv
BY PlacementInitially, PlacementStep, PTL DEF GenerationSpec

\* Nothing unresolved means every needed session and no double booking, but with a
\* preserved session whose name is proposed again; and nothing that is stored is booked
\* twice, whatever the policy of preferences prefers.
THEOREM ProposalsAreSound == GenerationSpec => []ProposalIsSound
<1>1. PlacementInv => ProposalIsSound
  <2> SUFFICES ASSUME PlacementInv, stage = "proposed", Resolved
               PROVE  /\ \A a \in Activities : \A o \in Ordinals(a) :
                            \E s \in placed : ActivityOf(s) = a /\ s.id[2] = o
                      /\ \A s, t \in placed : BookedTwice(s, t) => s = t
                      /\ \A s \in placed, t \in Kept : BookedTwice(s, t) => s.id = t.id
    BY DEF ProposalIsSound, PlacementInv
  <2>1. Open
    BY DEF Open
  <2>2. \A s, t \in Proposal : ~Conflict(s, t)
    BY <2>1 DEF PlacementInv, ConflictsAreKept, Resolved, Clashes
  <2>3. \A s, t \in placed : s.id = t.id => s = t
    BY DEF PlacementInv, PlacedOnce, ActivityOf
  <2>4. ASSUME NEW a \in Activities, NEW o \in Ordinals(a)
        PROVE  \E s \in placed : ActivityOf(s) = a /\ s.id[2] = o
    <3>1. IsFiniteSet(Kept)
      BY FS_Subset DEF PlacementInv, Finite, Kept, Named
    <3>2. Count(a, Kept) \in Nat
      BY <3>1, CountIsNatural
    <3>3. ~(ordinal[a] < Required[a])
      BY DEF PlacementInv, Exhausted, Remaining
    <3>4. o \in Nat /\ Count(a, Kept) <= o /\ o < ordinal[a]
      BY <3>2, <3>3, ActivitiesAssumption DEF Ordinals, PlacementInv, Numbered
    <3> QED  BY <2>1, <3>4 DEF PlacementInv, Accounted, Resolved
  <2> QED  BY <2>2, <2>3, <2>4 DEF Conflict, Proposal
<1> QED  BY PlacementHolds, <1>1, PTL

\* What is reported as unscheduled has no place in what is proposed.
THEOREM UnscheduledIsImpossible == GenerationSpec => []UnscheduledHasNoPlace
<1>1. PlacementInv => UnscheduledHasNoPlace
  BY DEF PlacementInv, NoPlaceIsLeft, UnscheduledHasNoPlace, Open
<1> QED  BY PlacementHolds, <1>1, PTL

(***************************************************************************)
(* Registry: rows refer to rows of their tenant, and pages miss nothing.   *)
(***************************************************************************)

Tables ==
    {"campus", "person", "profile", "link", "faculty", "department", "program", "year",
     "term", "event", "course", "offering", "cohort", "room", "assignment", "enrollment",
     "policy"}

\* A row has numbers to be ordered by, and its parents are rows that are never replaced.
RowFits(r) ==
    /\ r = Row(r.organization, r.id, r.key, r.parents, r.others, r.rank, r.about)
    /\ r.id \in Nat /\ r.rank \in Int
    /\ DOMAIN r.parents \subseteq Tables \ {"policy"}

\* Finitely many rows of every table, each with an identifier of its own.
TablesFit ==
    /\ DOMAIN db = Tables
    /\ \A t \in Tables :
         /\ IsFiniteSet(db[t])
         /\ \A r \in db[t] : RowFits(r)
         /\ \A r, s \in db[t] : r.id = s.id => r = s

\* A term lies in its year, a cohort is one of the enrollment's program, a policy has
\* the mode of its program and is found by it.
TermAgrees(row) ==
    /\ "year" \in DOMAIN row.parents
    /\ \A y \in Get("year", row.organization, row.parents["year"]) :
         WithinYear(row.about, y)
EnrollmentAgrees(row) == "cohort" \in DOMAIN row.parents =>
    \A k \in Get("cohort", row.organization, row.parents["cohort"]) :
      k.parents["program"] = row.parents["program"]
PolicyAgrees(row) ==
    /\ {"program", "term"} \subseteq DOMAIN row.parents
    /\ row.key = <<row.parents["program"], row.parents["term"]>>
    /\ \A p \in Get("program", row.organization, row.parents["program"]) :
         p.about = row.about.mode
Agreement ==
    /\ \A row \in db["term"] : TermAgrees(row)
    /\ \A row \in db["enrollment"] : EnrollmentAgrees(row)
    /\ \A row \in db["policy"] : PolicyAgrees(row)

\* A person with a national identifier is stored under one of its digests.
DigestsFit == \A p \in db["person"] :
    p.about # NoPin => p.key \in {Digest(p.about), LegacyDigest(p.about)}

StoreIsSound == TablesFit /\ ReferencesHold /\ Agreement /\ DigestsFit /\ PersonsAreDistinct

----------------------------------------------------------------------------
\* What a query asks for, and where a row stands in its pages.
PagedTables ==
    {"faculty", "department", "program", "year", "term", "course", "offering", "cohort",
     "room", "assignment", "enrollment", "person"} \cup ProfileKinds

ListedBelow ==
    [t \in PagedTables |->
       CASE t = "department" -> "faculty" [] t = "program" -> "department"
         [] t = "term" -> "year" [] t = "course" -> "department"
         [] t = "offering" -> "term" [] t = "cohort" -> "program"
         [] t = "room" -> "campus" [] t = "assignment" -> "offering"
         [] t = "enrollment" -> "student" [] OTHER -> "none"]

Selects(q, r) ==
    IF q.table \in ProfileKinds THEN r.about = q.table
    ELSE \/ ListedBelow[q.table] = "none" \/ q.of = NoFilter
         \/ LET c == ListedBelow[q.table]
            IN  \/ c \in DOMAIN r.parents /\ r.parents[c] = q.of
                \/ c \in DOMAIN r.others /\ r.others[c] = q.of

RowsAskedFor(q) == {r \in Table(q) : r.organization = Administrator /\ Selects(q, r)}

Ahead(r, rows) == {q \in rows : PageBefore(q, r)}
Position(r, rows) == Cardinality(Ahead(r, rows))

\* Nothing owed is behind the client without having been shown.
WalkOver(w, q, rows) ==
    /\ w = [query |-> q, offset |-> w.offset, seen |-> w.seen, owed |-> w.owed,
            reading |-> w.reading]
    /\ q.table \in PagedTables /\ w.offset \in Nat
    /\ w.owed \subseteq rows /\ w.seen \subseteq rows
    /\ w.reading => \A r \in w.owed : r \in w.seen \/ w.offset <= Position(r, rows)
    /\ ~w.reading => w.owed \subseteq w.seen
WalkFits == walk = Idle \/ WalkOver(walk, walk.query, RowsAskedFor(walk.query))

RegistryInv == registered \in Nat /\ StoreIsSound /\ WalkFits

----------------------------------------------------------------------------
\* The answer to a query is a page of the rows it asks for.
LEMMA AnswersArePages ==
    ASSUME NEW q, q.table \in PagedTables, NEW n
    PROVE  Answer(q, Administrator, n) = Page(RowsAskedFor(q), n)
<1> USE DEF PagedTables, Structure, ProfileKinds
<1>1. CASE q.table \in ProfileKinds
  BY <1>1 DEF Answer, DirectoryPage, ProfilesPage, RowsAskedFor, Selects, OfTenant, Table
<1>2. CASE q.table = "person"
  BY <1>2 DEF Answer, DirectoryPage, PeoplePage, RowsAskedFor, Selects, OfTenant, Table, ListedBelow
<1>3. CASE q.table = "faculty"
  BY <1>3 DEF Answer, StructurePage, FacultyPage, RowsAskedFor, Selects, OfTenant, Table, ListedBelow
<1>4. CASE q.table = "department"
  BY <1>4 DEF Answer, StructurePage, DepartmentPage, RowsAskedFor, Selects, OfTenant, Below, Table, ListedBelow
<1>5. CASE q.table = "program"
  BY <1>5 DEF Answer, StructurePage, ProgramPage, RowsAskedFor, Selects, OfTenant, Below, Table, ListedBelow
<1>6. CASE q.table = "year"
  BY <1>6 DEF Answer, StructurePage, YearPage, RowsAskedFor, Selects, OfTenant, Table, ListedBelow
<1>7. CASE q.table = "term"
  BY <1>7 DEF Answer, StructurePage, TermPage, RowsAskedFor, Selects, OfTenant, Below, Table, ListedBelow
<1>8. CASE q.table = "course"
  BY <1>8 DEF Answer, StructurePage, CoursePage, RowsAskedFor, Selects, OfTenant, Below, Table, ListedBelow
<1>9. CASE q.table = "offering"
  BY <1>9 DEF Answer, DeliveryPage, OfferingPage, RowsAskedFor, Selects, OfTenant, Below, Table, ListedBelow
<1>10. CASE q.table = "cohort"
  BY <1>10 DEF Answer, DeliveryPage, CohortPage, RowsAskedFor, Selects, OfTenant, Below, Table, ListedBelow
<1>11. CASE q.table = "room"
  BY <1>11 DEF Answer, DeliveryPage, RoomPage, RowsAskedFor, Selects, OfTenant, Below, Table, ListedBelow
<1>12. CASE q.table = "assignment"
  BY <1>12 DEF Answer, DeliveryPage, AssignmentPage, RowsAskedFor, Selects, OfTenant, Below, Table, ListedBelow
<1>13. CASE q.table = "enrollment"
  BY <1>13 DEF Answer, DeliveryPage, EnrollmentPage, RowsAskedFor, Selects, OfTenant, Below, Table, ListedBelow
<1> QED BY <1>1, <1>2, <1>3, <1>4, <1>5, <1>6, <1>7, <1>8, <1>9, <1>10, <1>11, <1>12, <1>13

\* Only the tables that have pages can be asked for.
LEMMA QueriesArePaged == \A q \in Queries : q.table \in PagedTables
BY DEF Queries, PagedTables, Query, ProfileKinds, FacultyQueries, DepartmentQueries,
       ProgramQueries, YearQueries, TermQueries, CourseQueries, OfferingQueries,
       CohortQueries, RoomQueries, AssignmentQueries, EnrollmentQueries, PeopleQueries,
       ProfileQueries

----------------------------------------------------------------------------
\* The rows of a table in order: numbers to be ordered by, and no two alike.
Ordered(rows) ==
    /\ IsFiniteSet(rows)
    /\ \A r \in rows : r.id \in Nat /\ r.rank \in Int
    /\ \A r, s \in rows : r.id = s.id => r = s

\* A position is a number.
LEMMA PositionsAreNumbers ==
    ASSUME NEW rows, Ordered(rows), NEW r
    PROVE  Position(r, rows) \in Nat
BY FS_Subset, FS_CardinalityType DEF Position, Ahead, Ordered

\* Positions are natural numbers and grow along the order.
LEMMA PositionsGrow ==
    ASSUME NEW rows, Ordered(rows), NEW r \in rows, NEW s \in rows, PageBefore(r, s)
    PROVE  Position(r, rows) \in Nat /\ Position(s, rows) \in Nat
           /\ Position(r, rows) < Position(s, rows)
<1>1. IsFiniteSet(Ahead(s, rows)) /\ IsFiniteSet(Ahead(r, rows))
  BY FS_Subset DEF Ahead, Ordered
<1>2. Ahead(r, rows) \subseteq Ahead(s, rows)
  BY DEF Ahead, PageBefore, Ordered
<1>3. r \in Ahead(s, rows) /\ r \notin Ahead(r, rows)
  BY DEF Ahead, PageBefore, Ordered
<1>4. Cardinality(Ahead(r, rows)) <= Cardinality(Ahead(s, rows))
      /\ Cardinality(Ahead(r, rows)) # Cardinality(Ahead(s, rows))
  BY <1>1, <1>2, <1>3, FS_Subset
<1>5. Cardinality(Ahead(r, rows)) \in Nat /\ Cardinality(Ahead(s, rows)) \in Nat
  BY <1>1, FS_CardinalityType
<1> QED BY <1>4, <1>5 DEF Position

\* Of two rows one comes first, so that no two have one position.
LEMMA PositionsDiffer ==
    ASSUME NEW rows, Ordered(rows), NEW r \in rows, NEW s \in rows,
           Position(r, rows) = Position(s, rows)
    PROVE  r = s
<1>1. r = s \/ PageBefore(r, s) \/ PageBefore(s, r)
  BY DEF Ordered, PageBefore
<1>2. PageBefore(r, s) => Position(r, rows) < Position(s, rows)
  BY PositionsGrow
<1>3. PageBefore(s, r) => Position(s, rows) < Position(r, rows)
  BY PositionsGrow
<1>4. Position(r, rows) \in Nat
  BY FS_Subset, FS_CardinalityType DEF Position, Ahead, Ordered
<1> QED BY <1>1, <1>2, <1>3, <1>4

\* A position is the number of rows ahead, and rows ahead fill all positions below.
LEMMA PositionsAreFilled ==
    ASSUME NEW rows, Ordered(rows), NEW r \in rows,
           NEW k \in Nat, k < Position(r, rows)
    PROVE  \E q \in rows : Position(q, rows) = k
<1> DEFINE B == Ahead(r, rows)
           n == Cardinality(B)
           f == [q \in B |-> Position(q, rows)]
<1>1. IsFiniteSet(B) /\ B \subseteq rows
  BY FS_Subset DEF Ahead, Ordered
<1>2. n \in Nat /\ n = Position(r, rows)
  BY <1>1, FS_CardinalityType DEF Position
<1>3. ASSUME NEW q \in B PROVE Position(q, rows) \in 0 .. n - 1
  <2>1. PageBefore(q, r) /\ q \in rows
    BY DEF Ahead
  <2> QED BY <1>2, <2>1, PositionsGrow
<1>4. f \in [B -> 0 .. n - 1]
  BY <1>3
<1>5. \A p, q \in B : f[p] = f[q] => p = q
  BY <1>1, PositionsDiffer
<1>6. f \in Injection(B, 0 .. n - 1)
  BY <1>4, <1>5 DEF Injection, IsInjective
<1>7. IsFiniteSet(0 .. n - 1) /\ Cardinality(0 .. n - 1) = n
  <2>1. n - 1 \in Int /\ 0 \in Int
    BY <1>2
  <2>2. /\ IsFiniteSet(0 .. n - 1)
        /\ Cardinality(0 .. n - 1) = IF 0 > n - 1 THEN 0 ELSE (n - 1) - 0 + 1
    BY <2>1, FS_Interval
  <2> HIDE DEF n
  <2> QED BY <1>2, <2>2
<1>8. f \in Surjection(B, 0 .. n - 1)
  BY <1>6, <1>7, FS_Injection
<1>9. \A x \in 0 .. n - 1 : \E q \in B : f[q] = x
  BY <1>8 DEF Surjection
<1>10. k \in 0 .. n - 1
  BY <1>2
<1> QED BY <1>1, <1>9, <1>10

\* A page that is not full is the last: no row stands behind it.
LEMMA ShortPagesAreLast ==
    ASSUME NEW rows, Ordered(rows), NEW n \in Nat, Limit \in Nat \ {0},
           Cardinality(Page(rows, n)) # Limit,
           NEW r \in rows
    PROVE  Position(r, rows) < n + Limit
<1> SUFFICES ASSUME ~(Position(r, rows) < n + Limit) PROVE FALSE
  OBVIOUS
<1>1. \A q \in rows : Position(q, rows) \in Nat
  BY FS_Subset, FS_CardinalityType DEF Position, Ahead, Ordered
<1> DEFINE P == Page(rows, n)
           I == n .. n + Limit - 1
           f == [q \in P |-> Position(q, rows)]
<1>2. P = {q \in rows : Position(q, rows) \in I}
  BY <1>1 DEF Page, Position, Ahead
<1>3. IsFiniteSet(P)
  BY <1>2, FS_Subset DEF Ordered
<1>4. f \in [P -> I]
  BY <1>2
<1>5. \A p, q \in P : f[p] = f[q] => p = q
  BY <1>2, PositionsDiffer
<1>6. \A k \in I : \E q \in P : f[q] = k
  <2> SUFFICES ASSUME NEW k \in I PROVE \E q \in P : f[q] = k
    OBVIOUS
  <2>1. k \in Nat /\ k < Position(r, rows)
    BY <1>1
  <2>2. PICK q \in rows : Position(q, rows) = k
    BY <2>1, PositionsAreFilled
  <2> QED BY <1>2, <2>2
<1>7. f \in Bijection(P, I)
  BY <1>4, <1>5, <1>6 DEF Bijection, Injection, IsInjective, Surjection
<1>8. Cardinality(I) = Limit
  BY FS_Interval
<1>9. ExistsBijection(P, I)
  BY <1>7 DEF ExistsBijection
<1> QED BY <1>3, <1>8, <1>9, FS_Bijection

\* Rows that are added put none of those before them ahead.
LEMMA PositionsOnlyGrow ==
    ASSUME NEW rows, NEW more, Ordered(rows), Ordered(more), rows \subseteq more,
           NEW r \in rows
    PROVE  Position(r, rows) <= Position(r, more)
<1>1. Ahead(r, rows) \subseteq Ahead(r, more) /\ IsFiniteSet(Ahead(r, more))
  BY FS_Subset DEF Ahead, Ordered
<1> QED BY <1>1, FS_Subset DEF Position

----------------------------------------------------------------------------
\* What a step leaves alone: every row but a policy's stays, and what is found by
\* identifier is found as it was.
RowsStay ==
    /\ DOMAIN db' = Tables
    /\ \A t \in Tables \ {"policy"} : db[t] \subseteq db'[t]
    /\ \A t \in Tables \ {"policy"} : \A r \in db[t], s \in db'[t] : r.id = s.id => r = s

\* A row found by its identifier is found again, and no other with it.
LEMMA FoundAgain ==
    ASSUME TablesFit, RowsStay, NEW t \in Tables \ {"policy"}, NEW o, NEW i,
           Exists(t, o, i)
    PROVE  Exists(t, o, i)' /\ Get(t, o, i)' = Get(t, o, i)
BY DEF RowsStay, Exists, Get, TablesFit

\* So is what the catalog names in another module.
LEMMA NamedAgain ==
    ASSUME RowsStay, NEW row, NEW c, NamedRow(row, c) # {}
    PROVE  NamedRow(row, c)' # {}
<1>1. db["campus"] \subseteq db'["campus"] /\ db["profile"] \subseteq db'["profile"]
  BY DEF RowsStay, Tables
<1> QED BY <1>1 DEF NamedRow, GetProfile, Get

\* The references of a row, in the tenant it belongs to.
RefersWell(row) ==
    /\ \A c \in DOMAIN row.parents : Exists(c, row.organization, row.parents[c])
    /\ \A c \in DOMAIN row.others : NamedRow(row, c) # {}

\* A row that refers well keeps doing so, and agrees with what it refers to.
LEMMA ReferencesStay ==
    ASSUME TablesFit, RowsStay, NEW row, RowFits(row), RefersWell(row)
    PROVE  /\ RefersWell(row)'
           /\ TermAgrees(row) => TermAgrees(row)'
           /\ EnrollmentAgrees(row) => EnrollmentAgrees(row)'
           /\ PolicyAgrees(row) => PolicyAgrees(row)'
<1>1. \A c \in DOMAIN row.parents :
        /\ Exists(c, row.organization, row.parents[c])'
        /\ Get(c, row.organization, row.parents[c])' = Get(c, row.organization, row.parents[c])
  BY FoundAgain DEF RefersWell, RowFits
<1>2. \A c \in DOMAIN row.others : NamedRow(row, c)' # {}
  BY NamedAgain DEF RefersWell, RowFits
<1>3. RefersWell(row)'
  BY <1>1, <1>2 DEF RefersWell
<1>4. TermAgrees(row) => TermAgrees(row)'
  BY <1>1 DEF TermAgrees
<1>5. EnrollmentAgrees(row) => EnrollmentAgrees(row)'
  BY <1>1 DEF EnrollmentAgrees
<1>6. PolicyAgrees(row) => PolicyAgrees(row)'
  BY <1>1 DEF PolicyAgrees
<1> QED BY <1>3, <1>4, <1>5, <1>6

\* A row may be added to a table.
MayJoin(t, row) ==
    /\ RowFits(row) /\ RefersWell(row)
    /\ t = "term" => TermAgrees(row)
    /\ t = "enrollment" => EnrollmentAgrees(row)
    /\ t = "policy" => PolicyAgrees(row)
    /\ t = "person" /\ row.about # NoPin =>
         /\ row.key \in {Digest(row.about), LegacyDigest(row.about)}
         /\ \A r \in db["person"] : r.organization = row.organization =>
              r.key \notin {Digest(row.about), LegacyDigest(row.about)}

\* A registration keeps the store sound: what it looked up is still there, and the
\* new identifier was nobody's.
LEMMA AddingKeepsStore ==
    ASSUME StoreIsSound, NEW t \in Tables, NEW row, MayJoin(t, row), Add(t, row)
    PROVE  StoreIsSound' /\ RowsStay
<1>1. /\ db' = [db EXCEPT ![t] = @ \union {row}]
      /\ \A r \in db[t] : r.id # row.id
  BY DEF Add
<1>2. /\ DOMAIN db' = Tables
      /\ db'[t] = db[t] \union {row}
      /\ \A x \in Tables : x # t => db'[x] = db[x]
  BY <1>1 DEF StoreIsSound, TablesFit
<1>3. RowsStay
  BY <1>1, <1>2 DEF RowsStay, StoreIsSound, TablesFit
<1>4. TablesFit'
  <2> SUFFICES ASSUME NEW x \in Tables
               PROVE  /\ IsFiniteSet(db'[x])
                      /\ \A r \in db'[x] : RowFits(r)
                      /\ \A r, s \in db'[x] : r.id = s.id => r = s
    BY <1>2 DEF TablesFit, RowFits
  <2>1. CASE x # t
    BY <1>2, <2>1 DEF StoreIsSound, TablesFit
  <2>2. CASE x = t
    <3>1. IsFiniteSet(db'[x])
      BY <1>2, <2>2, FS_AddElement DEF StoreIsSound, TablesFit
    <3>2. \A r \in db'[x] : RowFits(r)
      BY <1>2, <2>2 DEF StoreIsSound, TablesFit, MayJoin
    <3>3. \A r, s \in db'[x] : r.id = s.id => r = s
      BY <1>1, <1>2, <2>2 DEF StoreIsSound, TablesFit
    <3> QED BY <3>1, <3>2, <3>3
  <2> QED BY <2>1, <2>2
<1>5. ASSUME NEW x \in Tables, NEW r \in db'[x]
      PROVE  /\ RowFits(r) /\ RefersWell(r)
             /\ x = "term" => TermAgrees(r)
             /\ x = "enrollment" => EnrollmentAgrees(r)
             /\ x = "policy" => PolicyAgrees(r)
  <2>1. CASE r \in db[x]
    BY <2>1 DEF StoreIsSound, TablesFit, ReferencesHold, RefersWell, Agreement
  <2>2. CASE r \notin db[x]
    <3>1. x = t /\ r = row
      BY <1>2, <2>2
    <3> QED BY <3>1 DEF MayJoin
  <2> QED BY <2>1, <2>2
<1>6. ASSUME NEW x \in Tables, NEW r \in db'[x]
      PROVE  /\ RefersWell(r)'
             /\ x = "term" => TermAgrees(r)'
             /\ x = "enrollment" => EnrollmentAgrees(r)'
             /\ x = "policy" => PolicyAgrees(r)'
  BY <1>3, <1>5, ReferencesStay DEF StoreIsSound
<1>7. ReferencesHold' /\ Agreement'
  BY <1>2, <1>6 DEF ReferencesHold, RefersWell, Agreement, Tables
<1>8. DigestsFit'
  BY <1>2 DEF StoreIsSound, DigestsFit, MayJoin, Tables
<1>9. PersonsAreDistinct'
  <2>1. CASE t # "person"
    BY <1>2, <2>1 DEF StoreIsSound, PersonsAreDistinct, Tables
  <2>2. CASE t = "person"
    <3>1. ASSUME NEW p \in db["person"], p.organization = row.organization,
                 p.about = row.about, row.about # NoPin
          PROVE  FALSE
      BY <2>2, <3>1 DEF StoreIsSound, DigestsFit, MayJoin
    <3> QED BY <1>2, <2>2, <3>1 DEF StoreIsSound, PersonsAreDistinct
  <2> QED BY <2>1, <2>2
<1> QED BY <1>3, <1>4, <1>7, <1>8, <1>9 DEF StoreIsSound

\* What a row names in other modules is there.
NamesWell(o, others) == \A c \in DOMAIN others :
    IF c = "campus" THEN Get("campus", o, others[c]) # {}
    ELSE GetProfile(o, others[c], c) # {}

\* A row of a table without rules of its own may join it when what it names in other
\* modules is there: its parents the database looks up.
LEMMA PlainRowsJoin ==
    ASSUME NEW t \in Tables \ {"term", "enrollment", "policy", "person"},
           NEW o, NEW i \in Nat, NEW key, NEW parents, NEW others, NEW rank \in Int, NEW about,
           Add(t, Row(o, i, key, parents, others, rank, about)),
           DOMAIN parents \subseteq Tables \ {"policy"}, NamesWell(o, others)
    PROVE  MayJoin(t, Row(o, i, key, parents, others, rank, about))
<1> DEFINE row == Row(o, i, key, parents, others, rank, about)
<1>1. /\ row.organization = o /\ row.id = i /\ row.key = key /\ row.parents = parents
      /\ row.others = others /\ row.rank = rank /\ row.about = about
  BY DEF Row
<1>2. \A c \in DOMAIN parents : Exists(c, o, parents[c])
  BY <1>1 DEF Add
<1> HIDE DEF row
<1>3. RowFits(row)
  BY <1>1 DEF RowFits, row
<1>4. RefersWell(row)
  BY <1>1, <1>2 DEF RefersWell, NamedRow, NamesWell
<1>5. MayJoin(t, row)
  BY <1>3, <1>4 DEF MayJoin
<1> QED BY <1>5 DEF row

\* Rows without references name nothing.
LEMMA NothingNamed == DOMAIN NoRefs = {} /\ \A o : NamesWell(o, NoRefs)
BY DEF NoRefs, NamesWell

\* Identifiers and codes are numbers.
LEMMA RequestsAreNumbers ==
    ASSUME RequestsFit
    PROVE  /\ \A i \in NewIds : i \in Nat
           /\ \A n \in Codes : n \in Nat /\ n \in Int
BY DEF RequestsFit

\* Ranges are numbers.
LEMMA SpansAreNumbers ==
    ASSUME RequestsFit, NEW span \in Spans
    PROVE  Latest(span) \in Int /\ span[1] \in Nat
BY DEF RequestsFit, Latest, LastDay

\* A new campus refers to nothing.
LEMMA CampusJoins ==
    ASSUME RequestsFit, StoreIsSound, registered \in Nat, NEW o, CreateCampus(o)
    PROVE  StoreIsSound' /\ RowsStay
<1>1. PICK i \in NewIds,
           b \in [code : Codes] :
        /\ Add("campus", CampusRow(o, i, b))
  BY DEF CreateCampus, SaveCampus
<1>2. i \in Nat /\ b.code \in Int
  <2>1. b.code \in Codes
    OBVIOUS
  <2> QED BY <2>1, RequestsAreNumbers
<1>3. DOMAIN NoRefs \subseteq Tables \ {"policy"}
  BY NothingNamed DEF Tables
<1>4. MayJoin("campus", CampusRow(o, i, b))
  BY <1>1, <1>2, <1>3, NothingNamed, PlainRowsJoin DEF CampusRow, Tables
<1> QED BY <1>1, <1>4, AddingKeepsStore DEF Tables

\* A profile is one of a person of the tenant.
LEMMA ProfileJoins ==
    ASSUME RequestsFit, StoreIsSound, registered \in Nat, NEW o, CreateProfile(o)
    PROVE  StoreIsSound' /\ RowsStay
<1>1. PICK i \in NewIds,
           b \in [person : Known("person"), kind : ProfileKinds] :
        /\ Add("profile", ProfileRow(o, i, b))
  BY DEF CreateProfile, AddProfile, SaveProfile
<1>2. i \in Nat /\ registered \in Int
  BY DEF RequestsFit
<1>3. DOMAIN [person |-> b.person] \subseteq Tables \ {"policy"}
  BY DEF Tables
<1>4. MayJoin("profile", ProfileRow(o, i, b))
  BY <1>1, <1>2, <1>3, NothingNamed, PlainRowsJoin DEF ProfileRow, Tables
<1> QED BY <1>1, <1>4, AddingKeepsStore DEF Tables

\* A faculty names an active campus of the tenant.
LEMMA FacultyJoins ==
    ASSUME RequestsFit, StoreIsSound, registered \in Nat, NEW o, CreateFaculty(o)
    PROVE  StoreIsSound' /\ RowsStay
<1>1. PICK i \in NewIds,
           b \in [code : Codes, campus : Known("campus")] :
        /\ Add("faculty", FacultyRow(o, i, b))
        /\ CampusExists(o, b.campus)
  BY DEF CreateFaculty, RegisterFaculty, SaveFaculty, FacultyRow, Row
<1>2. i \in Nat /\ b.code \in Int
  <2>1. b.code \in Codes
    OBVIOUS
  <2> QED BY <2>1, RequestsAreNumbers
<1>3. DOMAIN NoRefs \subseteq Tables \ {"policy"}
  BY NothingNamed DEF Tables
<1>4. NamesWell(o, [campus |-> b.campus])
  BY <1>1 DEF CampusExists, NamesWell
<1>5. MayJoin("faculty", FacultyRow(o, i, b))
  BY <1>1, <1>2, <1>3, <1>4, NothingNamed, PlainRowsJoin DEF FacultyRow, Tables
<1> QED BY <1>1, <1>5, AddingKeepsStore DEF Tables

\* A department is one of a faculty of the tenant.
LEMMA DepartmentJoins ==
    ASSUME RequestsFit, StoreIsSound, registered \in Nat, NEW o, CreateDepartment(o)
    PROVE  StoreIsSound' /\ RowsStay
<1>1. PICK i \in NewIds,
           b \in [code : Codes, faculty : Known("faculty")] :
        /\ Add("department", DepartmentRow(o, i, b))
  BY DEF CreateDepartment, RegisterDepartment, SaveDepartment
<1>2. i \in Nat /\ b.code \in Int
  <2>1. b.code \in Codes
    OBVIOUS
  <2> QED BY <2>1, RequestsAreNumbers
<1>3. DOMAIN [faculty |-> b.faculty] \subseteq Tables \ {"policy"}
  BY DEF Tables
<1>4. MayJoin("department", DepartmentRow(o, i, b))
  BY <1>1, <1>2, <1>3, NothingNamed, PlainRowsJoin DEF DepartmentRow, Tables
<1> QED BY <1>1, <1>4, AddingKeepsStore DEF Tables

\* A program is one of a department of the tenant.
LEMMA ProgramJoins ==
    ASSUME RequestsFit, StoreIsSound, registered \in Nat, NEW o, CreateProgram(o)
    PROVE  StoreIsSound' /\ RowsStay
<1>1. PICK i \in NewIds,
           b \in [code : Codes, department : Known("department"), mode : EducationModes] :
        /\ Add("program", ProgramRow(o, i, b))
  BY DEF CreateProgram, RegisterProgram, SaveProgram
<1>2. i \in Nat /\ b.code \in Int
  <2>1. b.code \in Codes
    OBVIOUS
  <2> QED BY <2>1, RequestsAreNumbers
<1>3. DOMAIN [department |-> b.department] \subseteq Tables \ {"policy"}
  BY DEF Tables
<1>4. MayJoin("program", ProgramRow(o, i, b))
  BY <1>1, <1>2, <1>3, NothingNamed, PlainRowsJoin DEF ProgramRow, Tables
<1> QED BY <1>1, <1>4, AddingKeepsStore DEF Tables

\* A year refers to nothing.
LEMMA YearJoins ==
    ASSUME RequestsFit, StoreIsSound, registered \in Nat, NEW o, CreateAcademicYear(o)
    PROVE  StoreIsSound' /\ RowsStay
<1>1. PICK i \in NewIds,
           b \in [name : Codes, span : Spans] :
        /\ Add("year", YearRow(o, i, b))
  BY DEF CreateAcademicYear, RegisterAcademicYear, SaveAcademicYear
<1>2. i \in Nat /\ Latest(b.span) \in Int
  BY SpansAreNumbers DEF RequestsFit
<1>3. DOMAIN NoRefs \subseteq Tables \ {"policy"}
  BY NothingNamed DEF Tables
<1>4. MayJoin("year", YearRow(o, i, b))
  BY <1>1, <1>2, <1>3, NothingNamed, PlainRowsJoin DEF YearRow, Tables
<1> QED BY <1>1, <1>4, AddingKeepsStore DEF Tables

\* A calendar event refers to nothing.
LEMMA EventJoins ==
    ASSUME RequestsFit, StoreIsSound, registered \in Nat, NEW o, CreateCalendarEvent(o)
    PROVE  StoreIsSound' /\ RowsStay
<1>1. PICK i \in NewIds,
           b \in [span : Spans] :
        /\ Add("event", EventRow(o, i, b))
  BY DEF CreateCalendarEvent, RegisterCalendarEvent, SaveCalendarEvent
<1>2. i \in Nat /\ b.span[1] \in Int
  BY SpansAreNumbers DEF RequestsFit
<1>3. DOMAIN NoRefs \subseteq Tables \ {"policy"}
  BY NothingNamed DEF Tables
<1>4. MayJoin("event", EventRow(o, i, b))
  BY <1>1, <1>2, <1>3, NothingNamed, PlainRowsJoin DEF EventRow, Tables
<1> QED BY <1>1, <1>4, AddingKeepsStore DEF Tables

\* A course is one of a department of the tenant.
LEMMA CourseJoins ==
    ASSUME RequestsFit, StoreIsSound, registered \in Nat, NEW o, CreateCourse(o)
    PROVE  StoreIsSound' /\ RowsStay
<1>1. PICK i \in NewIds,
           b \in [code : Codes, department : Known("department")] :
        /\ Add("course", CourseRow(o, i, b))
  BY DEF CreateCourse, RegisterCourse, SaveCourse
<1>2. i \in Nat /\ b.code \in Int
  <2>1. b.code \in Codes
    OBVIOUS
  <2> QED BY <2>1, RequestsAreNumbers
<1>3. DOMAIN [department |-> b.department] \subseteq Tables \ {"policy"}
  BY DEF Tables
<1>4. MayJoin("course", CourseRow(o, i, b))
  BY <1>1, <1>2, <1>3, NothingNamed, PlainRowsJoin DEF CourseRow, Tables
<1> QED BY <1>1, <1>4, AddingKeepsStore DEF Tables

\* An offering is of a course and a term of the tenant, at an active campus of it.
LEMMA OfferingJoins ==
    ASSUME RequestsFit, StoreIsSound, registered \in Nat, NEW o, CreateCourseOffering(o)
    PROVE  StoreIsSound' /\ RowsStay
<1>1. PICK i \in NewIds,
           b \in [section : Codes, course : Known("course"), term : Known("term"), campus : Known("campus")] :
        /\ Add("offering", OfferingRow(o, i, b))
        /\ CampusExists(o, b.campus)
  BY DEF CreateCourseOffering, RegisterCourseOffering, SaveCourseOffering, OfferingRow, Row
<1>2. i \in Nat /\ b.section \in Int
  <2>1. b.section \in Codes
    OBVIOUS
  <2> QED BY <2>1, RequestsAreNumbers
<1>3. DOMAIN [course |-> b.course, term |-> b.term] \subseteq Tables \ {"policy"}
  BY DEF Tables
<1>4. NamesWell(o, [campus |-> b.campus])
  BY <1>1 DEF CampusExists, NamesWell
<1>5. MayJoin("offering", OfferingRow(o, i, b))
  BY <1>1, <1>2, <1>3, <1>4, NothingNamed, PlainRowsJoin DEF OfferingRow, Tables
<1> QED BY <1>1, <1>5, AddingKeepsStore DEF Tables

\* A cohort is of a program and a year of the tenant.
LEMMA CohortJoins ==
    ASSUME RequestsFit, StoreIsSound, registered \in Nat, NEW o, CreateCohort(o)
    PROVE  StoreIsSound' /\ RowsStay
<1>1. PICK i \in NewIds,
           b \in [code : Codes, program : Known("program"), year : Known("year")] :
        /\ Add("cohort", CohortRow(o, i, b))
  BY DEF CreateCohort, RegisterCohort, SaveCohort
<1>2. i \in Nat /\ b.code \in Int
  <2>1. b.code \in Codes
    OBVIOUS
  <2> QED BY <2>1, RequestsAreNumbers
<1>3. DOMAIN [program |-> b.program, year |-> b.year] \subseteq Tables \ {"policy"}
  BY DEF Tables
<1>4. MayJoin("cohort", CohortRow(o, i, b))
  BY <1>1, <1>2, <1>3, NothingNamed, PlainRowsJoin DEF CohortRow, Tables
<1> QED BY <1>1, <1>4, AddingKeepsStore DEF Tables

\* A room names an active campus of the tenant.
LEMMA RoomJoins ==
    ASSUME RequestsFit, StoreIsSound, registered \in Nat, NEW o, CreateRoom(o)
    PROVE  StoreIsSound' /\ RowsStay
<1>1. PICK i \in NewIds,
           b \in [code : Codes, campus : Known("campus")] :
        /\ Add("room", RoomRow(o, i, b))
        /\ CampusExists(o, b.campus)
  BY DEF CreateRoom, RegisterRoom, SaveRoom, RoomRow, Row
<1>2. i \in Nat /\ b.code \in Int
  <2>1. b.code \in Codes
    OBVIOUS
  <2> QED BY <2>1, RequestsAreNumbers
<1>3. DOMAIN NoRefs \subseteq Tables \ {"policy"}
  BY NothingNamed DEF Tables
<1>4. NamesWell(o, [campus |-> b.campus])
  BY <1>1 DEF CampusExists, NamesWell
<1>5. MayJoin("room", RoomRow(o, i, b))
  BY <1>1, <1>2, <1>3, <1>4, NothingNamed, PlainRowsJoin DEF RoomRow, Tables
<1> QED BY <1>1, <1>5, AddingKeepsStore DEF Tables

\* A person is found by either digest of its national identifier first.
LEMMA PersonJoins ==
    ASSUME RequestsFit, StoreIsSound, registered \in Nat, NEW o, CreatePerson(o)
    PROVE  StoreIsSound' /\ RowsStay
<1>1. PICK i \in NewIds, b \in [pin : Codes \union {NoPin}, name : Codes] :
        AddPerson(PersonRow(o, i, b))
  BY DEF CreatePerson
<1> DEFINE row == PersonRow(o, i, b)
<1>2. Add("person", row)
  BY <1>1 DEF AddPerson
<1>3. /\ row.organization = o /\ row.about = b.pin /\ row.id = i
      /\ row.key = IF b.pin = NoPin THEN <<"unknown", i>> ELSE Digest(b.pin)
      /\ row.parents = << >> /\ row.others = << >> /\ row.rank = b.name
      /\ row = Row(row.organization, row.id, row.key, row.parents, row.others, row.rank, row.about)
  BY DEF PersonRow, Row, NoRefs
<1>4. /\ row.about # NoPin => row.key \in {Digest(row.about), LegacyDigest(row.about)}
      /\ row.about # NoPin => \A r \in db["person"] : r.organization = row.organization =>
           r.key \notin {Digest(row.about), LegacyDigest(row.about)}
  BY <1>1, <1>3 DEF AddPerson
<1>5. RowFits(row) /\ RefersWell(row)
  <2>1. DOMAIN row.parents = {} /\ DOMAIN row.others = {}
    BY <1>3
  <2>2. row.id \in Nat /\ row.rank \in Int
    <3>1. b.name \in Codes
      OBVIOUS
    <3> QED BY <1>3, <3>1, RequestsAreNumbers
  <2> HIDE DEF row
  <2> QED BY <1>3, <2>1, <2>2 DEF RowFits, RefersWell
<1>6. MayJoin("person", row)
  BY <1>4, <1>5 DEF MayJoin
<1> QED BY <1>2, <1>6, AddingKeepsStore DEF Tables

\* Both ends of a guardianship are profiles of the right kind in the tenant.
LEMMA GuardianJoins ==
    ASSUME RequestsFit, StoreIsSound, registered \in Nat, NEW o,
           CreateGuardianRelationship(o)
    PROVE  StoreIsSound' /\ RowsStay
<1>1. PICK i \in NewIds,
           b \in [guardian : Known("profile"), student : Known("profile")] :
        /\ Add("link", LinkRow(o, i, b))
        /\ GetProfile(o, b.guardian, "guardian") # {}
        /\ GetProfile(o, b.student, "student") # {}
  BY DEF CreateGuardianRelationship, LinkGuardian, AddGuardianRelationship, LinkRow, Row
<1> DEFINE others == [guardian |-> b.guardian, student |-> b.student]
<1>2. /\ DOMAIN others = {"guardian", "student"}
      /\ others["guardian"] = b.guardian /\ others["student"] = b.student
  OBVIOUS
<1>3. NamesWell(o, others)
  BY <1>1, <1>2 DEF NamesWell
<1>4. i \in Nat /\ i \in Int
  BY RequestsAreNumbers
<1>5. MayJoin("link", LinkRow(o, i, b))
  <2> HIDE DEF others
  <2>1. LinkRow(o, i, b) = Row(o, i, <<b.guardian, b.student>>, NoRefs, others, i, "link")
    BY DEF LinkRow, others
  <2>2. DOMAIN NoRefs \subseteq Tables \ {"policy"}
    BY NothingNamed
  <2> QED BY <1>1, <1>3, <1>4, <2>1, <2>2, PlainRowsJoin DEF Tables
<1> QED BY <1>1, <1>5, AddingKeepsStore DEF Tables

\* A term lies within its year.
LEMMA TermJoins ==
    ASSUME RequestsFit, StoreIsSound, registered \in Nat, NEW o, CreateTerm(o)
    PROVE  StoreIsSound' /\ RowsStay
<1>1. PICK i \in NewIds, b \in [name : Codes, span : Spans, year : Known("year")] :
        /\ Add("term", TermRow(o, i, b))
        /\ \E year \in Get("year", o, b.year) : WithinYear(b.span, year)
  BY DEF CreateTerm, RegisterTerm, SaveTerm, TermRow, Row, GetAcademicYear
<1>2. TermAgrees(TermRow(o, i, b))
  BY <1>1 DEF TermAgrees, TermRow, Row, Get, StoreIsSound, TablesFit, Tables
<1>3. MayJoin("term", TermRow(o, i, b))
  <2>1. i \in Nat /\ Latest(b.span) \in Int
    <3>1. b.span \in Spans
      OBVIOUS
    <3> QED BY <3>1, SpansAreNumbers, RequestsAreNumbers
  <2>2. PICK row : row = TermRow(o, i, b)
    OBVIOUS
  <2>3. /\ row = Row(o, i, <<b.year, b.name>>, [year |-> b.year], NoRefs, Latest(b.span), b.span)
        /\ row.organization = o /\ row.id = i /\ row.parents = [year |-> b.year]
        /\ row.others = NoRefs /\ row.rank = Latest(b.span)
        /\ row = Row(row.organization, row.id, row.key, row.parents, row.others,
                     row.rank, row.about)
    BY <2>2 DEF TermRow, Row
  <2>4. RowFits(row)
    <3>1. DOMAIN row.parents \subseteq Tables \ {"policy"}
      BY <2>3 DEF Tables
    <3> QED BY <2>1, <2>3, <3>1, Zenon DEF RowFits
  <2>5. \A c \in DOMAIN row.parents : Exists(c, row.organization, row.parents[c])
    BY <1>1, <2>2, <2>3 DEF Add
  <2>6. RefersWell(row)
    BY <2>3, <2>5, NothingNamed DEF RefersWell
  <2>7. MayJoin("term", row)
    BY <1>2, <2>2, <2>4, <2>6 DEF MayJoin
  <2> QED BY <2>2, <2>7
<1> QED BY <1>1, <1>3, AddingKeepsStore DEF Tables

\* A teacher is assigned who has a teacher's profile in the tenant.
LEMMA AssignmentJoins ==
    ASSUME RequestsFit, StoreIsSound, registered \in Nat, NEW o,
           CreateTeacherAssignment(o)
    PROVE  StoreIsSound' /\ RowsStay
<1>1. PICK i \in NewIds, b \in [offering : Known("offering"), teacher : Known("profile")] :
        /\ Add("assignment", AssignmentRow(o, i, b))
        /\ GetProfile(o, b.teacher, "teacher") # {}
  BY DEF CreateTeacherAssignment, AssignTeacher, SaveTeacherAssignment, AssignmentRow, Row,
         TeacherProfileExists, ExistingProfiles
<1>2. b.offering \in Nat
  BY DEF Known, StoreIsSound, TablesFit, Tables, RowFits
<1>3. i \in Nat /\ DOMAIN [offering |-> b.offering] \subseteq Tables \ {"policy"}
  BY DEF RequestsFit, Tables
<1> DEFINE others == [teacher |-> b.teacher]
<1>4. DOMAIN others = {"teacher"} /\ others["teacher"] = b.teacher
  OBVIOUS
<1>5. MayJoin("assignment", AssignmentRow(o, i, b))
  <2>1. NamesWell(o, others)
    BY <1>1, <1>4 DEF NamesWell
  <2> HIDE DEF others
  <2>2. AssignmentRow(o, i, b) =
          Row(o, i, <<b.offering, b.teacher>>, [offering |-> b.offering], others,
              b.offering, "assignment")
    BY DEF AssignmentRow, others
  <2>3. b.offering \in Int
    BY <1>2
  <2> QED BY <1>1, <1>3, <2>1, <2>2, <2>3, PlainRowsJoin DEF Tables
<1> QED BY <1>1, <1>5, AddingKeepsStore DEF Tables

\* A student is enrolled with a profile of the tenant and a cohort of the program.
LEMMA EnrollmentJoins ==
    ASSUME RequestsFit, StoreIsSound, registered \in Nat, NEW o,
           CreateStudentEnrollment(o)
    PROVE  StoreIsSound' /\ RowsStay
<1>1. PICK i \in NewIds,
           b \in [student : Known("profile"), program : Known("program"),
                  year : Known("year"), cohort : Known("cohort") \union {NoCohort},
                  at : Spans] :
        EnrollStudent(EnrollmentRow(o, i, b))
  BY DEF CreateStudentEnrollment
<1> DEFINE row == EnrollmentRow(o, i, b)
<1>2. /\ row.organization = o /\ row.id = i /\ row.others = [student |-> b.student]
      /\ row.rank = Latest(b.at)
      /\ row = Row(row.organization, row.id, row.key, row.parents, row.others, row.rank, row.about)
      /\ row.parents = IF b.cohort = NoCohort
                       THEN [program |-> b.program, year |-> b.year]
                       ELSE [program |-> b.program, year |-> b.year, cohort |-> b.cohort]
  BY DEF EnrollmentRow, Row
<1>3. /\ Add("enrollment", row) /\ CohortFits(row)
      /\ GetProfile(o, b.student, "student") # {}
  BY <1>1, <1>2 DEF EnrollStudent, SaveStudentEnrollment, StudentProfileExists, ExistingProfiles
<1>4. DOMAIN row.parents \subseteq {"program", "year", "cohort"}
  BY <1>2
<1>5. EnrollmentAgrees(row)
  BY <1>3 DEF EnrollmentAgrees, CohortFits, GetCohort, Get, StoreIsSound, TablesFit, Tables
<1>6. RowFits(row)
  BY <1>2, <1>4, SpansAreNumbers DEF RowFits, Tables, RequestsFit
<1>7. RefersWell(row)
  BY <1>2, <1>3 DEF RefersWell, NamedRow, Add
<1>8. MayJoin("enrollment", row)
  BY <1>5, <1>6, <1>7 DEF MayJoin
<1> QED BY <1>3, <1>8, AddingKeepsStore DEF Tables

\* A policy that is replaced keeps its identifier and what it is for, and takes a mode
\* that was looked up.
LEMMA ReplacingKeepsStore ==
    ASSUME StoreIsSound, NEW old \in db["policy"], NEW row, PolicyAgrees(row),
           old.organization = row.organization, old.key = row.key,
           ReplacePolicy(old, row)
    PROVE  StoreIsSound' /\ RowsStay
<1> DEFINE new == [old EXCEPT !.about = row.about]
<1>1. db' = [db EXCEPT !["policy"] = (@ \ {old}) \union {new}]
  BY DEF ReplacePolicy
<1>2. /\ DOMAIN db' = Tables
      /\ db'["policy"] = (db["policy"] \ {old}) \union {new}
      /\ \A x \in Tables \ {"policy"} : db'[x] = db[x]
  BY <1>1 DEF StoreIsSound, TablesFit, Tables
<1>3. RowFits(old) /\ RefersWell(old) /\ PolicyAgrees(old)
  BY DEF StoreIsSound, TablesFit, ReferencesHold, RefersWell, Agreement, Tables
<1>4. /\ new.organization = old.organization /\ new.id = old.id /\ new.key = old.key
      /\ new.parents = old.parents /\ new.others = old.others /\ new.rank = old.rank
      /\ new.about = row.about
      /\ new = Row(new.organization, new.id, new.key, new.parents, new.others, new.rank, new.about)
  BY <1>3 DEF RowFits, Row
<1> HIDE DEF new
<1>5. RowFits(new) /\ RefersWell(new)
  BY <1>3, <1>4 DEF RowFits, RefersWell, NamedRow
<1>6. PolicyAgrees(new)
  BY <1>3, <1>4 DEF PolicyAgrees
<1>7. RowsStay
  BY <1>2 DEF RowsStay, StoreIsSound, TablesFit
<1>8. TablesFit'
  <2>1. IsFiniteSet(db["policy"]) /\ IsFiniteSet(db["policy"] \ {old})
    BY FS_RemoveElement DEF StoreIsSound, TablesFit, Tables
  <2>2. IsFiniteSet(db'["policy"])
    BY <1>2, <2>1, FS_AddElement
  <2>3. \A r \in db'["policy"] : RowFits(r)
    BY <1>2, <1>5 DEF StoreIsSound, TablesFit, Tables
  <2>4. \A r, s \in db'["policy"] : r.id = s.id => r = s
    BY <1>2, <1>4 DEF StoreIsSound, TablesFit, Tables
  <2>5. \A x \in Tables \ {"policy"} :
          /\ IsFiniteSet(db'[x])
          /\ \A r \in db'[x] : RowFits(r)
          /\ \A r, s \in db'[x] : r.id = s.id => r = s
    BY <1>2 DEF StoreIsSound, TablesFit
  <2> QED BY <1>2, <2>2, <2>3, <2>4, <2>5 DEF TablesFit, RowFits
<1>9. ASSUME NEW x \in Tables, NEW r \in db'[x]
      PROVE  /\ RowFits(r) /\ RefersWell(r)
             /\ x = "term" => TermAgrees(r)
             /\ x = "enrollment" => EnrollmentAgrees(r)
             /\ x = "policy" => PolicyAgrees(r)
  <2>1. CASE r \in db[x]
    BY <2>1 DEF StoreIsSound, TablesFit, ReferencesHold, RefersWell, Agreement
  <2>2. CASE r \notin db[x]
    <3>1. x = "policy" /\ r = new
      BY <1>2, <2>2
    <3> QED BY <1>5, <1>6, <3>1
  <2> QED BY <2>1, <2>2
<1>10. ASSUME NEW x \in Tables, NEW r \in db'[x]
      PROVE  /\ RefersWell(r)'
             /\ x = "term" => TermAgrees(r)'
             /\ x = "enrollment" => EnrollmentAgrees(r)'
             /\ x = "policy" => PolicyAgrees(r)'
  BY <1>7, <1>9, ReferencesStay DEF StoreIsSound
<1>11. ReferencesHold' /\ Agreement'
  BY <1>2, <1>10 DEF ReferencesHold, RefersWell, Agreement, Tables
<1>12. DigestsFit' /\ PersonsAreDistinct'
  BY <1>2 DEF StoreIsSound, DigestsFit, PersonsAreDistinct, Tables
<1> QED BY <1>7, <1>8, <1>11, <1>12 DEF StoreIsSound

\* A policy takes the mode its program has.
LEMMA PolicyJoins ==
    ASSUME RequestsFit, StoreIsSound, registered \in Nat, NEW o, PutSelectionPolicy(o)
    PROVE  StoreIsSound' /\ RowsStay
<1>1. PICK i \in NewIds,
           b \in [program : Known("program"), term : Known("term"),
                  mode : EducationModes, credits : 1 .. MaxCredits] :
        ConfigureSelectionPolicy(PolicyRow(o, i, b))
  BY DEF PutSelectionPolicy
<1> DEFINE row == PolicyRow(o, i, b)
<1>2. /\ row.organization = o /\ row.id = i /\ row.key = <<b.program, b.term>>
      /\ row.parents = [program |-> b.program, term |-> b.term]
      /\ row.others = NoRefs /\ row.rank = i /\ row.about.mode = b.mode
      /\ row = Row(row.organization, row.id, row.key, row.parents, row.others, row.rank, row.about)
  BY DEF PolicyRow, Row
<1>3. /\ DOMAIN row.parents = {"program", "term"}
      /\ row.parents["program"] = b.program /\ row.parents["term"] = b.term
  BY <1>2
<1>4. /\ \E program \in Get("program", o, b.program) : program.about = b.mode
      /\ SaveSelectionPolicy(row)
  BY <1>1, <1>2, <1>3 DEF ConfigureSelectionPolicy, GetProgram
<1> HIDE DEF row
<1>5. PolicyAgrees(row)
  <2>1. \A p \in Get("program", o, b.program) : p.about = b.mode
    BY <1>4 DEF Get, StoreIsSound, TablesFit, Tables
  <2> QED BY <1>2, <1>3, <2>1 DEF PolicyAgrees
<1>6. CASE Add("policy", row)
  <2>1. RowFits(row)
    BY <1>2, <1>3, RequestsAreNumbers DEF RowFits, Tables
  <2>2. DOMAIN row.others = {}
    BY <1>2, NothingNamed
  <2>3. RefersWell(row)
    BY <1>6, <2>2 DEF RefersWell, Add
  <2>4. MayJoin("policy", row)
    BY <1>5, <2>1, <2>3 DEF MayJoin
  <2> QED BY <1>6, <2>4, AddingKeepsStore DEF Tables
<1>7. ASSUME NEW old \in PolicyOf(o, b.program, b.term), ReplacePolicy(old, row)
      PROVE  StoreIsSound' /\ RowsStay
  <2>1. old \in db["policy"] /\ old.organization = row.organization /\ old.key = row.key
    BY <1>2, <1>7 DEF PolicyOf, OfTenant
  <2> QED BY <1>5, <1>7, <2>1, ReplacingKeepsStore
<1> QED BY <1>2, <1>3, <1>4, <1>6, <1>7 DEF SaveSelectionPolicy

----------------------------------------------------------------------------
\* Whatever is registered, the store stays sound, and what was stored stays.
LEMMA RegistrationsKeepStore ==
    ASSUME RequestsFit, StoreIsSound, registered \in Nat, NEW o,
           RegisterPeople(o) \/ RegisterStructure(o)
    PROVE  StoreIsSound' /\ RowsStay
BY CampusJoins, PersonJoins, ProfileJoins, GuardianJoins, FacultyJoins, DepartmentJoins,
   ProgramJoins, YearJoins, TermJoins, EventJoins, CourseJoins, OfferingJoins,
   CohortJoins, RoomJoins, AssignmentJoins, EnrollmentJoins, PolicyJoins
   DEF RegisterPeople, RegisterStructure

\* Whatever is registered, it counts, and the client's walk is left alone.
LEMMA RegistrationsCount ==
    ASSUME NEW o, RegisterPeople(o) \/ RegisterStructure(o)
    PROVE  registered' = registered + 1 /\ walk' = walk
<1>1. CASE RegisterPeople(o)
  BY <1>1 DEF RegisterPeople, CreateCampus, SaveCampus, CreatePerson, AddPerson,
    CreateProfile, AddProfile, SaveProfile, CreateGuardianRelationship, LinkGuardian,
    AddGuardianRelationship, Add
<1>2. CASE RegisterStructure(o)
  BY <1>2 DEF RegisterStructure, Add,
    CreateFaculty, RegisterFaculty, SaveFaculty,
    CreateDepartment, RegisterDepartment, SaveDepartment,
    CreateProgram, RegisterProgram, SaveProgram,
    CreateAcademicYear, RegisterAcademicYear, SaveAcademicYear,
    CreateTerm, RegisterTerm, SaveTerm,
    CreateCalendarEvent, RegisterCalendarEvent, SaveCalendarEvent,
    CreateCourse, RegisterCourse, SaveCourse,
    CreateCourseOffering, RegisterCourseOffering, SaveCourseOffering,
    CreateCohort, RegisterCohort, SaveCohort,
    CreateRoom, RegisterRoom, SaveRoom,
    CreateTeacherAssignment, AssignTeacher, SaveTeacherAssignment,
    CreateStudentEnrollment, EnrollStudent, SaveStudentEnrollment,
    PutSelectionPolicy, ConfigureSelectionPolicy, SaveSelectionPolicy, ReplacePolicy
<1> QED BY <1>1, <1>2

\* The rows a query asks for have an order.
LEMMA RowsAreOrdered ==
    ASSUME StoreIsSound, NEW q, q.table \in PagedTables
    PROVE  Ordered(RowsAskedFor(q))
<1>1. PICK t \in Tables : Table(q) = db[t]
  BY DEF PagedTables, Tables, Table, ProfileKinds
<1>2. RowsAskedFor(q) \subseteq db[t]
  BY <1>1 DEF RowsAskedFor
<1>3. IsFiniteSet(RowsAskedFor(q))
  BY <1>2, FS_Subset DEF StoreIsSound, TablesFit
<1> QED BY <1>2, <1>3 DEF Ordered, StoreIsSound, TablesFit, RowFits

\* A store that is left alone stays sound.
LEMMA StoresStay ==
    ASSUME StoreIsSound, db' = db
    PROVE  StoreIsSound'
BY DEF StoreIsSound, TablesFit, RowFits, ReferencesHold, Exists, NamedRow, Get, GetProfile,
       Agreement, TermAgrees, EnrollmentAgrees, PolicyAgrees, DigestsFit, PersonsAreDistinct

\* A registration puts rows ahead of the client's place, never behind it.
LEMMA RegistrationsKeepWalk ==
    ASSUME StoreIsSound, StoreIsSound', RowsStay, WalkFits, walk' = walk
    PROVE  WalkFits'
<1>1. CASE walk = Idle
  BY <1>1 DEF WalkFits, Idle
<1>2. CASE walk # Idle
  <2>1. PICK q : q = walk.query
    OBVIOUS
  <2>2. PICK rows : rows = RowsAskedFor(q)
    OBVIOUS
  <2>3. PICK more : more = RowsAskedFor(q)'
    OBVIOUS
  <2>4. q.table \in PagedTables
    BY <1>2, <2>1 DEF WalkFits, WalkOver
  <2>5. PICK t \in Tables \ {"policy"} : Table(q) = db[t] /\ Table(q)' = db'[t]
    BY <2>4 DEF PagedTables, Tables, Table, ProfileKinds
  <2>6. rows \subseteq more
    BY <2>2, <2>3, <2>5 DEF RowsAskedFor, RowsStay, Selects
  <2>7. Ordered(rows)
    BY <2>2, <2>4, RowsAreOrdered
  <2>8. more \subseteq db'[t]
    BY <2>3, <2>5 DEF RowsAskedFor
  <2>9. IsFiniteSet(more)
    BY <2>8, FS_Subset DEF StoreIsSound, TablesFit
  <2>10. Ordered(more)
    BY <2>8, <2>9 DEF Ordered, StoreIsSound, TablesFit, RowFits
  <2>11. \A r \in rows : Position(r, rows) <= Position(r, more)
    BY <2>6, <2>7, <2>10, PositionsOnlyGrow
  <2>12. \A r \in rows : Position(r, rows) \in Nat /\ Position(r, more) \in Nat
    BY <2>6, <2>7, <2>10, PositionsAreNumbers
  <2>13. /\ walk.offset \in Nat /\ walk.owed \subseteq rows /\ walk.seen \subseteq rows
         /\ walk.reading => \A r \in walk.owed :
              r \in walk.seen \/ walk.offset <= Position(r, rows)
         /\ ~walk.reading => walk.owed \subseteq walk.seen
         /\ walk = [query |-> q, offset |-> walk.offset, seen |-> walk.seen,
                    owed |-> walk.owed, reading |-> walk.reading]
    BY <1>2, <2>1, <2>2 DEF WalkFits, WalkOver
  <2>14. walk.reading => \A r \in walk.owed :
              r \in walk.seen \/ walk.offset <= Position(r, more)
    BY <2>11, <2>12, <2>13
  <2>15. WalkOver(walk', q, more)
    BY <2>4, <2>6, <2>13, <2>14 DEF WalkOver
  <2> QED BY <2>1, <2>3, <2>15 DEF WalkFits
<1> QED BY <1>1, <1>2

\* A client that begins is owed what its pages hold.
LEMMA StartsKeepWalk ==
    ASSUME StoreIsSound, NEW q \in Queries, StartWalk(q)
    PROVE  WalkFits' /\ StoreIsSound' /\ registered' = registered
<1>1. q.table \in PagedTables
  BY QueriesArePaged
<1>2. PICK rows : rows = RowsAskedFor(q)
  OBVIOUS
<1>3. RowsAskedFor(q)' = rows
  BY <1>2 DEF StartWalk, RowsAskedFor, Table, Selects
<1>4. \A n : Answer(q, Administrator, n) \subseteq rows
  BY <1>1, <1>2, AnswersArePages DEF Page
<1>5. Ordered(rows)
  BY <1>1, <1>2, RowsAreOrdered
<1>6. walk'.owed \subseteq rows
  BY <1>4 DEF StartWalk
<1>7. \A r \in rows : 0 <= Position(r, rows)
  BY <1>5, PositionsAreNumbers
<1>8. /\ walk' = [query |-> q, offset |-> 0, seen |-> {}, owed |-> walk'.owed,
                  reading |-> TRUE]
      /\ walk'.query = q /\ walk'.offset = 0 /\ walk'.seen = {} /\ walk'.reading = TRUE
  BY DEF StartWalk
<1>9. WalkOver(walk', q, rows)
  BY <1>1, <1>6, <1>7, <1>8 DEF WalkOver
<1>10. WalkFits'
  BY <1>3, <1>8, <1>9 DEF WalkFits
<1>11. StoreIsSound' /\ registered' = registered
  BY StoresStay DEF StartWalk
<1> QED BY <1>10, <1>11

\* A page shows what stands in it, and the client goes on only from a full one.
LEMMA PagesKeepWalk ==
    ASSUME RequestsFit, StoreIsSound, WalkFits, NextPage
    PROVE  WalkFits' /\ StoreIsSound' /\ registered' = registered
<1>1. walk # Idle
  BY DEF NextPage, Idle
<1>2. PICK q : q = walk.query
  OBVIOUS
<1>3. PICK rows : rows = RowsAskedFor(q)
  OBVIOUS
<1>4. PICK w : w = walk
  OBVIOUS
<1>5. WalkOver(w, q, rows) /\ w.reading
  BY <1>1, <1>2, <1>3, <1>4 DEF WalkFits, NextPage
<1>6. PICK page : page = Page(rows, w.offset)
  OBVIOUS
<1>7. page = Answer(walk.query, Administrator, walk.offset)
  BY <1>2, <1>3, <1>4, <1>5, <1>6, AnswersArePages DEF WalkOver
<1>8. walk' = [w EXCEPT !.offset = @ + Limit, !.seen = @ \union page,
                        !.reading = (Cardinality(page) = Limit)]
  BY <1>4, <1>7 DEF NextPage
<1>9. /\ walk' = [query |-> q, offset |-> w.offset + Limit, seen |-> w.seen \union page,
                  owed |-> w.owed, reading |-> (Cardinality(page) = Limit)]
      /\ walk'.query = q /\ walk'.offset = w.offset + Limit /\ walk'.owed = w.owed
      /\ walk'.seen = w.seen \union page /\ walk'.reading = (Cardinality(page) = Limit)
  <2>1. PICK n, shown, owed, reading :
          w = [query |-> q, offset |-> n, seen |-> shown, owed |-> owed, reading |-> reading]
    BY <1>5 DEF WalkOver
  <2>2. w.offset = n /\ w.seen = shown /\ w.owed = owed
    BY <2>1
  <2>3. walk' = [query |-> q, offset |-> n + Limit, seen |-> shown \union page,
                 owed |-> owed, reading |-> (Cardinality(page) = Limit)]
    BY <1>8, <2>1
  <2> QED BY <2>2, <2>3
<1>10. RowsAskedFor(q)' = rows
  BY <1>3 DEF NextPage, RowsAskedFor, Table, Selects
<1>11. Ordered(rows)
  BY <1>3, <1>5, RowsAreOrdered DEF WalkOver
<1>12. \A r \in rows : Position(r, rows) \in Nat
  BY <1>11, PositionsAreNumbers
<1>13. w.offset \in Nat /\ Limit \in Nat \ {0}
  BY <1>5 DEF WalkOver, RequestsFit
<1>14. page = {r \in rows : Position(r, rows) \in w.offset .. (w.offset + Limit - 1)}
  <2>1. page = {r \in rows : w.offset <= Position(r, rows)
                              /\ Position(r, rows) < w.offset + Limit}
    BY <1>6 DEF Page, Position, Ahead
  <2> QED BY <1>12, <1>13, <2>1
<1>15. \A r \in w.owed : r \in rows /\ (r \in w.seen \/ w.offset <= Position(r, rows))
  BY <1>5 DEF WalkOver
<1>16. \A r \in w.owed : r \in walk'.seen \/ w.offset + Limit <= Position(r, rows)
  BY <1>9, <1>12, <1>13, <1>14, <1>15
<1>17. ASSUME ~walk'.reading PROVE w.owed \subseteq walk'.seen
  <2>1. Cardinality(Page(rows, w.offset)) # Limit
    BY <1>6, <1>9, <1>17
  <2>2. \A r \in rows : Position(r, rows) < w.offset + Limit
    BY <1>11, <1>13, <2>1, ShortPagesAreLast
  <2> QED BY <1>12, <1>13, <1>15, <1>16, <2>2
<1>18. walk'.seen \subseteq rows /\ w.owed \subseteq rows
  BY <1>5, <1>9, <1>14 DEF WalkOver
<1>19. WalkOver(walk', q, rows)
  BY <1>5, <1>9, <1>13, <1>16, <1>17, <1>18 DEF WalkOver
<1>20. WalkFits'
  BY <1>9, <1>10, <1>19 DEF WalkFits
<1>21. StoreIsSound' /\ registered' = registered
  BY StoresStay DEF NextPage
<1> QED BY <1>20, <1>21

----------------------------------------------------------------------------
\* What a row refers to is the row with that identifier.
LEMMA ReferredIsFound ==
    ASSUME TablesFit, NEW row, RowFits(row), RefersWell(row), NEW c \in DOMAIN row.parents
    PROVE  Referred(row, c) \in Get(c, row.organization, row.parents[c])
<1>1. PICK r \in Get(c, row.organization, row.parents[c]) : TRUE
  BY DEF RefersWell, Exists, Get
<1>2. c \in Tables
  BY DEF RowFits
<1>3. r \in db[c] /\ r.id = row.parents[c]
  BY <1>1 DEF Get
<1>4. Referred(row, c) \in db[c] /\ Referred(row, c).id = row.parents[c]
  BY <1>3 DEF Referred
<1>5. Referred(row, c) = r
  BY <1>2, <1>3, <1>4 DEF TablesFit
<1> QED BY <1>1, <1>5

\* The invariant says what the catalog promises.
LEMMA InvariantIsEnough == RegistryInv => RegistryIsSound
<1> SUFFICES ASSUME RegistryInv PROVE RegistryIsSound
  OBVIOUS
<1> USE DEF RegistryInv, StoreIsSound
<1>1. \A t \in Tables : \A r \in db[t] : RowFits(r) /\ RefersWell(r)
  BY DEF TablesFit, ReferencesHold, RefersWell
<1>2. \A r \in db["term"] : WithinYear(r.about, Referred(r, "year"))
  BY <1>1, ReferredIsFound DEF Agreement, TermAgrees, Tables
<1>3. \A e \in db["enrollment"] : "cohort" \in DOMAIN e.parents =>
        Referred(e, "cohort").parents["program"] = e.parents["program"]
  BY <1>1, ReferredIsFound DEF Agreement, EnrollmentAgrees, Tables
<1>4. \A p \in db["policy"] : p.about.mode = Referred(p, "program").about
  BY <1>1, ReferredIsFound DEF Agreement, PolicyAgrees, Tables
<1>5. PagesMissNothing
  BY DEF PagesMissNothing, WalkFits, WalkOver, RowsAskedFor, Idle
<1> QED BY <1>2, <1>3, <1>4, <1>5 DEF RegistryIsSound, RowsAgree

\* The store is sound, counted and paged through in order, always.
THEOREM RegistryInvHolds == RegistrySpec /\ StoreIsSound => []RegistryInv
<1> USE RequestsAssumption
<1>1. RegistryInit /\ StoreIsSound => RegistryInv
  BY DEF RegistryInit, RegistryInv, WalkFits
<1>2. RegistryInv /\ [RegistryNext]_registryVars => RegistryInv'
  <2> SUFFICES ASSUME RegistryInv, [RegistryNext]_registryVars
               PROVE  RegistryInv'
    OBVIOUS
  <2> USE DEF RegistryInv
  <2>1. CASE RegisterPeople(Administrator) \/ RegisterStructure(Administrator)
    BY <2>1, RegistrationsKeepStore, RegistrationsCount, RegistrationsKeepWalk
  <2>2. CASE \E q \in Queries : StartWalk(q)
    BY <2>2, StartsKeepWalk
  <2>3. CASE NextPage
    BY <2>3, PagesKeepWalk
  <2>4. CASE UNCHANGED registryVars
    <3>1. StoreIsSound'
      BY <2>4, StoresStay DEF registryVars
    <3>2. RowsStay
      BY <2>4 DEF RowsStay, registryVars, StoreIsSound, TablesFit
    <3> QED BY <2>4, <3>1, <3>2, RegistrationsKeepWalk DEF registryVars
  <2> QED BY <2>1, <2>2, <2>3, <2>4 DEF RegistryNext
<1> QED BY <1>1, <1>2, PTL DEF RegistrySpec

\* Rows refer to rows of their tenant and agree with them, persons are told apart, and a
\* client that pages through a table misses nothing.
THEOREM RegistryHolds == RegistrySpec /\ StoreIsSound => []RegistryIsSound
BY RegistryInvHolds, InvariantIsEnough, PTL

(***************************************************************************)
(* Curriculum: what is read is one version, never two mixed.               *)
(***************************************************************************)

ProperContents == UNION {[listed -> SUBSET Courses] : listed \in SUBSET Courses}

\* Rows carry identifiers handed out before, each one its own.
RowsFit ==
    /\ issued \in Nat
    /\ curricula \in [Identifiers -> ProgramYears \cup {NoPlan}]
    /\ items \subseteq [id : 1 .. issued, curriculum : Identifiers, course : Courses]
    /\ \A r, s \in items : r.id = s.id => r = s
    /\ \A p \in prerequisites : p.item \in 1 .. issued
    /\ \A v \in versions : v.courses \in ProperContents

\* No program-year has two curricula.
OnePerPlan == \A i, j \in Identifiers :
    curricula[i] # NoPlan /\ curricula[i] = curricula[j] => i = j

RequiredBy(id) == {p.course : p \in {q \in prerequisites : q.item = id}}

\* These rows are the courses of a content, each with what it requires.
OneRowEach(rows, content) ==
    /\ {r.course : r \in rows} = DOMAIN content
    /\ \A r, s \in rows : r.course = s.course => r = s
Reflects(rows, content) ==
    OneRowEach(rows, content) /\ \A r \in rows : content[r.course] = RequiredBy(r.id)

StoredIsAVersion == \A i \in Identifiers : curricula[i] # NoPlan =>
    \E v \in versions : v.curriculum = i /\ Reflects(ItemsOf(i), v.courses)

\* What a reader has found is what is stored, or nothing is left of it.
Current(i, v) == reader.items = ItemsOf(i) /\ Reflects(reader.items, v.courses)
Replaced == \A r \in reader.items : RequiredBy(r.id) = {}

ReaderFits ==
    /\ reader.at \in {"rest", "absent", "courses", "prerequisites", "read"}
    /\ reader = [at |-> reader.at, curriculum |-> reader.curriculum,
                 items |-> reader.items, prerequisites |-> reader.prerequisites]
    /\ reader.at = "courses" =>
         \E i \in Identifiers : reader.curriculum = {i} /\ curricula[i] # NoPlan
    /\ reader.at = "prerequisites" =>
         /\ reader.items \subseteq
              [id : 1 .. issued, curriculum : Identifiers, course : Courses]
         /\ \E i \in Identifiers, v \in versions :
              /\ reader.curriculum = {i} /\ v.curriculum = i
              /\ OneRowEach(reader.items, v.courses)
              /\ Current(i, v) \/ Replaced

CurriculumInv ==
    /\ RowsFit /\ OnePerPlan /\ StoredIsAVersion /\ ReaderFits
    /\ CurriculaAreNotMixed

----------------------------------------------------------------------------
\* The courses of a set of rows.
LEMMA CoursesOfRows ==
    ASSUME NEW rows, NEW courses,
           \A r \in rows : r.course \in courses,
           \A c \in courses : \E r \in rows : r.course = c
    PROVE  {r.course : r \in rows} = courses
OBVIOUS

\* New rows can be told apart: as many identifiers are fresh as there are courses.
LEMMA FreshIdentifiers ==
    ASSUME NEW content, IsFiniteSet(DOMAIN content), issued \in Nat
    PROVE  Fresh(content) # {}
<1> DEFINE S == DOMAIN content
           n == Cardinality(S)
<1>1. n \in Nat /\ ExistsBijection(1 .. n, S)
  BY FS_CardinalityType
<1>2. ExistsBijection(S, 1 .. n)
  BY <1>1, Fun_ExistsBijSymmetric
<1>3. PICK b \in Bijection(S, 1 .. n) : TRUE
  BY <1>2 DEF ExistsBijection
<1>4. /\ b \in [S -> 1 .. n]
      /\ \A c, d \in S : c # d => b[c] # b[d]
  BY <1>3 DEF Bijection, Injection, IsInjective
<1> DEFINE f == [c \in S |-> issued + b[c]]
<1>5. f \in [S -> issued + 1 .. issued + n]
  BY <1>1, <1>4
<1>6. \A c, d \in S : c # d => f[c] # f[d]
  BY <1>1, <1>4
<1> QED BY <1>5, <1>6 DEF Fresh

----------------------------------------------------------------------------
\* The invariant holds before anything is stored or read.
LEMMA CurriculumInitially == CurriculumInit => CurriculumInv
BY DEF CurriculumInit, CurriculumInv, RowsFit, OnePerPlan, StoredIsAVersion, ReaderFits,
       CurriculaAreNotMixed, Rested

\* A replacement keeps the invariant: the rows it removes are no longer required
\* by anything, and those it adds nobody has read.
LEMMA ReplacingKeepsInv ==
    ASSUME CurriculumFits, CurriculumInv,
           NEW i \in Identifiers, NEW plan \in ProgramYears, NEW content \in Contents,
           ConfigureCurriculum(i, plan, content)
    PROVE  CurriculumInv'
<1> PICK ids : ids = CHOOSE f \in Fresh(content) : TRUE
  OBVIOUS
<1> DEFINE old == {row.id : row \in ItemsOf(i)}
           new == [number |-> Cardinality(versions), curriculum |-> i, courses |-> content]
<1>1. /\ content \in ProperContents
      /\ DOMAIN content \subseteq Courses
      /\ \A c \in DOMAIN content : content[c] \subseteq Courses
  BY DEF ConfigureCurriculum, Contents, Mentioned, ProperContents
<1>2. IsFiniteSet(DOMAIN content) /\ issued \in Nat
  BY <1>1, FS_Subset DEF CurriculumFits, CurriculumInv, RowsFit
<1>3. Cardinality(DOMAIN content) \in Nat
  BY <1>2, FS_CardinalityType
<1>4. ids \in Fresh(content)
  BY <1>2, FreshIdentifiers
<1>5. /\ \A c \in DOMAIN content : ids[c] \in issued + 1 .. issued'
      /\ \A c, d \in DOMAIN content : ids[c] = ids[d] => c = d
  BY <1>4 DEF Fresh, ConfigureCurriculum, SaveCurriculum
<1>6. /\ Held(plan) \subseteq {i}
      /\ curricula[i] \in {NoPlan, plan}
      /\ curricula' = [curricula EXCEPT ![i] = plan]
      /\ items' = (items \ ItemsOf(i)) \union NewItems(i, content, ids)
      /\ prerequisites' = {p \in prerequisites : p.item \notin old}
                            \union NewPrerequisites(content, ids)
      /\ issued' = issued + Cardinality(DOMAIN content)
      /\ versions' = versions \union {new}
      /\ reader' = reader
  BY DEF ConfigureCurriculum, SaveCurriculum
<1>7. issued' \in Nat /\ issued <= issued'
  BY <1>2, <1>3, <1>6
<1> HIDE DEF new
<1>8. /\ \A p \in NewPrerequisites(content, ids) :
            \E c \in DOMAIN content : p.item = ids[c] /\ p.course \in content[c]
      /\ \A c \in DOMAIN content : \A q \in content[c] :
            [item |-> ids[c], course |-> q] \in NewPrerequisites(content, ids)
  BY DEF NewPrerequisites
<1>9. /\ \A r \in NewItems(i, content, ids) :
            /\ r.course \in DOMAIN content /\ r.curriculum = i
            /\ r.id = ids[r.course]
            /\ r = [id |-> ids[r.course], curriculum |-> i, course |-> r.course]
      /\ \A c \in DOMAIN content : \E r \in NewItems(i, content, ids) : r.course = c
  <2>1. \A c \in DOMAIN content :
          [id |-> ids[c], curriculum |-> i, course |-> c] \in NewItems(i, content, ids)
    BY DEF NewItems
  <2>2. \A r \in NewItems(i, content, ids) : \E c \in DOMAIN content :
          r = [id |-> ids[c], curriculum |-> i, course |-> c]
    BY DEF NewItems
  <2>3. ASSUME NEW r \in NewItems(i, content, ids)
        PROVE  /\ r.course \in DOMAIN content /\ r.curriculum = i
               /\ r.id = ids[r.course]
               /\ r = [id |-> ids[r.course], curriculum |-> i, course |-> r.course]
    BY <2>2
  <2>4. ASSUME NEW c \in DOMAIN content
        PROVE  \E r \in NewItems(i, content, ids) : r.course = c
    <3> DEFINE r == [id |-> ids[c], curriculum |-> i, course |-> c]
    <3>1. r \in NewItems(i, content, ids) /\ r.course = c
      BY <2>1
    <3> QED BY <3>1
  <2> QED BY <2>3, <2>4
<1>10. RowsFit'
  <2>1. curricula' \in [Identifiers -> ProgramYears \cup {NoPlan}]
    BY <1>6 DEF CurriculumInv, RowsFit
  <2>2. items' \subseteq [id : 1 .. issued', curriculum : Identifiers, course : Courses]
    <3>1. \A r \in items : r \in [id : 1 .. issued', curriculum : Identifiers, course : Courses]
      BY <1>2, <1>7 DEF CurriculumInv, RowsFit
    <3>2. \A r \in NewItems(i, content, ids) :
            r \in [id : 1 .. issued', curriculum : Identifiers, course : Courses]
      BY <1>1, <1>2, <1>5, <1>7, <1>9
    <3> QED BY <3>1, <3>2, <1>6
  <2>3. ASSUME NEW r \in items', NEW s \in items', r.id = s.id PROVE r = s
    <3>1. \A x \in items : x.id \in 1 .. issued
      BY DEF CurriculumInv, RowsFit
    <3>2. \A x \in NewItems(i, content, ids) : x.id \in issued + 1 .. issued'
      BY <1>5, <1>9
    <3>3. \/ r \in items /\ s \in items
          \/ r \in NewItems(i, content, ids) /\ s \in NewItems(i, content, ids)
      BY <1>2, <1>6, <1>7, <2>3, <3>1, <3>2
    <3> QED BY <1>5, <1>9, <2>3, <3>3 DEF CurriculumInv, RowsFit
  <2>4. \A v \in versions' : v.courses \in ProperContents
    BY <1>1, <1>6 DEF CurriculumInv, RowsFit, new
  <2>5. \A p \in prerequisites' : p.item \in 1 .. issued'
    BY <1>2, <1>5, <1>6, <1>7, <1>8 DEF CurriculumInv, RowsFit
  <2> QED BY <1>7, <2>1, <2>2, <2>3, <2>4, <2>5 DEF RowsFit
<1>11. OnePerPlan'
  BY <1>6 DEF OnePerPlan, CurriculumInv, Held
\* What other rows require is kept, and what the removed ones required is not.
<1>12. ASSUME NEW id \in 1 .. issued, id \notin old PROVE RequiredBy(id)' = RequiredBy(id)
  <2>1. \A p \in NewPrerequisites(content, ids) : p.item # id
    BY <1>2, <1>5, <1>7, <1>8, <1>12
  <2> QED BY <1>6, <1>12, <2>1 DEF RequiredBy
<1>13. ASSUME NEW id \in old PROVE RequiredBy(id)' = {}
  <2>1. id \in 1 .. issued
    BY DEF ItemsOf, CurriculumInv, RowsFit
  <2>2. \A p \in NewPrerequisites(content, ids) : p.item # id
    BY <1>2, <1>5, <1>7, <1>8, <2>1
  <2> QED BY <1>6, <1>13, <2>2 DEF RequiredBy
<1>14. ASSUME NEW c \in DOMAIN content PROVE RequiredBy(ids[c])' = content[c]
  <2>1. \A p \in prerequisites' : p.item = ids[c] =>
          p \in NewPrerequisites(content, ids) \/ p \in prerequisites
    BY <1>6
  <2>2. ids[c] \notin 1 .. issued
    BY <1>2, <1>5
  <2>3. \A p \in prerequisites : p.item # ids[c]
    BY <2>2 DEF CurriculumInv, RowsFit
  <2>4. \A p \in NewPrerequisites(content, ids) :
          p.item = ids[c] => p.course \in content[c]
    BY <1>5, <1>8
  <2>5. RequiredBy(ids[c])' \subseteq content[c]
    BY <1>6, <2>1, <2>3, <2>4 DEF RequiredBy
  <2>6. ASSUME NEW q \in content[c] PROVE q \in RequiredBy(ids[c])'
    <3>1. [item |-> ids[c], course |-> q] \in prerequisites'
      BY <1>6, <1>8
    <3> DEFINE p == [item |-> ids[c], course |-> q]
    <3>2. p \in prerequisites' /\ p.item = ids[c] /\ p.course = q
      BY <3>1
    <3> HIDE DEF p
    <3> QED BY <3>2 DEF RequiredBy
  <2> QED BY <2>5, <2>6
<1>15. StoredIsAVersion'
  <2> SUFFICES ASSUME NEW j \in Identifiers, curricula'[j] # NoPlan
               PROVE  \E v \in versions' :
                        v.curriculum = j /\ Reflects(ItemsOf(j), v.courses)'
    BY DEF StoredIsAVersion
  <2>1. CASE j = i
    <3>1. new \in versions' /\ new.curriculum = j /\ new.courses = content
      BY <1>6, <2>1 DEF new
    <3>2. ItemsOf(i)' = NewItems(i, content, ids)
      BY <1>6, <1>9 DEF ItemsOf
    <3>3. OneRowEach(NewItems(i, content, ids), content)
      <4>1. {r.course : r \in NewItems(i, content, ids)} = DOMAIN content
        <5>1. \A r \in NewItems(i, content, ids) : r.course \in DOMAIN content
          BY <1>9
        <5>2. \A c \in DOMAIN content : \E r \in NewItems(i, content, ids) : r.course = c
          BY <1>9
        <5> QED BY <5>1, <5>2, CoursesOfRows
      <4>2. ASSUME NEW r \in NewItems(i, content, ids), NEW s \in NewItems(i, content, ids),
                   r.course = s.course
            PROVE  r = s
        <5>1. /\ r = [id |-> ids[r.course], curriculum |-> i, course |-> r.course]
              /\ s = [id |-> ids[s.course], curriculum |-> i, course |-> s.course]
          BY <1>9
        <5> QED BY <4>2, <5>1
      <4> QED BY <4>1, <4>2 DEF OneRowEach
    <3>4. \A r \in NewItems(i, content, ids) : content[r.course] = RequiredBy(r.id)'
      BY <1>9, <1>14
    <3>5. Reflects(ItemsOf(j), content)'
      BY <2>1, <3>2, <3>3, <3>4 DEF Reflects
    <3> QED BY <3>1, <3>5
  <2>2. CASE j # i
    <3>1. curricula'[j] = curricula[j] /\ ItemsOf(j)' = ItemsOf(j)
      BY <1>6, <1>9, <2>2 DEF ItemsOf
    <3>2. PICK v \in versions : v.curriculum = j /\ Reflects(ItemsOf(j), v.courses)
      BY <3>1 DEF CurriculumInv, StoredIsAVersion
    <3>3. \A r \in ItemsOf(j) : r.id \in 1 .. issued /\ r.id \notin old
      BY <2>2 DEF ItemsOf, CurriculumInv, RowsFit
    <3>4. \A r \in ItemsOf(j) : RequiredBy(r.id)' = RequiredBy(r.id)
      BY <1>12, <3>3
    <3>5. v.courses' = v.courses
      OBVIOUS
    <3>6. Reflects(ItemsOf(j), v.courses)'
      BY <3>1, <3>2, <3>4 DEF Reflects
    <3> QED BY <1>6, <3>2, <3>6
  <2> QED BY <2>1, <2>2
<1>16. ReaderFits'
  <2>1. reader'.at = "courses" =>
          \E j \in Identifiers : reader'.curriculum = {j} /\ curricula'[j] # NoPlan
    BY <1>6 DEF CurriculumInv, ReaderFits
  <2>2. ASSUME reader'.at = "prerequisites"
        PROVE  /\ reader'.items \subseteq
                    [id : 1 .. issued', curriculum : Identifiers, course : Courses]
               /\ \E j \in Identifiers, v \in versions' :
                    /\ reader'.curriculum = {j} /\ v.curriculum = j
                    /\ OneRowEach(reader.items, v.courses)'
                    /\ Current(j, v)' \/ Replaced'
    <3>1. PICK j \in Identifiers, v \in versions :
            /\ reader.curriculum = {j} /\ v.curriculum = j
            /\ OneRowEach(reader.items, v.courses)
            /\ Current(j, v) \/ Replaced
      BY <1>6, <2>2 DEF CurriculumInv, ReaderFits
    <3>2. reader.items \subseteq
            [id : 1 .. issued, curriculum : Identifiers, course : Courses]
      BY <1>6, <2>2 DEF CurriculumInv, ReaderFits
    <3>3. reader'.items \subseteq
            [id : 1 .. issued', curriculum : Identifiers, course : Courses]
      BY <1>2, <1>6, <1>7, <3>2
    <3>4. OneRowEach(reader.items, v.courses)'
      BY <1>6, <3>1 DEF OneRowEach
    <3>5. ASSUME Replaced \/ (Current(j, v) /\ j = i) PROVE Replaced'
      <4> SUFFICES ASSUME NEW r \in reader.items PROVE RequiredBy(r.id)' = {}
        BY <1>6 DEF Replaced
      <4>1. r.id \in 1 .. issued
        BY <3>2
      <4>2. CASE r.id \in old
        BY <4>2, <1>13
      <4>3. CASE r.id \notin old
        <5>1. Replaced
          BY <3>5, <4>3 DEF Current
        <5> QED BY <1>12, <4>1, <4>3, <5>1 DEF Replaced
      <4> QED BY <4>2, <4>3
    <3>6. ASSUME Current(j, v), j # i PROVE Current(j, v)'
      <4>1. ItemsOf(j)' = ItemsOf(j)
        BY <1>6, <1>9, <3>6 DEF ItemsOf
      <4>2. \A r \in ItemsOf(j) : r.id \in 1 .. issued /\ r.id \notin old
        BY <3>6 DEF ItemsOf, CurriculumInv, RowsFit
      <4>3. \A r \in ItemsOf(j) : RequiredBy(r.id)' = RequiredBy(r.id)
        BY <1>12, <4>2
      <4> QED BY <1>6, <3>6, <4>1, <4>3 DEF Current, Reflects
    <3>7. v \in versions'
      BY <1>6
    <3> QED BY <1>6, <3>1, <3>3, <3>4, <3>5, <3>6, <3>7
  <2> QED BY <1>6, <2>1, <2>2 DEF CurriculumInv, ReaderFits
<1>17. CurriculaAreNotMixed'
  <2>1. Shown' = Shown
    BY <1>6 DEF Shown
  <2> QED BY <1>6, <2>1 DEF CurriculumInv, CurriculaAreNotMixed
<1> QED BY <1>10, <1>11, <1>15, <1>16, <1>17 DEF CurriculumInv

\* Each statement of a reader keeps the invariant: nothing is stored between the
\* second and the third unless it removed what the second found.
LEMMA ReadingKeepsInv ==
    ASSUME CurriculumFits, CurriculumInv, GetCurriculum
    PROVE  CurriculumInv'
<1>1. UNCHANGED <<curricula, items, prerequisites, issued, versions>>
  BY DEF GetCurriculum
<1>2. RowsFit' /\ OnePerPlan' /\ StoredIsAVersion'
  <2>1. RowsFit' /\ OnePerPlan'
    BY <1>1 DEF CurriculumInv, RowsFit, OnePerPlan
  <2>2. \A i, content : Reflects(ItemsOf(i), content) => Reflects(ItemsOf(i), content)'
    BY <1>1 DEF Reflects, RequiredBy, ItemsOf
  <2>3. StoredIsAVersion'
    BY <1>1, <2>2 DEF CurriculumInv, StoredIsAVersion
  <2> QED BY <2>1, <2>3
<1>3. ASSUME NEW plan \in ProgramYears, ReadCurriculum(plan)
      PROVE  ReaderFits' /\ CurriculaAreNotMixed'
  <2>1. \A j \in Held(plan) : curricula[j] = plan /\ Held(plan) = {j}
    BY DEF Held, CurriculumInv, OnePerPlan, CurriculumFits
  <2>2. Held(plan) # {} => \E j \in Identifiers : Held(plan) = {j} /\ curricula[j] # NoPlan
    BY <2>1 DEF Held, CurriculumFits
  <2> QED BY <1>1, <1>3, <2>2 DEF ReadCurriculum, Rested, ReaderFits, CurriculaAreNotMixed
<1>4. ASSUME ReadCourses PROVE ReaderFits' /\ CurriculaAreNotMixed'
  <2>1. PICK i \in Identifiers : reader.curriculum = {i} /\ curricula[i] # NoPlan
    BY <1>4 DEF ReadCourses, CurriculumInv, ReaderFits
  <2>2. /\ reader'.at = "prerequisites" /\ reader'.curriculum = {i}
        /\ reader'.items = ItemsOf(i)
        /\ reader' = [at |-> reader'.at, curriculum |-> reader'.curriculum,
                      items |-> reader'.items, prerequisites |-> reader'.prerequisites]
    BY <1>4, <2>1 DEF ReadCourses, CurriculumInv, ReaderFits
  <2>3. PICK v \in versions : v.curriculum = i /\ Reflects(ItemsOf(i), v.courses)
    BY <2>1 DEF CurriculumInv, StoredIsAVersion
  <2>4. Current(i, v)' /\ OneRowEach(reader.items, v.courses)'
    BY <1>1, <2>2, <2>3 DEF Current, Reflects, RequiredBy, ItemsOf
  <2>5. reader'.items \subseteq [id : 1 .. issued', curriculum : Identifiers, course : Courses]
    BY <1>1, <2>2 DEF ItemsOf, CurriculumInv, RowsFit
  <2> QED BY <1>1, <2>2, <2>3, <2>4, <2>5 DEF ReaderFits, CurriculaAreNotMixed
<1>5. ASSUME ReadPrerequisites PROVE ReaderFits' /\ CurriculaAreNotMixed'
  <2>1. PICK i \in Identifiers, v \in versions :
          /\ reader.curriculum = {i} /\ v.curriculum = i
          /\ OneRowEach(reader.items, v.courses)
          /\ Current(i, v) \/ Replaced
    BY <1>5 DEF ReadPrerequisites, CurriculumInv, ReaderFits
  <2>2. /\ reader'.at = "read" /\ reader'.curriculum = {i}
        /\ reader'.items = reader.items
        /\ reader'.prerequisites =
             {p \in prerequisites : \E row \in reader.items : row.id = p.item}
        /\ reader' = [at |-> reader'.at, curriculum |-> reader'.curriculum,
                      items |-> reader'.items, prerequisites |-> reader'.prerequisites]
    BY <1>5, <2>1 DEF ReadPrerequisites, CurriculumInv, ReaderFits
  <2>3. PICK listed \in SUBSET Courses : v.courses \in [listed -> SUBSET Courses]
    BY DEF CurriculumInv, RowsFit, ProperContents
  <2>4. DOMAIN Shown' = DOMAIN v.courses
    BY <2>1, <2>2 DEF Shown, OneRowEach
  <2>5. ASSUME NEW r \in reader.items
        PROVE  Shown'[r.course] = RequiredBy(r.id)
    BY <2>1, <2>2 DEF Shown, OneRowEach, RequiredBy
  <2>6. \A c \in DOMAIN Shown' : \E r \in reader.items : r.course = c
    BY <2>1, <2>4 DEF OneRowEach
  <2>7. Current(i, v) => Shown' = v.courses
    <3> SUFFICES ASSUME Current(i, v) PROVE Shown' = v.courses
      OBVIOUS
    <3>1. \A c \in DOMAIN Shown' : Shown'[c] = v.courses[c]
      BY <2>5, <2>6 DEF Current, Reflects
    <3>2. Shown' = [c \in DOMAIN Shown' |-> Shown'[c]]
      BY DEF Shown
    <3> QED BY <2>3, <2>4, <3>1, <3>2
  <2>8. Replaced => \A c \in DOMAIN Shown' : Shown'[c] = {}
    BY <2>5, <2>6 DEF Replaced
  <2>9. \A c \in DOMAIN Shown' : Shown'[c] \subseteq Courses
    BY <2>1, <2>3, <2>4, <2>7, <2>8
  <2>10. Mentioned(Shown)' \subseteq Courses
    BY <2>3, <2>4, <2>9 DEF Mentioned
  <2> QED BY <1>1, <2>1, <2>2, <2>4, <2>7, <2>8, <2>10 DEF ReaderFits, CurriculaAreNotMixed
<1>6. (\E plan \in ProgramYears : ReadCurriculum(plan)) \/ ReadCourses \/ ReadPrerequisites
  BY DEF GetCurriculum
<1> QED BY <1>2, <1>3, <1>4, <1>5, <1>6 DEF CurriculumInv

\* Nothing changes, nothing is lost.
LEMMA AtRestKeepsCurriculum ==
    ASSUME CurriculumInv, UNCHANGED curriculumVars
    PROVE  CurriculumInv'
<1> USE DEF curriculumVars
<1>1. RowsFit' /\ OnePerPlan'
  BY DEF CurriculumInv, RowsFit, OnePerPlan
<1>2. \A i, content : Reflects(ItemsOf(i), content) => Reflects(ItemsOf(i), content)'
  BY DEF Reflects, RequiredBy, ItemsOf
<1>3. StoredIsAVersion'
  BY <1>2 DEF CurriculumInv, StoredIsAVersion
<1>4. \A i, v : Current(i, v) => Current(i, v)'
  BY DEF Current, Reflects, RequiredBy, ItemsOf
<1>5. Replaced => Replaced'
  BY DEF Replaced, RequiredBy
<1>6. ReaderFits'
  BY <1>4, <1>5 DEF CurriculumInv, ReaderFits
<1>7. Shown' = Shown
  BY DEF Shown
<1>8. CurriculaAreNotMixed'
  BY <1>7 DEF CurriculumInv, CurriculaAreNotMixed
<1> QED BY <1>1, <1>3, <1>6, <1>8 DEF CurriculumInv

\* The inductive invariant of a curriculum and one reader of it: the rows stored for
\* a program-year are one version, and what a reader has found is either still
\* stored or required by nothing any more.
THEOREM CurriculumInvHolds == CurriculumSpec => []CurriculumInv
<1> USE CurriculumAssumption
<1>1. CurriculumInv /\ [CurriculumNext]_curriculumVars => CurriculumInv'
  <2> SUFFICES ASSUME CurriculumInv, [CurriculumNext]_curriculumVars PROVE CurriculumInv'
    OBVIOUS
  <2>1. CASE PutCurriculum
    BY <2>1, ReplacingKeepsInv DEF PutCurriculum
  <2>2. CASE GetCurriculum
    BY <2>2, ReadingKeepsInv
  <2>3. CASE UNCHANGED curriculumVars
    BY <2>3, AtRestKeepsCurriculum
  <2> QED BY <2>1, <2>2, <2>3 DEF CurriculumNext
<1> QED BY CurriculumInitially, <1>1, PTL DEF CurriculumSpec

\* A curriculum read while it is replaced is one version or the courses of one
\* without prerequisites, never a mixture of two, for any courses, program-years,
\* identifiers and number of replacements.
THEOREM CurriculaHold == CurriculumSpec => []CurriculaAreNotMixed
<1>1. CurriculumInv => CurriculaAreNotMixed
  BY DEF CurriculumInv
<1> QED BY CurriculumInvHolds, <1>1, PTL

(***************************************************************************)
(* Notifications: what is stored of a delivery is what happened.           *)
(***************************************************************************)

\* Where a call is while it is being served.
Underway == {"eligible", "delivering", "accepted", "failed"}

\* Every stored message was created by the call it is named for, and every call
\* past its creation has one; a call about to create its message has none yet.
MessagesFit ==
    /\ \A m \in DOMAIN messages : m \in Senders /\ messages[m] \in Rows
    /\ \A m \in DOMAIN messages : calls[m] # NoDelivery /\ calls[m].at # "creating"
    /\ drafts \subseteq Drafts
    /\ accepted \subseteq DOMAIN messages

CallsFit ==
    /\ calls \in [Senders -> [at : Underway \cup {"idle", "creating", "done"},
                              message : Senders \cup {"none"}]]
    /\ \A c \in Senders :
         /\ calls[c].at = "idle" => calls[c] = NoDelivery
         /\ calls[c].at \in Underway => calls[c].message \in DOMAIN messages

\* What a call may do next, it was allowed.
SendersAreAllowed == \A c \in Senders :
    LET row == messages[calls[c].message]
    IN  /\ calls[c].at \in Underway \ {"eligible"} => c \in allowed
        /\ calls[c].at = "creating" => c \in allowed
        /\ calls[c].at = "eligible" /\ ChannelEnabled(row.recipient, row.channel)
             => c \in allowed

\* A call's progress tells what the channel has done.
ProgressIsTrue == \A c \in Senders :
    LET m == calls[c].message
    IN  /\ calls[c].at = "accepted" => messages[m].channel = InApp \/ m \in accepted
        /\ calls[c].at = "eligible" => messages[m].channel # InApp
        /\ calls[c].at = "delivering" => messages[m].channel # InApp
        /\ calls[c].at = "failed" => messages[m].channel \in Configured

OnlyConfiguredAccept == \A m \in accepted : messages[m].channel \in Configured

StatusIsTrue == \A m \in DOMAIN messages :
    LET row == messages[m]
    IN  /\ (row.channel \in External /\ row.status = "sent") => m \in accepted
        /\ row.status = "failed" => row.channel \notin Configured
        /\ row.status = "read" => row.channel = InApp
        /\ row.status = "retry" => row.channel \in Configured

DeliveryInv ==
    /\ MessagesFit /\ CallsFit /\ SendersAreAllowed
    /\ ProgressIsTrue /\ OnlyConfiguredAccept /\ StatusIsTrue

----------------------------------------------------------------------------
\* The invariant says what is promised.
LEMMA InvMeansTrue == DeliveryInv => DeliveriesAreTrue
BY DEF DeliveryInv, DeliveriesAreTrue, SendersAreAllowed, StatusIsTrue, OnlyConfiguredAccept,
       Underway

\* Nothing is sent yet.
LEMMA DeliveryInitially == NotificationInit => DeliveryInv
BY DEF NotificationInit, DeliveryInv, MessagesFit, CallsFit, SendersAreAllowed, Underway,
       ProgressIsTrue, OnlyConfiguredAccept, StatusIsTrue, NoDelivery

\* The stages of a call that has found its channel on.
PastTheCheck == {"creating", "delivering", "accepted", "failed"}

\* What a call may do stays allowed while preferences stay, no call begins, and no
\* message changes its recipient or channel.
LEMMA AllowedStay ==
    ASSUME DeliveryInv, UNCHANGED <<preferences, allowed>>,
           \A e \in Senders : calls'[e].at \in PastTheCheck => calls[e].at \in PastTheCheck,
           \A e \in Senders : calls'[e].at = "eligible" => calls'[e] = calls[e],
           \A m \in DOMAIN messages : /\ messages'[m].recipient = messages[m].recipient
                                      /\ messages'[m].channel = messages[m].channel
    PROVE  SendersAreAllowed'
<1> SUFFICES ASSUME NEW e \in Senders
             PROVE  /\ calls'[e].at \in PastTheCheck => e \in allowed'
                    /\ calls'[e].at = "eligible"
                         /\ ChannelEnabled(messages[calls[e].message].recipient,
                                           messages[calls[e].message].channel)'
                       => e \in allowed'
  BY DEF SendersAreAllowed, PastTheCheck, Underway
<1>1. calls'[e].at \in PastTheCheck => e \in allowed'
  BY DEF DeliveryInv, SendersAreAllowed, PastTheCheck, Underway
<1>2. CASE calls'[e].at = "eligible"
  <2>1. calls'[e] = calls[e] /\ calls[e].message \in DOMAIN messages
    BY <1>2 DEF DeliveryInv, CallsFit, Underway
  <2>2. ChannelEnabled(messages[calls[e].message].recipient,
                       messages[calls[e].message].channel)'
          = ChannelEnabled(messages[calls[e].message].recipient,
                           messages[calls[e].message].channel)
    BY <2>1 DEF ChannelEnabled
  <2> QED BY <1>2, <2>1, <2>2 DEF DeliveryInv, SendersAreAllowed, PastTheCheck
<1> QED BY <1>1, <1>2

\* A preference may change while a call is under way: from then on the call is
\* allowed if it switches the channel on.
LEMMA PreferenceKeepsInv ==
    ASSUME DeliveryInv, SetPreference PROVE DeliveryInv'
<1>1. PICK p \in Recipients, ch \in Channels, enabled \in BOOLEAN :
        /\ SetChannelEnabled(p, ch, enabled)
        /\ allowed' = allowed \union {c \in Senders : enabled /\ Concerns(c, p, ch)}
  BY DEF SetPreference
<1>2. UNCHANGED <<messages, calls, drafts, accepted>>
  BY DEF SetPreference
<1>3. MessagesFit' /\ CallsFit' /\ ProgressIsTrue' /\ OnlyConfiguredAccept' /\ StatusIsTrue'
  BY <1>2 DEF DeliveryInv, MessagesFit, CallsFit, ProgressIsTrue, OnlyConfiguredAccept,
         StatusIsTrue
<1>4. ASSUME NEW q, NEW dh, <<q, dh>> # <<p, ch>>
      PROVE  ChannelEnabled(q, dh)' = ChannelEnabled(q, dh)
  BY <1>1, <1>4 DEF SetChannelEnabled, ChannelEnabled
<1>5. ChannelEnabled(p, ch)' = enabled
  BY <1>1 DEF SetChannelEnabled, ChannelEnabled
<1>6. SendersAreAllowed'
  <2> SUFFICES ASSUME NEW c \in Senders
               PROVE  /\ calls[c].at \in Underway \ {"eligible"} => c \in allowed'
                      /\ calls[c].at = "creating" => c \in allowed'
                      /\ calls[c].at = "eligible"
                           /\ ChannelEnabled(messages[calls[c].message].recipient,
                                             messages[calls[c].message].channel)'
                         => c \in allowed'
    BY <1>2 DEF SendersAreAllowed
  <2>1. c \in allowed => c \in allowed'
    BY <1>1
  <2>2. calls[c].at = "eligible" /\ Concerns(c, p, ch) /\ enabled => c \in allowed'
    BY <1>1
  <2> DEFINE row == messages[calls[c].message]
  <2>3. CASE row.recipient = p /\ row.channel = ch
    BY <1>2, <1>5, <2>1, <2>2, <2>3 DEF Concerns, DeliveryInv, SendersAreAllowed
  <2>4. CASE ~ (row.recipient = p /\ row.channel = ch)
    BY <1>2, <1>4, <2>1, <2>4 DEF DeliveryInv, SendersAreAllowed
  <2> QED BY <2>3, <2>4
<1> QED BY <1>3, <1>6 DEF DeliveryInv

\* A message is about to be created where its recipient has the channel on.
LEMMA StartingKeepsInv ==
    ASSUME DeliveryInv, NEW c \in Senders, StartCreate(c)
    PROVE  DeliveryInv'
<1> c \notin DOMAIN messages
  BY DEF StartCreate, DeliveryInv, MessagesFit
<1>1. MessagesFit'
  BY DEF DeliveryInv, MessagesFit, CallsFit, Goes, Drafts, StartCreate
<1>2. CallsFit'
  BY DEF DeliveryInv, CallsFit, Underway, Goes, StartCreate
<1>3. SendersAreAllowed'
  BY DEF DeliveryInv, CallsFit, SendersAreAllowed, Goes, ChannelEnabled, StartCreate
<1>4. ProgressIsTrue'
  BY DEF DeliveryInv, CallsFit, ProgressIsTrue, Goes, StartCreate
<1>5. OnlyConfiguredAccept' /\ StatusIsTrue'
  BY DEF DeliveryInv, OnlyConfiguredAccept, StatusIsTrue, StartCreate
<1> QED BY <1>1, <1>2, <1>3, <1>4, <1>5 DEF DeliveryInv

\* The message it was about to create is stored, whatever its recipient has changed.
LEMMA CreatingKeepsInv ==
    ASSUME DeliveryInv, NEW c \in Senders, Create(c)
    PROVE  DeliveryInv'
<1> c \notin DOMAIN messages
  BY DEF Create, DeliveryInv, MessagesFit
<1>1. MessagesFit'
  BY DEF DeliveryInv, MessagesFit, CallsFit, NoDelivery, Goes, Rows, Drafts, Create, Store
<1>2. CallsFit'
  BY DEF DeliveryInv, CallsFit, Underway, Goes, Create, Store
<1>3. SendersAreAllowed'
  BY AllowedStay DEF DeliveryInv, CallsFit, PastTheCheck, Goes, Create, Store
<1>4. ProgressIsTrue'
  BY DEF DeliveryInv, CallsFit, ProgressIsTrue, Goes, Create, Store
<1>5. OnlyConfiguredAccept'
  BY DEF DeliveryInv, MessagesFit, OnlyConfiguredAccept, Create, Store
<1>6. StatusIsTrue'
  BY DEF DeliveryInv, StatusIsTrue, Create, Store
<1> QED BY <1>1, <1>2, <1>3, <1>4, <1>5, <1>6 DEF DeliveryInv

\* A retry takes a stored message of an external channel.
LEMMA RetryingKeepsInv ==
    ASSUME DeliveryInv, NEW c \in Senders, NEW p \in Recipients,
           NEW m \in DOMAIN messages, StartRetry(c, p, m)
    PROVE  DeliveryInv'
<1>1. MessagesFit'
  BY DEF DeliveryInv, MessagesFit, Goes, StartRetry
<1>2. CallsFit'
  BY DEF DeliveryInv, MessagesFit, CallsFit, Underway, Goes, StartRetry
<1>3. SendersAreAllowed'
  BY DEF DeliveryInv, SendersAreAllowed, Goes, ChannelEnabled, StartRetry
<1>4. ProgressIsTrue'
  BY DEF DeliveryInv, ProgressIsTrue, Goes, StartRetry
<1>5. OnlyConfiguredAccept'
  BY DEF DeliveryInv, OnlyConfiguredAccept, StartRetry
<1>6. StatusIsTrue'
  BY DEF DeliveryInv, StatusIsTrue, StartRetry
<1> QED BY <1>1, <1>2, <1>3, <1>4, <1>5, <1>6 DEF DeliveryInv

\* The preference is asked again before the channel is.
LEMMA CheckingKeepsInv ==
    ASSUME DeliveryInv, NEW c \in Senders, CheckChannel(c)
    PROVE  DeliveryInv'
<1>1. MessagesFit'
  BY DEF DeliveryInv, MessagesFit, NoDelivery, Goes, CheckChannel
<1>2. CallsFit'
  BY DEF DeliveryInv, CallsFit, Underway, Goes, CheckChannel
<1>3. SendersAreAllowed'
  BY DEF DeliveryInv, SendersAreAllowed, Underway, Goes, ChannelEnabled, CheckChannel
<1>4. ProgressIsTrue'
  BY DEF DeliveryInv, ProgressIsTrue, Goes, CheckChannel
<1>5. OnlyConfiguredAccept'
  BY DEF DeliveryInv, OnlyConfiguredAccept, CheckChannel
<1>6. StatusIsTrue'
  BY DEF DeliveryInv, StatusIsTrue, CheckChannel
<1> QED BY <1>1, <1>2, <1>3, <1>4, <1>5, <1>6 DEF DeliveryInv

\* The channel accepts a message or raises an error, or both.
LEMMA SendingKeepsInv ==
    ASSUME DeliveryInv, NEW c \in Senders, Send(c)
    PROVE  DeliveryInv'
<1>1. MessagesFit'
  BY DEF DeliveryInv, MessagesFit, CallsFit, NoDelivery, Goes, Send
<1>2. CallsFit'
  BY DEF DeliveryInv, CallsFit, Underway, Goes, Send
<1>3. SendersAreAllowed'
  BY DEF DeliveryInv, CallsFit, SendersAreAllowed, Goes, ChannelEnabled, Send
<1>4. ProgressIsTrue'
  BY DEF DeliveryInv, CallsFit, ProgressIsTrue, Goes, Send
<1>5. OnlyConfiguredAccept'
  BY DEF DeliveryInv, OnlyConfiguredAccept, Send
<1>6. StatusIsTrue'
  BY DEF DeliveryInv, StatusIsTrue, Send
<1> QED BY <1>1, <1>2, <1>3, <1>4, <1>5, <1>6 DEF DeliveryInv

\* An outcome is stored whatever the row says by then.
LEMMA RecordingKeepsInv ==
    ASSUME ChannelsFit, DeliveryInv, NEW c \in Senders,
           RecordDelivery(c) \/ RecordFailure(c)
    PROVE  DeliveryInv'
<1>1. MessagesFit'
  BY DEF DeliveryInv, MessagesFit, CallsFit, NoDelivery, Goes, Rows, RecordDelivery,
         RecordFailure, Store
<1>2. CallsFit'
  BY DEF DeliveryInv, CallsFit, Goes, RecordDelivery, RecordFailure, Store
<1>3. SendersAreAllowed'
  BY AllowedStay DEF DeliveryInv, MessagesFit, CallsFit, PastTheCheck, Goes, Rows,
         RecordDelivery, RecordFailure, Store
<1>4. ProgressIsTrue'
  BY DEF DeliveryInv, MessagesFit, CallsFit, ProgressIsTrue, Goes, Rows, RecordDelivery,
         RecordFailure, Store
<1>5. OnlyConfiguredAccept'
  BY DEF DeliveryInv, MessagesFit, CallsFit, OnlyConfiguredAccept, Rows, RecordDelivery,
         RecordFailure, Store
<1>6. StatusIsTrue'
  BY DEF DeliveryInv, MessagesFit, CallsFit, ProgressIsTrue, StatusIsTrue, Rows,
         RecordDelivery, RecordFailure, Store, ChannelsFit
<1> QED BY <1>1, <1>2, <1>3, <1>4, <1>5, <1>6 DEF DeliveryInv

\* A call may end anywhere, as when its process does.
LEMMA EndingKeepsInv ==
    ASSUME DeliveryInv, NEW c \in Senders, Crash(c)
    PROVE  DeliveryInv'
<1>1. MessagesFit'
  BY DEF DeliveryInv, MessagesFit, NoDelivery, Goes, Crash
<1>2. CallsFit'
  BY DEF DeliveryInv, CallsFit, Underway, Goes, Crash
<1>3. SendersAreAllowed'
  BY DEF DeliveryInv, SendersAreAllowed, Underway, Goes, ChannelEnabled, Crash
<1>4. ProgressIsTrue'
  BY DEF DeliveryInv, ProgressIsTrue, Goes, Crash
<1>5. OnlyConfiguredAccept'
  BY DEF DeliveryInv, OnlyConfiguredAccept, Crash
<1>6. StatusIsTrue'
  BY DEF DeliveryInv, StatusIsTrue, Crash
<1> QED BY <1>1, <1>2, <1>3, <1>4, <1>5, <1>6 DEF DeliveryInv

\* A read message is one of the application.
LEMMA ReadingKeepsDeliveries ==
    ASSUME DeliveryInv, NEW p \in Recipients, NEW m \in DOMAIN messages,
           MarkRead(p, m)
    PROVE  DeliveryInv'
<1>1. MessagesFit'
  BY DEF DeliveryInv, MessagesFit, Rows, MarkRead, Store
<1>2. CallsFit'
  BY DEF DeliveryInv, CallsFit, MarkRead, Store
<1>3. SendersAreAllowed'
  BY AllowedStay DEF DeliveryInv, MessagesFit, Rows, MarkRead, Store
<1>4. ProgressIsTrue'
  BY DEF DeliveryInv, CallsFit, ProgressIsTrue, MarkRead, Store
<1>5. OnlyConfiguredAccept'
  BY DEF DeliveryInv, MessagesFit, OnlyConfiguredAccept, MarkRead, Store
<1>6. StatusIsTrue'
  BY DEF DeliveryInv, StatusIsTrue, MarkRead, Store
<1> QED BY <1>1, <1>2, <1>3, <1>4, <1>5, <1>6 DEF DeliveryInv

\* The inductive invariant of deliveries: every call past its check was allowed, and
\* its progress and the status of its message tell what the channel has done.
THEOREM DeliveryInvHolds == NotificationSpec => []DeliveryInv
<1> USE ChannelsAssumption
<1>1. DeliveryInv /\ [NotificationNext]_notificationVars => DeliveryInv'
  <2> SUFFICES ASSUME DeliveryInv, [NotificationNext]_notificationVars
               PROVE  DeliveryInv'
    OBVIOUS
  <2>1. CASE SetPreference
    BY <2>1, PreferenceKeepsInv
  <2>2. ASSUME NEW c \in Senders, DeliveryStep(c) PROVE DeliveryInv'
    BY <2>2, StartingKeepsInv, CreatingKeepsInv, CheckingKeepsInv, SendingKeepsInv,
       RecordingKeepsInv, EndingKeepsInv DEF DeliveryStep
  <2>3. ASSUME NEW p \in Recipients, NEW m \in DOMAIN messages,
               MarkRead(p, m) \/ \E c \in Senders : StartRetry(c, p, m)
        PROVE  DeliveryInv'
    BY <2>3, ReadingKeepsDeliveries, RetryingKeepsInv
  <2>4. CASE UNCHANGED notificationVars
    BY <2>4 DEF notificationVars, DeliveryInv, MessagesFit, CallsFit, SendersAreAllowed,
           ProgressIsTrue, OnlyConfiguredAccept, StatusIsTrue, ChannelEnabled
  <2> QED BY <2>1, <2>2, <2>3, <2>4 DEF NotificationNext
<1> QED BY DeliveryInitially, <1>1, PTL DEF NotificationSpec

\* What a message's row says of its delivery is true, and no call presents a message
\* whose recipient had the channel off all along, for any number of senders,
\* recipients and channels, and wherever the senders fail.
THEOREM DeliveriesHold == NotificationSpec => []DeliveriesAreTrue
BY DeliveryInvHolds, InvMeansTrue, PTL

(***************************************************************************)
(* Self-service: what is answered is what the person asking may know.      *)
(***************************************************************************)

----------------------------------------------------------------------------
\* Two steps and one, one after the other.
LEMMA Joined21 ==
    ASSUME NEW a, NEW b, NEW c
    PROVE  <<a, b>> \o <<c>> = <<a, b, c>>
<1>1. PICK X : X = {a, b, c}
  OBVIOUS
<1>2. <<a, b>> \in Seq(X) /\ <<c>> \in Seq(X)
      /\ <<a, b, c>> \in Seq(X)
  BY <1>1
<1>3. <<a, b>> \o <<c>> \in Seq(X) /\ Len(<<a, b>> \o <<c>>) = 3
  BY <1>2
<1>4. \A k \in 1 .. 3 : (<<a, b>> \o <<c>>)[k] = <<a, b, c>>[k]
  BY <1>2
<1> QED BY <1>2, <1>3, <1>4, SeqEqual

\* One step and two, one after the other.
LEMMA Joined12 ==
    ASSUME NEW a, NEW b, NEW c
    PROVE  <<a>> \o <<b, c>> = <<a, b, c>>
<1>1. PICK X : X = {a, b, c}
  OBVIOUS
<1>2. <<a>> \in Seq(X) /\ <<b, c>> \in Seq(X)
      /\ <<a, b, c>> \in Seq(X)
  BY <1>1
<1>3. <<a>> \o <<b, c>> \in Seq(X) /\ Len(<<a>> \o <<b, c>>) = 3
  BY <1>2
<1>4. \A k \in 1 .. 3 : (<<a>> \o <<b, c>>)[k] = <<a, b, c>>[k]
  BY <1>2
<1> QED BY <1>2, <1>3, <1>4, SeqEqual

\* Three steps and one, one after the other.
LEMMA Joined31 ==
    ASSUME NEW a, NEW b, NEW c, NEW d
    PROVE  <<a, b, c>> \o <<d>> = <<a, b, c, d>>
<1>1. PICK X : X = {a, b, c, d}
  OBVIOUS
<1>2. <<a, b, c>> \in Seq(X) /\ <<d>> \in Seq(X)
      /\ <<a, b, c, d>> \in Seq(X)
  BY <1>1
<1>3. <<a, b, c>> \o <<d>> \in Seq(X) /\ Len(<<a, b, c>> \o <<d>>) = 4
  BY <1>2
<1>4. \A k \in 1 .. 4 : (<<a, b, c>> \o <<d>>)[k] = <<a, b, c, d>>[k]
  BY <1>2
<1> QED BY <1>2, <1>3, <1>4, SeqEqual

\* Three steps and two, one after the other.
LEMMA Joined32 ==
    ASSUME NEW a, NEW b, NEW c, NEW d, NEW e
    PROVE  <<a, b, c>> \o <<d, e>> = <<a, b, c, d, e>>
<1>1. PICK X : X = {a, b, c, d, e}
  OBVIOUS
<1>2. <<a, b, c>> \in Seq(X) /\ <<d, e>> \in Seq(X)
      /\ <<a, b, c, d, e>> \in Seq(X)
  BY <1>1
<1>3. <<a, b, c>> \o <<d, e>> \in Seq(X) /\ Len(<<a, b, c>> \o <<d, e>>) = 5
  BY <1>2
<1>4. \A k \in 1 .. 5 : (<<a, b, c>> \o <<d, e>>)[k] = <<a, b, c, d, e>>[k]
  BY <1>2
<1> QED BY <1>2, <1>3, <1>4, SeqEqual

\* One step and three, one after the other.
LEMMA Joined13 ==
    ASSUME NEW a, NEW b, NEW c, NEW d
    PROVE  <<a>> \o <<b, c, d>> = <<a, b, c, d>>
<1>1. PICK X : X = {a, b, c, d}
  OBVIOUS
<1>2. <<a>> \in Seq(X) /\ <<b, c, d>> \in Seq(X)
      /\ <<a, b, c, d>> \in Seq(X)
  BY <1>1
<1>3. <<a>> \o <<b, c, d>> \in Seq(X) /\ Len(<<a>> \o <<b, c, d>>) = 4
  BY <1>2
<1>4. \A k \in 1 .. 4 : (<<a>> \o <<b, c, d>>)[k] = <<a, b, c, d>>[k]
  BY <1>2
<1> QED BY <1>2, <1>3, <1>4, SeqEqual

\* Three steps and three, one after the other.
LEMMA Joined33 ==
    ASSUME NEW a, NEW b, NEW c, NEW d, NEW e, NEW f
    PROVE  <<a, b, c>> \o <<d, e, f>> = <<a, b, c, d, e, f>>
<1>1. PICK X : X = {a, b, c, d, e, f}
  OBVIOUS
<1>2. <<a, b, c>> \in Seq(X) /\ <<d, e, f>> \in Seq(X)
      /\ <<a, b, c, d, e, f>> \in Seq(X)
  BY <1>1
<1>3. <<a, b, c>> \o <<d, e, f>> \in Seq(X) /\ Len(<<a, b, c>> \o <<d, e, f>>) = 6
  BY <1>2
<1>4. \A k \in 1 .. 6 : (<<a, b, c>> \o <<d, e, f>>)[k] = <<a, b, c, d, e, f>>[k]
  BY <1>2
<1> QED BY <1>2, <1>3, <1>4, SeqEqual

\* Four steps and two, one after the other.
LEMMA Joined42 ==
    ASSUME NEW a, NEW b, NEW c, NEW d, NEW e, NEW f
    PROVE  <<a, b, c, d>> \o <<e, f>> = <<a, b, c, d, e, f>>
<1>1. PICK X : X = {a, b, c, d, e, f}
  OBVIOUS
<1>2. <<a, b, c, d>> \in Seq(X) /\ <<e, f>> \in Seq(X)
      /\ <<a, b, c, d, e, f>> \in Seq(X)
  BY <1>1
<1>3. <<a, b, c, d>> \o <<e, f>> \in Seq(X) /\ Len(<<a, b, c, d>> \o <<e, f>>) = 6
  BY <1>2
<1>4. \A k \in 1 .. 6 : (<<a, b, c, d>> \o <<e, f>>)[k] = <<a, b, c, d, e, f>>[k]
  BY <1>2
<1> QED BY <1>2, <1>3, <1>4, SeqEqual

\* Six steps and three, one after the other.
LEMMA Joined63 ==
    ASSUME NEW a, NEW b, NEW c, NEW d, NEW e, NEW f, NEW g, NEW h, NEW i
    PROVE  <<a, b, c, d, e, f>> \o <<g, h, i>> = <<a, b, c, d, e, f, g, h, i>>
<1>1. PICK X : X = {a, b, c, d, e, f, g, h, i}
  OBVIOUS
<1>2. <<a, b, c, d, e, f>> \in Seq(X) /\ <<g, h, i>> \in Seq(X)
      /\ <<a, b, c, d, e, f, g, h, i>> \in Seq(X)
  BY <1>1
<1>3. <<a, b, c, d, e, f>> \o <<g, h, i>> \in Seq(X) /\ Len(<<a, b, c, d, e, f>> \o <<g, h, i>>) = 9
  BY <1>2
<1>4. \A k \in 1 .. 9 : (<<a, b, c, d, e, f>> \o <<g, h, i>>)[k] = <<a, b, c, d, e, f, g, h, i>>[k]
  BY <1>2
<1> QED BY <1>2, <1>3, <1>4, SeqEqual

----------------------------------------------------------------------------
\* The lists of steps, written out.
LEMMA PortalSteps ==
    TenantContext \o Ownership =
      <<<<"organization", Nobody>>, <<"membership", Nobody>>, <<"roles", Nobody>>,
        <<"ownership", Nobody>>, <<"person", Nobody>>, <<"profile", Nobody>>>>
BY Joined33 DEF TenantContext, Ownership

\* A tool asks for the subject and for the feature as well.
LEMMA ToolSteps ==
    <<<<"subject", Nobody>>>> \o TenantContext \o Entitlement \o Ownership =
      <<<<"subject", Nobody>>, <<"organization", Nobody>>, <<"membership", Nobody>>,
        <<"roles", Nobody>>, <<"organization", Nobody>>, <<"feature", Nobody>>,
        <<"ownership", Nobody>>, <<"person", Nobody>>, <<"profile", Nobody>>>>
<1>1. <<<<"subject", Nobody>>>> \o TenantContext =
        <<<<"subject", Nobody>>, <<"organization", Nobody>>, <<"membership", Nobody>>,
          <<"roles", Nobody>>>>
  BY Joined13 DEF TenantContext
<1>2. <<<<"subject", Nobody>>, <<"organization", Nobody>>, <<"membership", Nobody>>,
        <<"roles", Nobody>>>> \o Entitlement =
        <<<<"subject", Nobody>>, <<"organization", Nobody>>, <<"membership", Nobody>>,
          <<"roles", Nobody>>, <<"organization", Nobody>>, <<"feature", Nobody>>>>
  BY Joined42 DEF Entitlement
<1>3. <<<<"subject", Nobody>>, <<"organization", Nobody>>, <<"membership", Nobody>>,
        <<"roles", Nobody>>, <<"organization", Nobody>>, <<"feature", Nobody>>>>
        \o Ownership =
        <<<<"subject", Nobody>>, <<"organization", Nobody>>, <<"membership", Nobody>>,
          <<"roles", Nobody>>, <<"organization", Nobody>>, <<"feature", Nobody>>,
          <<"ownership", Nobody>>, <<"person", Nobody>>, <<"profile", Nobody>>>>
  BY Joined63 DEF Ownership
<1> QED BY <1>1, <1>2, <1>3

\* What a student's record is read in.
LEMMA ReportSteps ==
    ASSUME NEW p
    PROVE  /\ StudentReport(p) =
                <<<<"enrollments", p>>, <<"attendance", p>>, <<"grades", p>>>>
           /\ StudentGrades(p) =
                <<<<"enrollments", p>>, <<"attendance", p>>, <<"grades", p>>,
                  <<"courses", p>>>>
           /\ OneStudentSummary(p) =
                <<<<"enrollments", p>>, <<"attendance", p>>, <<"grades", p>>,
                  <<"courses", p>>>>
<1>1. StudentReport(p) = <<<<"enrollments", p>>, <<"attendance", p>>, <<"grades", p>>>>
  BY Joined21 DEF StudentReport, StudentSnapshot
<1> QED BY <1>1, Joined31 DEF StudentGrades, OneStudentSummary, GradeSummaries

\* What a schedule is read in.
LEMMA ScheduleSteps ==
    ASSUME NEW p
    PROVE  /\ StudentSchedule(p) =
                <<<<"enrollments", p>>, <<"attendance", p>>, <<"sessions", p>>,
                  <<"sections", p>>, <<"rooms", p>>>>
           /\ TeacherSchedule(p) =
                <<<<"teaching", p>>, <<"sections", p>>, <<"rooms", p>>>>
<1>1. StudentSnapshot(p) \o <<<<"sessions", p>>>> =
        <<<<"enrollments", p>>, <<"attendance", p>>, <<"sessions", p>>>>
  BY Joined21 DEF StudentSnapshot
<1>2. StudentSchedule(p) =
        <<<<"enrollments", p>>, <<"attendance", p>>, <<"sessions", p>>, <<"sections", p>>,
          <<"rooms", p>>>>
  <2>1. <<<<"enrollments", p>>, <<"attendance", p>>, <<"sessions", p>>>>
          \o <<<<"sections", p>>, <<"rooms", p>>>> =
        <<<<"enrollments", p>>, <<"attendance", p>>, <<"sessions", p>>, <<"sections", p>>,
          <<"rooms", p>>>>
    BY Joined32
  <2> QED BY <1>1, <2>1 DEF StudentSchedule, ScheduleItems
<1>3. TeacherSchedule(p) = <<<<"teaching", p>>, <<"sections", p>>, <<"rooms", p>>>>
  BY Joined12 DEF TeacherSchedule, ScheduleItems
<1> QED BY <1>2, <1>3

\* The steps of each read.
LEMMA StepsOfReads ==
    ASSUME NEW p, NEW s
    PROVE  /\ Steps("student_schedule", p, s) = StudentSchedule(p)
           /\ Steps("student_profile", p, s) = << >>
           /\ Steps("student_grades", p, s) = StudentGrades(p)
           /\ Steps("student_gpa", p, s) = StudentReport(p)
           /\ Steps("student_events", p, s) = <<<<"events", p>>>>
           /\ Steps("student_moodle_deadlines", p, s) = <<<<"mapping", p>>>>
           /\ Steps("teacher_schedule", p, s) = TeacherSchedule(p)
           /\ Steps("teacher_sections", p, s) = <<<<"assigned", p>>>>
           /\ Steps("section_students", p, s) =
                <<<<"assignment", s>>, <<"roster", s>>, <<"names", s>>>>
           /\ Steps("teacher_grade_sync_status", p, s) =
                <<<<"assigned", p>>, <<"evidence", p>>>>
           /\ Steps("teacher_moodle_deadlines", p, s) = <<<<"mapping", p>>>>
           /\ Steps("guardian_events", p, s) = <<<<"events", p>>>>
           /\ Steps("guardian_students", p, s) = <<<<"linked", p>>>>
BY DEF Steps, StudentProfile, StudentGpa, StudentEvents, StudentDeadlines, TeacherSections,
       SectionStudents, TeacherSyncStatus, TeacherDeadlines, GuardianEvents, GuardianStudents

\* Who each read is for, and who may make it.
LEMMA Kinds ==
    /\ \A r \in StudentReads : KindOf(r) = "student"
    /\ \A r \in TeacherReads : KindOf(r) = "teacher"
    /\ \A r \in GuardianReads : KindOf(r) = "guardian"
BY DEF KindOf, StudentReads, TeacherReads, GuardianReads

----------------------------------------------------------------------------
\* The columns of a call.
Fields == {"stage", "via", "read", "section", "todo", "permissions", "person",
           "active", "sections", "students", "found", "outcome"}

\* The steps that resolve who asks, from any of them on.
WhoAsks(via) ==
    LET S == <<"subject", Nobody>>  O == <<"organization", Nobody>>
        M == <<"membership", Nobody>>  R == <<"roles", Nobody>>
        E == <<"feature", Nobody>>  W == <<"ownership", Nobody>>
        P == <<"person", Nobody>>  F == <<"profile", Nobody>>
    IN  {<<F>>, <<P, F>>, <<W, P, F>>}
          \union (IF via = "mcp"
                  THEN {<<E, W, P, F>>, <<O, E, W, P, F>>, <<R, O, E, W, P, F>>,
                        <<M, R, O, E, W, P, F>>, <<O, M, R, O, E, W, P, F>>,
                        <<S, O, M, R, O, E, W, P, F>>}
                  ELSE {<<R, W, P, F>>, <<M, R, W, P, F>>, <<O, M, R, W, P, F>>})
Resolving(c) == c.todo \in WhoAsks(c.via)

\* The steps of the reads, from any of them on.
ReportOf(p) ==
    LET e == <<"enrollments", p>>  a == <<"attendance", p>>
        g == <<"grades", p>>  k == <<"courses", p>>
    IN  {<<e, a, g, k>>, <<a, g, k>>, <<g, k>>, <<k>>}
Reading(c) ==
    LET p == c.person  s == c.section
        Is(read, lists) == c.read = read /\ c.todo \in lists \union {<< >>}
        e == <<"enrollments", p>>  a == <<"attendance", p>>  x == <<"sessions", p>>
        i == <<"sections", p>>  r == <<"rooms", p>>  g == <<"grades", p>>
        m == <<"moodle", p>>  h == <<"health", p>>
    IN  \/ Is("student_profile", {})
        \/ Is("student_schedule", {<<e, a, x, i, r>>, <<a, x, i, r>>, <<x, i, r>>, <<i, r>>, <<r>>})
        \/ Is("student_grades", ReportOf(p))
        \/ Is("student_gpa", {<<e, a, g>>, <<a, g>>, <<g>>})
        \/ \E read \in {"student_events", "guardian_events"} : Is(read, {<<<<"events", p>>>>})
        \/ \E read \in {"student_moodle_deadlines", "teacher_moodle_deadlines"} :
             Is(read, {<<<<"mapping", p>>>>, <<m, h>>, <<h>>})
        \/ Is("teacher_schedule", {<<<<"teaching", p>>, i, r>>, <<i, r>>, <<r>>})
        \/ Is("teacher_sections", {<<<<"assigned", p>>>>})
        \/ Is("section_students", {<<<<"assignment", s>>, <<"roster", s>>, <<"names", s>>>>,
                                   <<<<"roster", s>>, <<"names", s>>>>, <<<<"names", s>>>>})
        \/ Is("teacher_grade_sync_status",
              {<<<<"assigned", p>>, <<"evidence", p>>>>, <<<<"evidence", p>>>>})
        \/ Is("guardian_students", {<<<<"linked", p>>>>} \union UNION {ReportOf(q) : q \in People})

----------------------------------------------------------------------------
\* What two worlds have in common.
SameRights(v, w) ==
    /\ v.organization = w.organization /\ v.member = w.member /\ v.roles = w.roles
    /\ v.person = w.person /\ v.feature = w.feature
SameStudies(v, w) ==
    /\ v.enrollment = w.enrollment /\ v.attends = w.attends
    /\ v.sessions = w.sessions /\ v.graded = w.graded
SameDuties(v, w) ==
    /\ v.links = w.links /\ v.assigned = w.assigned
    /\ v.evidence = w.evidence /\ v.mapped = w.mapped

\* What one change changes.
RightsChange(v, w) ==
    LET Organization == v.organization = w.organization
        Member == v.member = w.member /\ v.person = w.person
    IN  \/ Member /\ v.roles = w.roles /\ v.feature = w.feature
        \/ Organization /\ v.person = w.person /\ v.roles = w.roles /\ v.feature = w.feature
        \/ Organization /\ Member /\ v.feature = w.feature
        \/ Organization /\ Member /\ v.roles = w.roles
        \/ Organization /\ v.feature = w.feature /\ w.member = "active" /\ v.roles \subseteq w.roles
StudiesChange(v, w) ==
    \/ v.enrollment = w.enrollment /\ v.sessions = w.sessions /\ v.graded = w.graded
    \/ v.enrollment = w.enrollment /\ v.attends = w.attends /\ v.graded = w.graded
    \/ /\ v.enrollment = w.enrollment /\ v.attends = w.attends /\ v.sessions = w.sessions
       /\ \E p \in People : w.graded = v.graded \union {p}
    \/ /\ v.sessions = w.sessions /\ v.graded = w.graded
       /\ \E p \in People :
            /\ v.enrollment[p] = "active"
            /\ w.enrollment = [v.enrollment EXCEPT ![p] = "ended"]
            /\ w.attends = {x \in v.attends : x[1] # p}
DutiesChange(v, w) ==
    \/ v.assigned = w.assigned /\ v.evidence = w.evidence /\ v.mapped = w.mapped
    \/ v.links = w.links /\ v.evidence = w.evidence /\ v.mapped = w.mapped
    \/ v.links = w.links /\ v.assigned = w.assigned /\ v.mapped = w.mapped
    \/ v.links = w.links /\ v.assigned = w.assigned /\ v.evidence = w.evidence
Grows(v, w) ==
    /\ v.registered = w.registered /\ v.profiles = w.profiles
    /\ v.links \subseteq w.links /\ v.assigned \subseteq w.assigned
    /\ v.mapped \subseteq w.mapped
DataChange(v, w) ==
    /\ Grows(v, w) /\ SameRights(v, w)
    /\ \/ SameDuties(v, w) /\ StudiesChange(v, w)
       \/ SameStudies(v, w) /\ DutiesChange(v, w)
OneChange(v, w) ==
    \/ DataChange(v, w)
    \/ Grows(v, w) /\ SameStudies(v, w) /\ SameDuties(v, w) /\ RightsChange(v, w)

----------------------------------------------------------------------------
\* How many steps are left.
Left(c) == Len(c.todo)

\* What a call has found out of who asks, as one world has it.
Granted(c) == ProfilePermission[KindOf(c.read)] \in c.permissions
Identified(c, w) ==
    /\ c.via = "mcp" /\ Left(c) <= 8 => w.registered
    /\ c.via = "mcp" /\ Left(c) <= 3 => w.feature
    /\ Left(c) <= 2 => w.organization = "active" /\ Granted(c)
    /\ Left(c) <= 1 => w.member = "active" /\ c.person = w.person /\ c.person \in People
Vetting(c, w) == Identified(c, w) /\ (Granted(c) => KindOf(c.read) \in w.roles)
Vetted(c, w) ==
    /\ c.via = "mcp" => w.registered /\ w.feature
    /\ KindOf(c.read) \in w.roles /\ w.organization = "active"
    /\ w.member = "active" /\ c.person = w.person
    /\ <<c.person, KindOf(c.read)>> \in w.profiles

\* What it has found of the data, as one world has them.  Most reads find all at once,
\* with a number of steps left.
FoundAt == [student_profile |-> 0, student_schedule |-> 2, student_grades |-> 1,
            student_gpa |-> 0, student_events |-> 0, guardian_events |-> 0,
            teacher_schedule |-> 2, teacher_sections |-> 0, section_students |-> 1,
            teacher_grade_sync_status |-> 0]
Deadlines == {"student_moodle_deadlines", "teacher_moodle_deadlines"}

\* The student a guardian is being told of, if any.
OfStudent(c) == IF c.todo = << >> THEN {} ELSE {Head(c.todo)[2]}
Linked(w, p) == {q \in People : <<p, q>> \in w.links}
Told(all, enrolled, marked, w) ==
    {<<"student", q>> : q \in all}
      \union {<<"program", q>> : q \in {r \in enrolled : w.enrollment[r] = "active"}}
      \union {<<"grade", q>> : q \in marked \intersect w.graded}
SummariesOf(c, w) ==
    LET all == Linked(w, c.person)
        enrolled == all \ (c.students \union (IF Len(c.todo) = 4 THEN OfStudent(c) ELSE {}))
        marked == all \ (c.students \union (IF Len(c.todo) >= 2 THEN OfStudent(c) ELSE {}))
    IN  /\ c.students \subseteq all /\ OfStudent(c) \subseteq all \ c.students
        /\ c.found = Told(all, enrolled, marked, w)
Collected(c, w) ==
    LET p == c.person  left == Len(c.todo)
    IN  /\ c.read \in DOMAIN FoundAt =>
             c.found = IF left <= FoundAt[c.read] THEN Data(w, c, p) ELSE {}
        /\ c.read = "student_schedule" =>
             /\ left = 4 => c.active = (w.enrollment[p] = "active")
             /\ left = 3 => c.sections = {s \in Sections : Attends(w, p, s)}
        /\ c.read = "section_students" /\ left <= 2 => <<p, c.section>> \in w.assigned
        /\ c.read = "teacher_grade_sync_status" /\ left = 1 =>
             c.sections = {s \in Sections : <<p, s>> \in w.assigned}
        /\ c.read \in Deadlines =>
             /\ c.todo = << >> => c.found = Data(w, c, p)
             /\ left = 2 => p \in w.mapped /\ c.found = {}
             /\ c.todo = <<<<"health", p>>>> =>
                  p \in w.mapped /\ c.found \in {{}, {<<"deadlines", p>>}}
             /\ c.todo = <<<<"mapping", p>>>> => c.found = {}
        /\ c.read = "guardian_students" =>
             IF c.todo = <<<<"linked", p>>>> THEN c.found = {} /\ c.students = {}
             ELSE SummariesOf(c, w)

\* All of it, as one world has it.
Consistent(c, w) ==
    \/ Resolving(c) /\ Vetting(c, w)
    \/ Reading(c) /\ Vetted(c, w) /\ Collected(c, w)

----------------------------------------------------------------------------
\* Of whom so much is known, who asks has the permission, and is a person.
Vouched(c) ==
    (Left(c) <= 2 => Granted(c)) /\ (Left(c) <= 1 => c.person \in People)

\* A call is where its steps are, with permissions of some roles.
CallFits(c) ==
    /\ DOMAIN c = Fields
    /\ c.via \in {"portal", "mcp"} /\ c.read \in PortalReads /\ c.section \in Sections
    /\ \/ c.stage = "reading" /\ c.outcome = "none"
       \/ c.stage \in {"refused", "over"} /\ c.outcome \in {"denied", "failed"}
       \/ /\ c.stage \in {"finished", "over"} /\ c.outcome = "succeeded"
          /\ Reading(c) /\ c.todo = << >> /\ c.students = {}
    /\ \E r \in SUBSET Roles : c.permissions = PermissionsOf(r)
    /\ c.students \subseteq People /\ (c.read # "guardian_students" => c.students = {})
    /\ \/ Resolving(c) /\ Vouched(c) /\ c.found = {} /\ c.students = {}
       \/ Reading(c) /\ c.person \in People /\ Granted(c)

\* What is on record and what was answered.
RecordsFit(c, records, answers) ==
    /\ c.stage # "over" => records = << >> /\ answers = << >>
    /\ records \in {<< >>, <<c.outcome>>}
    /\ answers # << >> =>
         /\ answers = <<c.found>> /\ c.outcome = "succeeded"
         /\ c.via = "mcp" => records = <<"succeeded">>

\* A refusal was right at some moment, and one to come will have been.
Refusable(moments) == \E m \in moments : ~m.may
DenialsFit(c, w, moments) ==
    /\ c.outcome = "denied" => Refusable(moments)
    /\ /\ Resolving(c) /\ ~Granted(c)
       /\ Left(c) <= (IF c.via = "mcp" THEN 5 ELSE 3)
       => Refusable(moments)
    /\ c.person # Nobody =>
         /\ <<c.person, KindOf(c.read)>> \notin w.profiles => Refusable(moments)
         /\ c.read = "section_students" /\ <<c.person, c.section>> \notin w.assigned
            => Refusable(moments)

\* What a read goes on from stays so: nothing is unassigned, unlinked or unmapped.
Stands(c, w) ==
    LET p == c.person
    IN  /\ c.read = "section_students" =>
             /\ Len(c.todo) <= 2 => <<p, c.section>> \in w.assigned
             /\ \A x \in c.found : <<x[2], "student">> \in w.profiles
        /\ c.read = "teacher_grade_sync_status" /\ Len(c.todo) = 1 =>
             \A s \in c.sections : s \in Sections /\ <<p, s>> \in w.assigned
        /\ c.read \in Deadlines /\ Len(c.todo) = 2 => p \in w.mapped
        /\ c.read = "guardian_students" /\ c.todo # <<<<"linked", p>>>> =>
             c.students \union OfStudent(c) \subseteq Linked(w, p)

\* The person is one an active membership was linked to at some moment, and each part
\* of what was found was the person's at some moment.
PersonKnown(c, moments) ==
    c.person # Nobody => \E m \in moments : m.member = "active" /\ m.person = c.person
Owned(c, moments) ==
    c.person \in People /\ c.read # "student_schedule" =>
      c.found \subseteq UNION {m.data[c.person] : m \in moments}
PartsFit(c, w, moments) ==
    PersonKnown(c, moments) /\ Owned(c, moments) /\ (Reading(c) => Stands(c, w))

\* One change or none: what was found is as the first world or the present one has it.
WitnessesFit(c, w, moments, n) == \E v \in Worlds :
    /\ Moment(v, c) \in moments
    /\ n = 0 => v = w
    /\ n = 1 => OneChange(v, w)
    /\ n <= 1 /\ c.outcome \in {"none", "succeeded"} =>
         Consistent(c, v) \/ Consistent(c, w)

\* All of a call under way, or over.
CallIsSound(c, w, moments, n) ==
    /\ CallFits(c) /\ Moment(w, c) \in moments
    /\ DenialsFit(c, w, moments) /\ PartsFit(c, w, moments)
    /\ WitnessesFit(c, w, moments, n)
SelfServiceInv ==
    /\ WorldIsSound(world) /\ moves \in Nat
    /\ \/ /\ call = NoCall /\ seen = {} /\ audit = << >> /\ answer = << >>
          /\ moves = 0 /\ world \in Worlds
       \/ CallIsSound(call, world, seen, moves) /\ RecordsFit(call, audit, answer)

----------------------------------------------------------------------------
\* What a read is entitled to depends on the read, the surface and the section alone.
Alike(c, d) == d.via = c.via /\ d.read = c.read /\ d.section = c.section

\* The parts data are made of.
AssignedTo(p, w) == {s \in Sections : <<p, s>> \in w.assigned}
StudentsListed(S) == {<<"student", q>> : q \in S}
Attending(s, w) == {q \in People : w.enrollment[q] = "active" /\ <<q, s>> \in w.attends}
SectionsListed(S) == {<<"section", s>> : s \in S}
EvidenceOf(S, w) == {<<"evidence", s, w.evidence[s]>> : s \in S}
ProgramOf(q, w) == {<<"program", r>> : r \in {t \in {q} : w.enrollment[t] = "active"}}
GradeOf(q, w) == {<<"grade", r>> : r \in {q} \intersect w.graded}

\* A student's schedule has the sessions of what is attended.
LEMMA StudentData ==
    ASSUME NEW w, NEW c, NEW p, c.read = "student_schedule"
    PROVE  Data(w, c, p) = {<<"session", x>> : x \in {y \in w.sessions : Attends(w, p, y[1])}}
BY DEF Data

\* A teacher's schedule has the teacher's sessions.
LEMMA TeacherData ==
    ASSUME NEW w, NEW c, NEW p, c.read = "teacher_schedule"
    PROVE  Data(w, c, p) = {<<"session", x>> : x \in {y \in w.sessions : y[2] = p}}
BY DEF Data

\* A student's record has the grades.
LEMMA GradeData ==
    ASSUME NEW w, NEW c, NEW p, c.read \in {"student_grades", "student_gpa"}
    PROVE  Data(w, c, p) = GradeOf(p, w)
BY DEF Data, GradeOf

\* Events are everybody's.
LEMMA EventData ==
    ASSUME NEW w, NEW c, NEW p, c.read \in {"student_events", "guardian_events"}
    PROVE  Data(w, c, p) = {}
BY DEF Data

\* Deadlines are those of the account mapped to.
LEMMA DeadlineData ==
    ASSUME NEW w, NEW c, NEW p, c.read \in Deadlines
    PROVE  Data(w, c, p) = {<<"deadlines", q>> : q \in {p} \intersect w.mapped}
BY DEF Data, Deadlines

\* A teacher's sections are those assigned.
LEMMA SectionData ==
    ASSUME NEW w, NEW c, NEW p, c.read = "teacher_sections"
    PROVE  Data(w, c, p) = SectionsListed(AssignedTo(p, w))
BY DEF Data, SectionsListed, AssignedTo

\* The students of a section assigned attend it.
LEMMA RosterData ==
    ASSUME NEW w, NEW c, NEW p, c.read = "section_students"
    PROVE  Data(w, c, p) =
             StudentsListed({r \in People :
               <<p, c.section>> \in w.assigned /\ Attends(w, r, c.section)})
BY DEF Data, StudentsListed

\* The evidence is of the sections assigned.
LEMMA EvidenceData ==
    ASSUME NEW w, NEW c, NEW p, c.read = "teacher_grade_sync_status"
    PROVE  Data(w, c, p) = EvidenceOf(AssignedTo(p, w), w)
BY DEF Data, EvidenceOf, AssignedTo

\* Every read is one of these.
LEMMA ReadsAreKnown ==
    ASSUME NEW c, c.read \in PortalReads
    PROVE  \/ c.read \in DOMAIN FoundAt \/ c.read \in Deadlines
           \/ c.read = "guardian_students"
BY DEF PortalReads, StudentReads, TeacherReads, GuardianReads, FoundAt, Deadlines

\* Calls alike are entitled to the same.
LEMMA AlikeAreEntitledAlike ==
    ASSUME NEW c, NEW d, Alike(c, d), c.read \in PortalReads, NEW w
    PROVE  /\ \A p : Data(w, d, p) = Data(w, c, p)
           /\ Moment(w, d) = Moment(w, c)
<1>1. \A p : Data(w, d, p) = Data(w, c, p)
  BY Zenon DEF Data, Alike
<1>2. May(w, d) = May(w, c)
  BY DEF May, Alike
<1> QED BY <1>1, <1>2 DEF Moment

\* The data of a guardian, told as they are gathered.
LEMMA GuardianData ==
    ASSUME NEW w, NEW c, NEW p, c.read = "guardian_students"
    PROVE  Data(w, c, p) = Told(Linked(w, p), Linked(w, p), Linked(w, p), w)
<1>1. PICK of : of = [q \in Linked(w, p) |->
                {<<"student", q>>}
                  \union {<<"program", r>> : r \in
                             {q} \intersect {t \in People : w.enrollment[t] = "active"}}
                  \union {<<"grade", r>> : r \in {q} \intersect w.graded}]
  OBVIOUS
<1>2. Data(w, c, p) = UNION {of[q] : q \in Linked(w, p)}
  BY <1>1 DEF Data, Linked
<1>3. ASSUME NEW q \in Linked(w, p)
      PROVE  /\ \A x : x \in of[q] <=>
                  \/ x = <<"student", q>>
                  \/ x = <<"program", q>> /\ w.enrollment[q] = "active"
                  \/ x = <<"grade", q>> /\ q \in w.graded
             /\ q \in People
  BY <1>1 DEF Linked
<1>4. \A x : x \in Data(w, c, p) <=> \E q \in Linked(w, p) : x \in of[q]
  BY <1>2
<1>5. \A x : x \in Told(Linked(w, p), Linked(w, p), Linked(w, p), w) <=>
               \E q \in Linked(w, p) :
                  \/ x = <<"student", q>>
                  \/ x = <<"program", q>> /\ w.enrollment[q] = "active"
                  \/ x = <<"grade", q>> /\ q \in w.graded
  BY DEF Told
<1>6. PICK S, T : S = Data(w, c, p) /\ T = Told(Linked(w, p), Linked(w, p), Linked(w, p), w)
  OBVIOUS
<1>7. \A x : x \in S <=> x \in T
  BY <1>3, <1>4, <1>5, <1>6
<1> QED BY <1>6, <1>7

\* What is told, part by part.
LEMMA ToldParts ==
    ASSUME NEW all, NEW E, NEW M, NEW w, NEW x
    PROVE  x \in Told(all, E, M, w) <=>
             \/ \E q \in all : x = <<"student", q>>
             \/ \E q \in E : x = <<"program", q>> /\ w.enrollment[q] = "active"
             \/ \E q \in M : x = <<"grade", q>> /\ q \in w.graded
BY DEF Told

\* One more program is told.
LEMMA ProgramTold ==
    ASSUME NEW all, NEW told, NEW rest, NEW w, NEW q, told = rest \union {q}
    PROVE  Told(all, told, rest, w) = Told(all, rest, rest, w) \union ProgramOf(q, w)
<1>1. PICK S, T, more :
        S = Told(all, told, rest, w) /\ T = Told(all, rest, rest, w) /\ more = ProgramOf(q, w)
  OBVIOUS
<1>2. \A x : x \in more <=> x = <<"program", q>> /\ w.enrollment[q] = "active"
  BY <1>1 DEF ProgramOf
<1>3. \A x : x \in S <=> x \in T \/ x \in more
  BY <1>1, <1>2, ToldParts
<1>4. S = T \union more
  BY <1>3
<1> QED BY <1>1, <1>4

\* One more grade is told.
LEMMA GradeTold ==
    ASSUME NEW all, NEW told, NEW rest, NEW w, NEW q, told = rest \union {q}
    PROVE  Told(all, told, told, w) = Told(all, told, rest, w) \union GradeOf(q, w)
<1>1. PICK S, T, more :
        S = Told(all, told, told, w) /\ T = Told(all, told, rest, w) /\ more = GradeOf(q, w)
  OBVIOUS
<1>2. \A x : x \in more <=> x = <<"grade", q>> /\ q \in w.graded
  BY <1>1 DEF GradeOf
<1>3. \A x : x \in S <=> x \in T \/ x \in more
  BY <1>1, <1>2, ToldParts
<1>4. S = T \union more
  BY <1>3
<1> QED BY <1>1, <1>4

\* Worlds that agree on those told of tell the same of them.
LEMMA ToldAlike ==
    ASSUME NEW all, NEW E, NEW M, NEW v, NEW w,
           \A q \in E : v.enrollment[q] = w.enrollment[q],
           \A q \in M : q \in v.graded <=> q \in w.graded
    PROVE  Told(all, E, M, v) = Told(all, E, M, w)
<1>1. PICK S, T : S = Told(all, E, M, v) /\ T = Told(all, E, M, w)
  OBVIOUS
<1>2. \A x : x \in S <=> x \in T
  BY <1>1, ToldParts
<1> QED BY <1>1, <1>2

\* What it was told when none is being told of.
LEMMA SummariesBetween ==
    ASSUME NEW c, NEW w, NEW all, NEW told,
           all = Linked(w, c.person), told = all \ c.students, c.todo = << >>
    PROVE  SummariesOf(c, w) <=> c.students \subseteq all /\ c.found = Told(all, told, told, w)
<1>1. OfStudent(c) = {} /\ Len(c.todo) = 0 /\ c.students \union {} = c.students
  BY DEF OfStudent
<1> QED BY <1>1 DEF SummariesOf

\* One thing more is told of the student who is told of.
TellsMore(c, d, q, more) ==
    /\ OfStudent(c) = {q} /\ OfStudent(d) = {q}
    /\ d.students = c.students /\ d.person = c.person
    /\ d.found = c.found \union more
OnlyEnrolled(q, v, w) ==
    /\ w.links = v.links /\ w.graded = v.graded
    /\ \A r \in People \ {q} : w.enrollment[r] = v.enrollment[r]
OnlyGraded(q, v, w) ==
    /\ w.links = v.links /\ w.enrollment = v.enrollment
    /\ w.graded = v.graded \union {q}

\* A guardian who was told of the program was told of it as one world has it.
LEMMA ProgramGathered ==
    ASSUME NEW c, NEW d, NEW v, NEW w, NEW q,
           Len(c.todo) = 4, Len(d.todo) = 3, TellsMore(c, d, q, ProgramOf(q, w)),
           SummariesOf(c, v)
    PROVE  /\ w.enrollment[q] = v.enrollment[q] => SummariesOf(d, v)
           /\ OnlyEnrolled(q, v, w) => SummariesOf(d, w)
<1> USE DEF TellsMore, OnlyEnrolled, OnlyGraded
<1>1. PICK all, told, rest :
        /\ all = Linked(v, c.person) /\ told = all \ c.students
        /\ rest = all \ (c.students \union {q})
  OBVIOUS
<1>2. c.students \subseteq all /\ q \in told /\ c.found = Told(all, rest, rest, v)
  <2>1. /\ c.students \subseteq all /\ {q} \subseteq all \ c.students
        /\ c.found = Told(all, all \ (c.students \union {q}), all \ (c.students \union {q}), v)
    BY <1>1 DEF SummariesOf
  <2> QED BY <1>1, <2>1
<1>3. told = rest \union {q}
  BY <1>1, <1>2
<1>4. ASSUME NEW u, all = Linked(u, d.person), d.found = Told(all, told, rest, u)
      PROVE  SummariesOf(d, u)
  <2>1. /\ d.students \subseteq all /\ {q} \subseteq all \ d.students
        /\ all \ (d.students \union {}) = told /\ all \ (d.students \union {q}) = rest
    BY <1>1, <1>2
  <2>2. Len(d.todo) # 4 /\ Len(d.todo) >= 2 /\ OfStudent(d) = {q}
    OBVIOUS
  <2>3. all \ (d.students \union (IF Len(d.todo) = 4 THEN OfStudent(d) ELSE {})) = told
    BY <2>1, <2>2
  <2>4. all \ (d.students \union (IF Len(d.todo) >= 2 THEN OfStudent(d) ELSE {})) = rest
    BY <2>1, <2>2
  <2>5. OfStudent(d) \subseteq all \ d.students
    BY <2>1, <2>2
  <2> HIDE DEF TellsMore, OnlyEnrolled, OnlyGraded
  <2> QED BY <1>4, <2>1, <2>3, <2>4, <2>5, Zenon DEF SummariesOf
<1>5. ASSUME w.enrollment[q] = v.enrollment[q] PROVE SummariesOf(d, v)
  <2>1. ProgramOf(q, w) = ProgramOf(q, v)
    BY <1>5 DEF ProgramOf
  <2>2. d.found = Told(all, told, rest, v)
    BY <1>2, <1>3, <2>1, ProgramTold
  <2> QED BY <1>1, <1>4, <2>2
<1>6. ASSUME OnlyEnrolled(q, v, w)
      PROVE  SummariesOf(d, w)
  <2>1. all = Linked(w, d.person) /\ rest \subseteq People \ {q}
    BY <1>1, <1>6 DEF Linked
  <2>2. c.found = Told(all, rest, rest, w)
    <3>1. /\ \A r \in rest : v.enrollment[r] = w.enrollment[r]
          /\ \A r \in rest : r \in v.graded <=> r \in w.graded
      BY <1>1, <1>6, <2>1
    <3> QED BY <1>2, <3>1, ToldAlike
  <2>3. d.found = Told(all, told, rest, w)
    BY <1>3, <2>2, ProgramTold
  <2> QED BY <1>4, <2>1, <2>3
<1> QED BY <1>5, <1>6

\* And of the grade.
LEMMA GradeGathered ==
    ASSUME NEW c, NEW d, NEW v, NEW w, NEW q,
           Len(c.todo) = 2, Len(d.todo) = 1, TellsMore(c, d, q, GradeOf(q, w)),
           SummariesOf(c, v)
    PROVE  /\ (q \in w.graded <=> q \in v.graded) => SummariesOf(d, v)
           /\ OnlyGraded(q, v, w) => SummariesOf(d, w)
<1> USE DEF TellsMore, OnlyEnrolled, OnlyGraded
<1>1. PICK all, told, rest :
        /\ all = Linked(v, c.person) /\ told = all \ c.students
        /\ rest = all \ (c.students \union {q})
  OBVIOUS
<1>2. c.students \subseteq all /\ q \in told /\ c.found = Told(all, told, rest, v)
  <2>1. /\ c.students \subseteq all /\ {q} \subseteq all \ c.students
        /\ c.found = Told(all, all \ (c.students \union {}), all \ (c.students \union {q}), v)
    BY <1>1 DEF SummariesOf
  <2> QED BY <1>1, <2>1
<1>3. told = rest \union {q}
  BY <1>1, <1>2
<1>4. ASSUME NEW u, all = Linked(u, d.person), d.found = Told(all, told, told, u)
      PROVE  SummariesOf(d, u)
  <2>1. /\ d.students \subseteq all /\ {q} \subseteq all \ d.students
        /\ all \ (d.students \union {}) = told /\ all \ (d.students \union {q}) = rest
    BY <1>1, <1>2
  <2>2. Len(d.todo) # 4 /\ ~(Len(d.todo) >= 2) /\ OfStudent(d) = {q}
    OBVIOUS
  <2>3. all \ (d.students \union (IF Len(d.todo) = 4 THEN OfStudent(d) ELSE {})) = told
    BY <2>1, <2>2
  <2>4. all \ (d.students \union (IF Len(d.todo) >= 2 THEN OfStudent(d) ELSE {})) = told
    BY <2>1, <2>2
  <2>5. OfStudent(d) \subseteq all \ d.students
    BY <2>1, <2>2
  <2> HIDE DEF TellsMore, OnlyEnrolled, OnlyGraded
  <2> QED BY <1>4, <2>1, <2>3, <2>4, <2>5, Zenon DEF SummariesOf
<1>5. ASSUME (q \in w.graded <=> q \in v.graded) PROVE SummariesOf(d, v)
  <2>1. GradeOf(q, w) = GradeOf(q, v)
    BY <1>5 DEF GradeOf
  <2>2. d.found = Told(all, told, told, v)
    BY <1>2, <1>3, <2>1, GradeTold
  <2> QED BY <1>1, <1>4, <2>2
<1>6. ASSUME OnlyGraded(q, v, w)
      PROVE  SummariesOf(d, w)
  <2>1. all = Linked(w, d.person) /\ rest \subseteq People \ {q}
    BY <1>1, <1>6 DEF Linked
  <2>2. c.found = Told(all, told, rest, w)
    <3>1. /\ \A r \in told : v.enrollment[r] = w.enrollment[r]
          /\ \A r \in rest : r \in v.graded <=> r \in w.graded
      BY <1>1, <1>6, <2>1
    <3> QED BY <1>2, <3>1, ToldAlike
  <2>3. d.found = Told(all, told, told, w)
    BY <1>3, <2>2, GradeTold
  <2> QED BY <1>4, <2>1, <2>3
<1> QED BY <1>5, <1>6

\* What is read at once is collected once it is found.
LEMMA AllCollected ==
    ASSUME NEW d, NEW w, d.read = "teacher_sections", Len(d.todo) = 0,
           d.found = Data(w, d, d.person)
    PROVE  Collected(d, w)
<1>1. d.read \in DOMAIN FoundAt /\ FoundAt[d.read] = 0 /\ d.read \notin Deadlines
  BY DEF FoundAt, Deadlines
<1> QED BY <1>1 DEF Collected

\* What was found of deadlines.
LEMMA DeadlinesCollected ==
    ASSUME NEW c, NEW w, c.read \in Deadlines
    PROVE  Collected(c, w) <=>
             /\ c.todo = << >> => c.found = Data(w, c, c.person)
             /\ Len(c.todo) = 2 => c.person \in w.mapped /\ c.found = {}
             /\ c.todo = <<<<"health", c.person>>>> =>
                  c.person \in w.mapped /\ c.found \in {{}, {<<"deadlines", c.person>>}}
             /\ c.todo = <<<<"mapping", c.person>>>> => c.found = {}
<1>1. /\ c.read \notin DOMAIN FoundAt /\ c.read # "student_schedule"
      /\ c.read # "section_students" /\ c.read # "teacher_grade_sync_status"
      /\ c.read # "guardian_students"
  BY DEF FoundAt, Deadlines
<1> QED BY <1>1 DEF Collected

----------------------------------------------------------------------------
\* A sound world, column by column.
LEMMA SoundWorlds ==
    ASSUME NEW w, WorldIsSound(w)
    PROVE  /\ w.roles \subseteq Roles /\ w.person \in People \union {Nobody}
           /\ w.profiles \subseteq People \X {"student", "teacher", "guardian"}
           /\ w.links \subseteq People \X People /\ w.assigned \subseteq People \X Sections
           /\ w.enrollment \in [People -> {"none", "active", "ended"}]
           /\ w.attends \subseteq People \X Sections
           /\ w.sessions \subseteq Sections \X People /\ w.graded \subseteq People
           /\ w.mapped \subseteq People
BY DEF WorldIsSound, World

\* Each change is one change of a sound world to another.
LEMMA ChangesAreOne ==
    ASSUME WorldIsSound(world), Change
    PROVE  WorldIsSound(world') /\ OneChange(world, world')
<1> USE DEF WorldIsSound, World, OneChange, Grows, SameRights, SameStudies, SameDuties
<1>1. CASE ChangeOrganization(world)
  BY <1>1 DEF ChangeOrganization, RightsChange
<1>2. CASE ChangeMembership(world)
  BY <1>2 DEF ChangeMembership, RightsChange
<1>3. CASE ReplaceRoles(world)
  BY <1>3 DEF ReplaceRoles, RightsChange
<1>4. CASE RecoverOwner(world)
  <2>1. "organization_owner" \in Roles
    BY DEF Roles, Permissions
  <2>2. PICK p \in People :
          world' = [world EXCEPT !.member = "active", !.person = p,
                                 !.roles = @ \union {"organization_owner"}]
    BY <1>4 DEF RecoverOwner
  <2>3. /\ world' \in World /\ Grows(world, world')
        /\ SameStudies(world, world') /\ SameDuties(world, world')
        /\ world'.organization = world.organization /\ world'.feature = world.feature
        /\ world'.member = "active" /\ world.roles \subseteq world'.roles
    BY <2>1, <2>2
  <2>4. WorldIsSound(world')
    BY <2>3
  <2> QED BY <2>3, <2>4 DEF RightsChange
<1>5. CASE ToggleFeature(world)
  <2>1. world' = [world EXCEPT !.feature = ~@]
    BY <1>5 DEF ToggleFeature
  <2>2. /\ world' \in World /\ Grows(world, world')
        /\ SameStudies(world, world') /\ SameDuties(world, world')
        /\ world'.organization = world.organization /\ world'.roles = world.roles
        /\ world'.member = world.member /\ world'.person = world.person
    BY <2>1
  <2>3. WorldIsSound(world')
    BY <2>2
  <2> QED BY <2>2, <2>3 DEF RightsChange
<1>6. CASE LinkStudent(world)
  BY <1>6 DEF LinkStudent, DataChange, DutiesChange
<1>7. CASE AssignSection(world)
  BY <1>7 DEF AssignSection, DataChange, DutiesChange
<1>8. CASE Attend(world)
  BY <1>8 DEF Attend, DataChange, StudiesChange
<1>9. CASE Drop(world)
  BY <1>9 DEF Drop, DataChange, StudiesChange
<1>10. CASE Withdraw(world)
  <2>1. PICK p \in People :
          /\ world.enrollment[p] = "active"
          /\ world' = [world EXCEPT !.enrollment[p] = "ended",
                                    !.attends = {x \in @ : x[1] # p}]
    BY <1>10 DEF Withdraw
  <2>2. /\ world' \in World /\ Grows(world, world')
        /\ SameRights(world, world') /\ SameDuties(world, world')
        /\ world'.sessions = world.sessions /\ world'.graded = world.graded
        /\ world'.enrollment = [world.enrollment EXCEPT ![p] = "ended"]
        /\ world'.attends = {x \in world.attends : x[1] # p}
    BY <2>1
  <2>3. \A q \in People : world'.enrollment[q] # "none" => world.enrollment[q] # "none"
    <3>1. world.enrollment \in [People -> {"none", "active", "ended"}]
      BY SoundWorlds
    <3>2. \A q \in People : q # p => world'.enrollment[q] = world.enrollment[q]
      BY <2>2, <3>1
    <3> QED BY <2>1, <3>2
  <2>4. \A q \in People : world.enrollment[q] # "none" => world'.enrollment[q] # "none"
    BY <2>2
  <2>5. WorldIsSound(world')
    BY <2>2, <2>3, <2>4
  <2> QED BY <2>1, <2>2, <2>5 DEF DataChange, StudiesChange
<1>11. CASE Schedule(world)
  BY <1>11 DEF Schedule, DataChange, StudiesChange
<1>12. CASE Grade(world)
  BY <1>12 DEF Grade, DataChange, StudiesChange
<1>13. CASE Evidence(world)
  BY <1>13 DEF Evidence, DataChange, DutiesChange
<1>14. CASE MapAccount(world)
  BY <1>14 DEF MapAccount, DataChange, DutiesChange
<1> QED BY <1>1, <1>2, <1>3, <1>4, <1>5, <1>6, <1>7, <1>8, <1>9, <1>10, <1>11, <1>12, <1>13,
           <1>14 DEF Change


----------------------------------------------------------------------------
\* Lists of up to five steps, from their first step on.
LEMMA ListsOfSteps ==
    /\ \A a : /\ <<a>> # << >> /\ Head(<<a>>) = a /\ Tail(<<a>>) = << >> /\ Len(<<a>>) = 1
    /\ \A a, b : /\ <<a, b>> # << >> /\ Head(<<a, b>>) = a /\ Tail(<<a, b>>) = <<b>>
                 /\ Len(<<a, b>>) = 2
    /\ \A a, b, c : /\ <<a, b, c>> # << >> /\ Head(<<a, b, c>>) = a
                    /\ Tail(<<a, b, c>>) = <<b, c>> /\ Len(<<a, b, c>>) = 3
    /\ \A a, b, c, d : /\ <<a, b, c, d>> # << >> /\ Head(<<a, b, c, d>>) = a
                       /\ Tail(<<a, b, c, d>>) = <<b, c, d>> /\ Len(<<a, b, c, d>>) = 4
    /\ \A a, b, c, d, e : /\ <<a, b, c, d, e>> # << >> /\ Head(<<a, b, c, d, e>>) = a
                          /\ Tail(<<a, b, c, d, e>>) = <<b, c, d, e>>
                          /\ Len(<<a, b, c, d, e>>) = 5
    /\ Len(<< >>) = 0
OBVIOUS

\* Where a read is that asks for enrollments.
LEMMA AtEnrollments ==
    ASSUME NEW c, Reading(c), c.todo # << >>, Head(c.todo)[1] = "enrollments"
    PROVE  \/ /\ c.read = "student_schedule"
              /\ c.todo = <<<<"enrollments", c.person>>, <<"attendance", c.person>>,
                            <<"sessions", c.person>>, <<"sections", c.person>>,
                            <<"rooms", c.person>>>>
           \/ /\ c.read = "student_grades"
              /\ c.todo = <<<<"enrollments", c.person>>, <<"attendance", c.person>>,
                            <<"grades", c.person>>, <<"courses", c.person>>>>
           \/ /\ c.read = "student_gpa"
              /\ c.todo = <<<<"enrollments", c.person>>, <<"attendance", c.person>>,
                            <<"grades", c.person>>>>
           \/ /\ c.read = "guardian_students"
              /\ \E q \in People : c.todo = <<<<"enrollments", q>>, <<"attendance", q>>,
                                              <<"grades", q>>, <<"courses", q>>>>
BY DEF Reading, ReportOf, Deadlines

\* Where a read is that asks for courses attended.
LEMMA AtAttendance ==
    ASSUME NEW c, Reading(c), c.todo # << >>, Head(c.todo)[1] = "attendance"
    PROVE  \/ /\ c.read = "student_schedule"
              /\ c.todo = <<<<"attendance", c.person>>, <<"sessions", c.person>>,
                            <<"sections", c.person>>, <<"rooms", c.person>>>>
           \/ /\ c.read = "student_grades"
              /\ c.todo = <<<<"attendance", c.person>>, <<"grades", c.person>>,
                            <<"courses", c.person>>>>
           \/ /\ c.read = "student_gpa"
              /\ c.todo = <<<<"attendance", c.person>>, <<"grades", c.person>>>>
           \/ /\ c.read = "guardian_students"
              /\ \E q \in People : c.todo = <<<<"attendance", q>>, <<"grades", q>>,
                                              <<"courses", q>>>>
BY DEF Reading, ReportOf, Deadlines

\* Where a read is that asks for a student's sessions.
LEMMA AtSessions ==
    ASSUME NEW c, Reading(c), c.todo # << >>, Head(c.todo)[1] = "sessions"
    PROVE  /\ c.read = "student_schedule"
           /\ c.todo = <<<<"sessions", c.person>>, <<"sections", c.person>>,
                         <<"rooms", c.person>>>>
BY DEF Reading, ReportOf, Deadlines

\* Where a read is that asks for a teacher's sessions.
LEMMA AtTeaching ==
    ASSUME NEW c, Reading(c), c.todo # << >>, Head(c.todo)[1] = "teaching"
    PROVE  /\ c.read = "teacher_schedule"
           /\ c.todo = <<<<"teaching", c.person>>, <<"sections", c.person>>,
                         <<"rooms", c.person>>>>
BY DEF Reading, ReportOf, Deadlines

\* Where a read is that asks for the sections of a schedule.
LEMMA AtSections ==
    ASSUME NEW c, Reading(c), c.todo # << >>, Head(c.todo)[1] = "sections"
    PROVE  \/ /\ c.read = "student_schedule"
              /\ c.todo = <<<<"sections", c.person>>, <<"rooms", c.person>>>>
           \/ /\ c.read = "teacher_schedule"
              /\ c.todo = <<<<"sections", c.person>>, <<"rooms", c.person>>>>
BY DEF Reading, ReportOf, Deadlines

\* Where a read is that asks for the rooms of a schedule.
LEMMA AtRooms ==
    ASSUME NEW c, Reading(c), c.todo # << >>, Head(c.todo)[1] = "rooms"
    PROVE  \/ c.read = "student_schedule" /\ c.todo = <<<<"rooms", c.person>>>>
           \/ c.read = "teacher_schedule" /\ c.todo = <<<<"rooms", c.person>>>>
BY DEF Reading, ReportOf, Deadlines

\* Where a read is that asks for the courses of grades.
LEMMA AtCourses ==
    ASSUME NEW c, Reading(c), c.todo # << >>, Head(c.todo)[1] = "courses"
    PROVE  \/ c.read = "student_grades" /\ c.todo = <<<<"courses", c.person>>>>
           \/ c.read = "guardian_students" /\ \E q \in People : c.todo = <<<<"courses", q>>>>
BY DEF Reading, ReportOf, Deadlines

\* Where a read is that asks for grades.
LEMMA AtGrades ==
    ASSUME NEW c, Reading(c), c.todo # << >>, Head(c.todo)[1] = "grades"
    PROVE  \/ /\ c.read = "student_grades"
              /\ c.todo = <<<<"grades", c.person>>, <<"courses", c.person>>>>
           \/ c.read = "student_gpa" /\ c.todo = <<<<"grades", c.person>>>>
           \/ /\ c.read = "guardian_students"
              /\ \E q \in People : c.todo = <<<<"grades", q>>, <<"courses", q>>>>
BY DEF Reading, ReportOf, Deadlines

\* Where a read is that asks for events.
LEMMA AtEvents ==
    ASSUME NEW c, Reading(c), c.todo # << >>, Head(c.todo)[1] = "events"
    PROVE  \/ c.read = "student_events" /\ c.todo = <<<<"events", c.person>>>>
           \/ c.read = "guardian_events" /\ c.todo = <<<<"events", c.person>>>>
BY DEF Reading, ReportOf, Deadlines

\* Where a read is that asks for sections assigned.
LEMMA AtAssigned ==
    ASSUME NEW c, Reading(c), c.todo # << >>, Head(c.todo)[1] = "assigned"
    PROVE  \/ c.read = "teacher_sections" /\ c.todo = <<<<"assigned", c.person>>>>
           \/ /\ c.read = "teacher_grade_sync_status"
              /\ c.todo = <<<<"assigned", c.person>>, <<"evidence", c.person>>>>
BY DEF Reading, ReportOf, Deadlines

\* Where a read is that asks for the assignment of one section.
LEMMA AtAssignment ==
    ASSUME NEW c, Reading(c), c.todo # << >>, Head(c.todo)[1] = "assignment"
    PROVE  /\ c.read = "section_students"
           /\ c.todo = <<<<"assignment", c.section>>, <<"roster", c.section>>,
                         <<"names", c.section>>>>
BY DEF Reading, ReportOf, Deadlines

\* Where a read is that asks for a section's students.
LEMMA AtRoster ==
    ASSUME NEW c, Reading(c), c.todo # << >>, Head(c.todo)[1] = "roster"
    PROVE  /\ c.read = "section_students"
           /\ c.todo = <<<<"roster", c.section>>, <<"names", c.section>>>>
BY DEF Reading, ReportOf, Deadlines

\* Where a read is that asks for the names of a section's students.
LEMMA AtNames ==
    ASSUME NEW c, Reading(c), c.todo # << >>, Head(c.todo)[1] = "names"
    PROVE  c.read = "section_students" /\ c.todo = <<<<"names", c.section>>>>
BY DEF Reading, ReportOf, Deadlines

\* Where a read is that asks for the evidence of sections.
LEMMA AtEvidence ==
    ASSUME NEW c, Reading(c), c.todo # << >>, Head(c.todo)[1] = "evidence"
    PROVE  c.read = "teacher_grade_sync_status" /\ c.todo = <<<<"evidence", c.person>>>>
BY DEF Reading, ReportOf, Deadlines

\* Where a read is that asks for linked students.
LEMMA AtLinked ==
    ASSUME NEW c, Reading(c), c.todo # << >>, Head(c.todo)[1] = "linked"
    PROVE  c.read = "guardian_students" /\ c.todo = <<<<"linked", c.person>>>>
BY DEF Reading, ReportOf, Deadlines

\* Where a read is that asks for a Moodle account.
LEMMA AtMapping ==
    ASSUME NEW c, Reading(c), c.todo # << >>, Head(c.todo)[1] = "mapping"
    PROVE  \/ c.read = "student_moodle_deadlines" /\ c.todo = <<<<"mapping", c.person>>>>
           \/ c.read = "teacher_moodle_deadlines" /\ c.todo = <<<<"mapping", c.person>>>>
BY DEF Reading, ReportOf, Deadlines

\* Where a read is that asks for Moodle's deadlines.
LEMMA AtMoodle ==
    ASSUME NEW c, Reading(c), c.todo # << >>, Head(c.todo)[1] = "moodle"
    PROVE  c.read \in Deadlines /\ c.todo = <<<<"moodle", c.person>>, <<"health", c.person>>>>
BY DEF Reading, ReportOf, Deadlines

\* Where a read is that asks for the health of the connection.
LEMMA AtHealth ==
    ASSUME NEW c, Reading(c), c.todo # << >>, Head(c.todo)[1] = "health"
    PROVE  c.read \in Deadlines /\ c.todo = <<<<"health", c.person>>>>
BY DEF Reading, ReportOf, Deadlines


----------------------------------------------------------------------------
\* A read proceeds: everything about it but what it is still to do and has found.
Proceeds(c, d) ==
    /\ DOMAIN d = Fields /\ d.stage = c.stage /\ d.outcome = c.outcome
    /\ d.via = c.via /\ d.read = c.read /\ d.section = c.section
    /\ d.permissions = c.permissions /\ d.person = c.person

\* What a step adds is the person's as it is now.
Adds(c, d, w) ==
    c.read # "student_schedule" => d.found \subseteq c.found \union Data(w, c, c.person)

\* One of two worlds is the one a read's data are of.
Gathers(c, d, v, w) ==
    /\ Stands(c, w) => Stands(d, w) /\ Adds(c, d, w)
    /\ Collected(c, v) => Collected(d, v) \/ Collected(d, w)

\* A world is one change from itself, the change of nothing.
LEMMA SameWorld ==
    ASSUME NEW w
    PROVE  DataChange(w, w)
BY DEF DataChange, Grows, SameRights, SameDuties, SameStudies, StudiesChange

\* Calls that proceed have the data of one person.
LEMMA SameDataSought ==
    ASSUME NEW c, NEW d, Proceeds(c, d), c.read \in PortalReads
    PROVE  /\ d.read = c.read /\ d.person = c.person /\ d.section = c.section
           /\ \A w, p : Data(w, d, p) = Data(w, c, p)
<1>1. Alike(c, d) /\ d.read = c.read /\ d.person = c.person /\ d.section = c.section
  BY DEF Proceeds, Alike
<1> QED BY <1>1, AlikeAreEntitledAlike

\* What is kept of the enrollments of a student.
EnrollmentsRead(c, d, q, w) ==
    /\ d.students = c.students /\ d.active = (w.enrollment[q] = "active")
    /\ d.found = IF KindOf(c.read) = "guardian" /\ w.enrollment[q] = "active"
                 THEN c.found \union {<<"program", q>>} ELSE c.found

\* Enrollments are a schedule's first step, a report's, and that of a guardian's student.
LEMMA EnrollmentsGathered ==
    ASSUME NEW c, NEW d, NEW v, NEW w, WorldIsSound(v), WorldIsSound(w), DataChange(v, w),
           c.read \in PortalReads, Reading(c), Proceeds(c, d),
           c.todo # << >>, Head(c.todo)[1] = "enrollments", d.todo = Tail(c.todo),
           EnrollmentsRead(c, d, Head(c.todo)[2], w)
    PROVE  Reading(d) /\ Gathers(c, d, v, w)
<1> DEFINE p == c.person
<1>1. /\ d.read = c.read /\ d.person = p /\ d.section = c.section
      /\ Data(v, d, p) = Data(v, c, p) /\ Data(w, d, p) = Data(w, c, p)
  BY SameDataSought
<1>2. CASE /\ c.read = "student_schedule"
           /\ c.todo = <<<<"enrollments", p>>, <<"attendance", p>>, <<"sessions", p>>,
                         <<"sections", p>>, <<"rooms", p>>>>
  <2>1. /\ d.todo = <<<<"attendance", p>>, <<"sessions", p>>, <<"sections", p>>, <<"rooms", p>>>>
        /\ Len(c.todo) = 5 /\ Len(d.todo) = 4 /\ Head(c.todo) = <<"enrollments", p>>
    BY <1>2, ListsOfSteps
  <2>2. d.found = c.found /\ d.active = (w.enrollment[p] = "active")
    BY <1>2, <2>1, Kinds DEF StudentReads, EnrollmentsRead
  <2>3. Collected(c, v) => Collected(d, w)
    BY <1>1, <1>2, <2>1, <2>2 DEF Collected, FoundAt, Deadlines
  <2>4. Reading(d) /\ Stands(d, w) /\ Adds(c, d, w)
    BY <1>1, <1>2, <2>1, <2>2 DEF Reading, Stands, Adds, Deadlines
  <2> QED BY <2>3, <2>4 DEF Gathers
<1>3. CASE /\ c.read = "student_grades"
           /\ c.todo = <<<<"enrollments", p>>, <<"attendance", p>>, <<"grades", p>>,
                         <<"courses", p>>>>
  <2>1. /\ d.todo = <<<<"attendance", p>>, <<"grades", p>>, <<"courses", p>>>>
        /\ Len(c.todo) = 4 /\ Len(d.todo) = 3 /\ Head(c.todo) = <<"enrollments", p>>
    BY <1>3, ListsOfSteps
  <2>2. d.found = c.found
    BY <1>3, <2>1, Kinds DEF StudentReads, EnrollmentsRead
  <2>3. Collected(c, v) => Collected(d, w)
    BY <1>1, <1>3, <2>1, <2>2 DEF Collected, FoundAt, Deadlines
  <2>4. Reading(d) /\ Stands(d, w) /\ Adds(c, d, w)
    BY <1>1, <1>3, <2>1, <2>2 DEF Reading, ReportOf, Stands, Adds, Deadlines
  <2> QED BY <2>3, <2>4 DEF Gathers
<1>4. CASE /\ c.read = "student_gpa"
           /\ c.todo = <<<<"enrollments", p>>, <<"attendance", p>>, <<"grades", p>>>>
  <2>1. /\ d.todo = <<<<"attendance", p>>, <<"grades", p>>>>
        /\ Len(c.todo) = 3 /\ Len(d.todo) = 2 /\ Head(c.todo) = <<"enrollments", p>>
    BY <1>4, ListsOfSteps
  <2>2. d.found = c.found
    BY <1>4, <2>1, Kinds DEF StudentReads, EnrollmentsRead
  <2>3. Collected(c, v) => Collected(d, w)
    BY <1>1, <1>4, <2>1, <2>2 DEF Collected, FoundAt, Deadlines
  <2>4. Reading(d) /\ Stands(d, w) /\ Adds(c, d, w)
    BY <1>1, <1>4, <2>1, <2>2 DEF Reading, ReportOf, Stands, Adds, Deadlines
  <2> QED BY <2>3, <2>4 DEF Gathers
<1>5. ASSUME NEW q \in People, c.read = "guardian_students",
             c.todo = <<<<"enrollments", q>>, <<"attendance", q>>, <<"grades", q>>,
                        <<"courses", q>>>>
      PROVE  Reading(d) /\ Gathers(c, d, v, w)
  <2>1. /\ d.todo = <<<<"attendance", q>>, <<"grades", q>>, <<"courses", q>>>>
        /\ Len(c.todo) = 4 /\ Len(d.todo) = 3 /\ Head(c.todo) = <<"enrollments", q>>
        /\ Head(c.todo)[2] = q /\ Head(d.todo) = <<"attendance", q>> /\ d.todo # << >>
    BY <1>5, ListsOfSteps
  <2>2. d.found = c.found \union ProgramOf(q, w)
    <3>1. KindOf(c.read) = "guardian"
      BY <1>5, Kinds DEF GuardianReads
    <3>2. d.found = IF w.enrollment[q] = "active" THEN c.found \union {<<"program", q>>}
                    ELSE c.found
      BY <2>1, <3>1 DEF EnrollmentsRead
    <3>3. CASE w.enrollment[q] = "active"
      BY <3>2, <3>3 DEF ProgramOf
    <3>4. CASE w.enrollment[q] # "active"
      BY <3>2, <3>4 DEF ProgramOf
    <3> QED BY <3>3, <3>4
  <2>3. OfStudent(c) = {q} /\ OfStudent(d) = {q}
    BY <1>5, <2>1 DEF OfStudent
  <2>4. Reading(d)
    BY <1>1, <1>5, <2>1 DEF Reading, ReportOf
  <2>5. ASSUME Stands(c, w) PROVE Stands(d, w) /\ Adds(c, d, w)
    <3>1. c.students \union {q} \subseteq Linked(w, p)
      BY <1>5, <2>3, <2>5 DEF Stands
    <3>2. Stands(d, w)
      BY <1>1, <1>5, <2>3, <3>1 DEF Stands, Deadlines, EnrollmentsRead
    <3>3. ProgramOf(q, w) \subseteq Data(w, c, p)
      BY <1>5, <3>1, GuardianData DEF Told, ProgramOf
    <3> QED BY <2>2, <3>2, <3>3 DEF Adds
  <2>6. ASSUME Collected(c, v) PROVE Collected(d, v) \/ Collected(d, w)
    <3>1. SummariesOf(c, v)
      BY <1>5, <2>1, <2>6 DEF Collected
    <3>0. TellsMore(c, d, q, ProgramOf(q, w))
      BY <1>1, <2>2, <2>3 DEF TellsMore, EnrollmentsRead
    <3>4. Len(c.todo) = 4 /\ Len(d.todo) = 3
      BY <2>1
    <3>2. CASE w.enrollment[q] = v.enrollment[q]
      <4>1. SummariesOf(d, v)
        BY <3>0, <3>1, <3>2, <3>4, ProgramGathered
      <4> QED BY <1>1, <1>5, <2>1, <4>1 DEF Collected, FoundAt, Deadlines
    <3>3. CASE w.enrollment[q] # v.enrollment[q]
      <4>1. /\ w.links = v.links /\ w.graded = v.graded
            /\ \E t \in People : w.enrollment = [v.enrollment EXCEPT ![t] = "ended"]
        BY <3>3 DEF DataChange, StudiesChange, SameDuties, SameStudies
      <4>2. PICK t \in People : w.enrollment = [v.enrollment EXCEPT ![t] = "ended"]
        BY <4>1
      <4>3. v.enrollment \in [People -> {"none", "active", "ended"}]
        BY SoundWorlds
      <4>4. \A r \in People \ {q} : w.enrollment[r] = v.enrollment[r]
        BY <3>3, <4>2, <4>3
      <4>5. OnlyEnrolled(q, v, w)
        BY <4>1, <4>4 DEF OnlyEnrolled
      <4>6. SummariesOf(d, w)
        BY <3>0, <3>1, <3>4, <4>5, ProgramGathered
      <4> QED BY <1>1, <1>5, <2>1, <4>6 DEF Collected, FoundAt, Deadlines
    <3> QED BY <3>2, <3>3
  <2> QED BY <2>4, <2>5, <2>6 DEF Gathers
<1> QED BY <1>2, <1>3, <1>4, <1>5, AtEnrollments


\* The courses attended are a schedule's, and nothing of a report.
LEMMA AttendanceGathered ==
    ASSUME NEW c, NEW d, NEW v, NEW w, WorldIsSound(v), WorldIsSound(w), DataChange(v, w),
           c.read \in PortalReads, Reading(c), Proceeds(c, d),
           c.todo # << >>, Head(c.todo)[1] = "attendance", d.todo = Tail(c.todo),
           d.students = c.students, d.found = c.found,
           d.sections = IF c.active THEN {s \in Sections : <<Head(c.todo)[2], s>> \in w.attends}
                        ELSE {}
    PROVE  Reading(d) /\ Gathers(c, d, v, w)
<1> DEFINE p == c.person
<1>1. /\ d.read = c.read /\ d.person = p /\ d.section = c.section
      /\ Data(v, d, p) = Data(v, c, p) /\ Data(w, d, p) = Data(w, c, p)
  BY SameDataSought
<1>2. CASE /\ c.read = "student_schedule"
           /\ c.todo = <<<<"attendance", p>>, <<"sessions", p>>, <<"sections", p>>,
                         <<"rooms", p>>>>
  <2>1. /\ d.todo = <<<<"sessions", p>>, <<"sections", p>>, <<"rooms", p>>>>
        /\ Len(c.todo) = 4 /\ Len(d.todo) = 3 /\ Head(c.todo)[2] = p
    BY <1>2, ListsOfSteps
  <2>2. ASSUME Collected(c, v) PROVE Collected(d, w)
    <3>1. c.found = {} /\ c.active = (v.enrollment[p] = "active")
      BY <1>2, <2>1, <2>2 DEF Collected, FoundAt
    <3>2. d.sections = {s \in Sections : Attends(w, p, s)}
      <4>0. d.sections = IF v.enrollment[p] = "active" THEN {s \in Sections : <<p, s>> \in w.attends}
                         ELSE {}
        BY <2>1, <3>1
      <4>1. CASE w.enrollment = v.enrollment
        BY <4>0, <4>1 DEF Attends
      <4>2. ASSUME NEW q \in People, v.enrollment[q] = "active",
                   w.enrollment = [v.enrollment EXCEPT ![q] = "ended"],
                   w.attends = {x \in v.attends : x[1] # q}
            PROVE  d.sections = {s \in Sections : Attends(w, p, s)}
        <5>1. w.enrollment[q] = "ended" /\ \A r : r # q => w.enrollment[r] = v.enrollment[r]
          BY <4>2, SoundWorlds
        <5>2. CASE p = q
          BY <4>0, <4>2, <5>1, <5>2 DEF Attends
        <5>3. CASE p # q
          BY <4>0, <4>2, <5>1, <5>3 DEF Attends
        <5> QED BY <5>2, <5>3
      <4> QED BY <4>1, <4>2 DEF DataChange, StudiesChange, SameStudies
    <3> QED BY <1>1, <1>2, <2>1, <3>1, <3>2 DEF Collected, FoundAt, Deadlines
  <2>3. Reading(d) /\ Stands(d, w) /\ Adds(c, d, w)
    BY <1>1, <1>2, <2>1 DEF Reading, Stands, Adds, Deadlines
  <2> QED BY <2>2, <2>3 DEF Gathers
<1>3. CASE /\ c.read = "student_grades"
           /\ c.todo = <<<<"attendance", p>>, <<"grades", p>>, <<"courses", p>>>>
  <2>1. /\ d.todo = <<<<"grades", p>>, <<"courses", p>>>>
        /\ Len(c.todo) = 3 /\ Len(d.todo) = 2
    BY <1>3, ListsOfSteps
  <2>2. Collected(c, v) => Collected(d, v)
    BY <1>1, <1>3, <2>1 DEF Collected, FoundAt, Deadlines
  <2>3. Reading(d) /\ Stands(d, w) /\ Adds(c, d, w)
    BY <1>1, <1>3, <2>1 DEF Reading, ReportOf, Stands, Adds, Deadlines
  <2> QED BY <2>2, <2>3 DEF Gathers
<1>4. CASE /\ c.read = "student_gpa"
           /\ c.todo = <<<<"attendance", p>>, <<"grades", p>>>>
  <2>1. /\ d.todo = <<<<"grades", p>>>>
        /\ Len(c.todo) = 2 /\ Len(d.todo) = 1
    BY <1>4, ListsOfSteps
  <2>2. Collected(c, v) => Collected(d, v)
    BY <1>1, <1>4, <2>1 DEF Collected, FoundAt, Deadlines
  <2>3. Reading(d) /\ Stands(d, w) /\ Adds(c, d, w)
    BY <1>1, <1>4, <2>1 DEF Reading, ReportOf, Stands, Adds, Deadlines
  <2> QED BY <2>2, <2>3 DEF Gathers
<1>5. ASSUME NEW q \in People, c.read = "guardian_students",
             c.todo = <<<<"attendance", q>>, <<"grades", q>>, <<"courses", q>>>>
      PROVE  Reading(d) /\ Gathers(c, d, v, w)
  <2>1. /\ d.todo = <<<<"grades", q>>, <<"courses", q>>>> /\ d.todo # << >>
        /\ Len(c.todo) = 3 /\ Len(d.todo) = 2
        /\ OfStudent(c) = {q} /\ OfStudent(d) = {q}
    BY <1>5, ListsOfSteps DEF OfStudent
  <2>2. Collected(c, v) => Collected(d, v)
    BY <1>1, <1>5, <2>1 DEF Collected, SummariesOf, FoundAt, Deadlines
  <2>3. Reading(d)
    BY <1>1, <1>5, <2>1 DEF Reading, ReportOf
  <2>4. Stands(c, w) => Stands(d, w) /\ Adds(c, d, w)
    BY <1>1, <1>5, <2>1 DEF Stands, Adds, Deadlines
  <2> QED BY <2>2, <2>3, <2>4 DEF Gathers
<1> QED BY <1>2, <1>3, <1>4, <1>5, AtAttendance

\* A student's sessions are those of the sections found, or of the planning read last.
LEMMA SessionsGathered ==
    ASSUME NEW c, NEW d, NEW v, NEW w, WorldIsSound(v), WorldIsSound(w), DataChange(v, w),
           c.read \in PortalReads, Reading(c), Proceeds(c, d),
           c.todo # << >>, Head(c.todo)[1] = "sessions", d.todo = Tail(c.todo),
           d.students = c.students,
           d.found = c.found \union
                       {<<"session", x>> : x \in {y \in w.sessions : y[1] \in c.sections}}
    PROVE  Reading(d) /\ Gathers(c, d, v, w)
<1> DEFINE p == c.person
<1>1. /\ d.read = c.read /\ d.person = p /\ d.section = c.section
      /\ Data(v, d, p) = Data(v, c, p) /\ Data(w, d, p) = Data(w, c, p)
  BY SameDataSought
<1>2. /\ c.read = "student_schedule"
      /\ c.todo = <<<<"sessions", p>>, <<"sections", p>>, <<"rooms", p>>>>
  BY AtSessions
<1>3. /\ d.todo = <<<<"sections", p>>, <<"rooms", p>>>>
      /\ Len(c.todo) = 3 /\ Len(d.todo) = 2
  BY <1>2, ListsOfSteps
<1>4. ASSUME Collected(c, v) PROVE Collected(d, v) \/ Collected(d, w)
  <2>1. c.found = {} /\ c.sections = {s \in Sections : Attends(v, p, s)}
    BY <1>2, <1>3, <1>4 DEF Collected, FoundAt
  <2>2. \/ w.sessions = v.sessions
        \/ w.enrollment = v.enrollment /\ w.attends = v.attends
    BY DEF DataChange, StudiesChange, SameStudies
  <2>3. {y \in w.sessions : y[1] \in c.sections} = {y \in w.sessions : Attends(v, p, y[1])}
    BY <2>1, SoundWorlds
  <2>4. CASE w.sessions = v.sessions
    <3>1. d.found = Data(v, d, p)
      BY <1>1, <1>2, <2>1, <2>3, <2>4, StudentData
    <3> QED BY <1>1, <1>2, <1>3, <3>1 DEF Collected, FoundAt, Deadlines
  <2>5. CASE w.enrollment = v.enrollment /\ w.attends = v.attends
    <3>1. {y \in w.sessions : Attends(v, p, y[1])} = {y \in w.sessions : Attends(w, p, y[1])}
      BY <2>5 DEF Attends
    <3>2. d.found = Data(w, d, p)
      BY <1>1, <1>2, <2>1, <2>3, <3>1, StudentData
    <3> QED BY <1>1, <1>2, <1>3, <3>2 DEF Collected, FoundAt, Deadlines
  <2> QED BY <2>2, <2>4, <2>5
<1>5. Reading(d) /\ Stands(d, w) /\ Adds(c, d, w)
  BY <1>1, <1>2, <1>3 DEF Reading, Stands, Adds, Deadlines
<1> QED BY <1>4, <1>5 DEF Gathers

\* A teacher's sessions are read at once.
LEMMA TeachingGathered ==
    ASSUME NEW c, NEW d, NEW v, NEW w, WorldIsSound(v), WorldIsSound(w), DataChange(v, w),
           c.read \in PortalReads, Reading(c), Proceeds(c, d),
           c.todo # << >>, Head(c.todo)[1] = "teaching", d.todo = Tail(c.todo),
           d.students = c.students,
           d.found = c.found \union
                       {<<"session", x>> : x \in {y \in w.sessions : y[2] = Head(c.todo)[2]}}
    PROVE  Reading(d) /\ Gathers(c, d, v, w)
<1> DEFINE p == c.person
<1>1. /\ d.read = c.read /\ d.person = p /\ d.section = c.section
      /\ Data(v, d, p) = Data(v, c, p) /\ Data(w, d, p) = Data(w, c, p)
  BY SameDataSought
<1>2. /\ c.read = "teacher_schedule"
      /\ c.todo = <<<<"teaching", p>>, <<"sections", p>>, <<"rooms", p>>>>
  BY AtTeaching
<1>3. /\ d.todo = <<<<"sections", p>>, <<"rooms", p>>>> /\ Head(c.todo) = <<"teaching", p>>
      /\ Len(c.todo) = 3 /\ Len(d.todo) = 2
  BY <1>2, ListsOfSteps
<1>4. d.found = c.found \union Data(w, c, p)
  BY <1>2, <1>3, TeacherData
<1>5. Collected(c, v) => Collected(d, w)
  BY <1>1, <1>2, <1>3, <1>4 DEF Collected, FoundAt, Deadlines
<1>6. Reading(d) /\ Stands(d, w) /\ Adds(c, d, w)
  BY <1>1, <1>2, <1>3, <1>4 DEF Reading, Stands, Adds, Deadlines
<1> QED BY <1>5, <1>6 DEF Gathers


\* Steps that describe what was found add nothing.
LEMMA DescriptionsGathered ==
    ASSUME NEW c, NEW d, NEW v, NEW w, WorldIsSound(v), WorldIsSound(w), DataChange(v, w),
           c.read \in PortalReads, Reading(c), Proceeds(c, d),
           c.todo # << >>, Head(c.todo)[1] \in {"sections", "rooms", "courses", "events"},
           d.todo = Tail(c.todo), d.students = c.students, d.found = c.found
    PROVE  Reading(d) /\ Gathers(c, d, v, w)
<1> DEFINE p == c.person
<1>1. /\ d.read = c.read /\ d.person = p /\ d.section = c.section
      /\ Data(v, d, p) = Data(v, c, p) /\ Data(w, d, p) = Data(w, c, p)
  BY SameDataSought
<1>2. CASE Head(c.todo)[1] = "sections"
  <2>1. /\ c.read \in {"student_schedule", "teacher_schedule"}
        /\ c.todo = <<<<"sections", p>>, <<"rooms", p>>>>
    BY <1>2, AtSections
  <2>2. d.todo = <<<<"rooms", p>>>> /\ Len(c.todo) = 2 /\ Len(d.todo) = 1
    BY <2>1, ListsOfSteps
  <2>3. Collected(c, v) => Collected(d, v)
    BY <1>1, <2>1, <2>2 DEF Collected, FoundAt, Deadlines
  <2>4. Reading(d) /\ Stands(d, w) /\ Adds(c, d, w)
    BY <1>1, <2>1, <2>2 DEF Reading, Stands, Adds, Deadlines
  <2> QED BY <2>3, <2>4 DEF Gathers
<1>3. CASE Head(c.todo)[1] = "rooms"
  <2>1. c.read \in {"student_schedule", "teacher_schedule"} /\ c.todo = <<<<"rooms", p>>>>
    BY <1>3, AtRooms
  <2>2. d.todo = << >> /\ Len(c.todo) = 1 /\ Len(d.todo) = 0
    BY <2>1, ListsOfSteps
  <2>3. Collected(c, v) => Collected(d, v)
    BY <1>1, <2>1, <2>2 DEF Collected, FoundAt, Deadlines
  <2>4. Reading(d) /\ Stands(d, w) /\ Adds(c, d, w)
    BY <1>1, <2>1, <2>2 DEF Reading, Stands, Adds, Deadlines
  <2> QED BY <2>3, <2>4 DEF Gathers
<1>4. CASE Head(c.todo)[1] = "events"
  <2>1. c.read \in {"student_events", "guardian_events"} /\ c.todo = <<<<"events", p>>>>
    BY <1>4, AtEvents
  <2>2. d.todo = << >> /\ Len(c.todo) = 1 /\ Len(d.todo) = 0
    BY <2>1, ListsOfSteps
  <2>3. Collected(c, v) => Collected(d, v)
    <3>1. Data(v, c, p) = {} /\ Data(v, d, p) = {}
      BY <1>1, <2>1, EventData
    <3> QED BY <1>1, <2>1, <2>2, <3>1 DEF Collected, FoundAt, Deadlines
  <2>4. Reading(d) /\ Stands(d, w) /\ Adds(c, d, w)
    BY <1>1, <2>1, <2>2 DEF Reading, Stands, Adds, Deadlines
  <2> QED BY <2>3, <2>4 DEF Gathers
<1>5. CASE Head(c.todo)[1] = "courses"
  <2>1. CASE c.read = "student_grades" /\ c.todo = <<<<"courses", p>>>>
    <3>1. d.todo = << >> /\ Len(c.todo) = 1 /\ Len(d.todo) = 0
      BY <2>1, ListsOfSteps
    <3>2. Collected(c, v) => Collected(d, v)
      BY <1>1, <2>1, <3>1 DEF Collected, FoundAt, Deadlines
    <3>3. Reading(d) /\ Stands(d, w) /\ Adds(c, d, w)
      BY <1>1, <2>1, <3>1 DEF Reading, Stands, Adds, Deadlines
    <3> QED BY <3>2, <3>3 DEF Gathers
  <2>2. ASSUME NEW q \in People, c.read = "guardian_students", c.todo = <<<<"courses", q>>>>
        PROVE  Reading(d) /\ Gathers(c, d, v, w)
    <3>1. /\ d.todo = << >> /\ Len(c.todo) = 1 /\ Len(d.todo) = 0
          /\ OfStudent(c) = {q} /\ OfStudent(d) = {}
      BY <2>2, ListsOfSteps DEF OfStudent
    <3>2. ASSUME Collected(c, v) PROVE Collected(d, v)
      <4>1. SummariesOf(d, v)
        BY <1>1, <2>2, <3>1, <3>2 DEF Collected, SummariesOf
      <4> QED BY <1>1, <2>2, <3>1, <4>1 DEF Collected, FoundAt, Deadlines
    <3>3. Reading(d) /\ (Stands(c, w) => Stands(d, w) /\ Adds(c, d, w))
      BY <1>1, <2>2, <3>1 DEF Reading, Stands, Adds, Deadlines
    <3> QED BY <3>2, <3>3 DEF Gathers
  <2> QED BY <1>5, <2>1, <2>2, AtCourses
<1> QED BY <1>2, <1>3, <1>4, <1>5

\* Grades are read of one student at once; a guardian's students have theirs one by one.
LEMMA GradesGathered ==
    ASSUME NEW c, NEW d, NEW v, NEW w, WorldIsSound(v), WorldIsSound(w), DataChange(v, w),
           c.read \in PortalReads, Reading(c), Proceeds(c, d), c.person \in People,
           c.todo # << >>, Head(c.todo)[1] = "grades", d.todo = Tail(c.todo),
           d.students = c.students,
           d.found = c.found \union GradeOf(Head(c.todo)[2], w)
    PROVE  Reading(d) /\ Gathers(c, d, v, w)
<1> DEFINE p == c.person
<1>1. /\ d.read = c.read /\ d.person = p /\ d.section = c.section
      /\ Data(v, d, p) = Data(v, c, p) /\ Data(w, d, p) = Data(w, c, p)
  BY SameDataSought
<1>2. CASE c.read = "student_grades" /\ c.todo = <<<<"grades", p>>, <<"courses", p>>>>
  <2>1. /\ d.todo = <<<<"courses", p>>>> /\ Len(c.todo) = 2 /\ Len(d.todo) = 1
        /\ Head(c.todo) = <<"grades", p>>
    BY <1>2, ListsOfSteps
  <2>2. d.found = c.found \union Data(w, c, p)
    BY <1>2, <2>1, GradeData
  <2>3. Collected(c, v) => Collected(d, w)
    BY <1>1, <1>2, <2>1, <2>2 DEF Collected, FoundAt, Deadlines
  <2>4. Reading(d) /\ Stands(d, w) /\ Adds(c, d, w)
    BY <1>1, <1>2, <2>1, <2>2 DEF Reading, ReportOf, Stands, Adds, Deadlines
  <2> QED BY <2>3, <2>4 DEF Gathers
<1>3. CASE c.read = "student_gpa" /\ c.todo = <<<<"grades", p>>>>
  <2>1. /\ d.todo = << >> /\ Len(c.todo) = 1 /\ Len(d.todo) = 0
        /\ Head(c.todo) = <<"grades", p>>
    BY <1>3, ListsOfSteps
  <2>2. d.found = c.found \union Data(w, c, p)
    BY <1>3, <2>1, GradeData
  <2>3. Collected(c, v) => Collected(d, w)
    BY <1>1, <1>3, <2>1, <2>2 DEF Collected, FoundAt, Deadlines
  <2>4. Reading(d) /\ Stands(d, w) /\ Adds(c, d, w)
    BY <1>1, <1>3, <2>1, <2>2 DEF Reading, ReportOf, Stands, Adds, Deadlines
  <2> QED BY <2>3, <2>4 DEF Gathers
<1>4. ASSUME NEW q \in People, c.read = "guardian_students",
             c.todo = <<<<"grades", q>>, <<"courses", q>>>>
      PROVE  Reading(d) /\ Gathers(c, d, v, w)
  <2>1. /\ d.todo = <<<<"courses", q>>>> /\ d.todo # << >>
        /\ Len(c.todo) = 2 /\ Len(d.todo) = 1 /\ Head(c.todo) = <<"grades", q>>
        /\ OfStudent(c) = {q} /\ OfStudent(d) = {q}
    BY <1>4, ListsOfSteps DEF OfStudent
  <2>2. d.found = c.found \union GradeOf(q, w)
    BY <2>1
  <2>3. Reading(d)
    BY <1>1, <1>4, <2>1 DEF Reading, ReportOf
  <2>4. ASSUME Stands(c, w) PROVE Stands(d, w) /\ Adds(c, d, w)
    <3>1. c.students \union {q} \subseteq Linked(w, p)
      BY <1>4, <2>1, <2>4 DEF Stands
    <3>2. Stands(d, w)
      BY <1>1, <1>4, <2>1, <3>1 DEF Stands, Deadlines
    <3>3. GradeOf(q, w) \subseteq Data(w, c, p)
      BY <1>4, <3>1, GuardianData DEF Told, GradeOf
    <3> QED BY <2>2, <3>2, <3>3 DEF Adds
  <2>5. ASSUME Collected(c, v) PROVE Collected(d, v) \/ Collected(d, w)
    <3>1. SummariesOf(c, v)
      BY <1>4, <2>1, <2>5 DEF Collected
    <3>0. TellsMore(c, d, q, GradeOf(q, w))
      BY <1>1, <2>1, <2>2 DEF TellsMore
    <3>2. CASE q \in w.graded <=> q \in v.graded
      <4>1. SummariesOf(d, v)
        BY <2>1, <3>0, <3>1, <3>2, GradeGathered
      <4> QED BY <1>1, <1>4, <2>1, <4>1 DEF Collected, FoundAt, Deadlines
    <3>3. CASE ~(q \in w.graded <=> q \in v.graded)
      <4>1. /\ w.links = v.links /\ w.enrollment = v.enrollment
            /\ w.graded = v.graded \union {q}
        BY <3>3 DEF DataChange, StudiesChange, SameDuties, SameStudies
      <4>2. SummariesOf(d, w)
        BY <2>1, <3>0, <3>1, <4>1, GradeGathered DEF OnlyGraded
      <4> QED BY <1>1, <1>4, <2>1, <4>2 DEF Collected, FoundAt, Deadlines
    <3> QED BY <3>2, <3>3
  <2> QED BY <2>3, <2>4, <2>5 DEF Gathers
<1> QED BY <1>2, <1>3, <1>4, AtGrades

\* Assignments are read at once, and the evidence of what was found assigned after them.
LEMMA AssignmentsGathered ==
    ASSUME NEW c, NEW d, NEW v, NEW w, WorldIsSound(v), WorldIsSound(w), DataChange(v, w),
           c.read \in PortalReads, Reading(c), Proceeds(c, d),
           c.todo # << >>, Head(c.todo)[1] = "assigned", d.todo = Tail(c.todo),
           d.students = c.students,
           d.sections = AssignedTo(Head(c.todo)[2], w),
           d.found = IF c.read = "teacher_sections" THEN SectionsListed(d.sections)
                     ELSE {}
    PROVE  Reading(d) /\ Gathers(c, d, v, w)
<1> DEFINE p == c.person
<1>1. /\ d.read = c.read /\ d.person = p /\ d.section = c.section
      /\ Data(v, d, p) = Data(v, c, p) /\ Data(w, d, p) = Data(w, c, p)
  BY SameDataSought
<1>2. CASE c.read = "teacher_sections" /\ c.todo = <<<<"assigned", p>>>>
  <2>1. /\ d.todo = << >> /\ Len(c.todo) = 1 /\ Len(d.todo) = 0
        /\ Head(c.todo) = <<"assigned", p>>
    BY <1>2, ListsOfSteps
  <2>2. d.found = Data(w, c, p)
    BY <1>2, <2>1, SectionData
  <2>3. Collected(d, w)
    <3>1. d.read = "teacher_sections" /\ Len(d.todo) = 0 /\ d.found = Data(w, d, d.person)
      BY <1>1, <1>2, <2>1, <2>2
    <3> QED BY <3>1, AllCollected
  <2>4. Reading(d) /\ Stands(d, w) /\ Adds(c, d, w)
    BY <1>1, <1>2, <2>1, <2>2 DEF Reading, Stands, Adds, Deadlines
  <2> QED BY <2>3, <2>4 DEF Gathers
<1>3. CASE /\ c.read = "teacher_grade_sync_status"
           /\ c.todo = <<<<"assigned", p>>, <<"evidence", p>>>>
  <2>1. /\ d.todo = <<<<"evidence", p>>>> /\ Len(c.todo) = 2 /\ Len(d.todo) = 1
        /\ Head(c.todo) = <<"assigned", p>>
    BY <1>3, ListsOfSteps
  <2>2. d.found = {} /\ d.sections = {s \in Sections : <<p, s>> \in w.assigned}
    BY <1>3, <2>1 DEF AssignedTo
  <2>3. Collected(d, w)
    BY <1>1, <1>3, <2>1, <2>2 DEF Collected, FoundAt, Deadlines
  <2>4. Reading(d) /\ Stands(d, w) /\ Adds(c, d, w)
    BY <1>1, <1>3, <2>1, <2>2 DEF Reading, Stands, Adds, Deadlines
  <2> QED BY <2>3, <2>4 DEF Gathers
<1> QED BY <1>2, <1>3, AtAssigned

\* The evidence is of the sections found assigned.
LEMMA EvidenceGathered ==
    ASSUME NEW c, NEW d, NEW v, NEW w, WorldIsSound(v), WorldIsSound(w), DataChange(v, w),
           c.read \in PortalReads, Reading(c), Proceeds(c, d),
           c.todo # << >>, Head(c.todo)[1] = "evidence", d.todo = Tail(c.todo),
           d.students = c.students,
           d.found = c.found \union EvidenceOf(c.sections, w)
    PROVE  Reading(d) /\ Gathers(c, d, v, w)
<1> DEFINE p == c.person
<1>1. /\ d.read = c.read /\ d.person = p /\ d.section = c.section
      /\ Data(v, d, p) = Data(v, c, p) /\ Data(w, d, p) = Data(w, c, p)
  BY SameDataSought
<1>2. c.read = "teacher_grade_sync_status" /\ c.todo = <<<<"evidence", p>>>>
  BY AtEvidence
<1>3. d.todo = << >> /\ Len(c.todo) = 1 /\ Len(d.todo) = 0
  BY <1>2, ListsOfSteps
<1>4. ASSUME Collected(c, v) PROVE Collected(d, v) \/ Collected(d, w)
  <2>1. c.found = {} /\ c.sections = AssignedTo(p, v)
    BY <1>2, <1>3, <1>4 DEF Collected, FoundAt, AssignedTo
  <2>2. w.assigned = v.assigned \/ w.evidence = v.evidence
    BY DEF DataChange, DutiesChange, SameDuties
  <2>3. CASE w.evidence = v.evidence
    <3>0. EvidenceOf(c.sections, w) = EvidenceOf(AssignedTo(p, v), v)
      BY <2>1, <2>3 DEF EvidenceOf
    <3>1. d.found = Data(v, d, p)
      BY <1>1, <1>2, <2>1, <3>0, EvidenceData
    <3> QED BY <1>1, <1>2, <1>3, <3>1 DEF Collected, FoundAt, Deadlines
  <2>4. CASE w.assigned = v.assigned
    <3>0. AssignedTo(p, w) = AssignedTo(p, v)
      BY <2>4 DEF AssignedTo
    <3>1. d.found = Data(w, d, p)
      BY <1>1, <1>2, <2>1, <3>0, EvidenceData
    <3> QED BY <1>1, <1>2, <1>3, <3>1 DEF Collected, FoundAt, Deadlines
  <2> QED BY <2>2, <2>3, <2>4
<1>5. Reading(d)
  BY <1>1, <1>2, <1>3 DEF Reading
<1>6. ASSUME Stands(c, w) PROVE Stands(d, w) /\ Adds(c, d, w)
  <2>1. \A s \in c.sections : s \in Sections /\ <<p, s>> \in w.assigned
    BY <1>2, <1>3, <1>6 DEF Stands
  <2>2. EvidenceOf(c.sections, w) \subseteq Data(w, c, p)
    BY <1>2, <2>1, EvidenceData DEF EvidenceOf, AssignedTo
  <2> QED BY <1>1, <1>2, <1>3, <2>2 DEF Stands, Adds, Deadlines
<1> QED BY <1>4, <1>5, <1>6 DEF Gathers

\* A section that was found assigned is read on.
LEMMA AssignmentChecked ==
    ASSUME NEW c, NEW d, NEW v, NEW w, WorldIsSound(v), WorldIsSound(w), DataChange(v, w),
           c.read \in PortalReads, Reading(c), Proceeds(c, d),
           c.todo # << >>, Head(c.todo)[1] = "assignment", d.todo = Tail(c.todo),
           d.students = c.students, d.found = c.found,
           <<c.person, Head(c.todo)[2]>> \in w.assigned
    PROVE  Reading(d) /\ Gathers(c, d, v, w)
<1> DEFINE p == c.person
           s == c.section
<1>1. /\ d.read = c.read /\ d.person = p /\ d.section = s
      /\ Data(v, d, p) = Data(v, c, p) /\ Data(w, d, p) = Data(w, c, p)
  BY SameDataSought
<1>2. /\ c.read = "section_students"
      /\ c.todo = <<<<"assignment", s>>, <<"roster", s>>, <<"names", s>>>>
  BY AtAssignment
<1>3. /\ d.todo = <<<<"roster", s>>, <<"names", s>>>>
      /\ Len(c.todo) = 3 /\ Len(d.todo) = 2 /\ Head(c.todo)[2] = s
  BY <1>2, ListsOfSteps
<1>4. Reading(d)
  BY <1>1, <1>2, <1>3 DEF Reading
<1>5. Collected(c, v) => Collected(d, w)
  BY <1>1, <1>2, <1>3 DEF Collected, FoundAt, Deadlines
<1>6. Stands(c, w) => Stands(d, w) /\ Adds(c, d, w)
  BY <1>1, <1>2, <1>3 DEF Stands, Adds, Deadlines
<1> QED BY <1>4, <1>5, <1>6 DEF Gathers

\* A section that was assigned stays so: its roster is the teacher's as it is now.
LEMMA RosterGathered ==
    ASSUME NEW c, NEW d, NEW v, NEW w, WorldIsSound(v), WorldIsSound(w), DataChange(v, w),
           c.read \in PortalReads, Reading(c), Proceeds(c, d),
           c.todo # << >>, Head(c.todo)[1] = "roster", d.todo = Tail(c.todo),
           d.students = c.students, d.found = c.found \union StudentsListed(Attending(Head(c.todo)[2], w))
    PROVE  Reading(d) /\ Gathers(c, d, v, w)
<1> DEFINE p == c.person
           s == c.section
<1>1. /\ d.read = c.read /\ d.person = p /\ d.section = s
      /\ Data(v, d, p) = Data(v, c, p) /\ Data(w, d, p) = Data(w, c, p)
  BY SameDataSought
<1>2. c.read = "section_students" /\ c.todo = <<<<"roster", s>>, <<"names", s>>>>
  BY AtRoster
<1>3. /\ d.todo = <<<<"names", s>>>>
      /\ Len(c.todo) = 2 /\ Len(d.todo) = 1 /\ Head(c.todo)[2] = s
  BY <1>2, ListsOfSteps
<1>4. Reading(d)
  BY <1>1, <1>2, <1>3 DEF Reading
<1>5. d.found = c.found \union StudentsListed(Attending(s, w))
  BY <1>3
<1>6. ASSUME <<p, s>> \in w.assigned
      PROVE  Data(w, c, p) = StudentsListed(Attending(s, w))
  <2>1. {r \in People : <<p, s>> \in w.assigned /\ Attends(w, r, s)} = Attending(s, w)
    BY <1>6 DEF Attending, Attends
  <2> QED BY <1>2, <2>1, RosterData
<1>7. ASSUME Collected(c, v) PROVE Collected(d, w)
  <2>1. c.found = {} /\ <<p, s>> \in v.assigned
    BY <1>2, <1>3, <1>7 DEF Collected, FoundAt
  <2>2. <<p, s>> \in w.assigned
    BY <2>1 DEF DataChange, Grows
  <2>3. d.found = Data(w, d, p)
    BY <1>1, <1>5, <1>6, <2>1, <2>2
  <2> QED BY <1>1, <1>2, <1>3, <2>2, <2>3 DEF Collected, FoundAt, Deadlines
<1>8. ASSUME Stands(c, w) PROVE Stands(d, w) /\ Adds(c, d, w)
  <2>1. /\ <<p, s>> \in w.assigned
        /\ \A x \in c.found : <<x[2], "student">> \in w.profiles
    BY <1>2, <1>3, <1>8 DEF Stands
  <2>2. \A x \in StudentsListed(Attending(s, w)) : <<x[2], "student">> \in w.profiles
    <3>1. \A q \in Attending(s, w) : <<q, "student">> \in w.profiles
      BY DEF Attending, WorldIsSound
    <3>2. \A x \in StudentsListed(Attending(s, w)) : x[2] \in Attending(s, w)
      BY DEF StudentsListed
    <3> QED BY <3>1, <3>2
  <2>3. \A x \in d.found : <<x[2], "student">> \in w.profiles
    BY <1>5, <2>1, <2>2
  <2> QED BY <1>1, <1>2, <1>3, <1>5, <1>6, <2>1, <2>3 DEF Stands, Adds, Deadlines
<1> QED BY <1>4, <1>7, <1>8 DEF Gathers

\* The names of students add nothing that a teacher is not entitled to.
LEMMA NamesGathered ==
    ASSUME NEW c, NEW d, NEW v, NEW w, WorldIsSound(v), WorldIsSound(w), DataChange(v, w),
           c.read \in PortalReads, Reading(c), Proceeds(c, d),
           c.todo # << >>, Head(c.todo)[1] = "names", d.todo = Tail(c.todo),
           d.students = c.students, d.found = c.found
    PROVE  Reading(d) /\ Gathers(c, d, v, w)
<1> DEFINE p == c.person
           s == c.section
<1>1. /\ d.read = c.read /\ d.person = p /\ d.section = s
      /\ Data(v, d, p) = Data(v, c, p) /\ Data(w, d, p) = Data(w, c, p)
  BY SameDataSought
<1>2. c.read = "section_students" /\ c.todo = <<<<"names", s>>>>
  BY AtNames
<1>3. d.todo = << >> /\ Len(c.todo) = 1 /\ Len(d.todo) = 0
  BY <1>2, ListsOfSteps
<1>4. Reading(d)
  BY <1>1, <1>2, <1>3 DEF Reading
<1>5. Collected(c, v) => Collected(d, v)
  BY <1>1, <1>2, <1>3 DEF Collected, FoundAt, Deadlines
<1>6. Stands(c, w) => Stands(d, w) /\ Adds(c, d, w)
  BY <1>1, <1>2, <1>3 DEF Stands, Adds, Deadlines
<1> QED BY <1>4, <1>5, <1>6 DEF Gathers

\* The students a guardian is linked to are read at once.
LEMMA LinksGathered ==
    ASSUME NEW c, NEW d, NEW v, NEW w, WorldIsSound(v), WorldIsSound(w), DataChange(v, w),
           c.read \in PortalReads, Reading(c), Proceeds(c, d),
           c.todo # << >>, Head(c.todo)[1] = "linked", d.todo = Tail(c.todo),
           d.students = Linked(w, Head(c.todo)[2]), d.found = StudentsListed(d.students)
    PROVE  Reading(d) /\ Gathers(c, d, v, w)
<1> DEFINE p == c.person
<1>1. /\ d.read = c.read /\ d.person = p /\ d.section = c.section
      /\ Data(v, d, p) = Data(v, c, p) /\ Data(w, d, p) = Data(w, c, p)
  BY SameDataSought
<1>2. c.read = "guardian_students" /\ c.todo = <<<<"linked", p>>>>
  BY AtLinked
<1>3. /\ d.todo = << >> /\ Len(c.todo) = 1 /\ Len(d.todo) = 0 /\ Head(c.todo)[2] = p
      /\ d.todo # <<<<"linked", p>>>>
  BY <1>2, ListsOfSteps
<1>4. Reading(d)
  BY <1>1, <1>2, <1>3 DEF Reading
<1>5. PICK all, told : all = Linked(w, p) /\ told = all \ d.students
  OBVIOUS
<1>6. d.students = all /\ told = {} /\ d.found = StudentsListed(all)
  BY <1>3, <1>5
<1>7. Told(all, told, told, w) = StudentsListed(all)
  BY <1>6 DEF Told, StudentsListed
<1>8. SummariesOf(d, w)
  <2>1. /\ Linked(w, d.person) = all /\ d.students \subseteq all
        /\ OfStudent(d) = {} /\ all \ (d.students \union {}) = told
        /\ d.found = Told(all, told, told, w)
    BY <1>1, <1>3, <1>5, <1>6, <1>7 DEF OfStudent
  <2> QED BY <1>3, <2>1 DEF SummariesOf
<1>9. Collected(d, w)
  BY <1>1, <1>2, <1>3, <1>8 DEF Collected, FoundAt, Deadlines
<1>10. Stands(d, w)
  BY <1>1, <1>2, <1>3, <1>5, <1>6 DEF Stands, OfStudent, Deadlines
<1>11. Adds(c, d, w)
  BY <1>1, <1>2, <1>5, <1>6, GuardianData DEF Adds, Told, StudentsListed
<1> QED BY <1>4, <1>9, <1>10, <1>11 DEF Gathers

\* A student more is told of, and nothing yet.
TellsNext(c, d, q) ==
    /\ c.todo = << >> /\ Len(d.todo) = 4 /\ OfStudent(d) = {q} /\ q \in c.students
    /\ d.students = c.students \ {q} /\ d.person = c.person /\ d.found = c.found

\* What was told when a student is about to be told of.
LEMMA SummariesBefore ==
    ASSUME NEW d, NEW v, NEW all, NEW told, NEW of,
           all = Linked(v, d.person), of = OfStudent(d), Len(d.todo) = 4,
           d.students \subseteq all, of \subseteq all \ d.students,
           told = all \ (d.students \union of), d.found = Told(all, told, told, v)
    PROVE  SummariesOf(d, v)
BY DEF SummariesOf

\* Choosing whom to tell of next tells nothing.
LEMMA NextTold ==
    ASSUME NEW c, NEW d, NEW v, NEW q, TellsNext(c, d, q), SummariesOf(c, v)
    PROVE  SummariesOf(d, v)
<1>1. PICK all, told, of :
        all = Linked(v, c.person) /\ told = all \ c.students /\ of = {q}
  OBVIOUS
<1>2. /\ d.students = c.students \ {q} /\ q \in c.students
      /\ d.person = c.person /\ d.found = c.found /\ c.todo = << >>
  BY DEF TellsNext
<1>3. c.students \subseteq all /\ c.found = Told(all, told, told, v)
  BY <1>1, <1>2, SummariesBetween
<1>4. /\ d.students \subseteq all /\ of \subseteq all \ d.students
      /\ told = all \ (d.students \union of)
  BY <1>1, <1>2, <1>3
<1>5. all = Linked(v, d.person) /\ d.found = Told(all, told, told, v)
  BY <1>1, <1>2, <1>3
<1>6. of = OfStudent(d) /\ Len(d.todo) = 4
  BY <1>1 DEF TellsNext
<1> QED BY <1>4, <1>5, <1>6, SummariesBefore

\* The next student is told of.
LEMMA NextGathered ==
    ASSUME NEW c, NEW d, NEW v, NEW w, NEW q \in People, Proceeds(c, d),
           c.read = "guardian_students", c.todo = << >>, q \in c.students,
           d.todo = OneStudentSummary(q), d.students = c.students \ {q}, d.found = c.found
    PROVE  /\ Reading(d)
           /\ Collected(c, v) => Collected(d, v)
           /\ Stands(c, w) => Stands(d, w) /\ Adds(c, d, w)
<1> DEFINE p == c.person
<1>1. d.read = c.read /\ d.person = p
  BY DEF Proceeds
<1>2. /\ d.todo = <<<<"enrollments", q>>, <<"attendance", q>>, <<"grades", q>>,
                    <<"courses", q>>>>
      /\ d.todo # << >> /\ d.todo # <<<<"linked", p>>>> /\ c.todo # <<<<"linked", p>>>>
      /\ Len(d.todo) = 4 /\ OfStudent(d) = {q} /\ OfStudent(c) = {} /\ Len(c.todo) = 0
  BY ReportSteps, ListsOfSteps DEF OfStudent
<1>3. Reading(d)
  BY <1>1, <1>2 DEF Reading, ReportOf
<1>4. ASSUME Collected(c, v) PROVE Collected(d, v)
  <2>1. SummariesOf(c, v)
    BY <1>2, <1>4 DEF Collected
  <2>2. TellsNext(c, d, q)
    BY <1>1, <1>2 DEF TellsNext
  <2>3. SummariesOf(d, v)
    BY <2>1, <2>2, NextTold
  <2> QED BY <1>1, <1>2, <2>3 DEF Collected, FoundAt, Deadlines
<1>5. ASSUME Stands(c, w) PROVE Stands(d, w) /\ Adds(c, d, w)
  <2>1. c.students \subseteq Linked(w, p)
    BY <1>2, <1>5 DEF Stands
  <2>2. d.students \union {q} \subseteq Linked(w, p)
    BY <2>1
  <2> QED BY <1>1, <1>2, <2>2 DEF Stands, Adds, Deadlines
<1> QED BY <1>3, <1>4, <1>5

\* Whether the person has an account is found as it is now.
LEMMA MappingGathered ==
    ASSUME NEW c, NEW d, NEW v, NEW w, WorldIsSound(v), WorldIsSound(w), DataChange(v, w),
           c.read \in PortalReads, Reading(c), Proceeds(c, d),
           c.todo # << >>, Head(c.todo)[1] = "mapping",
           d.todo = IF Head(c.todo)[2] \in w.mapped
                    THEN <<<<"moodle", Head(c.todo)[2]>>, <<"health", Head(c.todo)[2]>>>>
                    ELSE << >>,
           d.students = c.students, d.found = c.found
    PROVE  Reading(d) /\ Gathers(c, d, v, w)
<1> DEFINE p == c.person
<1>1. /\ d.read = c.read /\ d.person = p /\ d.section = c.section
      /\ Data(v, d, p) = Data(v, c, p) /\ Data(w, d, p) = Data(w, c, p)
  BY SameDataSought
<1>2. c.read \in Deadlines /\ c.todo = <<<<"mapping", p>>>>
  BY AtMapping DEF Deadlines
<1>3. Len(c.todo) = 1 /\ Head(c.todo)[2] = p
  BY <1>2, ListsOfSteps
<1>4. /\ d.todo # <<<<"mapping", p>>>> /\ d.todo # <<<<"health", p>>>>
      /\ p \in w.mapped => d.todo = <<<<"moodle", p>>, <<"health", p>>>> /\ Len(d.todo) = 2
                             /\ d.todo # << >>
      /\ p \notin w.mapped => d.todo = << >> /\ Len(d.todo) = 0
  <2>1. d.todo = IF p \in w.mapped THEN <<<<"moodle", p>>, <<"health", p>>>> ELSE << >>
    BY <1>3
  <2>2. CASE p \in w.mapped
    BY <2>1, <2>2
  <2>3. CASE p \notin w.mapped
    <3>1. d.todo = << >>
      BY <2>1, <2>3
    <3> QED BY <2>3, <3>1, ListsOfSteps
  <2> QED BY <2>2, <2>3
<1>5. Reading(d)
  BY <1>1, <1>2, <1>4 DEF Reading, Deadlines
<1>6. ASSUME Collected(c, v) PROVE Collected(d, w)
  <2>1. d.found = {}
    BY <1>2, <1>6, DeadlinesCollected
  <2>2. p \notin w.mapped => Data(w, d, p) = {}
    BY <1>1, <1>2, DeadlineData
  <2>3. /\ d.read \in Deadlines
        /\ d.todo = << >> => d.found = Data(w, d, d.person)
        /\ Len(d.todo) = 2 => d.person \in w.mapped /\ d.found = {}
        /\ d.todo = <<<<"health", d.person>>>> =>
             d.person \in w.mapped /\ d.found \in {{}, {<<"deadlines", d.person>>}}
        /\ d.todo = <<<<"mapping", d.person>>>> => d.found = {}
    BY <1>1, <1>2, <1>4, <2>1, <2>2
  <2> QED BY <2>3, DeadlinesCollected
<1>7. Stands(c, w) => Stands(d, w) /\ Adds(c, d, w)
  BY <1>1, <1>2, <1>4 DEF Stands, Adds, Deadlines
<1> QED BY <1>5, <1>6, <1>7 DEF Gathers

\* The account a person is mapped to stays the person's.
LEMMA MoodleGathered ==
    ASSUME NEW c, NEW d, NEW v, NEW w, WorldIsSound(v), WorldIsSound(w), DataChange(v, w),
           c.read \in PortalReads, Reading(c), Proceeds(c, d),
           c.todo # << >>, Head(c.todo)[1] = "moodle", d.todo = Tail(c.todo),
           d.students = c.students,
           d.found \in {c.found, c.found \union {<<"deadlines", Head(c.todo)[2]>>}}
    PROVE  Reading(d) /\ Gathers(c, d, v, w)
<1> DEFINE p == c.person
<1>1. /\ d.read = c.read /\ d.person = p /\ d.section = c.section
      /\ Data(v, d, p) = Data(v, c, p) /\ Data(w, d, p) = Data(w, c, p)
  BY SameDataSought
<1>2. c.read \in Deadlines /\ c.todo = <<<<"moodle", p>>, <<"health", p>>>>
  BY AtMoodle
<1>3. /\ d.todo = <<<<"health", p>>>> /\ Len(c.todo) = 2 /\ Len(d.todo) = 1
      /\ d.todo # << >> /\ d.todo # <<<<"mapping", p>>>> /\ Head(c.todo)[2] = p
  BY <1>2, ListsOfSteps
<1>4. Reading(d)
  BY <1>1, <1>2, <1>3 DEF Reading, Deadlines
<1>5. d.found = c.found \/ d.found = c.found \union {<<"deadlines", p>>}
  BY <1>3
<1>6. ASSUME Collected(c, v) PROVE Collected(d, v)
  <2>1. p \in v.mapped /\ c.found = {}
    BY <1>2, <1>3, <1>6, DeadlinesCollected
  <2>2. d.found \in {{}, {<<"deadlines", p>>}}
    BY <1>5, <2>1
  <2>3. /\ d.read \in Deadlines
        /\ d.todo = << >> => d.found = Data(v, d, d.person)
        /\ Len(d.todo) = 2 => d.person \in v.mapped /\ d.found = {}
        /\ d.todo = <<<<"health", d.person>>>> =>
             d.person \in v.mapped /\ d.found \in {{}, {<<"deadlines", d.person>>}}
        /\ d.todo = <<<<"mapping", d.person>>>> => d.found = {}
    BY <1>1, <1>2, <1>3, <2>1, <2>2
  <2> QED BY <2>3, DeadlinesCollected
<1>7. ASSUME Stands(c, w) PROVE Stands(d, w) /\ Adds(c, d, w)
  <2>1. p \in w.mapped
    BY <1>2, <1>3, <1>7 DEF Stands
  <2>2. <<"deadlines", p>> \in Data(w, c, p)
    BY <1>2, <2>1, DeadlineData
  <2> QED BY <1>1, <1>2, <1>3, <1>5, <2>2 DEF Stands, Adds, Deadlines
<1> QED BY <1>4, <1>6, <1>7 DEF Gathers

\* Deadlines that were found are the answer.
LEMMA HealthGathered ==
    ASSUME NEW c, NEW d, NEW v, NEW w, WorldIsSound(v), WorldIsSound(w), DataChange(v, w),
           c.read \in PortalReads, Reading(c), Proceeds(c, d),
           c.todo # << >>, Head(c.todo)[1] = "health", d.todo = Tail(c.todo),
           d.students = c.students, d.found = c.found, c.found # {}
    PROVE  Reading(d) /\ Gathers(c, d, v, w)
<1> DEFINE p == c.person
<1>1. /\ d.read = c.read /\ d.person = p /\ d.section = c.section
      /\ Data(v, d, p) = Data(v, c, p) /\ Data(w, d, p) = Data(w, c, p)
  BY SameDataSought
<1>2. c.read \in Deadlines /\ c.todo = <<<<"health", p>>>>
  BY AtHealth
<1>3. /\ d.todo = << >> /\ Len(c.todo) = 1 /\ Len(d.todo) = 0
      /\ d.todo # <<<<"mapping", p>>>> /\ d.todo # <<<<"health", p>>>>
  BY <1>2, ListsOfSteps
<1>4. Reading(d)
  BY <1>1, <1>2, <1>3 DEF Reading, Deadlines
<1>5. ASSUME Collected(c, v) PROVE Collected(d, v)
  <2>1. p \in v.mapped /\ c.found = {<<"deadlines", p>>}
    BY <1>2, <1>5, DeadlinesCollected
  <2>2. Data(v, d, p) = {<<"deadlines", p>>}
    BY <1>1, <1>2, <2>1, DeadlineData
  <2>3. /\ d.read \in Deadlines
        /\ d.todo = << >> => d.found = Data(v, d, d.person)
        /\ Len(d.todo) = 2 => d.person \in v.mapped /\ d.found = {}
        /\ d.todo = <<<<"health", d.person>>>> =>
             d.person \in v.mapped /\ d.found \in {{}, {<<"deadlines", d.person>>}}
        /\ d.todo = <<<<"mapping", d.person>>>> => d.found = {}
    BY <1>1, <1>2, <1>3, <2>1, <2>2
  <2> QED BY <2>3, DeadlinesCollected
<1>6. Stands(c, w) => Stands(d, w) /\ Adds(c, d, w)
  BY <1>1, <1>2, <1>3 DEF Stands, Adds, Deadlines
<1> QED BY <1>4, <1>5, <1>6 DEF Gathers

----------------------------------------------------------------------------
\* Longer lists of steps, from their first step on.
LEMMA LongListsOfSteps ==
    /\ \A a, b, c, d, e, f :
         /\ <<a, b, c, d, e, f>> # << >> /\ Head(<<a, b, c, d, e, f>>) = a
         /\ Tail(<<a, b, c, d, e, f>>) = <<b, c, d, e, f>> /\ Len(<<a, b, c, d, e, f>>) = 6
    /\ \A a, b, c, d, e, f, g :
         /\ <<a, b, c, d, e, f, g>> # << >> /\ Head(<<a, b, c, d, e, f, g>>) = a
         /\ Tail(<<a, b, c, d, e, f, g>>) = <<b, c, d, e, f, g>>
         /\ Len(<<a, b, c, d, e, f, g>>) = 7
    /\ \A a, b, c, d, e, f, g, h :
         /\ <<a, b, c, d, e, f, g, h>> # << >> /\ Head(<<a, b, c, d, e, f, g, h>>) = a
         /\ Tail(<<a, b, c, d, e, f, g, h>>) = <<b, c, d, e, f, g, h>>
         /\ Len(<<a, b, c, d, e, f, g, h>>) = 8
    /\ \A a, b, c, d, e, f, g, h, i :
         /\ <<a, b, c, d, e, f, g, h, i>> # << >> /\ Head(<<a, b, c, d, e, f, g, h, i>>) = a
         /\ Tail(<<a, b, c, d, e, f, g, h, i>>) = <<b, c, d, e, f, g, h, i>>
         /\ Len(<<a, b, c, d, e, f, g, h, i>>) = 9
OBVIOUS

\* The step a read is at when so many are left that resolve who asks.
StepAt(via, n) ==
    CASE n = 1 -> "profile" [] n = 2 -> "person" [] n = 3 -> "ownership"
      [] via = "mcp" /\ n = 4 -> "feature" [] via = "mcp" /\ n = 5 -> "organization"
      [] via = "mcp" /\ n = 6 -> "roles" [] via = "mcp" /\ n = 7 -> "membership"
      [] via = "mcp" /\ n = 8 -> "organization" [] via = "mcp" /\ n = 9 -> "subject"
      [] via # "mcp" /\ n = 4 -> "roles" [] via # "mcp" /\ n = 5 -> "membership"
      [] via # "mcp" /\ n = 6 -> "organization"
Span(via) == IF via = "mcp" THEN 1 .. 9 ELSE 1 .. 6

\* Where a read is, by the number of steps left.
Placed(todo, via) ==
    /\ todo # << >> /\ Len(todo) \in Span(via)
    /\ Head(todo) = <<StepAt(via, Len(todo)), Nobody>>
    /\ Len(todo) # 1 => Tail(todo) \in WhoAsks(via) /\ Len(Tail(todo)) = Len(todo) - 1
    /\ Len(todo) = 1 => Tail(todo) = << >>

\* The steps that resolve who asks are taken in order.
LEMMA StepsAreInOrder ==
    ASSUME NEW todo, NEW via \in {"portal", "mcp"}, todo \in WhoAsks(via)
    PROVE  Placed(todo, via)
<1> DEFINE S == <<"subject", Nobody>>  O == <<"organization", Nobody>>
           M == <<"membership", Nobody>>  R == <<"roles", Nobody>>
           E == <<"feature", Nobody>>  W == <<"ownership", Nobody>>
           P == <<"person", Nobody>>  F == <<"profile", Nobody>>
<1>1. CASE todo = <<F>>
  BY <1>1, ListsOfSteps DEF Placed, StepAt, Span
<1>2. CASE todo = <<P, F>>
  <2>1. /\ Tail(todo) \in WhoAsks(via) /\ Len(todo) = 2 /\ Len(Tail(todo)) = 1
        /\ Head(todo) = P /\ todo # << >>
    BY <1>2, ListsOfSteps DEF WhoAsks
  <2> QED BY <2>1 DEF Placed, StepAt, Span
<1>3. CASE todo = <<W, P, F>>
  <2>1. /\ Tail(todo) \in WhoAsks(via) /\ Len(todo) = 3 /\ Len(Tail(todo)) = 2
        /\ Head(todo) = W /\ todo # << >>
    BY <1>3, ListsOfSteps DEF WhoAsks
  <2> QED BY <2>1 DEF Placed, StepAt, Span
<1>4. CASE via = "mcp" /\ todo = <<E, W, P, F>>
  <2>1. /\ Tail(todo) \in WhoAsks(via) /\ Len(todo) = 4 /\ Len(Tail(todo)) = 3
        /\ Head(todo) = E /\ todo # << >>
    BY <1>4, ListsOfSteps DEF WhoAsks
  <2> QED BY <1>4, <2>1 DEF Placed, StepAt, Span
<1>5. CASE via = "mcp" /\ todo = <<O, E, W, P, F>>
  <2>1. /\ Tail(todo) \in WhoAsks(via) /\ Len(todo) = 5 /\ Len(Tail(todo)) = 4
        /\ Head(todo) = O /\ todo # << >>
    BY <1>5, ListsOfSteps DEF WhoAsks
  <2> QED BY <1>5, <2>1 DEF Placed, StepAt, Span
<1>6. CASE via = "mcp" /\ todo = <<R, O, E, W, P, F>>
  <2>1. /\ Tail(todo) \in WhoAsks(via) /\ Len(todo) = 6 /\ Len(Tail(todo)) = 5
        /\ Head(todo) = R /\ todo # << >>
    BY <1>6, ListsOfSteps, LongListsOfSteps DEF WhoAsks
  <2> QED BY <1>6, <2>1 DEF Placed, StepAt, Span
<1>7. CASE via = "mcp" /\ todo = <<M, R, O, E, W, P, F>>
  <2>1. /\ Tail(todo) \in WhoAsks(via) /\ Len(todo) = 7 /\ Len(Tail(todo)) = 6
        /\ Head(todo) = M /\ todo # << >>
    BY <1>7, ListsOfSteps, LongListsOfSteps DEF WhoAsks
  <2> QED BY <1>7, <2>1 DEF Placed, StepAt, Span
<1>8. CASE via = "mcp" /\ todo = <<O, M, R, O, E, W, P, F>>
  <2>1. /\ Tail(todo) \in WhoAsks(via) /\ Len(todo) = 8 /\ Len(Tail(todo)) = 7
        /\ Head(todo) = O /\ todo # << >>
    BY <1>8, ListsOfSteps, LongListsOfSteps DEF WhoAsks
  <2> QED BY <1>8, <2>1 DEF Placed, StepAt, Span
<1>9. CASE via = "mcp" /\ todo = <<S, O, M, R, O, E, W, P, F>>
  <2>1. /\ Tail(todo) \in WhoAsks(via) /\ Len(todo) = 9 /\ Len(Tail(todo)) = 8
        /\ Head(todo) = S /\ todo # << >>
    BY <1>9, ListsOfSteps, LongListsOfSteps DEF WhoAsks
  <2> QED BY <1>9, <2>1 DEF Placed, StepAt, Span
<1>10. CASE via # "mcp" /\ todo = <<R, W, P, F>>
  <2>1. /\ Tail(todo) \in WhoAsks(via) /\ Len(todo) = 4 /\ Len(Tail(todo)) = 3
        /\ Head(todo) = R /\ todo # << >>
    BY <1>10, ListsOfSteps DEF WhoAsks
  <2> QED BY <1>10, <2>1 DEF Placed, StepAt, Span
<1>11. CASE via # "mcp" /\ todo = <<M, R, W, P, F>>
  <2>1. /\ Tail(todo) \in WhoAsks(via) /\ Len(todo) = 5 /\ Len(Tail(todo)) = 4
        /\ Head(todo) = M /\ todo # << >>
    BY <1>11, ListsOfSteps DEF WhoAsks
  <2> QED BY <1>11, <2>1 DEF Placed, StepAt, Span
<1>12. CASE via # "mcp" /\ todo = <<O, M, R, W, P, F>>
  <2>1. /\ Tail(todo) \in WhoAsks(via) /\ Len(todo) = 6 /\ Len(Tail(todo)) = 5
        /\ Head(todo) = O /\ todo # << >>
    BY <1>12, ListsOfSteps, LongListsOfSteps DEF WhoAsks
  <2> QED BY <1>12, <2>1 DEF Placed, StepAt, Span
<1>13. \/ todo \in {<<F>>, <<P, F>>, <<W, P, F>>}
       \/ via = "mcp" /\ todo \in {<<E, W, P, F>>, <<O, E, W, P, F>>, <<R, O, E, W, P, F>>,
                        <<M, R, O, E, W, P, F>>, <<O, M, R, O, E, W, P, F>>,
                        <<S, O, M, R, O, E, W, P, F>>}
       \/ via # "mcp" /\ todo \in {<<R, W, P, F>>, <<M, R, W, P, F>>, <<O, M, R, W, P, F>>}
  BY DEF WhoAsks
<1> QED BY ONLY <1>1, <1>2, <1>3, <1>4, <1>5, <1>6, <1>7, <1>8, <1>9, <1>10, <1>11, <1>12, <1>13

\* What a read is at is what resolves who asks, or what reads data.
Vets == {"subject", "organization", "membership", "roles", "feature", "ownership",
         "person", "profile"}

\* Steps that resolve who asks are of no read.
LEMMA ReadingVetsNobody ==
    ASSUME NEW c, Reading(c), c.todo # << >>
    PROVE  Head(c.todo)[1] \notin Vets /\ c.todo \notin WhoAsks(c.via)
<1>1. Head(c.todo)[1] \in {"enrollments", "attendance", "sessions", "sections", "rooms", "grades",
         "courses", "events", "mapping", "moodle", "health", "teaching", "assigned",
         "assignment", "roster", "names", "evidence", "linked"}
  BY DEF Reading, ReportOf
<1>2. Head(c.todo)[1] \notin Vets
  BY <1>1 DEF Vets
<1>3. ASSUME c.todo \in WhoAsks(c.via) PROVE FALSE
  BY <1>2, <1>3 DEF WhoAsks, Vets
<1> QED BY <1>2, <1>3

----------------------------------------------------------------------------
\* Roles grant what is asked of who owns a profile of their kind, and no other role does.
LEMMA KindsAreGranted ==
    ASSUME NEW roles \in SUBSET Roles, NEW kind \in {"student", "teacher", "guardian"}
    PROVE  /\ ProfilePermission[kind] \in PermissionsOf(roles) <=> kind \in roles
           /\ kind \in roles => Permissions[kind] \subseteq PermissionsOf(roles)
<1> DEFINE grants == [r \in roles |-> Permissions[r]]
<1>1. Roles = {"student", "teacher", "guardian", "organization_owner"}
  BY DEF Roles, Permissions
<1>2. \A r \in Roles : ProfilePermission[kind] \in Permissions[r] <=> r = kind
  BY <1>1 DEF Permissions, ProfilePermission
<1>3. \A x : x \in PermissionsOf(roles) <=> \E r \in roles : x \in Permissions[r]
  BY DEF PermissionsOf
<1> QED BY <1>1, <1>2, <1>3

\* Every read is for one kind of person.
LEMMA ReadsHaveKinds ==
    ASSUME NEW r \in PortalReads
    PROVE  KindOf(r) \in {"student", "teacher", "guardian"}
BY Kinds DEF PortalReads

\* The step before the roles are known.
IsAtRoles(c) == Left(c) = (IF c.via = "mcp" THEN 6 ELSE 4)

\* One more step that resolves who asks is passed, as the world is.
Passes(c, d, w) ==
    LET n == Left(c)
    IN  /\ Alike(c, d) /\ Left(d) = n - 1
        /\ c.via = "mcp" /\ n = 9 => w.registered
        /\ c.via = "mcp" /\ n = 4 => w.feature
        /\ IsAtRoles(c) => d.permissions = PermissionsOf(w.roles)
        /\ ~IsAtRoles(c) => d.permissions = c.permissions
        /\ n = 3 => w.organization = "active" /\ Granted(c)
        /\ n = 2 => w.member = "active" /\ d.person = w.person /\ d.person \in People
        /\ n # 2 => d.person = c.person

\* What is found out by one step more.
LEMMA IdentifiedByStep ==
    ASSUME NEW c, NEW d, NEW w, NEW x, Passes(c, d, w), Identified(c, x),
           Left(c) \in 2 .. 9,
           c.via = "mcp" /\ Left(c) = 9 => x.registered,
           c.via = "mcp" /\ Left(c) = 4 => x.feature,
           Left(c) = 3 => x.organization = "active",
           Left(c) = 2 => x.member = "active" /\ x.person = w.person
    PROVE  Identified(d, x)
<1> DEFINE n == Left(c)
<1>1. d.via = c.via /\ d.read = c.read
  BY DEF Passes, Alike
<1>2. Left(d) = n - 1
  BY DEF Passes
<1>3. d.via = "mcp" /\ Left(d) <= 8 => x.registered
  BY <1>1, <1>2 DEF Identified
<1>4. d.via = "mcp" /\ Left(d) <= 3 => x.feature
  BY <1>1, <1>2 DEF Identified
<1>5. Left(d) <= 2 => x.organization = "active" /\ Granted(d)
  <2>1. n <= 3 => ~IsAtRoles(c)
    BY DEF IsAtRoles
  <2>2. n <= 3 => d.permissions = c.permissions
    BY <2>1 DEF Passes
  <2>3. n <= 3 => x.organization = "active"
    BY DEF Identified
  <2>4. n <= 3 => Granted(c)
    BY DEF Identified, Passes
  <2>5. n <= 3 => Granted(d)
    BY <1>1, <2>2, <2>4 DEF Granted
  <2> QED BY <1>2, <2>3, <2>5
<1>6. Left(d) <= 1 => x.member = "active" /\ d.person = x.person /\ d.person \in People
  BY <1>2 DEF Passes
<1> QED BY <1>3, <1>4, <1>5, <1>6 DEF Identified

\* What was found out depends on part of the world, by the steps that are left.
LEMMA IdentifiedAlike ==
    ASSUME NEW c, NEW v, NEW w, Identified(c, v), v.registered = w.registered,
           Left(c) > 3 \/ v.feature = w.feature,
           Left(c) > 2 \/ v.organization = w.organization,
           Left(c) > 1 \/ (v.member = w.member /\ v.person = w.person),
           Left(c) \in 1 .. 9
    PROVE  Identified(c, w)
<1>1. c.via = "mcp" /\ Left(c) <= 8 => w.registered
  BY DEF Identified
<1>2. c.via = "mcp" /\ Left(c) <= 3 => w.feature
  BY DEF Identified
<1>3. Left(c) <= 2 => w.organization = "active" /\ Granted(c)
  BY DEF Identified
<1>4. Left(c) <= 1 => w.member = "active" /\ c.person = w.person /\ c.person \in People
  BY DEF Identified
<1> QED BY <1>1, <1>2, <1>3, <1>4 DEF Identified

\* What has been found out of who asks is as one of two worlds one change apart has it.
LEMMA PassesAreVetted ==
    ASSUME NEW c, NEW d, NEW v, NEW w, WorldIsSound(w), OneChange(v, w),
           c.read \in PortalReads, c.via \in {"portal", "mcp"}, Left(c) \in 2 .. 9,
           Passes(c, d, w)
    PROVE  /\ Vetting(c, w) => Vetting(d, w)
           /\ Vetting(c, v) => Vetting(d, v) \/ Vetting(d, w)
<1> DEFINE kind == KindOf(c.read)
           n == Left(c)
<1>1. kind \in {"student", "teacher", "guardian"} /\ w.roles \in SUBSET Roles
  BY ReadsHaveKinds, SoundWorlds
<1>2. d.via = c.via /\ d.read = c.read
  BY DEF Passes, Alike
<1>3. IsAtRoles(c) => (Granted(d) <=> kind \in w.roles)
  BY <1>1, <1>2, KindsAreGranted DEF Passes, Granted
<1>4. ~IsAtRoles(c) => (Granted(d) <=> Granted(c))
  BY <1>2 DEF Passes, Granted
<1>5. ASSUME Identified(c, w) PROVE Identified(d, w)
  <2>1. /\ c.via = "mcp" /\ n = 9 => w.registered
        /\ c.via = "mcp" /\ n = 4 => w.feature
        /\ n = 3 => w.organization = "active"
        /\ n = 2 => w.member = "active" /\ w.person = w.person
    BY DEF Passes
  <2> QED BY <1>5, <2>1, IdentifiedByStep
<1>6. ASSUME Vetting(c, w) PROVE Vetting(d, w)
  BY <1>2, <1>3, <1>4, <1>5, <1>6 DEF Vetting
<1>7. v.registered = w.registered
  BY DEF OneChange, DataChange, Grows
<1>8. ASSUME Vetting(c, v) PROVE Vetting(d, v) \/ Vetting(d, w)
  <2>1. Identified(c, v) /\ (Granted(c) => kind \in v.roles)
    BY <1>8 DEF Vetting
  <2>2. n > 1 /\ n \in 1 .. 9
    OBVIOUS
  <2>3. SameRights(v, w) \/ RightsChange(v, w)
    BY DEF OneChange, DataChange
  <2>4. CASE SameRights(v, w)
    <3>1. Identified(c, w)
      BY <1>7, <2>1, <2>2, <2>4, IdentifiedAlike DEF SameRights
    <3>2. Vetting(c, w)
      BY <2>1, <2>4, <3>1 DEF SameRights, Vetting
    <3> QED BY <1>6, <3>2
  <2>5. ASSUME v.roles = w.roles, Identified(d, v) \/ Identified(d, w)
        PROVE  Vetting(d, v) \/ Vetting(d, w)
    BY <1>2, <1>3, <1>4, <2>1, <2>5 DEF Vetting
  <2>6. CASE /\ v.member = w.member /\ v.person = w.person
             /\ v.roles = w.roles /\ v.feature = w.feature
    <3>1. CASE n = 3
      <4>1. Identified(c, w)
        BY <1>7, <2>1, <2>2, <2>6, <3>1, IdentifiedAlike
      <4> QED BY <1>5, <2>5, <2>6, <4>1
    <3>2. CASE n # 3
      <4>1. /\ c.via = "mcp" /\ n = 9 => v.registered
            /\ c.via = "mcp" /\ n = 4 => v.feature
            /\ n = 3 => v.organization = "active"
            /\ n = 2 => v.member = "active" /\ v.person = w.person
        BY <1>7, <2>6, <3>2 DEF Passes
      <4>2. Identified(d, v)
        BY <2>1, <4>1, IdentifiedByStep
      <4> QED BY <2>5, <2>6, <4>2
    <3> QED BY <3>1, <3>2
  <2>7. CASE /\ v.organization = w.organization /\ v.person = w.person
             /\ v.roles = w.roles /\ v.feature = w.feature
    <3>1. CASE n = 2
      <4>1. Identified(c, w)
        BY <1>7, <2>1, <2>2, <2>7, IdentifiedAlike
      <4> QED BY <1>5, <2>5, <2>7, <4>1
    <3>2. CASE n # 2
      <4>1. /\ c.via = "mcp" /\ n = 9 => v.registered
            /\ c.via = "mcp" /\ n = 4 => v.feature
            /\ n = 3 => v.organization = "active"
            /\ n = 2 => v.member = "active" /\ v.person = w.person
        BY <1>7, <2>7, <3>2 DEF Passes
      <4>2. Identified(d, v)
        BY <2>1, <4>1, IdentifiedByStep
      <4> QED BY <2>5, <2>7, <4>2
    <3> QED BY <3>1, <3>2
  <2>8. CASE /\ v.organization = w.organization /\ v.member = w.member
             /\ v.person = w.person /\ v.feature = w.feature
    <3>1. Identified(c, w)
      BY <1>7, <2>1, <2>2, <2>8, IdentifiedAlike
    <3>2. CASE IsAtRoles(c)
      BY <1>2, <1>3, <1>5, <3>1, <3>2 DEF Vetting
    <3>3. CASE ~IsAtRoles(c)
      <4>1. /\ c.via = "mcp" /\ n = 9 => v.registered
            /\ c.via = "mcp" /\ n = 4 => v.feature
            /\ n = 3 => v.organization = "active"
            /\ n = 2 => v.member = "active" /\ v.person = w.person
        BY <1>7, <2>8 DEF Passes
      <4>2. Identified(d, v)
        BY <2>1, <4>1, IdentifiedByStep
      <4> QED BY <1>2, <1>4, <2>1, <3>3, <4>2 DEF Vetting
    <3> QED BY <3>2, <3>3
  <2>9. CASE /\ v.organization = w.organization /\ v.member = w.member
             /\ v.person = w.person /\ v.roles = w.roles
    <3>1. CASE n > 3
      <4>1. Identified(c, w)
        BY <1>7, <2>1, <2>2, <2>9, <3>1, IdentifiedAlike
      <4> QED BY <1>5, <2>5, <2>9, <4>1
    <3>2. CASE ~(n > 3)
      <4>1. /\ c.via = "mcp" /\ n = 9 => v.registered
            /\ c.via = "mcp" /\ n = 4 => v.feature
            /\ n = 3 => v.organization = "active"
            /\ n = 2 => v.member = "active" /\ v.person = w.person
        BY <1>7, <2>9, <3>2 DEF Passes
      <4>2. Identified(d, v)
        BY <2>1, <4>1, IdentifiedByStep
      <4> QED BY <2>5, <2>9, <4>2
    <3> QED BY <3>1, <3>2
  <2>10. CASE /\ v.organization = w.organization /\ v.feature = w.feature
              /\ w.member = "active" /\ v.roles \subseteq w.roles
    <3>0. v.organization = w.organization /\ v.feature = w.feature
      BY <2>10
    <3>1. Identified(c, w)
      BY <1>7, <2>1, <2>2, <3>0, IdentifiedAlike
    <3>2. Vetting(c, w)
      BY <2>1, <2>10, <3>1 DEF Vetting
    <3> QED BY <1>6, <3>2
  <2> QED BY <2>3, <2>4, <2>6, <2>7, <2>8, <2>9, <2>10 DEF RightsChange
<1> QED BY <1>6, <1>8

----------------------------------------------------------------------------
\* A refusal keeps everything but where the call is.
Keeps(c, d) ==
    /\ DOMAIN d = Fields /\ Alike(c, d) /\ d.todo = c.todo /\ d.permissions = c.permissions
    /\ d.person = c.person /\ d.active = c.active /\ d.sections = c.sections
    /\ d.students = c.students /\ d.found = c.found
Refused(c, d, outcome) == Keeps(c, d) /\ d.stage = "refused" /\ d.outcome = outcome

\* Refusing keeps what was found.
LEMMA RefusalsKeep ==
    ASSUME NEW outcome, DOMAIN call = Fields, Refuse(outcome)
    PROVE  Refused(call, call', outcome)
BY DEF Refuse, Refused, Keeps, Alike, Fields

\* One step less is to be taken.
Advances(c, d) ==
    /\ DOMAIN d = Fields /\ Alike(c, d) /\ d.stage = c.stage /\ d.outcome = c.outcome
    /\ d.found = c.found /\ d.students = c.students /\ d.todo = Tail(c.todo)

\* A check that holds is a step less, one that fails refuses.
LEMMA ChecksAdvance ==
    ASSUME NEW holds, DOMAIN call = Fields, Check(holds)
    PROVE  \/ /\ holds /\ Advances(call, call')
              /\ call'.permissions = call.permissions /\ call'.person = call.person
           \/ ~holds /\ Refused(call, call', "denied")
<1>1. CASE holds
  <2>1. call' = [call EXCEPT !.todo = Tail(@), !.found = @ \union {}]
    BY <1>1 DEF Check, Found
  <2>2. /\ DOMAIN call' = Fields /\ call'.found = call.found \union {}
        /\ call'.via = call.via /\ call'.read = call.read /\ call'.section = call.section
        /\ call'.stage = call.stage /\ call'.outcome = call.outcome
        /\ call'.students = call.students /\ call'.todo = Tail(call.todo)
        /\ call'.permissions = call.permissions /\ call'.person = call.person
    BY <2>1 DEF Fields
  <2> QED BY <1>1, <2>2 DEF Advances, Alike
<1>2. CASE ~holds
  BY <1>2, RefusalsKeep DEF Check
<1> QED BY <1>1, <1>2

\* A step that resolves who asks passes, or refuses who may not read.
VetsOrRefuses(c, d, w) ==
    \/ Refused(c, d, "denied") /\ ~May(w, c)
    \/ Advances(c, d) /\ Passes(c, d, w) /\ Left(c) \in 2 .. 9

\* Only the step before the roles are known changes the permissions.
LEMMA AdvancesPass ==
    ASSUME NEW c, NEW d, NEW w, Advances(c, d), Left(c) \in 2 .. 9, Placed(c.todo, c.via),
           d.permissions = c.permissions, d.person = c.person,
           ~IsAtRoles(c), Left(c) # 2,
           c.via = "mcp" /\ Left(c) = 9 => w.registered,
           c.via = "mcp" /\ Left(c) = 4 => w.feature,
           Left(c) = 3 => w.organization = "active" /\ Granted(c)
    PROVE  VetsOrRefuses(c, d, w)
<1>1. Left(d) = Left(c) - 1
  BY DEF Advances, Placed, Left
<1>2. Passes(c, d, w)
  BY <1>1 DEF Passes, Advances
<1> QED BY <1>2 DEF VetsOrRefuses

\* The steps before the person's profile is read.
LEMMA WhoAsksIsVetted ==
    ASSUME Nobody \notin People, CallFits(call), Resolving(call), WorldIsSound(world),
           \/ VerifiedSubject \/ OrganizationIsActive \/ MembershipForIdentity
           \/ RolesOfMembership \/ FeatureEnabled \/ ResolvePerson
    PROVE  VetsOrRefuses(call, call', world)
<1> DEFINE n == Left(call)
<1>1. DOMAIN call = Fields /\ call.via \in {"portal", "mcp"} /\ call.read \in PortalReads
  BY DEF CallFits
<1>2. Placed(call.todo, call.via)
  BY <1>1, StepsAreInOrder DEF Resolving
<1>3. n \in 1 .. 9 /\ Head(call.todo)[1] = StepAt(call.via, n) /\ (call.via # "mcp" => n \in 1 .. 6)
  <2>1. Len(call.todo) \in Span(call.via) /\ Head(call.todo) = <<StepAt(call.via, n), Nobody>>
    BY <1>2 DEF Placed, Left
  <2>2. n \in Span(call.via)
    BY <2>1 DEF Left
  <2>3. n \in 1 .. 9 /\ (call.via # "mcp" => n \in 1 .. 6)
    BY <1>1, <2>2 DEF Span
  <2> QED BY <2>1, <2>3
<1>4. CASE VerifiedSubject
  <2>1. StepAt(call.via, n) = "subject" /\ Check(world.registered)
    BY <1>3, <1>4 DEF VerifiedSubject, At
  <2>2. call.via = "mcp" /\ n = 9
    BY <1>3, <2>1 DEF StepAt
  <2>3. CASE world.registered
    <3>1. /\ Advances(call, call') /\ call'.permissions = call.permissions
          /\ call'.person = call.person
      BY <1>1, <2>1, <2>3, ChecksAdvance
    <3>2. n \in 2 .. 9 /\ n # 2 /\ ~IsAtRoles(call)
      BY <1>1, <1>3, <2>2 DEF IsAtRoles
    <3>3. /\ call.via = "mcp" /\ n = 9 => world.registered
          /\ call.via = "mcp" /\ n = 4 => world.feature
          /\ n = 3 => world.organization = "active" /\ Granted(call)
      BY <2>1, <2>2, <2>3
    <3> QED BY <1>2, <3>1, <3>2, <3>3, AdvancesPass
  <2>4. CASE ~world.registered
    BY <1>1, <2>1, <2>2, <2>4, ChecksAdvance DEF May, VetsOrRefuses
  <2> QED BY <2>3, <2>4
<1>5. CASE OrganizationIsActive
  <2>1. /\ StepAt(call.via, n) \in {"organization", "ownership"}
        /\ Check(world.organization = "active")
        /\ StepAt(call.via, n) = "ownership" => Granted(call)
    <3>1. PICK step \in {"organization", "ownership"} :
            At(step) /\ Check(world.organization = "active")
      BY <1>5 DEF OrganizationIsActive
    <3>2. step = "ownership" => Granted(call)
      BY <3>1 DEF At, Requires, Granted
    <3> QED BY <1>3, <3>1, <3>2 DEF At
  <2>2. n \in 3 .. 9 /\ ~IsAtRoles(call) /\ ~(call.via = "mcp" /\ n \in {4, 9})
        /\ (n = 3 => StepAt(call.via, n) = "ownership")
    BY <1>1, <1>3, <2>1 DEF StepAt, IsAtRoles
  <2>3. CASE world.organization = "active"
    <3>1. /\ Advances(call, call') /\ call'.permissions = call.permissions
          /\ call'.person = call.person
      BY <1>1, <2>1, <2>3, ChecksAdvance
    <3>2. n \in 2 .. 9 /\ n # 2 /\ ~IsAtRoles(call)
      BY <1>1, <1>3, <2>2 DEF IsAtRoles
    <3>3. /\ call.via = "mcp" /\ n = 9 => world.registered
          /\ call.via = "mcp" /\ n = 4 => world.feature
          /\ n = 3 => world.organization = "active" /\ Granted(call)
      BY <2>1, <2>2, <2>3
    <3> QED BY <1>2, <3>1, <3>2, <3>3, AdvancesPass
  <2>4. CASE world.organization # "active"
    BY <1>1, <2>1, <2>4, ChecksAdvance DEF May, VetsOrRefuses
  <2> QED BY <2>3, <2>4
<1>6. CASE MembershipForIdentity
  <2>1. StepAt(call.via, n) = "membership" /\ Check(world.member = "active")
    BY <1>3, <1>6 DEF MembershipForIdentity, At
  <2>2. n \in {5, 7} /\ ~IsAtRoles(call)
    BY <1>1, <1>3, <2>1 DEF StepAt, IsAtRoles
  <2>3. CASE world.member = "active"
    <3>1. /\ Advances(call, call') /\ call'.permissions = call.permissions
          /\ call'.person = call.person
      BY <1>1, <2>1, <2>3, ChecksAdvance
    <3>2. n \in 2 .. 9 /\ n # 2 /\ ~IsAtRoles(call)
      BY <1>1, <1>3, <2>2 DEF IsAtRoles
    <3>3. /\ call.via = "mcp" /\ n = 9 => world.registered
          /\ call.via = "mcp" /\ n = 4 => world.feature
          /\ n = 3 => world.organization = "active" /\ Granted(call)
      BY <2>1, <2>2, <2>3
    <3> QED BY <1>2, <3>1, <3>2, <3>3, AdvancesPass
  <2>4. CASE world.member # "active"
    BY <1>1, <2>1, <2>4, ChecksAdvance DEF May, VetsOrRefuses
  <2> QED BY <2>3, <2>4
<1>7. CASE FeatureEnabled
  <2>1. StepAt(call.via, n) = "feature" /\ Check(world.feature)
    BY <1>3, <1>7 DEF FeatureEnabled, At
  <2>2. call.via = "mcp" /\ n = 4
    BY <1>3, <2>1 DEF StepAt
  <2>3. CASE world.feature
    <3>1. /\ Advances(call, call') /\ call'.permissions = call.permissions
          /\ call'.person = call.person
      BY <1>1, <2>1, <2>3, ChecksAdvance
    <3>2. n \in 2 .. 9 /\ n # 2 /\ ~IsAtRoles(call)
      BY <1>1, <1>3, <2>2 DEF IsAtRoles
    <3>3. /\ call.via = "mcp" /\ n = 9 => world.registered
          /\ call.via = "mcp" /\ n = 4 => world.feature
          /\ n = 3 => world.organization = "active" /\ Granted(call)
      BY <2>1, <2>2, <2>3
    <3> QED BY <1>2, <3>1, <3>2, <3>3, AdvancesPass
  <2>4. CASE ~world.feature
    BY <1>1, <2>1, <2>2, <2>4, ChecksAdvance DEF May, VetsOrRefuses
  <2> QED BY <2>3, <2>4
<1>8. CASE RolesOfMembership
  <2>1. /\ StepAt(call.via, n) = "roles"
        /\ call' = [call EXCEPT !.todo = Tail(@), !.permissions = PermissionsOf(world.roles)]
    BY <1>3, <1>8 DEF RolesOfMembership, At
  <2>2. n \in {4, 6} /\ IsAtRoles(call) /\ ~(call.via = "mcp" /\ n = 4)
    BY <1>1, <1>3, <2>1 DEF StepAt, IsAtRoles
  <2>3. /\ Advances(call, call') /\ call'.permissions = PermissionsOf(world.roles)
        /\ call'.person = call.person
    BY <1>1, <2>1 DEF Advances, Alike, Fields
  <2>4. Left(call') = n - 1
    BY <1>2, <2>2, <2>3 DEF Advances, Placed, Left
  <2>5. Passes(call, call', world)
    BY <2>2, <2>3, <2>4 DEF Passes, Advances
  <2> QED BY <2>2, <2>3, <2>5 DEF VetsOrRefuses
<1>9. CASE ResolvePerson
  <2>1. StepAt(call.via, n) = "person"
    BY <1>3, <1>9 DEF ResolvePerson, At
  <2>2. n = 2 /\ ~IsAtRoles(call)
    BY <1>1, <1>3, <2>1 DEF StepAt, IsAtRoles
  <2>3. CASE world.member = "active" /\ world.person # Nobody
    <3>1. call' = [call EXCEPT !.todo = Tail(@), !.person = world.person]
      BY <1>9, <2>3 DEF ResolvePerson
    <3>2. /\ Advances(call, call') /\ call'.person = world.person
          /\ call'.permissions = call.permissions
      BY <1>1, <3>1 DEF Advances, Alike, Fields
    <3>3. Left(call') = n - 1
      BY <1>2, <2>2, <3>2 DEF Advances, Placed, Left
    <3>4. world.person \in People
      BY <2>3, SoundWorlds
    <3>5. Passes(call, call', world)
      BY <2>2, <2>3, <3>2, <3>3, <3>4 DEF Passes, Advances
    <3> QED BY <2>2, <3>2, <3>5 DEF VetsOrRefuses
  <2>4. CASE world.member # "active" \/ world.person = Nobody
    <3>1. Refused(call, call', "denied")
      BY <1>1, <1>9, <2>4, RefusalsKeep DEF ResolvePerson
    <3>2. ~May(world, call)
      <4>1. <<Nobody, KindOf(call.read)>> \notin world.profiles
        BY SoundWorlds
      <4> QED BY <2>4, <4>1 DEF May
    <3> QED BY <3>1, <3>2 DEF VetsOrRefuses
  <2> QED BY <2>3, <2>4
<1> QED BY <1>4, <1>5, <1>6, <1>7, <1>8, <1>9

----------------------------------------------------------------------------
\* A read that begins with the person known has found nothing but the profile.
Starts(d) ==
    /\ d.todo = Steps(d.read, d.person, d.section) /\ d.students = {}
    /\ d.read = "student_profile" => d.found = {<<"profile", d.person>>}
    /\ d.read # "student_profile" => d.found = {}

\* It is at the start of its list, and what it has found is the person's in any world.
Started(d) ==
    /\ Reading(d)
    /\ \A w : Collected(d, w) /\ Stands(d, w) /\ d.found \subseteq Data(w, d, d.person)

\* Where a student schedule read begins.
LEMMA StartStudentSchedule ==
    ASSUME NEW d, Starts(d), d.read = "student_schedule"
    PROVE  Started(d)
<1> DEFINE p == d.person
           s == d.section
<1>1. d.todo = <<<<"enrollments", p>>, <<"attendance", p>>, <<"sessions", p>>,
             <<"sections", p>>, <<"rooms", p>>>>
  BY ScheduleSteps, StepsOfReads DEF Starts
<1>2. Len(d.todo) = 5
  BY <1>1, ListsOfSteps
<1>3. d.found = {} /\ d.students = {}
  BY DEF Starts
<1>4. Reading(d)
  BY <1>1 DEF Reading, ReportOf
<1>5. ASSUME NEW w PROVE Collected(d, w) /\ Stands(d, w) /\ d.found \subseteq Data(w, d, p)
  <2>1. Collected(d, w)
    BY <1>2, <1>3 DEF Collected, FoundAt, Deadlines
  <2> QED BY <1>2, <1>3, <2>1 DEF Stands, Deadlines
<1> QED BY <1>4, <1>5 DEF Started

\* Where a student profile read begins.
LEMMA StartStudentProfile ==
    ASSUME NEW d, Starts(d), d.read = "student_profile"
    PROVE  Started(d)
<1> DEFINE p == d.person
           s == d.section
<1>1. d.todo = << >>
  BY StepsOfReads DEF Starts
<1>2. Len(d.todo) = 0
  BY <1>1, ListsOfSteps
<1>3. d.found = {<<"profile", p>>} /\ d.students = {}
  BY DEF Starts
<1>4. Reading(d)
  BY <1>1 DEF Reading, ReportOf
<1>5. ASSUME NEW w PROVE Collected(d, w) /\ Stands(d, w) /\ d.found \subseteq Data(w, d, p)
  <2>1. Data(w, d, p) = {<<"profile", p>>}
    BY DEF Data
  <2>2. Collected(d, w)
    BY <1>2, <1>3, <2>1 DEF Collected, FoundAt, Deadlines
  <2> QED BY <1>3, <2>1, <2>2 DEF Stands, Deadlines
<1> QED BY <1>4, <1>5 DEF Started

\* Where a student grades read begins.
LEMMA StartStudentGrades ==
    ASSUME NEW d, Starts(d), d.read = "student_grades"
    PROVE  Started(d)
<1> DEFINE p == d.person
           s == d.section
<1>1. d.todo = <<<<"enrollments", p>>, <<"attendance", p>>, <<"grades", p>>, <<"courses", p>>>>
  BY ReportSteps, StepsOfReads DEF Starts
<1>2. Len(d.todo) = 4
  BY <1>1, ListsOfSteps
<1>3. d.found = {} /\ d.students = {}
  BY DEF Starts
<1>4. Reading(d)
  BY <1>1 DEF Reading, ReportOf
<1>5. ASSUME NEW w PROVE Collected(d, w) /\ Stands(d, w) /\ d.found \subseteq Data(w, d, p)
  <2>1. Collected(d, w)
    BY <1>2, <1>3 DEF Collected, FoundAt, Deadlines
  <2> QED BY <1>2, <1>3, <2>1 DEF Stands, Deadlines
<1> QED BY <1>4, <1>5 DEF Started

\* Where a student gpa read begins.
LEMMA StartStudentGpa ==
    ASSUME NEW d, Starts(d), d.read = "student_gpa"
    PROVE  Started(d)
<1> DEFINE p == d.person
           s == d.section
<1>1. d.todo = <<<<"enrollments", p>>, <<"attendance", p>>, <<"grades", p>>>>
  BY ReportSteps, StepsOfReads DEF Starts
<1>2. Len(d.todo) = 3
  BY <1>1, ListsOfSteps
<1>3. d.found = {} /\ d.students = {}
  BY DEF Starts
<1>4. Reading(d)
  BY <1>1 DEF Reading, ReportOf
<1>5. ASSUME NEW w PROVE Collected(d, w) /\ Stands(d, w) /\ d.found \subseteq Data(w, d, p)
  <2>1. Collected(d, w)
    BY <1>2, <1>3 DEF Collected, FoundAt, Deadlines
  <2> QED BY <1>2, <1>3, <2>1 DEF Stands, Deadlines
<1> QED BY <1>4, <1>5 DEF Started

\* Where a student events read begins.
LEMMA StartStudentEvents ==
    ASSUME NEW d, Starts(d), d.read = "student_events"
    PROVE  Started(d)
<1> DEFINE p == d.person
           s == d.section
<1>1. d.todo = <<<<"events", p>>>>
  BY StepsOfReads DEF Starts
<1>2. Len(d.todo) = 1
  BY <1>1, ListsOfSteps
<1>3. d.found = {} /\ d.students = {}
  BY DEF Starts
<1>4. Reading(d)
  BY <1>1 DEF Reading, ReportOf
<1>5. ASSUME NEW w PROVE Collected(d, w) /\ Stands(d, w) /\ d.found \subseteq Data(w, d, p)
  <2>1. Collected(d, w)
    BY <1>2, <1>3 DEF Collected, FoundAt, Deadlines
  <2> QED BY <1>2, <1>3, <2>1 DEF Stands, Deadlines
<1> QED BY <1>4, <1>5 DEF Started

\* Where a teacher schedule read begins.
LEMMA StartTeacherSchedule ==
    ASSUME NEW d, Starts(d), d.read = "teacher_schedule"
    PROVE  Started(d)
<1> DEFINE p == d.person
           s == d.section
<1>1. d.todo = <<<<"teaching", p>>, <<"sections", p>>, <<"rooms", p>>>>
  BY ScheduleSteps, StepsOfReads DEF Starts
<1>2. Len(d.todo) = 3
  BY <1>1, ListsOfSteps
<1>3. d.found = {} /\ d.students = {}
  BY DEF Starts
<1>4. Reading(d)
  BY <1>1 DEF Reading, ReportOf
<1>5. ASSUME NEW w PROVE Collected(d, w) /\ Stands(d, w) /\ d.found \subseteq Data(w, d, p)
  <2>1. Collected(d, w)
    BY <1>2, <1>3 DEF Collected, FoundAt, Deadlines
  <2> QED BY <1>2, <1>3, <2>1 DEF Stands, Deadlines
<1> QED BY <1>4, <1>5 DEF Started

\* Where a teacher sections read begins.
LEMMA StartTeacherSections ==
    ASSUME NEW d, Starts(d), d.read = "teacher_sections"
    PROVE  Started(d)
<1> DEFINE p == d.person
           s == d.section
<1>1. d.todo = <<<<"assigned", p>>>>
  BY StepsOfReads DEF Starts
<1>2. Len(d.todo) = 1
  BY <1>1, ListsOfSteps
<1>3. d.found = {} /\ d.students = {}
  BY DEF Starts
<1>4. Reading(d)
  BY <1>1 DEF Reading, ReportOf
<1>5. ASSUME NEW w PROVE Collected(d, w) /\ Stands(d, w) /\ d.found \subseteq Data(w, d, p)
  <2>1. Collected(d, w)
    BY <1>2, <1>3 DEF Collected, FoundAt, Deadlines
  <2> QED BY <1>2, <1>3, <2>1 DEF Stands, Deadlines
<1> QED BY <1>4, <1>5 DEF Started

\* Where a section students read begins.
LEMMA StartSectionStudents ==
    ASSUME NEW d, Starts(d), d.read = "section_students"
    PROVE  Started(d)
<1> DEFINE p == d.person
           s == d.section
<1>1. d.todo = <<<<"assignment", s>>, <<"roster", s>>, <<"names", s>>>>
  BY StepsOfReads DEF Starts
<1>2. Len(d.todo) = 3
  BY <1>1, ListsOfSteps
<1>3. d.found = {} /\ d.students = {}
  BY DEF Starts
<1>4. Reading(d)
  BY <1>1 DEF Reading, ReportOf
<1>5. ASSUME NEW w PROVE Collected(d, w) /\ Stands(d, w) /\ d.found \subseteq Data(w, d, p)
  <2>1. Collected(d, w)
    BY <1>2, <1>3 DEF Collected, FoundAt, Deadlines
  <2> QED BY <1>2, <1>3, <2>1 DEF Stands, Deadlines
<1> QED BY <1>4, <1>5 DEF Started

\* Where a teacher grade sync status read begins.
LEMMA StartTeacherGradeSyncStatus ==
    ASSUME NEW d, Starts(d), d.read = "teacher_grade_sync_status"
    PROVE  Started(d)
<1> DEFINE p == d.person
           s == d.section
<1>1. d.todo = <<<<"assigned", p>>, <<"evidence", p>>>>
  BY StepsOfReads DEF Starts
<1>2. Len(d.todo) = 2
  BY <1>1, ListsOfSteps
<1>3. d.found = {} /\ d.students = {}
  BY DEF Starts
<1>4. Reading(d)
  BY <1>1 DEF Reading, ReportOf
<1>5. ASSUME NEW w PROVE Collected(d, w) /\ Stands(d, w) /\ d.found \subseteq Data(w, d, p)
  <2>1. Collected(d, w)
    BY <1>2, <1>3 DEF Collected, FoundAt, Deadlines
  <2> QED BY <1>2, <1>3, <2>1 DEF Stands, Deadlines
<1> QED BY <1>4, <1>5 DEF Started

\* Where a guardian events read begins.
LEMMA StartGuardianEvents ==
    ASSUME NEW d, Starts(d), d.read = "guardian_events"
    PROVE  Started(d)
<1> DEFINE p == d.person
           s == d.section
<1>1. d.todo = <<<<"events", p>>>>
  BY StepsOfReads DEF Starts
<1>2. Len(d.todo) = 1
  BY <1>1, ListsOfSteps
<1>3. d.found = {} /\ d.students = {}
  BY DEF Starts
<1>4. Reading(d)
  BY <1>1 DEF Reading, ReportOf
<1>5. ASSUME NEW w PROVE Collected(d, w) /\ Stands(d, w) /\ d.found \subseteq Data(w, d, p)
  <2>1. Collected(d, w)
    BY <1>2, <1>3 DEF Collected, FoundAt, Deadlines
  <2> QED BY <1>2, <1>3, <2>1 DEF Stands, Deadlines
<1> QED BY <1>4, <1>5 DEF Started

\* Where a read of deadlines begins.
LEMMA StartDeadlines ==
    ASSUME NEW d, Starts(d), d.read \in Deadlines
    PROVE  Started(d)
<1> DEFINE p == d.person
<1>1. d.todo = <<<<"mapping", p>>>>
  BY StepsOfReads DEF Starts, Deadlines
<1>2. /\ Len(d.todo) = 1 /\ d.todo # << >> /\ d.todo # <<<<"health", p>>>>
  BY <1>1, ListsOfSteps
<1>3. d.found = {} /\ d.students = {}
  BY DEF Starts, Deadlines
<1>4. Reading(d)
  BY <1>1 DEF Reading, Deadlines
<1>5. ASSUME NEW w PROVE Collected(d, w) /\ Stands(d, w) /\ d.found \subseteq Data(w, d, p)
  <2>1. Collected(d, w)
    BY <1>2, <1>3, DeadlinesCollected
  <2> QED BY <1>2, <1>3, <2>1 DEF Stands, Deadlines
<1> QED BY <1>4, <1>5 DEF Started

\* Where a guardian's read of students begins.
LEMMA StartGuardianStudents ==
    ASSUME NEW d, Starts(d), d.read = "guardian_students"
    PROVE  Started(d)
<1> DEFINE p == d.person
<1>1. d.todo = <<<<"linked", p>>>>
  BY StepsOfReads DEF Starts
<1>2. d.found = {} /\ d.students = {}
  BY DEF Starts
<1>3. Reading(d)
  BY <1>1 DEF Reading
<1>4. ASSUME NEW w PROVE Collected(d, w) /\ Stands(d, w) /\ d.found \subseteq Data(w, d, p)
  BY <1>1, <1>2 DEF Collected, Stands, FoundAt, Deadlines
<1> QED BY <1>3, <1>4 DEF Started

\* So begins every read.
LEMMA ReadsStart ==
    ASSUME NEW d, Starts(d), d.read \in PortalReads
    PROVE  Started(d)
BY StartStudentSchedule, StartStudentProfile, StartStudentGrades, StartStudentGpa, StartStudentEvents, StartTeacherSchedule, StartTeacherSections, StartSectionStudents, StartTeacherGradeSyncStatus, StartGuardianEvents, StartDeadlines, StartGuardianStudents
   DEF PortalReads, StudentReads, TeacherReads, GuardianReads, Deadlines

\* The person's profile is the last of who asks: the read of the data begins.
LEMMA ProfileIsLast ==
    ASSUME CallFits(call), Resolving(call), GetProfileForPerson
    PROVE  /\ Left(call) = 1
           /\ \/ /\ <<call.person, KindOf(call.read)>> \notin world.profiles
                 /\ Refused(call, call', "denied")
              \/ /\ <<call.person, KindOf(call.read)>> \in world.profiles
                 /\ Proceeds(call, call') /\ Starts(call') /\ Started(call')
<1>1. /\ DOMAIN call = Fields /\ call.via \in {"portal", "mcp"} /\ call.read \in PortalReads
      /\ call.found = {} /\ call.students = {}
  <2>1. ~Reading(call)
    BY StepsAreInOrder, ReadingVetsNobody DEF CallFits, Resolving, Placed
  <2> QED BY <2>1 DEF CallFits
<1>2. Left(call) = 1
  <2>1. Placed(call.todo, call.via)
    BY <1>1, StepsAreInOrder DEF Resolving
  <2>2. StepAt(call.via, Left(call)) = "profile" /\ Left(call) \in Span(call.via)
    BY <2>1 DEF GetProfileForPerson, At, Placed, Left
  <2> QED BY <1>1, <2>2 DEF StepAt, Span
<1>3. CASE <<call.person, KindOf(call.read)>> \notin world.profiles
  BY <1>1, <1>2, <1>3, RefusalsKeep DEF GetProfileForPerson
<1>4. CASE <<call.person, KindOf(call.read)>> \in world.profiles
  <2>1. call' = [call EXCEPT
                   !.todo = Steps(call.read, call.person, call.section),
                   !.found = IF call.read = "student_profile"
                             THEN {<<"profile", call.person>>} ELSE {}]
    BY <1>4 DEF GetProfileForPerson
  <2>2. /\ Proceeds(call, call') /\ call'.students = call.students
        /\ call'.todo = Steps(call.read, call.person, call.section)
        /\ call'.found = IF call.read = "student_profile"
                          THEN {<<"profile", call.person>>} ELSE {}
    BY <1>1, <2>1 DEF Proceeds, Fields
  <2>3. Starts(call') /\ call'.read \in PortalReads
    BY <1>1, <2>2 DEF Starts, Proceeds
  <2> QED BY <1>2, <1>4, <2>2, <2>3, ReadsStart
<1> QED BY <1>3, <1>4

----------------------------------------------------------------------------
\* The steps that read data, once the person is known.
DataStep ==
    \/ SnapshotEnrollments \/ SnapshotAttendance \/ SessionsOfSections \/ SessionsOfTeacher
    \/ DescribeSections \/ DescribeRooms \/ DescribeCourses \/ ReadGrades \/ UpcomingEvents
    \/ SectionsAssigned \/ SectionIsAssigned \/ SectionRoster \/ RosterNames \/ SyncStatus
    \/ LinkedStudents \/ MoodleAccount \/ AskMoodle \/ RecordHealth

\* Whom else a guardian is to be told of.
StudentsFit(d) ==
    d.students \subseteq People /\ (d.read # "guardian_students" => d.students = {})

\* A step goes on with what one world or the other has.
GathersAll(c, d, w) ==
    /\ Proceeds(c, d) /\ StudentsFit(d) /\ Reading(d)
    /\ \A v : WorldIsSound(v) /\ DataChange(v, w) => Gathers(c, d, v, w)
RefusesOthers(c, d, w) ==
    \/ /\ Refused(c, d, "denied") /\ c.read = "section_students"
       /\ <<c.person, c.section>> \notin w.assigned
    \/ Refused(c, d, "failed")

\* What reading one set of data changes.
Finds(c, d, data) ==
    /\ Proceeds(c, d) /\ d.students = c.students /\ d.todo = Tail(c.todo)
    /\ d.found = c.found \union data

\* What is found is added to what was.
LEMMA FoundIsAdded ==
    ASSUME NEW data, DOMAIN call = Fields, Found(data)
    PROVE  Finds(call, call', data)
BY DEF Found, Finds, Proceeds, Fields

\* What a step needs of the call, and where it is.
Here(step) ==
    call.stage = "reading" /\ call.todo # << >> /\ Head(call.todo)[1] = step

\* A step is taken where the list has it.
LEMMA StepsAreHere ==
    ASSUME NEW step, At(step)
    PROVE  Here(step) /\ UNCHANGED <<world, moves, audit, answer>>
BY DEF At, Here

\* The steps of a schedule, and of a student's record.
LEMMA RecordIsGathered ==
    ASSUME CallFits(call), Reading(call), call.person \in People, WorldIsSound(world),
           \/ SnapshotEnrollments \/ SnapshotAttendance \/ SessionsOfSections
           \/ SessionsOfTeacher \/ ReadGrades
    PROVE  GathersAll(call, call', world)
<1> DEFINE q == Head(call.todo)[2]
<1>1. DOMAIN call = Fields /\ call.read \in PortalReads /\ StudentsFit(call)
  BY DEF CallFits, StudentsFit
<1>2. CASE SnapshotEnrollments
  <2>1. Here("enrollments")
    BY <1>2, StepsAreHere DEF SnapshotEnrollments
  <2>2. call' = [call EXCEPT
                   !.todo = Tail(@), !.active = (world.enrollment[q] = "active"),
                   !.found = IF KindOf(call.read) = "guardian" /\ world.enrollment[q] = "active"
                             THEN @ \union {<<"program", q>>} ELSE @]
    BY <1>2 DEF SnapshotEnrollments, Of
  <2>3. /\ Proceeds(call, call') /\ call'.todo = Tail(call.todo)
        /\ call'.students = call.students
    BY <1>1, <2>2 DEF Proceeds, Fields
  <2>4. EnrollmentsRead(call, call', q, world)
    BY <1>1, <2>2 DEF EnrollmentsRead, Fields
  <2>5. ASSUME NEW v, WorldIsSound(v), DataChange(v, world)
        PROVE  Reading(call') /\ Gathers(call, call', v, world)
    BY <1>1, <2>1, <2>3, <2>4, <2>5, EnrollmentsGathered DEF Here
  <2> QED BY <1>1, <2>3, <2>5, SameWorld DEF GathersAll, StudentsFit, Proceeds
<1>3. CASE SnapshotAttendance
  <2>1. Here("attendance")
    BY <1>3, StepsAreHere DEF SnapshotAttendance
  <2>2. call' = [call EXCEPT !.todo = Tail(@),
                   !.sections = IF call.active THEN {s \in Sections : <<q, s>> \in world.attends}
                                ELSE {}]
    BY <1>3 DEF SnapshotAttendance, Attended, Of
  <2>3. /\ Proceeds(call, call') /\ call'.todo = Tail(call.todo)
        /\ call'.students = call.students /\ call'.found = call.found
        /\ call'.sections = IF call.active THEN {s \in Sections : <<q, s>> \in world.attends}
                            ELSE {}
    BY <1>1, <2>2 DEF Proceeds, Fields
  <2>5. ASSUME NEW v, WorldIsSound(v), DataChange(v, world)
        PROVE  Reading(call') /\ Gathers(call, call', v, world)
    BY <1>1, <2>1, <2>3, <2>5, AttendanceGathered DEF Here
  <2> QED BY <1>1, <2>3, <2>5, SameWorld DEF GathersAll, StudentsFit, Proceeds
<1>4. CASE SessionsOfSections
  <2>1. Here("sessions")
    BY <1>4, StepsAreHere DEF SessionsOfSections
  <2>2. Finds(call, call',
              {<<"session", x>> : x \in {y \in world.sessions : y[1] \in call.sections}})
    BY <1>1, <1>4, FoundIsAdded DEF SessionsOfSections
  <2>3. /\ Proceeds(call, call') /\ call'.todo = Tail(call.todo)
        /\ call'.students = call.students
        /\ call'.found = call.found \union
             {<<"session", x>> : x \in {y \in world.sessions : y[1] \in call.sections}}
    BY <2>2 DEF Finds
  <2>5. ASSUME NEW v, WorldIsSound(v), DataChange(v, world)
        PROVE  Reading(call') /\ Gathers(call, call', v, world)
    BY <1>1, <2>1, <2>3, <2>5, SessionsGathered DEF Here
  <2> QED BY <1>1, <2>3, <2>5, SameWorld DEF GathersAll, StudentsFit, Proceeds
<1>5. CASE SessionsOfTeacher
  <2>1. Here("teaching")
    BY <1>5, StepsAreHere DEF SessionsOfTeacher
  <2>2. Finds(call, call', {<<"session", x>> : x \in {y \in world.sessions : y[2] = q}})
    BY <1>1, <1>5, FoundIsAdded DEF SessionsOfTeacher, Of
  <2>3. /\ Proceeds(call, call') /\ call'.todo = Tail(call.todo)
        /\ call'.students = call.students
        /\ call'.found = call.found \union
             {<<"session", x>> : x \in {y \in world.sessions : y[2] = q}}
    BY <2>2 DEF Finds
  <2>5. ASSUME NEW v, WorldIsSound(v), DataChange(v, world)
        PROVE  Reading(call') /\ Gathers(call, call', v, world)
    BY <1>1, <2>1, <2>3, <2>5, TeachingGathered DEF Here
  <2> QED BY <1>1, <2>3, <2>5, SameWorld DEF GathersAll, StudentsFit, Proceeds
<1>6. CASE ReadGrades
  <2>1. Here("grades")
    BY <1>6, StepsAreHere DEF ReadGrades
  <2>2. Finds(call, call', IF world.enrollment[q] = "none" THEN {} ELSE GradesOf(q))
    BY <1>1, <1>6, FoundIsAdded DEF ReadGrades, Of
  <2>3. (IF world.enrollment[q] = "none" THEN {} ELSE GradesOf(q)) = GradeOf(q, world)
    <3>1. CASE q \in world.graded
      <4>1. world.enrollment[q] # "none"
        BY <3>1 DEF WorldIsSound
      <4> QED BY <3>1, <4>1 DEF GradesOf, GradeOf
    <3>2. CASE q \notin world.graded
      BY <3>2 DEF GradesOf, GradeOf
    <3> QED BY <3>1, <3>2
  <2>4. /\ Proceeds(call, call') /\ call'.todo = Tail(call.todo)
        /\ call'.students = call.students
        /\ call'.found = call.found \union GradeOf(q, world)
    BY <2>2, <2>3 DEF Finds
  <2>5. ASSUME NEW v, WorldIsSound(v), DataChange(v, world)
        PROVE  Reading(call') /\ Gathers(call, call', v, world)
    BY <1>1, <2>1, <2>4, <2>5, GradesGathered DEF Here
  <2> QED BY <1>1, <2>4, <2>5, SameWorld DEF GathersAll, StudentsFit, Proceeds
<1> QED BY <1>2, <1>3, <1>4, <1>5, <1>6

\* The steps that only describe what was found.
LEMMA DescriptionIsGathered ==
    ASSUME CallFits(call), Reading(call), WorldIsSound(world),
           DescribeSections \/ DescribeRooms \/ DescribeCourses \/ UpcomingEvents
    PROVE  GathersAll(call, call', world)
<1>1. DOMAIN call = Fields /\ call.read \in PortalReads /\ StudentsFit(call)
  BY DEF CallFits, StudentsFit
<1>2. PICK step \in {"sections", "rooms", "courses", "events"} : At(step) /\ Found({})
  BY DEF DescribeSections, DescribeRooms, DescribeCourses, UpcomingEvents
<1>3. Here(step) /\ Finds(call, call', {})
  BY <1>1, <1>2, StepsAreHere, FoundIsAdded
<1>4. /\ Proceeds(call, call') /\ call'.todo = Tail(call.todo)
      /\ call'.students = call.students /\ call'.found = call.found
  BY <1>3 DEF Finds
<1>5. ASSUME NEW v, WorldIsSound(v), DataChange(v, world)
      PROVE  Reading(call') /\ Gathers(call, call', v, world)
  BY <1>1, <1>3, <1>4, <1>5, DescriptionsGathered DEF Here
<1> QED BY <1>1, <1>4, <1>5, SameWorld DEF GathersAll, StudentsFit, Proceeds

----------------------------------------------------------------------------
\* The steps of a teacher's reads.
LEMMA DutiesAreGathered ==
    ASSUME CallFits(call), Reading(call), WorldIsSound(world), Stands(call, world),
           \/ SectionsAssigned \/ SectionIsAssigned \/ SectionRoster \/ RosterNames
           \/ SyncStatus
    PROVE  GathersAll(call, call', world) \/ RefusesOthers(call, call', world)
<1> DEFINE q == Head(call.todo)[2]
<1>1. DOMAIN call = Fields /\ call.read \in PortalReads /\ StudentsFit(call)
  BY DEF CallFits, StudentsFit
<1>2. CASE SectionsAssigned
  <2>1. Here("assigned")
    BY <1>2, StepsAreHere DEF SectionsAssigned
  <2>2. call' = [call EXCEPT !.todo = Tail(@), !.sections = AssignedTo(q, world),
                   !.found = IF call.read = "teacher_sections"
                             THEN SectionsListed(AssignedTo(q, world)) ELSE {}]
    BY <1>2 DEF SectionsAssigned, Of, AssignedTo, SectionsListed
  <2>3. /\ Proceeds(call, call') /\ call'.todo = Tail(call.todo)
        /\ call'.students = call.students /\ call'.sections = AssignedTo(q, world)
        /\ call'.found = IF call.read = "teacher_sections"
                         THEN SectionsListed(call'.sections) ELSE {}
    BY <1>1, <2>2 DEF Proceeds, Fields
  <2>4. ASSUME NEW v, WorldIsSound(v), DataChange(v, world)
        PROVE  Reading(call') /\ Gathers(call, call', v, world)
    BY <1>1, <2>1, <2>3, <2>4, AssignmentsGathered DEF Here
  <2> QED BY <1>1, <2>3, <2>4, SameWorld DEF GathersAll, StudentsFit, Proceeds
<1>3. CASE SectionIsAssigned
  <2>1. Here("assignment") /\ Check(<<call.person, q>> \in world.assigned)
    BY <1>3, StepsAreHere DEF SectionIsAssigned, Of
  <2>2. call.read = "section_students" /\ q = call.section
    <3>1. /\ call.read = "section_students"
          /\ call.todo = <<<<"assignment", call.section>>, <<"roster", call.section>>,
                           <<"names", call.section>>>>
      BY <2>1, AtAssignment DEF Here
    <3> QED BY <3>1, ListsOfSteps
  <2>3. CASE <<call.person, q>> \in world.assigned
    <3>1. /\ Advances(call, call') /\ call'.permissions = call.permissions
          /\ call'.person = call.person
      BY <1>1, <2>1, <2>3, ChecksAdvance
    <3>2. /\ Proceeds(call, call') /\ call'.todo = Tail(call.todo)
          /\ call'.students = call.students /\ call'.found = call.found
      BY <3>1 DEF Advances, Alike, Proceeds
    <3>3. ASSUME NEW v, WorldIsSound(v), DataChange(v, world)
          PROVE  Reading(call') /\ Gathers(call, call', v, world)
      BY <1>1, <2>1, <2>3, <3>2, <3>3, AssignmentChecked DEF Here
    <3> QED BY <1>1, <3>2, <3>3, SameWorld DEF GathersAll, StudentsFit, Proceeds
  <2>4. CASE <<call.person, q>> \notin world.assigned
    BY <1>1, <2>1, <2>2, <2>4, ChecksAdvance DEF RefusesOthers
  <2> QED BY <2>3, <2>4
<1>4. CASE SectionRoster
  <2>1. Here("roster")
    BY <1>4, StepsAreHere DEF SectionRoster
  <2>2. Finds(call, call', StudentsListed(Attending(q, world)))
    BY <1>1, <1>4, FoundIsAdded DEF SectionRoster, Of, StudentsListed, Attending
  <2>3. /\ Proceeds(call, call') /\ call'.todo = Tail(call.todo)
        /\ call'.students = call.students
        /\ call'.found = call.found \union StudentsListed(Attending(q, world))
    BY <2>2 DEF Finds
  <2>4. ASSUME NEW v, WorldIsSound(v), DataChange(v, world)
        PROVE  Reading(call') /\ Gathers(call, call', v, world)
    BY <1>1, <2>1, <2>3, <2>4, RosterGathered DEF Here
  <2> QED BY <1>1, <2>3, <2>4, SameWorld DEF GathersAll, StudentsFit, Proceeds
<1>5. CASE RosterNames
  <2>1. /\ Here("names")
        /\ Check(\A x \in call.found : <<x[2], "student">> \in world.profiles)
    BY <1>5, StepsAreHere DEF RosterNames
  <2>2. call.read = "section_students"
    BY <2>1, AtNames DEF Here
  <2>3. \A x \in call.found : <<x[2], "student">> \in world.profiles
    BY <2>2 DEF Stands
  <2>4. /\ Advances(call, call') /\ call'.permissions = call.permissions
        /\ call'.person = call.person
    BY <1>1, <2>1, <2>3, ChecksAdvance
  <2>5. /\ Proceeds(call, call') /\ call'.todo = Tail(call.todo)
        /\ call'.students = call.students /\ call'.found = call.found
    BY <2>4 DEF Advances, Alike, Proceeds
  <2>6. ASSUME NEW v, WorldIsSound(v), DataChange(v, world)
        PROVE  Reading(call') /\ Gathers(call, call', v, world)
    BY <1>1, <2>1, <2>5, <2>6, NamesGathered DEF Here
  <2> QED BY <1>1, <2>5, <2>6, SameWorld DEF GathersAll, StudentsFit, Proceeds
<1>6. CASE SyncStatus
  <2>1. Here("evidence")
    BY <1>6, StepsAreHere DEF SyncStatus
  <2>2. Finds(call, call', EvidenceOf(call.sections, world))
    BY <1>1, <1>6, FoundIsAdded DEF SyncStatus, EvidenceOf
  <2>3. /\ Proceeds(call, call') /\ call'.todo = Tail(call.todo)
        /\ call'.students = call.students
        /\ call'.found = call.found \union EvidenceOf(call.sections, world)
    BY <2>2 DEF Finds
  <2>4. ASSUME NEW v, WorldIsSound(v), DataChange(v, world)
        PROVE  Reading(call') /\ Gathers(call, call', v, world)
    BY <1>1, <2>1, <2>3, <2>4, EvidenceGathered DEF Here
  <2> QED BY <1>1, <2>3, <2>4, SameWorld DEF GathersAll, StudentsFit, Proceeds
<1> QED BY <1>2, <1>3, <1>4, <1>5, <1>6

\* The steps of a read of linked students and of deadlines.
LEMMA OthersAreGathered ==
    ASSUME CallFits(call), Reading(call), WorldIsSound(world),
           LinkedStudents \/ MoodleAccount \/ AskMoodle \/ RecordHealth
    PROVE  GathersAll(call, call', world) \/ RefusesOthers(call, call', world)
<1> DEFINE q == Head(call.todo)[2]
<1>1. DOMAIN call = Fields /\ call.read \in PortalReads /\ StudentsFit(call)
  BY DEF CallFits, StudentsFit
<1>2. CASE LinkedStudents
  <2>1. Here("linked")
    BY <1>2, StepsAreHere DEF LinkedStudents
  <2>2. call' = [call EXCEPT !.todo = Tail(@), !.students = Linked(world, q),
                             !.found = StudentsListed(Linked(world, q))]
    BY <1>2 DEF LinkedStudents, Of, Linked, StudentsListed
  <2>3. /\ Proceeds(call, call') /\ call'.todo = Tail(call.todo)
        /\ call'.students = Linked(world, q)
        /\ call'.found = StudentsListed(call'.students)
    BY <1>1, <2>2 DEF Proceeds, Fields
  <2>4. ASSUME NEW v, WorldIsSound(v), DataChange(v, world)
        PROVE  Reading(call') /\ Gathers(call, call', v, world)
    BY <1>1, <2>1, <2>3, <2>4, LinksGathered DEF Here
  <2>5. StudentsFit(call')
    <3>1. call.read = "guardian_students"
      BY <2>1, AtLinked DEF Here
    <3> QED BY <2>3, <3>1 DEF StudentsFit, Proceeds, Linked
  <2> QED BY <2>3, <2>4, <2>5, SameWorld DEF GathersAll
<1>3. CASE MoodleAccount
  <2>1. Here("mapping")
    BY <1>3, StepsAreHere DEF MoodleAccount
  <2>2. call' = [call EXCEPT !.todo = IF q \in world.mapped
                                      THEN <<<<"moodle", q>>, <<"health", q>>>> ELSE << >>]
    BY <1>3 DEF MoodleAccount, Of
  <2>3. /\ Proceeds(call, call')
        /\ call'.todo = IF q \in world.mapped
                        THEN <<<<"moodle", q>>, <<"health", q>>>> ELSE << >>
        /\ call'.students = call.students /\ call'.found = call.found
    BY <1>1, <2>2 DEF Proceeds, Fields
  <2>4. ASSUME NEW v, WorldIsSound(v), DataChange(v, world)
        PROVE  Reading(call') /\ Gathers(call, call', v, world)
    BY <1>1, <2>1, <2>3, <2>4, MappingGathered DEF Here
  <2> QED BY <1>1, <2>3, <2>4, SameWorld DEF GathersAll, StudentsFit, Proceeds
<1>4. CASE AskMoodle
  <2>1. Here("moodle")
    BY <1>4, StepsAreHere DEF AskMoodle
  <2>2. Finds(call, call', {<<"deadlines", q>>}) \/ Finds(call, call', {})
    BY <1>1, <1>4, FoundIsAdded DEF AskMoodle, Of
  <2>3. /\ Proceeds(call, call') /\ call'.todo = Tail(call.todo)
        /\ call'.students = call.students
        /\ call'.found \in {call.found, call.found \union {<<"deadlines", q>>}}
    BY <2>2 DEF Finds
  <2>4. ASSUME NEW v, WorldIsSound(v), DataChange(v, world)
        PROVE  Reading(call') /\ Gathers(call, call', v, world)
    BY <1>1, <2>1, <2>3, <2>4, MoodleGathered DEF Here
  <2> QED BY <1>1, <2>3, <2>4, SameWorld DEF GathersAll, StudentsFit, Proceeds
<1>5. CASE RecordHealth
  <2>1. Here("health")
    BY <1>5, StepsAreHere DEF RecordHealth
  <2>2. CASE call.found # {}
    <3>1. Finds(call, call', {})
      BY <1>1, <1>5, <2>2, FoundIsAdded DEF RecordHealth
    <3>2. /\ Proceeds(call, call') /\ call'.todo = Tail(call.todo)
          /\ call'.students = call.students /\ call'.found = call.found
      BY <3>1 DEF Finds
    <3>3. ASSUME NEW v, WorldIsSound(v), DataChange(v, world)
          PROVE  Reading(call') /\ Gathers(call, call', v, world)
      BY <1>1, <2>1, <2>2, <3>2, <3>3, HealthGathered DEF Here
    <3> QED BY <1>1, <3>2, <3>3, SameWorld DEF GathersAll, StudentsFit, Proceeds
  <2>3. CASE call.found = {}
    BY <1>1, <1>5, <2>3, RefusalsKeep DEF RecordHealth, RefusesOthers
  <2> QED BY <2>2, <2>3
<1> QED BY <1>2, <1>3, <1>4, <1>5

\* What one step of a read does with the data.
LEMMA DataAreGathered ==
    ASSUME CallFits(call), Reading(call), call.person \in People, WorldIsSound(world),
           Stands(call, world), DataStep
    PROVE  GathersAll(call, call', world) \/ RefusesOthers(call, call', world)
BY RecordIsGathered, DescriptionIsGathered, DutiesAreGathered, OthersAreGathered DEF DataStep

----------------------------------------------------------------------------
\* Worlds with the same studies and duties have the same data.
LEMMA DataAlike ==
    ASSUME NEW v, NEW w, NEW c, NEW p, SameStudies(v, w), SameDuties(v, w),
           c.read \in PortalReads
    PROVE  Data(v, c, p) = Data(w, c, p)
<1> USE DEF SameStudies, SameDuties
<1>1. CASE c.read = "student_profile"
  BY <1>1 DEF Data
<1>2. CASE c.read = "student_schedule"
  <2>1. {y \in v.sessions : Attends(v, p, y[1])} = {y \in w.sessions : Attends(w, p, y[1])}
    BY DEF Attends
  <2> HIDE DEF SameStudies, SameDuties
  <2>2. Data(v, c, p) = {<<"session", x>> : x \in {y \in v.sessions : Attends(v, p, y[1])}}
    BY <1>2, StudentData
  <2>3. Data(w, c, p) = {<<"session", x>> : x \in {y \in w.sessions : Attends(w, p, y[1])}}
    BY <1>2, StudentData
  <2> QED BY <2>1, <2>2, <2>3, Zenon
<1>3. CASE c.read = "teacher_schedule"
  BY <1>3, TeacherData
<1>4. CASE c.read \in {"student_grades", "student_gpa"}
  <2>1. GradeOf(p, v) = GradeOf(p, w)
    BY DEF GradeOf
  <2> QED BY <1>4, <2>1, GradeData
<1>5. CASE c.read \in {"student_events", "guardian_events"}
  BY <1>5, EventData
<1>6. CASE c.read \in Deadlines
  BY <1>6, DeadlineData
<1>7. CASE c.read = "teacher_sections"
  <2>1. AssignedTo(p, v) = AssignedTo(p, w)
    BY DEF AssignedTo
  <2> QED BY <1>7, <2>1, SectionData
<1>8. CASE c.read = "section_students"
  <2>1. {r \in People : <<p, c.section>> \in v.assigned /\ Attends(v, r, c.section)} =
        {r \in People : <<p, c.section>> \in w.assigned /\ Attends(w, r, c.section)}
    BY DEF Attends
  <2> QED BY <1>8, <2>1, RosterData
<1>9. CASE c.read = "teacher_grade_sync_status"
  <2>1. AssignedTo(p, v) = AssignedTo(p, w)
    BY DEF AssignedTo
  <2>2. EvidenceOf(AssignedTo(p, w), v) = EvidenceOf(AssignedTo(p, w), w)
    BY DEF EvidenceOf
  <2> QED BY <1>9, <2>1, <2>2, EvidenceData
<1>10. CASE c.read = "guardian_students"
  <2>1. PICK all : all = Linked(v, p)
    OBVIOUS
  <2>2. all = Linked(w, p)
    BY <2>1 DEF Linked
  <2>3. Told(all, all, all, v) = Told(all, all, all, w)
    BY ToldAlike
  <2> QED BY <1>10, <2>1, <2>2, <2>3, GuardianData
<1> QED BY <1>1, <1>2, <1>3, <1>4, <1>5, <1>6, <1>7, <1>8, <1>9, <1>10
        DEF PortalReads, StudentReads, TeacherReads, GuardianReads, Deadlines

\* What was told in one of them was told in the other.
LEMMA SummariesAlike ==
    ASSUME NEW v, NEW w, NEW c, SameStudies(v, w), SameDuties(v, w), SummariesOf(c, v)
    PROVE  SummariesOf(c, w)
<1>1. PICK all, enrolled, marked :
        /\ all = Linked(v, c.person)
        /\ enrolled = all \ (c.students \union (IF Len(c.todo) = 4 THEN OfStudent(c) ELSE {}))
        /\ marked = all \ (c.students \union (IF Len(c.todo) >= 2 THEN OfStudent(c) ELSE {}))
  OBVIOUS
<1>2. /\ c.students \subseteq all /\ OfStudent(c) \subseteq all \ c.students
      /\ c.found = Told(all, enrolled, marked, v)
  BY <1>1 DEF SummariesOf
<1>3. all = Linked(w, c.person)
  BY <1>1 DEF Linked, SameDuties
<1>4. Told(all, enrolled, marked, v) = Told(all, enrolled, marked, w)
  <2>1. v.enrollment = w.enrollment /\ v.graded = w.graded
    BY DEF SameStudies
  <2> QED BY <2>1, ToldAlike
<1> QED BY <1>1, <1>2, <1>3, <1>4 DEF SummariesOf

\* And so what was collected.
LEMMA CollectedAlike ==
    ASSUME NEW v, NEW w, NEW c, SameStudies(v, w), SameDuties(v, w),
           c.read \in PortalReads, Collected(c, v)
    PROVE  Collected(c, w)
<1> DEFINE p == c.person
<1>1. Data(v, c, p) = Data(w, c, p)
  BY DataAlike
<1>2. CASE c.read \in Deadlines
  BY <1>1, <1>2, DeadlinesCollected DEF SameDuties
<1>3. CASE c.read = "guardian_students"
  BY <1>3, SummariesAlike DEF Collected, FoundAt, Deadlines
<1>4. CASE c.read = "student_schedule"
  <2>1. {s \in Sections : Attends(v, p, s)} = {s \in Sections : Attends(w, p, s)}
    BY DEF SameStudies, Attends
  <2> QED BY <1>1, <1>4, <2>1 DEF Collected, FoundAt, Deadlines, SameStudies
<1>5. CASE c.read = "section_students"
  BY <1>1, <1>5 DEF Collected, FoundAt, Deadlines, SameDuties
<1>6. CASE c.read = "teacher_grade_sync_status"
  BY <1>1, <1>6 DEF Collected, FoundAt, Deadlines, SameDuties
<1>7. CASE c.read \in DOMAIN FoundAt \ {"student_schedule", "section_students",
                                        "teacher_grade_sync_status"}
  BY <1>1, <1>7 DEF Collected, FoundAt, Deadlines
<1> QED BY <1>2, <1>3, <1>4, <1>5, <1>6, <1>7, ReadsAreKnown

\* A read of data asks nobody who asks.
LEMMA ReadingResolvesNobody ==
    ASSUME NEW c, c.via \in {"portal", "mcp"}, Reading(c)
    PROVE  ~Resolving(c)
BY StepsAreInOrder, ReadingVetsNobody DEF Resolving, Placed

\* What was found stays what one of two worlds one change apart has.
LEMMA ConsistentOn ==
    ASSUME NEW c, NEW d, NEW v, NEW w, WorldIsSound(v), WorldIsSound(w), OneChange(v, w),
           c.via \in {"portal", "mcp"}, c.read \in PortalReads, Reading(c),
           GathersAll(c, d, w), Consistent(c, v) \/ Consistent(c, w)
    PROVE  Consistent(d, v) \/ Consistent(d, w)
<1>1. PICK x \in {v, w} : Vetted(c, x) /\ Collected(c, x)
  BY ReadingResolvesNobody DEF Consistent
<1>2. ASSUME NEW y, Vetted(c, y) PROVE Vetted(d, y)
  BY <1>2 DEF Vetted, GathersAll, Proceeds
<1>3. Reading(d) /\ (Collected(c, w) => Collected(d, w))
  BY SameWorld DEF GathersAll, Gathers
<1>4. d.read \in PortalReads
  BY DEF GathersAll, Proceeds
<1>5. CASE DataChange(v, w)
  <2>1. Vetted(c, v) /\ Vetted(c, w)
    BY <1>1, <1>5 DEF Vetted, DataChange, Grows, SameRights
  <2>2. Collected(d, v) \/ Collected(d, w)
    BY <1>1, <1>3, <1>5 DEF GathersAll, Gathers
  <2> QED BY <1>2, <1>3, <2>1, <2>2 DEF Consistent
<1>6. CASE SameStudies(v, w) /\ SameDuties(v, w)
  <2>1. SameStudies(w, v) /\ SameDuties(w, v)
    BY <1>6 DEF SameStudies, SameDuties
  <2>2. Collected(c, w)
    BY <1>1, <1>6, CollectedAlike
  <2>3. Collected(d, w) /\ Collected(d, v)
    BY <1>3, <1>4, <2>1, <2>2, CollectedAlike
  <2> QED BY <1>1, <1>2, <1>3, <2>3 DEF Consistent
<1> QED BY <1>5, <1>6 DEF OneChange

\* Who asks stays who asks in one of them.
LEMMA VettedOn ==
    ASSUME NEW c, NEW d, NEW v, NEW w, WorldIsSound(w), OneChange(v, w),
           c.via \in {"portal", "mcp"}, c.read \in PortalReads, Resolving(c), Resolving(d),
           Left(c) \in 2 .. 9, Passes(c, d, w), Consistent(c, v) \/ Consistent(c, w)
    PROVE  Consistent(d, v) \/ Consistent(d, w)
<1>1. ~Reading(c)
  BY ReadingResolvesNobody
<1>2. Vetting(c, v) \/ Vetting(c, w)
  BY <1>1 DEF Consistent
<1>3. Vetting(d, v) \/ Vetting(d, w)
  BY <1>2, PassesAreVetted
<1> QED BY <1>3 DEF Consistent

\* When the profile is found, who asks is known, in the same world.
LEMMA VettedAtLast ==
    ASSUME NEW c, NEW d, NEW x, NEW w, c.via \in {"portal", "mcp"}, Resolving(c), Left(c) = 1,
           Consistent(c, x), x.profiles = w.profiles,
           <<c.person, KindOf(c.read)>> \in w.profiles, Proceeds(c, d), Started(d)
    PROVE  Consistent(d, x)
<1>1. Identified(c, x) /\ (Granted(c) => KindOf(c.read) \in x.roles)
  BY ReadingResolvesNobody DEF Consistent, Vetting
<1>2. /\ d.via = c.via /\ d.read = c.read /\ d.person = c.person
  BY DEF Proceeds
<1>3. c.via = "mcp" => x.registered
  BY <1>1 DEF Identified
<1>4. c.via = "mcp" => x.feature
  BY <1>1 DEF Identified
<1>5. x.organization = "active" /\ x.member = "active" /\ c.person = x.person
  BY <1>1 DEF Identified
<1>6. KindOf(c.read) \in x.roles
  BY <1>1 DEF Identified
<1>7. Vetted(d, x)
  BY <1>2, <1>3, <1>4, <1>5, <1>6 DEF Vetted
<1> QED BY <1>7 DEF Consistent, Started

\* What a call that only ends was found to be, it stays.
LEMMA ConsistentKept ==
    ASSUME NEW c, NEW d, Keeps(c, d), NEW x
    PROVE  Consistent(c, x) <=> Consistent(d, x)
<1>1. /\ d.via = c.via /\ d.read = c.read /\ d.section = c.section /\ d.todo = c.todo
      /\ d.permissions = c.permissions /\ d.person = c.person /\ d.active = c.active
      /\ d.sections = c.sections /\ d.students = c.students /\ d.found = c.found
  BY DEF Keeps, Alike
<1>2. Resolving(c) <=> Resolving(d)
  BY <1>1 DEF Resolving
<1>3. Vetting(c, x) <=> Vetting(d, x)
  BY <1>1 DEF Vetting, Identified, Left, Granted
<1>4. Vetted(c, x) <=> Vetted(d, x)
  BY <1>1 DEF Vetted
<1>5. Reading(c) <=> Reading(d)
  BY <1>1, Zenon DEF Reading
<1>6. Data(x, d, d.person) = Data(x, c, c.person)
  <2>1. Data(x, d, c.person) = Data(x, c, c.person)
    BY <1>1, Zenon DEF Data
  <2> QED BY <1>1, <2>1
<1>7. SummariesOf(c, x) <=> SummariesOf(d, x)
  BY <1>1, Zenon DEF SummariesOf, OfStudent
<1>8. Collected(c, x) <=> Collected(d, x)
  BY <1>1, <1>6, <1>7 DEF Collected
<1> QED BY <1>2, <1>3, <1>4, <1>5, <1>8 DEF Consistent

\* A change takes nothing from what a read stands on.
LEMMA StandsOn ==
    ASSUME NEW c, NEW w, NEW x, Grows(w, x), Stands(c, w)
    PROVE  Stands(c, x)
BY DEF Stands, Grows, Linked

----------------------------------------------------------------------------
\* Moments are only added.
Remembers(moments, more, w, d) == moments \subseteq more /\ Moment(w, d) \in more

\* A refusal that was right stays so.
LEMMA RefusableOn ==
    ASSUME NEW s, NEW t, s \subseteq t, Refusable(s)
    PROVE  Refusable(t)
BY DEF Refusable

\* Who may not read now can be refused.
LEMMA RefusableNow ==
    ASSUME NEW w, NEW d, NEW t, Moment(w, d) \in t, ~May(w, d)
    PROVE  Refusable(t)
<1>1. Moment(w, d).may = May(w, d)
  BY DEF Moment
<1> QED BY <1>1 DEF Refusable

\* Calls alike may be made alike.
LEMMA MayAlike ==
    ASSUME NEW c, NEW d, NEW w, Alike(c, d)
    PROVE  May(w, c) <=> May(w, d)
BY DEF Alike, May

\* A person known stays known.
LEMMA KnownOn ==
    ASSUME NEW c, NEW d, NEW s, NEW t, s \subseteq t, d.person = c.person, PersonKnown(c, s)
    PROVE  PersonKnown(d, t)
BY DEF PersonKnown

\* What is added now is the person's now.
LEMMA OwnedOn ==
    ASSUME NEW c, NEW d, NEW w, NEW s, NEW t, Remembers(s, t, w, d), Owned(c, s),
           Alike(c, d), d.person = c.person, c.read \in PortalReads,
           c.read # "student_schedule" => d.found \subseteq c.found \union Data(w, c, c.person)
    PROVE  Owned(d, t)
<1>1. ASSUME d.person \in People, d.read # "student_schedule", NEW x \in d.found
      PROVE  \E m \in t : x \in m.data[d.person]
  <2>0. d.read = c.read
    BY DEF Alike
  <2>1. CASE x \in c.found
    <3>1. \E m \in s : x \in m.data[c.person]
      BY <1>1, <2>0, <2>1 DEF Owned
    <3> QED BY <3>1 DEF Remembers
  <2>2. CASE x \in Data(w, c, c.person)
    <3>1. Data(w, d, d.person) = Data(w, c, c.person)
      BY AlikeAreEntitledAlike
    <3>2. Moment(w, d).data[d.person] = Data(w, d, d.person)
      BY <1>1 DEF Moment
    <3> QED BY <2>2, <3>1, <3>2 DEF Remembers
  <2> QED BY <1>1, <2>0, <2>1, <2>2
<1> QED BY <1>1 DEF Owned

\* A call that keeps all it found is where it was.
LEMMA KeptPlace ==
    ASSUME NEW c, NEW d, Keeps(c, d)
    PROVE  /\ Resolving(c) <=> Resolving(d)
           /\ Reading(c) <=> Reading(d)
           /\ Granted(c) <=> Granted(d)
           /\ Left(d) = Left(c)
           /\ Vouched(c) <=> Vouched(d)
           /\ \A w : Stands(c, w) <=> Stands(d, w)
<1>1. /\ d.via = c.via /\ d.read = c.read /\ d.section = c.section /\ d.todo = c.todo
      /\ d.permissions = c.permissions /\ d.person = c.person /\ d.active = c.active
      /\ d.sections = c.sections /\ d.students = c.students /\ d.found = c.found
  BY DEF Keeps, Alike
<1>2. Resolving(c) <=> Resolving(d)
  BY <1>1 DEF Resolving
<1>3. Reading(c) <=> Reading(d)
  BY <1>1, Zenon DEF Reading
<1>4. (Granted(c) <=> Granted(d)) /\ Left(d) = Left(c)
  BY <1>1 DEF Granted, Left
<1>5. Vouched(c) <=> Vouched(d)
  BY <1>1, <1>4 DEF Vouched
<1>6. ASSUME NEW w PROVE Stands(c, w) <=> Stands(d, w)
  BY <1>1, Zenon DEF Stands, OfStudent
<1> QED BY <1>2, <1>3, <1>4, <1>5, <1>6

\* How a call can end, and what must be so when it does.
Ends(c, d, t) ==
    /\ Keeps(c, d)
    /\ \/ d.stage \in {"refused", "over"} /\ d.outcome \in {"denied", "failed"}
       \/ /\ d.stage \in {"finished", "over"} /\ d.outcome = "succeeded"
          /\ Reading(c) /\ c.todo = << >> /\ c.students = {}
          /\ c.outcome \in {"none", "succeeded"}
    /\ d.outcome = "denied" => Refusable(t)

\* A call that ends is as sound as it was.
LEMMA EndsAreSound ==
    ASSUME NEW c, NEW d, NEW w, NEW s, NEW t, NEW n, CallIsSound(c, w, s, n),
           Ends(c, d, t), Remembers(s, t, w, d)
    PROVE  CallIsSound(d, w, t, n)
<1>0. Keeps(c, d)
  BY DEF Ends
<1>1. /\ DOMAIN d = Fields /\ Alike(c, d) /\ d.via = c.via /\ d.read = c.read
      /\ d.section = c.section /\ d.todo = c.todo
      /\ d.permissions = c.permissions /\ d.person = c.person
      /\ d.students = c.students /\ d.found = c.found
  BY <1>0 DEF Keeps, Alike
<1>2. /\ c.via \in {"portal", "mcp"} /\ c.read \in PortalReads /\ c.section \in Sections
      /\ \E r \in SUBSET Roles : c.permissions = PermissionsOf(r)
      /\ c.students \subseteq People /\ (c.read # "guardian_students" => c.students = {})
      /\ \/ Resolving(c) /\ Vouched(c) /\ c.found = {} /\ c.students = {}
         \/ Reading(c) /\ c.person \in People /\ Granted(c)
  BY DEF CallIsSound, CallFits
<1>3. CallFits(d)
  <2>1. \/ d.stage = "reading" /\ d.outcome = "none"
        \/ d.stage \in {"refused", "over"} /\ d.outcome \in {"denied", "failed"}
        \/ /\ d.stage \in {"finished", "over"} /\ d.outcome = "succeeded"
           /\ Reading(d) /\ d.todo = << >> /\ d.students = {}
    BY <1>0, <1>1, KeptPlace DEF Ends
  <2>2. \/ Resolving(d) /\ Vouched(d) /\ d.found = {} /\ d.students = {}
        \/ Reading(d) /\ d.person \in People /\ Granted(d)
    BY <1>0, <1>1, <1>2, KeptPlace
  <2> QED BY <1>1, <1>2, <2>1, <2>2 DEF CallFits
<1>4. DenialsFit(d, w, t)
  <2>1. DenialsFit(c, w, s) /\ (Refusable(s) => Refusable(t))
    BY RefusableOn DEF CallIsSound, Remembers
  <2>2. d.outcome = "denied" => Refusable(t)
    BY DEF Ends
  <2>3. /\ Resolving(c) <=> Resolving(d)
        /\ Granted(c) <=> Granted(d)
        /\ Left(d) = Left(c)
    BY <1>0, KeptPlace
  <2>4. Resolving(d) /\ ~Granted(d) /\ Left(d) <= (IF d.via = "mcp" THEN 5 ELSE 3)
        => Refusable(t)
    BY <1>1, <2>1, <2>3 DEF DenialsFit
  <2>5. d.person # Nobody =>
          /\ <<d.person, KindOf(d.read)>> \notin w.profiles => Refusable(t)
          /\ d.read = "section_students" /\ <<d.person, d.section>> \notin w.assigned
             => Refusable(t)
    BY <1>1, <2>1 DEF DenialsFit
  <2> QED BY <2>2, <2>4, <2>5 DEF DenialsFit
<1>5. PartsFit(d, w, t)
  <2>1. PersonKnown(c, s) /\ Owned(c, s) /\ (Reading(c) => Stands(c, w))
    BY DEF CallIsSound, PartsFit
  <2>2. PersonKnown(d, t)
    BY <1>1, <2>1, KnownOn DEF Remembers
  <2>3. Owned(d, t)
    BY <1>1, <1>2, <2>1, OwnedOn
  <2> QED BY <1>0, <2>1, <2>2, <2>3, KeptPlace DEF PartsFit
<1>6. WitnessesFit(d, w, t, n)
  <2>1. PICK v \in Worlds :
          /\ Moment(v, c) \in s
          /\ n = 0 => v = w
          /\ n = 1 => OneChange(v, w)
          /\ n <= 1 /\ c.outcome \in {"none", "succeeded"} =>
               Consistent(c, v) \/ Consistent(c, w)
    BY DEF CallIsSound, WitnessesFit
  <2>2. Moment(v, d) \in t
    BY <1>1, <1>2, <2>1, AlikeAreEntitledAlike DEF Remembers
  <2>3. d.outcome \in {"none", "succeeded"} => c.outcome \in {"none", "succeeded"}
    BY DEF Ends
  <2>4. n <= 1 /\ d.outcome \in {"none", "succeeded"} =>
          Consistent(d, v) \/ Consistent(d, w)
    BY <1>0, <2>1, <2>3, ConsistentKept
  <2> QED BY <2>1, <2>2, <2>4 DEF WitnessesFit
<1> QED BY <1>3, <1>4, <1>5, <1>6 DEF CallIsSound, Remembers

----------------------------------------------------------------------------
\* A read under way, with nothing refused yet.
IsUnderWay(c) == c.stage = "reading" /\ c.outcome = "none"

\* One of the first world or the present one is a change from the other, or the same.
LEMMA WitnessOf ==
    ASSUME ReadsFit, NEW c, NEW w, NEW s, NEW n \in Nat, CallIsSound(c, w, s, n)
    PROVE  \E v \in Worlds :
             /\ Moment(v, c) \in s /\ WorldIsSound(v)
             /\ n = 0 => v = w
             /\ n = 1 => OneChange(v, w)
             /\ n <= 1 => OneChange(v, w)
             /\ n <= 1 /\ c.outcome \in {"none", "succeeded"} =>
                  Consistent(c, v) \/ Consistent(c, w)
<1>1. PICK v \in Worlds :
        /\ Moment(v, c) \in s
        /\ n = 0 => v = w
        /\ n = 1 => OneChange(v, w)
        /\ n <= 1 /\ c.outcome \in {"none", "succeeded"} =>
             Consistent(c, v) \/ Consistent(c, w)
  BY DEF CallIsSound, WitnessesFit
<1>2. WorldIsSound(v)
  BY DEF ReadsFit
<1>3. n = 0 => OneChange(v, w)
  BY <1>1, SameWorld DEF OneChange
<1>4. n <= 1 => OneChange(v, w)
  BY <1>1, <1>3
<1> QED BY <1>1, <1>2, <1>4

\* A step that resolves who asks leaves the call sound.
LEMMA VetsAreSound ==
    ASSUME ReadsFit, NEW c, NEW d, NEW w, NEW s, NEW t, NEW n \in Nat, CallIsSound(c, w, s, n),
           WorldIsSound(w), Resolving(c), IsUnderWay(c), Advances(c, d), Passes(c, d, w),
           Left(c) \in 2 .. 9, Remembers(s, t, w, d)
    PROVE  CallIsSound(d, w, t, n)
<1>0. /\ DOMAIN d = Fields /\ Alike(c, d) /\ d.via = c.via /\ d.read = c.read
      /\ d.section = c.section /\ d.stage = c.stage /\ d.outcome = c.outcome
      /\ d.found = c.found /\ d.students = c.students /\ d.todo = Tail(c.todo)
  BY DEF Advances, Alike
<1>1. /\ c.via \in {"portal", "mcp"} /\ c.read \in PortalReads /\ c.section \in Sections
      /\ \E r \in SUBSET Roles : c.permissions = PermissionsOf(r)
      /\ ~Reading(c) /\ Vouched(c) /\ c.found = {} /\ c.students = {}
  BY ReadingResolvesNobody DEF CallIsSound, CallFits
<1>2. Resolving(d) /\ Left(d) = Left(c) - 1
  <2>1. Placed(c.todo, c.via)
    BY <1>1, StepsAreInOrder DEF Resolving
  <2>2. Left(c) # 1 /\ Left(d) = Left(c) - 1
    BY DEF Passes
  <2>3. Len(c.todo) # 1
    BY <2>2 DEF Left
  <2> QED BY <1>0, <2>1, <2>2, <2>3 DEF Placed, Resolving
<1>3. ~Reading(d)
  BY <1>0, <1>1, <1>2, ReadingResolvesNobody
<1>4. KindOf(c.read) \in {"student", "teacher", "guardian"} /\ w.roles \in SUBSET Roles
  BY <1>1, ReadsHaveKinds, SoundWorlds
<1>5. IsAtRoles(c) => d.permissions = PermissionsOf(w.roles) /\ (Granted(d) <=> KindOf(c.read) \in w.roles)
  BY <1>0, <1>4, KindsAreGranted DEF Passes, Granted
<1>6. ~IsAtRoles(c) => d.permissions = c.permissions /\ (Granted(d) <=> Granted(c))
  BY <1>0 DEF Passes, Granted
<1>7. Left(c) <= 3 => ~IsAtRoles(c)
  BY DEF IsAtRoles, Left
<1>8. Vouched(d)
  <2>1. Left(d) <= 2 => Granted(d)
    <3>1. Left(c) = 3 => Granted(c)
      BY DEF Passes
    <3>2. Left(c) <= 2 => Granted(c)
      BY <1>1 DEF Vouched
    <3>3. Left(c) <= 3 => Granted(c)
      BY <3>1, <3>2
    <3> QED BY <1>2, <1>6, <1>7, <3>3
  <2>2. Left(d) <= 1 => d.person \in People
    BY <1>2 DEF Passes
  <2> QED BY <2>1, <2>2 DEF Vouched
<1>9. CallFits(d)
  <2>1. \E r \in SUBSET Roles : d.permissions = PermissionsOf(r)
    BY <1>1, <1>4, <1>5, <1>6
  <2> QED BY <1>0, <1>1, <1>2, <1>8, <2>1 DEF CallFits, IsUnderWay
<1>10. PersonKnown(d, t) /\ (d.person # c.person => d.person = w.person)
  <2>1. CASE Left(c) = 2
    <3>1. w.member = "active" /\ d.person = w.person
      BY <2>1 DEF Passes
    <3>2. Moment(w, d).member = w.member /\ Moment(w, d).person = w.person
      BY DEF Moment
    <3> QED BY <3>1, <3>2 DEF PersonKnown, Remembers
  <2>2. CASE Left(c) # 2
    <3>1. d.person = c.person
      BY <2>2 DEF Passes
    <3> QED BY <3>1, KnownOn DEF CallIsSound, PartsFit, Remembers
  <2> QED BY <2>1, <2>2
<1>11. PartsFit(d, w, t)
  BY <1>0, <1>1, <1>3, <1>10 DEF PartsFit, Owned
<1>12. DenialsFit(d, w, t)
  <2>1. DenialsFit(c, w, s) /\ (Refusable(s) => Refusable(t))
    BY RefusableOn DEF CallIsSound, Remembers
  <2>2. ~May(w, d) => Refusable(t)
    BY RefusableNow DEF Remembers
  <2>3. d.outcome = "denied" => Refusable(t)
    BY <1>0 DEF IsUnderWay
  <2>4. ASSUME ~Granted(d), Left(d) <= (IF d.via = "mcp" THEN 5 ELSE 3)
        PROVE  Refusable(t)
    <3>1. CASE IsAtRoles(c)
      <4>1. ~May(w, d)
        BY <1>0, <1>5, <2>4, <3>1 DEF May
      <4> QED BY <2>2, <4>1
    <3>2. CASE ~IsAtRoles(c)
      <4>1. Left(c) <= (IF c.via = "mcp" THEN 5 ELSE 3)
        BY <1>0, <1>2, <2>4, <3>2 DEF IsAtRoles
      <4>2. ~Granted(c)
        BY <1>6, <2>4, <3>2
      <4> QED BY <2>1, <4>1, <4>2 DEF DenialsFit
    <3> QED BY <3>1, <3>2
  <2>5. ASSUME d.person # Nobody, <<d.person, KindOf(d.read)>> \notin w.profiles
        PROVE  Refusable(t)
    <3>1. CASE d.person = c.person
      BY <1>0, <2>1, <2>5, <3>1 DEF DenialsFit
    <3>2. CASE d.person = w.person
      BY <2>2, <2>5, <3>2 DEF May
    <3> QED BY <1>10, <3>1, <3>2
  <2>6. ASSUME d.person # Nobody, d.read = "section_students",
               <<d.person, d.section>> \notin w.assigned
        PROVE  Refusable(t)
    <3>1. CASE d.person = c.person
      BY <1>0, <2>1, <2>6, <3>1 DEF DenialsFit
    <3>2. CASE d.person = w.person
      BY <2>2, <2>6, <3>2 DEF May
    <3> QED BY <1>10, <3>1, <3>2
  <2> QED BY <2>3, <2>4, <2>5, <2>6 DEF DenialsFit
<1>13. WitnessesFit(d, w, t, n)
  <2>1. PICK v \in Worlds :
          /\ Moment(v, c) \in s /\ WorldIsSound(v)
          /\ n = 0 => v = w
          /\ n = 1 => OneChange(v, w)
          /\ n <= 1 => OneChange(v, w)
          /\ n <= 1 /\ c.outcome \in {"none", "succeeded"} =>
               Consistent(c, v) \/ Consistent(c, w)
    BY WitnessOf
  <2>2. Moment(v, d) \in t
    BY <1>0, <1>1, <2>1, AlikeAreEntitledAlike DEF Remembers
  <2>3. n <= 1 => Consistent(d, v) \/ Consistent(d, w)
    BY <1>1, <1>2, <2>1, VettedOn DEF IsUnderWay
  <2> QED BY <2>1, <2>2, <2>3 DEF WitnessesFit
<1> QED BY <1>9, <1>11, <1>12, <1>13 DEF CallIsSound, Remembers

----------------------------------------------------------------------------
\* A read that begins to read data is sound.
LEMMA StartsAreSound ==
    ASSUME ReadsFit, NEW c, NEW d, NEW w, NEW s, NEW t, NEW n \in Nat, CallIsSound(c, w, s, n),
           WorldIsSound(w), Resolving(c), IsUnderWay(c), Left(c) = 1, Proceeds(c, d), Starts(d),
           Started(d), <<c.person, KindOf(c.read)>> \in w.profiles, Remembers(s, t, w, d)
    PROVE  CallIsSound(d, w, t, n)
<1>0. /\ DOMAIN d = Fields /\ Alike(c, d) /\ d.via = c.via /\ d.read = c.read
      /\ d.section = c.section /\ d.stage = c.stage /\ d.outcome = c.outcome
      /\ d.permissions = c.permissions /\ d.person = c.person
  BY DEF Proceeds, Alike
<1>1. /\ c.via \in {"portal", "mcp"} /\ c.read \in PortalReads /\ c.section \in Sections
      /\ \E r \in SUBSET Roles : c.permissions = PermissionsOf(r)
      /\ Vouched(c) /\ c.found = {}
  BY ReadingResolvesNobody DEF CallIsSound, CallFits
<1>2. Reading(d) /\ ~Resolving(d)
  BY <1>0, <1>1, ReadingResolvesNobody DEF Started
<1>3. c.person \in People /\ Granted(c)
  BY <1>1 DEF Vouched
<1>4. d.students = {} /\ Stands(d, w) /\ d.found \subseteq Data(w, d, d.person)
  BY DEF Starts, Started
<1>5. CallFits(d)
  BY <1>0, <1>1, <1>2, <1>3, <1>4 DEF CallFits, IsUnderWay, Granted
<1>6. PartsFit(d, w, t)
  <2>1. PersonKnown(c, s) /\ Owned(c, s)
    BY DEF CallIsSound, PartsFit
  <2>2. PersonKnown(d, t)
    BY <1>0, <2>1, KnownOn DEF Remembers
  <2>3. Data(w, d, d.person) = Data(w, c, c.person)
    BY <1>0, <1>1, AlikeAreEntitledAlike
  <2>4. Owned(d, t)
    BY <1>0, <1>1, <1>4, <2>1, <2>3, OwnedOn
  <2> QED BY <1>4, <2>2, <2>4 DEF PartsFit
<1>7. DenialsFit(d, w, t)
  <2>1. DenialsFit(c, w, s) /\ (Refusable(s) => Refusable(t))
    BY RefusableOn DEF CallIsSound, Remembers
  <2> QED BY <1>0, <1>2, <2>1 DEF DenialsFit, IsUnderWay
<1>8. WitnessesFit(d, w, t, n)
  <2>1. PICK v \in Worlds :
          /\ Moment(v, c) \in s /\ WorldIsSound(v)
          /\ n = 0 => v = w
          /\ n = 1 => OneChange(v, w)
          /\ n <= 1 => OneChange(v, w)
          /\ n <= 1 /\ c.outcome \in {"none", "succeeded"} =>
               Consistent(c, v) \/ Consistent(c, w)
    BY WitnessOf
  <2>2. Moment(v, d) \in t
    BY <1>0, <1>1, <2>1, AlikeAreEntitledAlike DEF Remembers
  <2>3. OneChange(v, w) => v.profiles = w.profiles
    BY DEF OneChange, DataChange, Grows
  <2>4. n <= 1 => Consistent(d, v) \/ Consistent(d, w)
    BY <1>1, <2>1, <2>3, VettedAtLast DEF IsUnderWay
  <2> QED BY <2>1, <2>2, <2>4 DEF WitnessesFit
<1> QED BY <1>5, <1>6, <1>7, <1>8 DEF CallIsSound, Remembers

\* A step that reads data leaves the call sound.
LEMMA GathersAreSound ==
    ASSUME ReadsFit, NEW c, NEW d, NEW w, NEW s, NEW t, NEW n \in Nat, CallIsSound(c, w, s, n),
           WorldIsSound(w), Reading(c), IsUnderWay(c), GathersAll(c, d, w),
           Remembers(s, t, w, d)
    PROVE  CallIsSound(d, w, t, n)
<1>0. /\ DOMAIN d = Fields /\ Alike(c, d) /\ d.via = c.via /\ d.read = c.read
      /\ d.section = c.section /\ d.stage = c.stage /\ d.outcome = c.outcome
      /\ d.permissions = c.permissions /\ d.person = c.person
  BY DEF GathersAll, Proceeds, Alike
<1>1. /\ c.via \in {"portal", "mcp"} /\ c.read \in PortalReads /\ c.section \in Sections
      /\ \E r \in SUBSET Roles : c.permissions = PermissionsOf(r)
      /\ c.person \in People /\ Granted(c)
  BY ReadingResolvesNobody DEF CallIsSound, CallFits
<1>2. Reading(d) /\ ~Resolving(d) /\ StudentsFit(d)
  BY <1>0, <1>1, ReadingResolvesNobody DEF GathersAll
<1>3. CallFits(d)
  BY <1>0, <1>1, <1>2 DEF CallFits, IsUnderWay, Granted, StudentsFit
<1>4. PartsFit(d, w, t)
  <2>1. PersonKnown(c, s) /\ Owned(c, s) /\ Stands(c, w)
    BY DEF CallIsSound, PartsFit
  <2>2. PersonKnown(d, t)
    BY <1>0, <2>1, KnownOn DEF Remembers
  <2>3. Stands(d, w) /\ Adds(c, d, w)
    BY <2>1, SameWorld DEF GathersAll, Gathers
  <2>4. Owned(d, t)
    BY <1>0, <1>1, <2>1, <2>3, OwnedOn DEF Adds
  <2> QED BY <2>2, <2>3, <2>4 DEF PartsFit
<1>5. DenialsFit(d, w, t)
  <2>1. DenialsFit(c, w, s) /\ (Refusable(s) => Refusable(t))
    BY RefusableOn DEF CallIsSound, Remembers
  <2> QED BY <1>0, <1>2, <2>1 DEF DenialsFit, IsUnderWay
<1>6. WitnessesFit(d, w, t, n)
  <2>1. PICK v \in Worlds :
          /\ Moment(v, c) \in s /\ WorldIsSound(v)
          /\ n = 0 => v = w
          /\ n = 1 => OneChange(v, w)
          /\ n <= 1 => OneChange(v, w)
          /\ n <= 1 /\ c.outcome \in {"none", "succeeded"} =>
               Consistent(c, v) \/ Consistent(c, w)
    BY WitnessOf
  <2>2. Moment(v, d) \in t
    BY <1>0, <1>1, <2>1, AlikeAreEntitledAlike DEF Remembers
  <2>3. n <= 1 => Consistent(d, v) \/ Consistent(d, w)
    BY <1>1, <2>1, ConsistentOn DEF IsUnderWay
  <2> QED BY <2>1, <2>2, <2>3 DEF WitnessesFit
<1> QED BY <1>3, <1>4, <1>5, <1>6 DEF CallIsSound, Remembers

\* A change of the world leaves the call sound.
LEMMA ChangesAreSound ==
    ASSUME ReadsFit, NEW c, NEW w, NEW x, NEW s, NEW t, NEW n \in Nat, CallIsSound(c, w, s, n),
           WorldIsSound(w), OneChange(w, x), Remembers(s, t, x, c)
    PROVE  CallIsSound(c, x, t, n + 1)
<1>1. Grows(w, x)
  BY DEF OneChange, DataChange
<1>2. DenialsFit(c, x, t)
  <2>1. DenialsFit(c, w, s) /\ (Refusable(s) => Refusable(t))
    BY RefusableOn DEF CallIsSound, Remembers
  <2>2. w.profiles = x.profiles /\ w.assigned \subseteq x.assigned
    BY <1>1 DEF Grows
  <2> QED BY <2>1, <2>2 DEF DenialsFit
<1>3. PartsFit(c, x, t)
  <2>1. PersonKnown(c, s) /\ Owned(c, s) /\ (Reading(c) => Stands(c, w))
    BY DEF CallIsSound, PartsFit
  <2>2. PersonKnown(c, t)
    BY <2>1, KnownOn DEF Remembers
  <2>3. Owned(c, t)
    BY <2>1, OwnedOn DEF Alike, CallIsSound, CallFits
  <2> QED BY <1>1, <2>1, <2>2, <2>3, StandsOn DEF PartsFit
<1>4. WitnessesFit(c, x, t, n + 1)
  <2>1. PICK v \in Worlds :
          /\ Moment(v, c) \in s /\ WorldIsSound(v)
          /\ n = 0 => v = w
          /\ n = 1 => OneChange(v, w)
          /\ n <= 1 => OneChange(v, w)
          /\ n <= 1 /\ c.outcome \in {"none", "succeeded"} =>
               Consistent(c, v) \/ Consistent(c, w)
    BY WitnessOf
  <2>2. Moment(v, c) \in t
    BY <2>1 DEF Remembers
  <2>3. CASE n = 0
    <3>1. v = w /\ n + 1 = 1
      BY <2>1, <2>3
    <3>2. c.outcome \in {"none", "succeeded"} => Consistent(c, v)
      BY <2>1, <2>3, <3>1
    <3> QED BY <2>2, <3>1, <3>2 DEF WitnessesFit
  <2>4. CASE n # 0
    <3>1. ~(n + 1 <= 1) /\ n + 1 # 0 /\ n + 1 # 1
      BY <2>4
    <3> QED BY <2>2, <3>1 DEF WitnessesFit
  <2> QED BY <2>3, <2>4
<1> QED BY <1>2, <1>3, <1>4 DEF CallIsSound, Remembers

----------------------------------------------------------------------------
\* A read that begins is sound.
LEMMA BeginningsAreSound ==
    ASSUME ReadsFit, NEW d, NEW w \in Worlds, NEW t, Moment(w, d) \in t,
           DOMAIN d = Fields, d.stage = "reading", d.outcome = "none",
           d.read \in PortalReads, d.section \in Sections, d.permissions = {},
           d.person = Nobody, d.students = {}, d.found = {}, Resolving(d),
           (d.via = "portal" /\ Left(d) = 6) \/ (d.via = "mcp" /\ Left(d) = 9)
    PROVE  CallIsSound(d, w, t, 0)
<1>1. ~Granted(d) /\ d.permissions = PermissionsOf({}) /\ {} \in SUBSET Roles
  BY DEF Granted, PermissionsOf
<1>2. ~Reading(d)
  BY ReadingResolvesNobody
<1>3. ~(Left(d) <= 2) /\ ~(Left(d) <= 1) /\ ~(Left(d) <= 3)
  OBVIOUS
<1>4. d.via = "mcp" => ~(Left(d) <= 8) /\ ~(Left(d) <= 5)
  OBVIOUS
<1>5. CallFits(d)
  <2>1. Vouched(d)
    BY <1>3 DEF Vouched
  <2> QED BY <1>1, <2>1 DEF CallFits
<1>6. PartsFit(d, w, t)
  BY <1>2 DEF PartsFit, PersonKnown, Owned
<1>7. DenialsFit(d, w, t)
  BY <1>3, <1>4 DEF DenialsFit
<1>8. WitnessesFit(d, w, t, 0)
  <2>1. Identified(d, w)
    BY <1>3, <1>4 DEF Identified
  <2>2. Consistent(d, w)
    BY <1>1, <2>1 DEF Consistent, Vetting
  <2> QED BY <2>2 DEF WitnessesFit
<1> QED BY <1>5, <1>6, <1>7, <1>8 DEF CallIsSound

\* So a read begins, in the portal or by a tool.
LEMMA ReadsBeginSound ==
    ASSUME ReadsFit, call = NoCall, seen = {}, audit = << >>, answer = << >>, moves = 0,
           world \in Worlds, StartPortal \/ StartTool, WitnessRead
    PROVE  /\ CallIsSound(call', world', seen', moves')
           /\ RecordsFit(call', audit', answer') /\ UNCHANGED <<world, moves>>
<1>1. PICK via, read, s, steps :
        /\ BeginRead(via, read, s, steps) /\ read \in PortalReads /\ s \in Sections
        /\ \/ via = "portal" /\ steps = TenantContext \o Ownership
           \/ via = "mcp" /\ steps = <<<<"subject", Nobody>>>> \o TenantContext
                                       \o Entitlement \o Ownership
  <2>1. CASE StartPortal
    BY <2>1 DEF StartPortal
  <2>2. CASE StartTool
    <3>1. \A tool \in DOMAIN McpTools : McpTools[tool] \in PortalReads
      BY DEF McpTools, PortalReads, StudentReads, TeacherReads, GuardianReads
    <3> QED BY <2>2, <3>1 DEF StartTool
  <2> QED BY <2>1, <2>2
<1>2. /\ call' = [NoCall EXCEPT !.stage = "reading", !.via = via, !.read = read,
                                !.section = s, !.todo = steps]
      /\ UNCHANGED <<world, moves, audit, answer>>
  BY <1>1 DEF BeginRead
<1>3. /\ DOMAIN call' = Fields /\ call'.stage = "reading" /\ call'.outcome = "none"
      /\ call'.via = via /\ call'.read = read /\ call'.section = s /\ call'.todo = steps
      /\ call'.permissions = {} /\ call'.person = Nobody
      /\ call'.students = {} /\ call'.found = {}
  BY <1>2 DEF NoCall, Fields
<1>4. Moment(world, call') \in seen'
  <2>1. call' # NoCall /\ call.stage = "rest"
    BY <1>3 DEF NoCall
  <2> QED BY <1>2, <2>1 DEF WitnessRead
<1>5. Resolving(call') /\ (via = "portal" => Left(call') = 6) /\ (via = "mcp" => Left(call') = 9)
  <2>1. CASE via = "portal"
    <3>1. steps = <<<<"organization", Nobody>>, <<"membership", Nobody>>, <<"roles", Nobody>>,
                    <<"ownership", Nobody>>, <<"person", Nobody>>, <<"profile", Nobody>>>>
      BY <1>1, <2>1, PortalSteps
    <3>2. Len(steps) = 6 /\ steps \in WhoAsks("portal")
      BY <3>1, LongListsOfSteps DEF WhoAsks
    <3> QED BY <1>3, <2>1, <3>2 DEF Resolving, Left
  <2>2. CASE via = "mcp"
    <3>1. steps = <<<<"subject", Nobody>>, <<"organization", Nobody>>, <<"membership", Nobody>>,
                    <<"roles", Nobody>>, <<"organization", Nobody>>, <<"feature", Nobody>>,
                    <<"ownership", Nobody>>, <<"person", Nobody>>, <<"profile", Nobody>>>>
      BY <1>1, <2>2, ToolSteps
    <3>2. Len(steps) = 9 /\ steps \in WhoAsks("mcp")
      BY <3>1, LongListsOfSteps DEF WhoAsks
    <3> QED BY <1>3, <2>2, <3>2 DEF Resolving, Left
  <2> QED BY <1>1, <2>1, <2>2
<1>6. CallIsSound(call', world, seen', 0)
  <2>1. (call'.via = "portal" /\ Left(call') = 6) \/ (call'.via = "mcp" /\ Left(call') = 9)
    BY <1>1, <1>3, <1>5
  <2>2. call'.read \in PortalReads /\ call'.section \in Sections /\ Resolving(call')
    BY <1>1, <1>3, <1>5
  <2> QED BY <1>3, <1>4, <2>1, <2>2, BeginningsAreSound
<1>7. RecordsFit(call', audit', answer')
  BY <1>2, <1>3 DEF RecordsFit
<1> QED BY <1>2, <1>6, <1>7

\* The moments of a read are remembered.
LEMMA MomentsAreRemembered ==
    ASSUME WitnessRead, Alike(call, call'), call.read \in PortalReads,
           Moment(world, call) \in seen,
           call.stage \in {"reading", "finished"} \/ world' = world
    PROVE  Remembers(seen, seen', world', call')
<1>1. call' # NoCall
  BY DEF Alike, NoCall, PortalReads, StudentReads, TeacherReads, GuardianReads
<1>2. CASE call.stage \in {"rest", "reading", "finished"}
  BY <1>1, <1>2 DEF WitnessRead, Remembers
<1>3. CASE call.stage \notin {"rest", "reading", "finished"}
  <2>1. seen' = seen /\ world' = world
    BY <1>3 DEF WitnessRead
  <2>2. Moment(world, call') = Moment(world, call)
    BY AlikeAreEntitledAlike
  <2> QED BY <2>1, <2>2 DEF Remembers
<1> QED BY <1>2, <1>3

\* What roles permit, and what steps ask for.
LEMMA RolesPermit ==
    /\ {"academics.student", "grading.student", "scheduling.student", "deadlines"}
         = Permissions["student"]
    /\ {"academics.teacher", "scheduling.teacher", "sync", "deadlines"} = Permissions["teacher"]
    /\ {"academics.guardian", "grading.guardian"} = Permissions["guardian"]
BY DEF Permissions

\* What steps ask for that some reads make.
LEMMA StepsRequire ==
    ASSUME NEW kind
    PROVE  /\ \A step \in {"enrollments", "events", "courses"} :
                Requires(step, kind) = {"academics.student", "academics.guardian"}
           /\ \A step \in {"assigned", "assignment", "names"} :
                Requires(step, kind) = {"academics.teacher"}
           /\ \A step \in {"sections", "rooms"} :
                Requires(step, kind) = {"academics.student", "academics.teacher"}
           /\ Requires("sessions", kind) = {"scheduling.student"}
           /\ Requires("teaching", kind) = {"scheduling.teacher"}
           /\ Requires("grades", kind) = {"grading.student", "grading.guardian"}
           /\ Requires("mapping", kind) = {"deadlines"}
           /\ Requires("evidence", kind) = {"sync"}
           /\ \A step \in {"attendance", "moodle", "health", "roster", "linked"} :
                Requires(step, kind) = {}
BY DEF Requires

\* Who the reads are for.
LEMMA ReadsAreFor ==
    /\ \A r \in {"student_schedule", "student_grades", "student_gpa", "student_events",
                 "student_moodle_deadlines"} : KindOf(r) = "student"
    /\ \A r \in {"teacher_schedule", "teacher_sections", "section_students",
                 "teacher_grade_sync_status", "teacher_moodle_deadlines"} : KindOf(r) = "teacher"
    /\ \A r \in {"guardian_events", "guardian_students"} : KindOf(r) = "guardian"
BY Kinds DEF StudentReads, TeacherReads, GuardianReads

\* A step is permitted to whom the read is for.
Permitted(step, kind) ==
    Requires(step, kind) = {} \/ Requires(step, kind) \intersect Permissions[kind] # {}

\* The steps of students, of teachers and of guardians are permitted to them.
LEMMA KindsArePermitted ==
    /\ \A step \in {"enrollments", "events", "courses", "sections", "rooms", "sessions", "grades",
                    "mapping", "attendance", "moodle", "health"} : Permitted(step, "student")
    /\ \A step \in {"assigned", "assignment", "names", "sections", "rooms", "teaching", "mapping",
                    "evidence", "moodle", "health", "roster"} : Permitted(step, "teacher")
    /\ \A step \in {"enrollments", "events", "courses", "grades", "attendance", "linked"} :
         Permitted(step, "guardian")
<1>1. /\ \A step \in {"enrollments", "events", "courses"} : Permitted(step, "student")
      /\ \A step \in {"sections", "rooms"} : Permitted(step, "student")
      /\ Permitted("sessions", "student") /\ Permitted("grades", "student")
      /\ Permitted("mapping", "student")
  <2>1. "academics.student" \in Permissions["student"] /\ "grading.student" \in Permissions["student"]
        /\ "scheduling.student" \in Permissions["student"] /\ "deadlines" \in Permissions["student"]
    BY RolesPermit
  <2> QED BY <2>1, StepsRequire DEF Permitted
<1>2. /\ \A step \in {"assigned", "assignment", "names"} : Permitted(step, "teacher")
      /\ \A step \in {"sections", "rooms"} : Permitted(step, "teacher")
      /\ Permitted("teaching", "teacher") /\ Permitted("mapping", "teacher")
      /\ Permitted("evidence", "teacher")
  <2>1. "academics.teacher" \in Permissions["teacher"] /\ "scheduling.teacher" \in Permissions["teacher"]
        /\ "sync" \in Permissions["teacher"] /\ "deadlines" \in Permissions["teacher"]
    BY RolesPermit
  <2> QED BY <2>1, StepsRequire DEF Permitted
<1>3. /\ \A step \in {"enrollments", "events", "courses"} : Permitted(step, "guardian")
      /\ Permitted("grades", "guardian")
  <2>1. "academics.guardian" \in Permissions["guardian"] /\ "grading.guardian" \in Permissions["guardian"]
    BY RolesPermit
  <2> QED BY <2>1, StepsRequire DEF Permitted
<1>4. \A kind : \A step \in {"attendance", "moodle", "health", "roster", "linked"} :
        Permitted(step, kind)
  BY StepsRequire DEF Permitted
<1> QED BY <1>1, <1>2, <1>3, <1>4

\* Who reads has the permissions its steps ask for.
LEMMA StepsArePermitted ==
    ASSUME NEW c, Reading(c), c.todo # << >>
    PROVE  Permitted(Head(c.todo)[1], KindOf(c.read))
<1>1. Head(c.todo)[1] \in {"enrollments", "attendance", "sessions", "sections", "rooms", "grades",
         "courses", "events", "mapping", "moodle", "health", "teaching", "assigned",
         "assignment", "roster", "names", "evidence", "linked"}
  BY DEF Reading, ReportOf
<1>2. CASE Head(c.todo)[1] \in {"moodle", "health"}
  <2>1. c.read \in Deadlines
    BY <1>2, AtMoodle, AtHealth
  <2> QED BY <1>2, <2>1, KindsArePermitted, ReadsAreFor DEF Deadlines
<1>3. CASE Head(c.todo)[1] = "enrollments"
  <2>1. c.read \in {"student_schedule", "student_grades", "student_gpa", "guardian_students"}
    BY <1>3, AtEnrollments
  <2> QED BY <1>3, <2>1, KindsArePermitted, ReadsAreFor
<1>4. CASE Head(c.todo)[1] = "attendance"
  <2>1. c.read \in {"student_schedule", "student_grades", "student_gpa", "guardian_students"}
    BY <1>4, AtAttendance
  <2> QED BY <1>4, <2>1, KindsArePermitted, ReadsAreFor
<1>5. CASE Head(c.todo)[1] = "sessions"
  BY <1>5, AtSessions, KindsArePermitted, ReadsAreFor
<1>6. CASE Head(c.todo)[1] \in {"sections", "rooms"}
  <2>1. c.read \in {"student_schedule", "teacher_schedule"}
    BY <1>6, AtSections, AtRooms
  <2> QED BY <1>6, <2>1, KindsArePermitted, ReadsAreFor
<1>7. CASE Head(c.todo)[1] = "grades"
  <2>1. c.read \in {"student_grades", "student_gpa", "guardian_students"}
    BY <1>7, AtGrades
  <2> QED BY <1>7, <2>1, KindsArePermitted, ReadsAreFor
<1>8. CASE Head(c.todo)[1] = "courses"
  <2>1. c.read \in {"student_grades", "guardian_students"}
    BY <1>8, AtCourses
  <2> QED BY <1>8, <2>1, KindsArePermitted, ReadsAreFor
<1>9. CASE Head(c.todo)[1] = "events"
  <2>1. c.read \in {"student_events", "guardian_events"}
    BY <1>9, AtEvents
  <2> QED BY <1>9, <2>1, KindsArePermitted, ReadsAreFor
<1>10. CASE Head(c.todo)[1] = "mapping"
  <2>1. c.read \in {"student_moodle_deadlines", "teacher_moodle_deadlines"}
    BY <1>10, AtMapping
  <2> QED BY <1>10, <2>1, KindsArePermitted, ReadsAreFor
<1>11. CASE Head(c.todo)[1] = "teaching"
  BY <1>11, AtTeaching, KindsArePermitted, ReadsAreFor
<1>12. CASE Head(c.todo)[1] = "assigned"
  <2>1. c.read \in {"teacher_sections", "teacher_grade_sync_status"}
    BY <1>12, AtAssigned
  <2> QED BY <1>12, <2>1, KindsArePermitted, ReadsAreFor
<1>13. CASE Head(c.todo)[1] \in {"assignment", "roster", "names"}
  <2>1. c.read = "section_students"
    BY <1>13, AtAssignment, AtRoster, AtNames
  <2> QED BY <1>13, <2>1, KindsArePermitted, ReadsAreFor
<1>14. CASE Head(c.todo)[1] = "evidence"
  BY <1>14, AtEvidence, KindsArePermitted, ReadsAreFor
<1>15. CASE Head(c.todo)[1] = "linked"
  BY <1>15, AtLinked, KindsArePermitted, ReadsAreFor
<1> QED BY <1>1, <1>2, <1>3, <1>4, <1>5, <1>6, <1>7, <1>8, <1>9, <1>10, <1>11, <1>12, <1>13,
           <1>14, <1>15

----------------------------------------------------------------------------
\* A call that is under way has no outcome yet.
LEMMA ReadingIsUnderWay ==
    ASSUME NEW c, CallFits(c), c.stage = "reading"
    PROVE  IsUnderWay(c)
BY DEF CallFits, IsUnderWay

\* Nothing recorded and nothing answered fits every call.
LEMMA NothingFits ==
    ASSUME NEW d
    PROVE  RecordsFit(d, << >>, << >>)
BY DEF RecordsFit

\* What is left of a state: the call goes on in the same world, nothing on record yet.
Continues ==
    /\ CallIsSound(call', world', seen', moves') /\ RecordsFit(call', audit', answer')
    /\ UNCHANGED <<world, moves>>

\* A step in which nothing is recorded.
LEMMA StepsContinue ==
    ASSUME RecordsFit(call, audit, answer), call.stage = "reading",
           UNCHANGED <<world, moves, audit, answer>>,
           CallIsSound(call', world, seen', moves)
    PROVE  Continues
<1>1. audit = << >> /\ answer = << >>
  BY DEF RecordsFit
<1>2. RecordsFit(call', audit', answer')
  BY <1>1, NothingFits
<1> QED BY <1>2 DEF Continues

\* A refusal in which nothing is recorded.
LEMMA RefusalsContinue ==
    ASSUME CallIsSound(call, world, seen, moves), RecordsFit(call, audit, answer), WitnessRead,
           call.stage = "reading", UNCHANGED <<world, moves, audit, answer>>,
           NEW outcome \in {"denied", "failed"}, Refused(call, call', outcome),
           outcome = "denied" => Refusable(seen) \/ ~May(world, call)
    PROVE  Continues
<1>1. Keeps(call, call') /\ Alike(call, call') /\ call'.stage = "refused" /\ call'.outcome = outcome
  BY DEF Refused, Keeps
<1>2. call.read \in PortalReads /\ Moment(world, call) \in seen
  BY DEF CallIsSound, CallFits
<1>3. Remembers(seen, seen', world', call')
  BY <1>1, <1>2, MomentsAreRemembered
<1>4. Remembers(seen, seen', world, call')
  BY <1>3
<1>5. outcome = "denied" => Refusable(seen')
  <2> SUFFICES ASSUME outcome = "denied" PROVE Refusable(seen')
    OBVIOUS
  <2>1. CASE Refusable(seen)
    BY <1>4, <2>1, RefusableOn DEF Remembers
  <2>2. CASE ~May(world, call)
    BY <1>1, <1>4, <2>2, MayAlike, RefusableNow DEF Remembers
  <2> QED BY <2>1, <2>2
<1>6. Ends(call, call', seen')
  BY <1>1, <1>5 DEF Ends
<1>7. CallIsSound(call', world, seen', moves)
  BY <1>4, <1>6, EndsAreSound
<1> QED BY <1>7, StepsContinue

\* The steps that resolve who asks, the profile's aside.
WhoAskStep ==
    \/ VerifiedSubject \/ OrganizationIsActive \/ MembershipForIdentity
    \/ RolesOfMembership \/ FeatureEnabled \/ ResolvePerson

\* A call is resolving who asks, or reading for a person.
LEMMA CallsArePlaced ==
    ASSUME CallFits(call), call.todo # << >>
    PROVE  /\ call.via \in {"portal", "mcp"} /\ call.read \in PortalReads
           /\ \/ Resolving(call) /\ Placed(call.todo, call.via) /\ Head(call.todo)[1] \in Vets
              \/ Reading(call) /\ call.person \in People /\ Granted(call)
                   /\ Head(call.todo)[1] \notin Vets
<1>1. call.via \in {"portal", "mcp"} /\ call.read \in PortalReads
  BY DEF CallFits
<1>2. CASE Resolving(call)
  <2>1. Placed(call.todo, call.via)
    BY <1>1, <1>2, StepsAreInOrder DEF Resolving
  <2>2. Len(call.todo) \in Span(call.via) /\ Head(call.todo)[1] = StepAt(call.via, Len(call.todo))
    BY <2>1 DEF Placed
  <2>3. ASSUME NEW n \in Span(call.via) PROVE StepAt(call.via, n) \in Vets
    BY <1>1, <2>3 DEF Span, StepAt, Vets
  <2> QED BY <1>1, <1>2, <2>1, <2>2, <2>3
<1>3. CASE Reading(call) /\ call.person \in People /\ Granted(call)
  BY <1>1, <1>3, ReadingVetsNobody
<1> QED BY <1>2, <1>3 DEF CallFits

\* Steps that resolve who asks are taken while nobody is known yet.
LEMMA WhoAskStepsResolve ==
    ASSUME CallFits(call), WhoAskStep \/ GetProfileForPerson
    PROVE  /\ Resolving(call) /\ call.stage = "reading"
           /\ UNCHANGED <<world, moves, audit, answer>>
<1>1. \E step \in Vets : Here(step) /\ UNCHANGED <<world, moves, audit, answer>>
  <2>1. \E step \in Vets : At(step)
    BY DEF WhoAskStep, VerifiedSubject, OrganizationIsActive, MembershipForIdentity,
           RolesOfMembership, FeatureEnabled, ResolvePerson, GetProfileForPerson, Vets
  <2> QED BY <2>1, StepsAreHere
<1> QED BY <1>1, CallsArePlaced DEF Here

\* Data are read once the person is known.
LEMMA DataStepsRead ==
    ASSUME CallFits(call), DataStep
    PROVE  /\ Reading(call) /\ call.person \in People /\ call.stage = "reading"
           /\ UNCHANGED <<world, moves, audit, answer>>
<1> DEFINE Steps0 == {"enrollments", "attendance", "sessions", "teaching", "sections", "rooms",
                      "courses", "grades", "events", "assigned", "assignment", "roster",
                      "names", "evidence", "linked", "mapping", "moodle", "health"}
<1>1. \E step \in Steps0 : At(step)
  BY DEF DataStep, SnapshotEnrollments, SnapshotAttendance, SessionsOfSections, SessionsOfTeacher,
         DescribeSections, DescribeRooms, DescribeCourses, ReadGrades, UpcomingEvents,
         SectionsAssigned, SectionIsAssigned, SectionRoster, RosterNames, SyncStatus,
         LinkedStudents, MoodleAccount, AskMoodle, RecordHealth
<1>2. \E step \in Steps0 : Here(step) /\ UNCHANGED <<world, moves, audit, answer>>
  BY <1>1, StepsAreHere
<1>3. Steps0 \intersect Vets = {}
  BY DEF Vets
<1> QED BY <1>2, <1>3, CallsArePlaced DEF Here

\* Who asks is resolved soundly.
LEMMA WhoAskStepsAreSound ==
    ASSUME ReadsFit, WorldIsSound(world), moves \in Nat, CallIsSound(call, world, seen, moves),
           RecordsFit(call, audit, answer), WitnessRead, WhoAskStep
    PROVE  Continues
<1>1. CallFits(call) /\ call.read \in PortalReads /\ Moment(world, call) \in seen
  BY DEF CallIsSound, CallFits
<1>2. /\ Resolving(call) /\ call.stage = "reading"
      /\ UNCHANGED <<world, moves, audit, answer>>
  BY <1>1, WhoAskStepsResolve
<1>3. VetsOrRefuses(call, call', world)
  <2>1. Nobody \notin People
    BY DEF ReadsFit
  <2> QED BY <1>1, <1>2, <2>1, WhoAsksIsVetted DEF WhoAskStep
<1>4. CASE Refused(call, call', "denied") /\ ~May(world, call)
  BY <1>2, <1>4, RefusalsContinue
<1>5. CASE Advances(call, call') /\ Passes(call, call', world) /\ Left(call) \in 2 .. 9
  <2>1. Alike(call, call')
    BY <1>5 DEF Advances
  <2>2. Remembers(seen, seen', world', call')
    BY <1>1, <1>2, <2>1, MomentsAreRemembered
  <2>3. IsUnderWay(call) /\ Remembers(seen, seen', world, call')
    BY <1>1, <1>2, <2>2, ReadingIsUnderWay
  <2>4. CallIsSound(call', world, seen', moves)
    BY <1>2, <1>5, <2>3, VetsAreSound
  <2> QED BY <1>2, <2>4, StepsContinue
<1> QED BY <1>3, <1>4, <1>5 DEF VetsOrRefuses

\* The person's profile is found soundly, and the read begins.
LEMMA ProfilesAreSound ==
    ASSUME ReadsFit, WorldIsSound(world), moves \in Nat, CallIsSound(call, world, seen, moves),
           RecordsFit(call, audit, answer), WitnessRead, GetProfileForPerson
    PROVE  Continues
<1>1. CallFits(call) /\ call.read \in PortalReads /\ Moment(world, call) \in seen
      /\ DenialsFit(call, world, seen)
  BY DEF CallIsSound, CallFits
<1>2. /\ Resolving(call) /\ call.stage = "reading"
      /\ UNCHANGED <<world, moves, audit, answer>>
  BY <1>1, WhoAskStepsResolve
<1>3. Left(call) = 1
  BY <1>1, <1>2, ProfileIsLast
<1>4. CASE /\ <<call.person, KindOf(call.read)>> \notin world.profiles
           /\ Refused(call, call', "denied")
  <2>1. call.person \in People /\ call.person # Nobody
    <3>1. Vouched(call)
      BY <1>1, <1>2, ReadingResolvesNobody DEF CallFits
    <3> QED BY <1>3, <3>1 DEF Vouched, ReadsFit
  <2>2. Refusable(seen)
    BY <1>1, <1>4, <2>1 DEF DenialsFit
  <2> QED BY <1>2, <1>4, <2>2, RefusalsContinue
<1>5. CASE /\ <<call.person, KindOf(call.read)>> \in world.profiles
           /\ Proceeds(call, call') /\ Starts(call') /\ Started(call')
  <2>1. Alike(call, call')
    BY <1>5 DEF Proceeds, Alike
  <2>2. Remembers(seen, seen', world', call')
    BY <1>1, <1>2, <2>1, MomentsAreRemembered
  <2>3. IsUnderWay(call) /\ Remembers(seen, seen', world, call')
    BY <1>1, <1>2, <2>2, ReadingIsUnderWay
  <2>4. CallIsSound(call', world, seen', moves)
    BY <1>2, <1>3, <1>5, <2>3, StartsAreSound
  <2> QED BY <1>2, <2>4, StepsContinue
<1> QED BY <1>1, <1>2, <1>4, <1>5, ProfileIsLast

\* Data are read soundly, or refused to others.
LEMMA DataStepsAreSound ==
    ASSUME ReadsFit, WorldIsSound(world), moves \in Nat, CallIsSound(call, world, seen, moves),
           RecordsFit(call, audit, answer), WitnessRead, DataStep
    PROVE  Continues
<1>1. CallFits(call) /\ call.read \in PortalReads /\ Moment(world, call) \in seen
      /\ DenialsFit(call, world, seen) /\ PartsFit(call, world, seen)
  BY DEF CallIsSound, CallFits
<1>2. /\ Reading(call) /\ call.person \in People /\ call.stage = "reading"
      /\ UNCHANGED <<world, moves, audit, answer>>
  BY <1>1, DataStepsRead
<1>3. Stands(call, world)
  BY <1>1, <1>2 DEF PartsFit
<1>4. CASE GathersAll(call, call', world)
  <2>1. Alike(call, call')
    BY <1>4 DEF GathersAll, Proceeds, Alike
  <2>2. Remembers(seen, seen', world', call')
    BY <1>1, <1>2, <2>1, MomentsAreRemembered
  <2>3. IsUnderWay(call) /\ Remembers(seen, seen', world, call')
    BY <1>1, <1>2, <2>2, ReadingIsUnderWay
  <2>4. CallIsSound(call', world, seen', moves)
    BY <1>2, <1>4, <2>3, GathersAreSound
  <2> QED BY <1>2, <2>4, StepsContinue
<1>5. CASE Refused(call, call', "failed")
  BY <1>2, <1>5, RefusalsContinue
<1>6. CASE /\ Refused(call, call', "denied") /\ call.read = "section_students"
           /\ <<call.person, call.section>> \notin world.assigned
  <2>1. call.person # Nobody
    BY <1>2 DEF ReadsFit
  <2>2. Refusable(seen)
    BY <1>1, <1>6, <2>1 DEF DenialsFit
  <2> QED BY <1>2, <1>6, <2>2, RefusalsContinue
<1>7. GathersAll(call, call', world) \/ RefusesOthers(call, call', world)
  BY <1>1, <1>2, <1>3, DataAreGathered
<1> QED BY <1>4, <1>5, <1>6, <1>7 DEF RefusesOthers

\* A guardian is told of the next student soundly.
LEMMA NextStudentIsSound ==
    ASSUME ReadsFit, WorldIsSound(world), moves \in Nat, CallIsSound(call, world, seen, moves),
           RecordsFit(call, audit, answer), WitnessRead, NextStudent
    PROVE  Continues
<1>1. CallFits(call) /\ call.read \in PortalReads /\ Moment(world, call) \in seen
      /\ call.via \in {"portal", "mcp"} /\ call.students \subseteq People
      /\ (call.read # "guardian_students" => call.students = {})
  BY DEF CallIsSound, CallFits
<1>2. PICK q \in call.students :
        call' = [call EXCEPT !.todo = OneStudentSummary(q), !.students = @ \ {q}]
  BY DEF NextStudent
<1>3. call.stage = "reading" /\ call.todo = << >> /\ UNCHANGED <<world, moves, audit, answer>>
  BY DEF NextStudent
<1>4. q \in People /\ call.read = "guardian_students"
  BY <1>1
<1>5. DOMAIN call = Fields
  BY <1>1 DEF CallFits
<1>6. /\ DOMAIN call' = Fields /\ call'.stage = call.stage /\ call'.outcome = call.outcome
      /\ call'.via = call.via /\ call'.read = call.read /\ call'.section = call.section
      /\ call'.permissions = call.permissions /\ call'.person = call.person
      /\ call'.todo = OneStudentSummary(q) /\ call'.students = call.students \ {q}
      /\ call'.found = call.found
  BY <1>2, <1>5 DEF Fields
<1>7. Proceeds(call, call') /\ Alike(call, call')
  BY <1>6 DEF Proceeds, Alike
<1>8. ASSUME NEW v
      PROVE  /\ Reading(call')
             /\ Collected(call, v) => Collected(call', v)
             /\ Stands(call, world) => Stands(call', world) /\ Adds(call, call', world)
  BY <1>3, <1>4, <1>6, <1>7, NextGathered
<1>9. StudentsFit(call')
  BY <1>1, <1>4, <1>6 DEF StudentsFit
<1>10. GathersAll(call, call', world)
  BY <1>7, <1>8, <1>9 DEF GathersAll, Gathers
<1>11. Reading(call)
  <2>1. call.students # {}
    BY <1>2
  <2> QED BY <1>1, <2>1 DEF CallFits
<1>12. Remembers(seen, seen', world', call')
  BY <1>1, <1>3, <1>7, MomentsAreRemembered
<1>13. IsUnderWay(call) /\ Remembers(seen, seen', world, call')
  BY <1>1, <1>3, <1>12, ReadingIsUnderWay
<1>14. CallIsSound(call', world, seen', moves)
  BY <1>10, <1>11, <1>13, GathersAreSound
<1> QED BY <1>3, <1>14, StepsContinue

\* Whoever reads is permitted to, so a step is forbidden only while nobody is known yet.
LEMMA ForbiddenIsSound ==
    ASSUME ReadsFit, CallIsSound(call, world, seen, moves),
           RecordsFit(call, audit, answer), WitnessRead, Forbidden
    PROVE  Continues
<1>1. CallFits(call) /\ DenialsFit(call, world, seen) /\ DOMAIN call = Fields
  BY DEF CallIsSound, CallFits
<1>2. /\ call.stage = "reading" /\ call.todo # << >> /\ Refuse("denied")
      /\ UNCHANGED <<world, moves, audit, answer>>
      /\ Requires(Head(call.todo)[1], KindOf(call.read)) # {}
      /\ Requires(Head(call.todo)[1], KindOf(call.read)) \intersect call.permissions = {}
  BY DEF Forbidden
<1>3. call.via \in {"portal", "mcp"} /\ call.read \in PortalReads
  BY <1>1 DEF CallFits
<1>4. CASE Reading(call) /\ Granted(call)
  <2>1. KindOf(call.read) \in {"student", "teacher", "guardian"}
    BY <1>3, ReadsHaveKinds
  <2>2. PICK r \in SUBSET Roles : call.permissions = PermissionsOf(r)
    BY <1>1 DEF CallFits
  <2>3. Permissions[KindOf(call.read)] \subseteq call.permissions
    BY <1>4, <2>1, <2>2, KindsAreGranted DEF Granted
  <2>4. Permitted(Head(call.todo)[1], KindOf(call.read))
    BY <1>2, <1>4, StepsArePermitted
  <2> QED BY <1>2, <2>3, <2>4 DEF Permitted
<1>5. CASE Resolving(call) /\ Placed(call.todo, call.via) /\ Head(call.todo)[1] \in Vets
  <2>1. Head(call.todo)[1] = "ownership"
    BY <1>2, <1>5 DEF Vets, Requires
  <2>2. ~Granted(call)
    BY <1>2, <2>1 DEF Requires, Granted
  <2>3. Len(call.todo) \in Span(call.via) /\ StepAt(call.via, Len(call.todo)) = "ownership"
    BY <1>5, <2>1 DEF Placed
  <2>4. ASSUME NEW n \in Span(call.via), StepAt(call.via, n) = "ownership" PROVE n = 3
    BY <1>3, <2>4 DEF Span, StepAt
  <2>5. Left(call) = 3
    BY <2>3, <2>4 DEF Left
  <2>6. Left(call) <= (IF call.via = "mcp" THEN 5 ELSE 3)
    BY <2>5
  <2>7. Refusable(seen)
    BY <1>1, <1>5, <2>2, <2>6 DEF DenialsFit
  <2>8. Refused(call, call', "denied")
    BY <1>1, <1>2, RefusalsKeep
  <2> QED BY <1>2, <2>7, <2>8, RefusalsContinue
<1> QED BY <1>1, <1>2, <1>4, <1>5, CallsArePlaced

\* An error refuses the read.
LEMMA FailuresAreSound ==
    ASSUME CallIsSound(call, world, seen, moves), RecordsFit(call, audit, answer), WitnessRead,
           FailRead
    PROVE  Continues
<1>1. DOMAIN call = Fields
  BY DEF CallIsSound, CallFits
<1>2. /\ call.stage = "reading" /\ Refuse("failed")
      /\ UNCHANGED <<world, moves, audit, answer>>
  BY DEF FailRead
<1>3. Refused(call, call', "failed")
  BY <1>1, <1>2, RefusalsKeep
<1> QED BY <1>2, <1>3, RefusalsContinue

\* Who asks is resolved by some step.
LEMMA CallsResolveSomething ==
    ASSUME CallFits(call), call.todo = << >>
    PROVE  ~Resolving(call)
<1>1. call.via \in {"portal", "mcp"}
  BY DEF CallFits
<1>2. ASSUME Resolving(call) PROVE FALSE
  BY <1>1, <1>2, StepsAreInOrder DEF Resolving, Placed
<1> QED BY <1>2

\* A read that is done has its person's data, and is answered in the portal.
LEMMA FinishesAreSound ==
    ASSUME CallIsSound(call, world, seen, moves), RecordsFit(call, audit, answer), WitnessRead,
           FinishRead
    PROVE  Continues
<1>1. /\ CallFits(call) /\ DOMAIN call = Fields /\ call.read \in PortalReads
      /\ Moment(world, call) \in seen
  BY DEF CallIsSound, CallFits
<1>2. /\ call.stage = "reading" /\ call.todo = << >> /\ call.students = {}
      /\ call' = [call EXCEPT !.stage = IF call.via = "mcp" THEN "finished" ELSE "over",
                              !.outcome = "succeeded"]
      /\ answer' = (IF call.via = "mcp" THEN answer ELSE <<call.found>>)
      /\ UNCHANGED <<world, moves, audit>>
  BY DEF FinishRead
<1>3. /\ Keeps(call, call') /\ call'.outcome = "succeeded" /\ call'.via = call.via
      /\ call'.stage = (IF call.via = "mcp" THEN "finished" ELSE "over")
      /\ call'.found = call.found
  BY <1>1, <1>2 DEF Keeps, Alike, Fields
<1>4. Reading(call)
  <2>1. ~Resolving(call)
    BY <1>1, <1>2, CallsResolveSomething
  <2> QED BY <1>1, <2>1 DEF CallFits
<1>5. IsUnderWay(call)
  BY <1>1, <1>2, ReadingIsUnderWay
<1>6. Ends(call, call', seen')
  BY <1>2, <1>3, <1>4, <1>5 DEF Ends, IsUnderWay
<1>7. Remembers(seen, seen', world', call')
  BY <1>1, <1>2, <1>3, MomentsAreRemembered DEF Keeps
<1>8. Remembers(seen, seen', world, call')
  BY <1>2, <1>7
<1>9. CallIsSound(call', world, seen', moves)
  BY <1>6, <1>8, EndsAreSound
<1>10. audit = << >> /\ answer = << >>
  BY <1>2 DEF RecordsFit
<1>11. RecordsFit(call', audit', answer')
  BY <1>2, <1>3, <1>10 DEF RecordsFit
<1> QED BY <1>2, <1>9, <1>11 DEF Continues

\* A tool's outcome is recorded before it answers, or neither.
LEMMA RecordsAreSound ==
    ASSUME CallIsSound(call, world, seen, moves), RecordsFit(call, audit, answer), WitnessRead,
           Record
    PROVE  Continues
<1>1. /\ CallFits(call) /\ DOMAIN call = Fields /\ call.read \in PortalReads
      /\ Moment(world, call) \in seen /\ DenialsFit(call, world, seen)
  BY DEF CallIsSound, CallFits
<1>2. /\ call.stage \in {"finished", "refused"} /\ call.via = "mcp"
      /\ call' = [call EXCEPT !.stage = "over"]
      /\ \/ /\ audit' = Append(audit, call.outcome)
            /\ answer' = (IF call.stage = "finished" THEN <<call.found>> ELSE answer)
         \/ UNCHANGED <<audit, answer>>
      /\ UNCHANGED <<world, moves>>
  BY DEF Record
<1>3. /\ Keeps(call, call') /\ call'.outcome = call.outcome /\ call'.via = call.via
      /\ call'.stage = "over" /\ call'.found = call.found
  BY <1>1, <1>2 DEF Keeps, Alike, Fields
<1>4. /\ call.stage = "refused" => call.outcome \in {"denied", "failed"}
      /\ call.stage = "finished" =>
           /\ call.outcome = "succeeded" /\ Reading(call)
           /\ call.todo = << >> /\ call.students = {}
  BY <1>1 DEF CallFits
<1>5. Remembers(seen, seen', world', call')
  BY <1>1, <1>2, <1>3, MomentsAreRemembered DEF Keeps
<1>6. Remembers(seen, seen', world, call')
  BY <1>2, <1>5
<1>7. call'.outcome = "denied" => Refusable(seen')
  BY <1>1, <1>3, <1>6, RefusableOn DEF DenialsFit, Remembers
<1>8. Ends(call, call', seen')
  BY <1>2, <1>3, <1>4, <1>7 DEF Ends
<1>9. CallIsSound(call', world, seen', moves)
  BY <1>6, <1>8, EndsAreSound
<1>10. audit = << >> /\ answer = << >>
  BY <1>2 DEF RecordsFit
<1>11. audit' \in {<< >>, <<call.outcome>>}
       /\ (answer' # << >> => answer' = <<call.found>> /\ call.stage = "finished"
                                 /\ audit' = <<call.outcome>>)
  BY <1>2, <1>10
<1>12. RecordsFit(call', audit', answer')
  BY <1>2, <1>3, <1>4, <1>11 DEF RecordsFit
<1> QED BY <1>2, <1>9, <1>12 DEF Continues

----------------------------------------------------------------------------
\* Every step of a read continues it.
LEMMA ReadStepsAreSound ==
    ASSUME ReadsFit, WorldIsSound(world), moves \in Nat, CallIsSound(call, world, seen, moves),
           RecordsFit(call, audit, answer), WitnessRead, ReadStep
    PROVE  Continues
<1>1. \/ Forbidden \/ FailRead \/ FinishRead \/ Record \/ WhoAskStep \/ GetProfileForPerson
      \/ DataStep \/ NextStudent
  BY DEF ReadStep, WhoAskStep, DataStep
<1> QED BY <1>1, ForbiddenIsSound, FailuresAreSound, FinishesAreSound, RecordsAreSound,
           WhoAskStepsAreSound, ProfilesAreSound, DataStepsAreSound, NextStudentIsSound

\* There is a call under way, or none was made.
LEMMA StepsAreMadeOfCalls ==
    ASSUME ReadStep \/ Change
    PROVE  call # NoCall
<1>1. ASSUME NEW step, At(step) PROVE call # NoCall
  BY <1>1 DEF At, NoCall
<1>2. CASE Change
  BY <1>2 DEF Change, NoCall
<1>3. CASE Forbidden \/ FailRead \/ FinishRead \/ Record \/ NextStudent
  <2>1. call.stage \in {"reading", "finished", "refused"}
    BY <1>3 DEF Forbidden, FailRead, FinishRead, Record, NextStudent
  <2> QED BY <2>1 DEF NoCall
<1>4. CASE \E step : At(step)
  BY <1>1, <1>4
<1>5. \/ Forbidden \/ FailRead \/ FinishRead \/ Record \/ NextStudent
      \/ (\E step : At(step)) \/ Change
  BY DEF ReadStep, VerifiedSubject, OrganizationIsActive, MembershipForIdentity,
         RolesOfMembership, FeatureEnabled, ResolvePerson, GetProfileForPerson,
         SnapshotEnrollments, SnapshotAttendance, SessionsOfSections, SessionsOfTeacher,
         DescribeSections, DescribeRooms, DescribeCourses, ReadGrades, UpcomingEvents,
         SectionsAssigned, SectionIsAssigned, SectionRoster, RosterNames, SyncStatus,
         LinkedStudents, MoodleAccount, AskMoodle, RecordHealth
<1> QED BY <1>2, <1>3, <1>4, <1>5

\* One more change of the world leaves a call sound.
LEMMA ChangesContinue ==
    ASSUME ReadsFit, WorldIsSound(world), moves \in Nat, CallIsSound(call, world, seen, moves),
           RecordsFit(call, audit, answer), WitnessRead, Change
    PROVE  /\ WorldIsSound(world') /\ moves' \in Nat
           /\ CallIsSound(call', world', seen', moves') /\ RecordsFit(call', audit', answer')
<1>1. /\ call.stage \in {"reading", "finished"} /\ moves' = moves + 1
      /\ UNCHANGED <<call, audit, answer>>
  BY DEF Change
<1>2. call.read \in PortalReads /\ Moment(world, call) \in seen
  BY DEF CallIsSound, CallFits
<1>3. Alike(call, call')
  BY <1>1 DEF Alike
<1>4. Remembers(seen, seen', world', call')
  BY <1>1, <1>2, <1>3, MomentsAreRemembered
<1>5. Remembers(seen, seen', world', call)
  BY <1>1, <1>4
<1>6. WorldIsSound(world') /\ OneChange(world, world')
  BY ChangesAreOne
<1>7. CallIsSound(call, world', seen', moves + 1)
  BY <1>5, <1>6, ChangesAreSound
<1>8. moves + 1 \in Nat
  OBVIOUS
<1> QED BY <1>1, <1>6, <1>7, <1>8

\* The invariant holds at first.
LEMMA SelfServiceInvAtFirst ==
    ASSUME ReadsFit, SelfServiceInit
    PROVE  SelfServiceInv
BY DEF ReadsFit, SelfServiceInit, SelfServiceInv

\* And after every step.
LEMMA SelfServiceInvKept ==
    ASSUME ReadsFit, SelfServiceInv, [SelfServiceNext]_selfServiceVars
    PROVE  SelfServiceInv'
<1>1. CASE UNCHANGED selfServiceVars
  <2>1. UNCHANGED <<world, moves, call, audit, answer, seen>>
    BY <1>1 DEF selfServiceVars
  <2> QED BY <2>1 DEF SelfServiceInv
<1>2. CASE (StartPortal \/ StartTool) /\ WitnessRead
  <2>1. call = NoCall
    BY <1>2 DEF StartPortal, StartTool, BeginRead
  <2>2. ~CallIsSound(call, world, seen, moves)
    BY <2>1 DEF CallIsSound, CallFits, NoCall
  <2>3. /\ seen = {} /\ audit = << >> /\ answer = << >> /\ moves = 0 /\ world \in Worlds
        /\ WorldIsSound(world) /\ moves \in Nat
    BY <2>2 DEF SelfServiceInv
  <2>4. /\ CallIsSound(call', world', seen', moves')
        /\ RecordsFit(call', audit', answer') /\ UNCHANGED <<world, moves>>
    BY <1>2, <2>1, <2>3, ReadsBeginSound
  <2>5. WorldIsSound(world') /\ moves' \in Nat
    BY <2>3, <2>4
  <2> QED BY <2>4, <2>5 DEF SelfServiceInv
<1>3. CASE (ReadStep \/ Change) /\ WitnessRead
  <2>1. call # NoCall
    BY <1>3, StepsAreMadeOfCalls
  <2>2. /\ WorldIsSound(world) /\ moves \in Nat /\ CallIsSound(call, world, seen, moves)
        /\ RecordsFit(call, audit, answer)
    BY <2>1 DEF SelfServiceInv
  <2>3. CASE ReadStep
    <3>1. Continues
      BY <1>3, <2>2, <2>3, ReadStepsAreSound
    <3>2. WorldIsSound(world') /\ moves' \in Nat
      BY <2>2, <3>1 DEF Continues
    <3> QED BY <3>1, <3>2 DEF Continues, SelfServiceInv
  <2>4. CASE Change
    BY <1>3, <2>2, <2>4, ChangesContinue DEF SelfServiceInv
  <2> QED BY <1>3, <2>3, <2>4
<1> QED BY <1>1, <1>2, <1>3 DEF SelfServiceNext

----------------------------------------------------------------------------
\* A read that is done found what its person was entitled to in the world it is of.
LEMMA DoneIsEntitled ==
    ASSUME NEW c, NEW x, c.read \in PortalReads, c.todo = << >>, c.students = {},
           Vetted(c, x), Collected(c, x)
    PROVE  May(x, c) /\ c.found = Data(x, c, c.person)
<1>1. Len(c.todo) = 0
  OBVIOUS
<1>2. c.read = "section_students" => <<c.person, c.section>> \in x.assigned
  BY <1>1 DEF Collected
<1>3. May(x, c)
  BY <1>2 DEF May, Vetted
<1>4. CASE c.read \in DOMAIN FoundAt
  <2>1. Len(c.todo) <= FoundAt[c.read]
    BY <1>1, <1>4 DEF FoundAt
  <2> QED BY <1>3, <1>4, <2>1 DEF Collected
<1>5. CASE c.read \in Deadlines
  BY <1>3, <1>5, DeadlinesCollected
<1>6. CASE c.read = "guardian_students"
  <2>1. SummariesOf(c, x)
    <3>1. c.todo # <<<<"linked", c.person>>>>
      BY ListsOfSteps
    <3> QED BY <1>6, <3>1 DEF Collected
  <2>2. PICK all : all = Linked(x, c.person)
    OBVIOUS
  <2>3. all = all \ c.students
    OBVIOUS
  <2>4. c.found = Told(all, all, all, x)
    BY <2>1, <2>2, <2>3, SummariesBetween
  <2> QED BY <1>3, <1>6, <2>2, <2>4, GuardianData
<1> QED BY <1>4, <1>5, <1>6, ReadsAreKnown

\* What was answered was found by a read that is done.
LEMMA AnswersAreFound ==
    ASSUME CallFits(call), RecordsFit(call, audit, answer), NEW n \in DOMAIN answer
    PROVE  /\ answer[n] = call.found /\ call.outcome = "succeeded"
           /\ call.todo = << >> /\ call.students = {} /\ call.person \in People
<1>1. answer # << >>
  OBVIOUS
<1>2. answer = <<call.found>> /\ call.outcome = "succeeded"
  BY <1>1 DEF RecordsFit
<1>3. answer[n] = call.found
  BY <1>2
<1>4. call.todo = << >> /\ call.students = {}
  BY <1>2 DEF CallFits
<1>5. call.person \in People
  BY <1>4, CallsResolveSomething DEF CallFits
<1> QED BY <1>2, <1>3, <1>4, <1>5

\* With one change at most, the answer is the one of a single moment.
LEMMA AnswersAreOfOneMoment ==
    ASSUME ReadsFit, moves \in Nat, moves <= 1, CallIsSound(call, world, seen, moves),
           RecordsFit(call, audit, answer), NEW n \in DOMAIN answer
    PROVE  \E m \in seen : m.may /\ answer[n] = m.data[m.person]
<1>1. CallFits(call) /\ call.read \in PortalReads /\ Moment(world, call) \in seen
  BY DEF CallIsSound, CallFits
<1>2. /\ answer[n] = call.found /\ call.outcome = "succeeded"
      /\ call.todo = << >> /\ call.students = {} /\ call.person \in People
  BY <1>1, AnswersAreFound
<1>3. PICK v \in Worlds : /\ Moment(v, call) \in seen
                          /\ Consistent(call, v) \/ Consistent(call, world)
  BY <1>2, WitnessOf
<1>4. \E x : Moment(x, call) \in seen /\ Consistent(call, x)
  BY <1>1, <1>3
<1>5. PICK x : Moment(x, call) \in seen /\ Consistent(call, x)
  BY <1>4
<1>6. Vetted(call, x) /\ Collected(call, x)
  BY <1>1, <1>2, <1>5, CallsResolveSomething DEF Consistent
<1>7. May(x, call) /\ call.found = Data(x, call, call.person) /\ x.person = call.person
  BY <1>1, <1>2, <1>6, DoneIsEntitled DEF Vetted
<1>8. /\ Moment(x, call).may = May(x, call) /\ Moment(x, call).person = x.person
      /\ Moment(x, call).data[call.person] = Data(x, call, call.person)
  BY <1>2 DEF Moment
<1>9. /\ Moment(x, call).may /\ answer[n] = Moment(x, call).data[Moment(x, call).person]
  BY <1>2, <1>7, <1>8
<1> QED BY <1>5, <1>9

\* However many, the person was the caller's, and the parts were the person's.
LEMMA AnswersAreOwned ==
    ASSUME ReadsFit, CallIsSound(call, world, seen, moves),
           RecordsFit(call, audit, answer), NEW n \in DOMAIN answer
    PROVE  \E p \in People :
             /\ \E m \in seen : m.member = "active" /\ m.person = p
             /\ \/ call.read = "student_schedule"
                \/ answer[n] \subseteq UNION {m.data[p] : m \in seen}
<1>1. CallFits(call) /\ PersonKnown(call, seen) /\ Owned(call, seen)
  BY DEF CallIsSound, PartsFit
<1>2. answer[n] = call.found /\ call.person \in People
  BY <1>1, AnswersAreFound
<1>3. \E m \in seen : m.member = "active" /\ m.person = call.person
  BY <1>1, <1>2 DEF PersonKnown, ReadsFit
<1>4. \/ call.read = "student_schedule"
      \/ answer[n] \subseteq UNION {m.data[call.person] : m \in seen}
  BY <1>1, <1>2 DEF Owned
<1> QED BY <1>2, <1>3, <1>4

\* So reads are authorized.
LEMMA SelfServiceInvSuffices ==
    ASSUME ReadsFit, SelfServiceInv
    PROVE  AnswersAreAuthorized
<1>1. CASE call = NoCall /\ seen = {} /\ audit = << >> /\ answer = << >> /\ moves = 0
  <2>1. DOMAIN answer = {} /\ call.outcome = "none" /\ call.via = "none"
    BY <1>1 DEF NoCall
  <2> QED BY <2>1 DEF AnswersAreAuthorized, AnswersAreEntitled, ToolsAreRecorded
<1>2. CASE CallIsSound(call, world, seen, moves) /\ RecordsFit(call, audit, answer)
  <2>1. moves \in Nat
    BY DEF SelfServiceInv
  <2>2. moves <= 1 => \A n \in DOMAIN answer :
          \E m \in seen : m.may /\ answer[n] = m.data[m.person]
    BY <1>2, <2>1, AnswersAreOfOneMoment
  <2>3. call.outcome = "denied" => \E m \in seen : ~m.may
    BY <1>2 DEF CallIsSound, DenialsFit, Refusable
  <2>4. \A n \in DOMAIN answer : \E p \in People :
          /\ \E m \in seen : m.member = "active" /\ m.person = p
          /\ \/ call.read = "student_schedule"
             \/ answer[n] \subseteq UNION {m.data[p] : m \in seen}
    BY <1>2, AnswersAreOwned
  <2>5. AnswersAreEntitled
    BY <2>2, <2>3, <2>4, Zenon DEF AnswersAreEntitled
  <2>6. ToolsAreRecorded
    BY <1>2 DEF RecordsFit, ToolsAreRecorded
  <2> QED BY <2>5, <2>6 DEF AnswersAreAuthorized
<1> QED BY <1>1, <1>2 DEF SelfServiceInv

\* What a read relies on holds in every behaviour: it goes on from what it has found,
\* which is as one of the worlds it was made in has it.
THEOREM SelfServiceInvHolds == SelfServiceSpec => []SelfServiceInv
<1> USE ReadsAssumption
<1>1. SelfServiceInit => SelfServiceInv
  BY SelfServiceInvAtFirst
<1>2. SelfServiceInv /\ [SelfServiceNext]_selfServiceVars => SelfServiceInv'
  BY SelfServiceInvKept
<1> QED BY <1>1, <1>2, PTL DEF SelfServiceSpec

\* A self-service read answers what the person asking was entitled to, whatever changed
\* while it was made, and no tool answers unrecorded.
THEOREM ReadsAreAuthorized == SelfServiceSpec => []AnswersAreAuthorized
<1> USE ReadsAssumption
<1>1. SelfServiceInv => AnswersAreAuthorized
  BY SelfServiceInvSuffices
<1> QED BY <1>1, SelfServiceInvHolds, PTL

=============================================================================
