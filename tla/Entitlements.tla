----------------------------- MODULE Entitlements -----------------------------
(***************************************************************************)
(* What the organization of Tenancy may use: features are granted by the   *)
(* plan it subscribes to or set for it by an override, and every module    *)
(* asks resolve_for_organization.                                          *)
(*                                                                         *)
(* The answer is computed from one snapshot, whose statements see the      *)
(* subscription and the overrides at different moments: operators may      *)
(* change either in between.  Setting an override is a call of its own,    *)
(* with the steps of Tenancy's.  Usage limits and the catalog of plans are *)
(* left out.                                                               *)
(***************************************************************************)
EXTENDS Tenancy, Integers

CONSTANTS
    Features,          \* the product's features
    Base,              \* those every organization has
    Grants,            \* the features each plan grants
    Periods,           \* when an assignment is in force, by its identifier
    First,             \* the identifier of the subscription held at the start
    LastInstant        \* resolutions are asked for instants 0 .. LastInstant

\* Every subscription is in force from one instant to another.
PeriodsFit ==
    Periods \in [Calls \cup {First} -> Int \X Int] /\ LastInstant \in Nat
ASSUME PeriodsAssumption == PeriodsFit

VARIABLES
    catalog,           \* the features registered
    overrides,         \* feature -> override, or None
    query,             \* the one resolution of a behaviour
    truths,            \* the answers that were true at some moment of it
    changes            \* the changes committed during it

own == <<catalog, overrides, query, truths, changes>>
allVars == <<vars, own>>

(* Requests set overrides that have expired or that outlive the run. *)
Overrides == [enabled : BOOLEAN, expires : {0, LastInstant + 1}]

-----------------------------------------------------------------------------
(* The catalog. *)

CreateFeature(f) ==
    /\ f \notin catalog
    /\ catalog' = catalog \union {f}
    /\ UNCHANGED <<overrides, query>>

(* A base feature cannot be disabled. *)
SetOverride(c) ==
    /\ HasStatus(organization, "active")
    /\ \E f \in Features, o \in Overrides :
         /\ f \in Base => o.enabled
         /\ Plan(c, "override", None, [feature |-> f, override |-> o])
    /\ UNCHANGED <<catalog, overrides, query>>

(* The stored override of the feature is replaced; the feature must exist. *)
SaveOverride(c) ==
    /\ op[c] = "override"
    /\ value[c].feature \in catalog
    /\ overrides' = [overrides EXCEPT ![value[c].feature] = value[c].override]
    /\ Advance(c, "intended", "written")
    /\ UNCHANGED <<organization, subscription, catalog, query>>

-----------------------------------------------------------------------------
(* Resolution. *)

OverrideSet(o, at) == o # None      \* a slip: an override never expires
OverrideEffective(o, at) == o # None /\ at < o.expires
SubscriptionEffective(s, at) ==
    /\ s # None
    /\ s.status \in {"active", "trialing"}
    /\ Periods[s.id][1] <= at /\ at < Periods[s.id][2]

(* resolve_for_organization, on what its snapshot holds. *)
Resolve(f, s, o, at) ==
    IF OverrideEffective(o, at)
    THEN IF o.enabled THEN "platform_override" ELSE "disabled"
    ELSE IF SubscriptionEffective(s, at) /\ f \in Grants[s.plan]
         THEN "subscription"
    ELSE "not_entitled"

NoQuery == [phase |-> "rest", feature |-> None, at |-> 0,
            subscription |-> None, answer |-> "none"]

(* A base feature is answered without a snapshot. *)
StartResolution(f, at) ==
    /\ query = NoQuery
    /\ query' = [NoQuery EXCEPT
                   !.phase = IF f \in Base THEN "answered" ELSE "subscription",
                   !.answer = IF f \in Base THEN "base_product" ELSE "none",
                   !.feature = f, !.at = at]

ReadSubscription ==
    /\ query.phase = "subscription"
    /\ query' = [query EXCEPT !.phase = "overrides", !.subscription = subscription]

ReadOverrides ==
    /\ query.phase = "overrides"
    /\ query' = [query EXCEPT
                   !.phase = "answered",
                   !.answer = Resolve(query.feature, query.subscription,
                                      overrides[query.feature], query.at)]

(* get_snapshot: the subscription and its plan, then the overrides. *)
GetSnapshot ==
    /\ \/ \E f \in Features, at \in 0 .. LastInstant : StartResolution(f, at)
       \/ ReadSubscription
       \/ ReadOverrides
    /\ UNCHANGED <<vars, catalog, overrides>>

-----------------------------------------------------------------------------
(* What is true of a feature at one moment: it is a base feature, or the   *)
(* override in force says so, or with none in force the subscription in    *)
(* force grants it.                                                        *)
True(f, s, o, at) ==
    LET overridden == o # None /\ o.expires > at
        subscribed == /\ s # None /\ s.status \notin {"suspended", "canceled"}
                      /\ at \in Periods[s.id][1] .. Periods[s.id][2] - 1
                      /\ f \in Grants[s.plan]
    IN  CASE f \in Base -> "base_product"
          [] f \notin Base /\ overridden /\ o.enabled -> "platform_override"
          [] f \notin Base /\ overridden /\ ~o.enabled -> "disabled"
          [] f \notin Base /\ ~overridden /\ subscribed -> "subscription"
          [] f \notin Base /\ ~overridden /\ ~subscribed -> "not_entitled"

Asking == query.phase \in {"subscription", "overrides"}
Witness ==
    LET f == query'.feature
    IN  /\ truths' = IF Asking \/ (query = NoQuery /\ query' # NoQuery)
                     THEN truths \union {True(f, subscription', overrides'[f], query'.at)}
                     ELSE truths
        /\ changes' = IF Asking /\ <<subscription', overrides'>> # <<subscription, overrides>>
                      THEN changes + 1 ELSE changes

(* An organization at work, with the subscription it first had in force or *)
(* with none yet; the base features are registered.                        *)
InitialTenancy ==
    /\ organization \in {o \in Organizations : o.status = "active"}
    /\ subscription \in
         {None} \union [id : {First}, plan : Plans, status : {"trialing", "active"}]
    /\ pc = [c \in Calls |-> "idle"] /\ op = [c \in Calls |-> "none"]
    /\ base = [c \in Calls |-> None] /\ value = [c \in Calls |-> None]
    /\ catalog = Base /\ overrides = [f \in Features |-> None]
    /\ query = NoQuery /\ truths = {} /\ changes = 0

Step ==
    \/ Next /\ UNCHANGED <<catalog, overrides, query>>
    \/ \E c \in Calls : SetOverride(c) \/ SaveOverride(c)
    \/ (\E f \in Features : CreateFeature(f)) /\ UNCHANGED vars
    \/ GetSnapshot

EntitlementNext == Step /\ Witness
EntitlementSpec == InitialTenancy /\ [][EntitlementNext]_allVars

-----------------------------------------------------------------------------
(* A resolution answers what was true of the feature at some moment while  *)
(* it was resolved, when no more than one change was committed meanwhile   *)
(* (resolve_for_organization on get_snapshot; two changes can fall on      *)
(* either side of the reads and give an answer that never was true).       *)
AnswersWereTrue ==
    (query.phase = "answered" /\ changes <= 1) => query.answer \in truths
=============================================================================
