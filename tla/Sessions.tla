------------------------------ MODULE Sessions ------------------------------
(***************************************************************************)
(* Browser sessions of Identity and the OwnID token family behind each.    *)
(*                                                                         *)
(* A session row holds the latest refresh token of its family under a      *)
(* version.  Calls read the row, talk to the provider and then write: a    *)
(* refresh holds the row lock across the one exchange of its token; a      *)
(* check asks the provider without a lock and deletes only the version it  *)
(* asked about; a logout deletes the row and then revokes what the row     *)
(* held.  A login consumes its flow, deletes the session the browser had   *)
(* and stores one under a new key: the keys of its calls stand for the     *)
(* random tokens.                                                          *)
(*                                                                         *)
(* The provider is external: it rotates refresh tokens, so that only the   *)
(* latest of a family is active, and it may fail at any call.              *)
(***************************************************************************)
EXTENDS Integers

CONSTANTS
    Calls,       \* requests of browsers, each one operation
    First,       \* the session every browser starts from
    Flows,       \* pending authorizations
    MaxToken     \* bound: a family's tokens are numbered up to here

ASSUME KeysAssumption == First \notin Calls
ASSUME TokensAssumption == MaxToken \in Nat \ {0}

VARIABLES
    session,     \* identity_sessions: a function on the keys stored
    expired,     \* the keys whose expires_at has passed
    flows,       \* pending_oidc_flows
    family,      \* OwnID: the latest token of each key's family, and its state
    spc, use,    \* each call's progress, and the operation it was made for
    key, row,    \* the session it names, and the row it last read
    tries        \* the provider checks it has left

store == <<session, expired, flows>>
call == <<spc, use, key, row, tries>>
svars == <<store, family, call>>

Keys == Calls \cup {First}
Rows == [version : 1..MaxToken, token : 1..MaxToken]
NewRow == [version |-> 1, token |-> 1]
Families == [token : 1..MaxToken, active : BOOLEAN, intact : BOOLEAN,
             presented : SUBSET (1..MaxToken)]
NewFamily == [token |-> 1, active |-> TRUE, intact |-> TRUE, presented |-> {}]

Uses == {"check", "refresh", "logout", "login"}
SEnded == {"current", "loggedOut", "denied"}

StoreTypeOK ==
    /\ DOMAIN session \subseteq Keys
    /\ \A k \in DOMAIN session : session[k] \in Rows
    /\ expired \subseteq Keys /\ flows \subseteq Flows
    /\ family \in [Keys -> Families]

CallTypeOK ==
    /\ spc \in [Calls -> {"idle", "again", "expired", "read", "inactive", "locked",
                          "rotated", "refused", "deleted", "consumed", "replacing"} \cup SEnded]
    /\ use \in [Calls -> Uses]
    /\ key \in [Calls -> Keys]
    /\ row \in [Calls -> Rows]
    /\ tries \in [Calls -> 0..2]

SessionTypeOK == StoreTypeOK /\ CallTypeOK

SInit ==
    /\ session = [k \in {First} |-> NewRow]
    /\ expired = {}
    /\ flows = Flows
    /\ family = [k \in Keys |-> NewFamily]
    /\ spc = [c \in Calls |-> "idle"]
    /\ use = [c \in Calls |-> "check"]
    /\ key = [c \in Calls |-> First]
    /\ row = [c \in Calls |-> NewRow]
    /\ tries = [c \in Calls |-> 0]

----------------------------------------------------------------------------
Goto(c, step) == spc' = [spc EXCEPT ![c] = step]

\* Who holds the row lock of a session: a refresh, from its lock to its commit.
Unlocked(k) == \A d \in Calls : key[d] = k => spc[d] \notin {"locked", "rotated", "refused"}

Without(k) == [j \in DOMAIN session \ {k} |-> session[j]]
With(k, r) == [j \in DOMAIN session \cup {k} |-> IF j = k THEN r ELSE session[j]]

\* delete_session: waits for the row lock; a row that is gone is not an error.
DeleteSession(k) == Unlocked(k) /\ session' = Without(k)

\* _require_session, then the operation of the call.
Require(c, operation, k) ==
    /\ spc[c] = "idle" /\ k \in DOMAIN session
    /\ use' = [use EXCEPT ![c] = operation]
    /\ key' = [key EXCEPT ![c] = k]
    /\ row' = [row EXCEPT ![c] = session[k]]
    /\ tries' = [tries EXCEPT ![c] = 2]
    /\ Goto(c, IF k \in expired THEN "expired" ELSE "read")
    /\ UNCHANGED <<store, family>>

\* A check that starts over reads the session as it is by then.
RequireAgain(c) ==
    /\ spc[c] = "again"
    /\ IF key[c] \in DOMAIN session
       THEN /\ row' = [row EXCEPT ![c] = session[key[c]]]
            /\ Goto(c, IF key[c] \in expired THEN "expired" ELSE "read")
       ELSE Goto(c, "denied") /\ UNCHANGED row
    /\ UNCHANGED <<store, family, use, key, tries>>

\* Expired state is removed eagerly, in a transaction of its own.
RemoveExpired(c) ==
    /\ spc[c] = "expired"
    /\ DeleteSession(key[c])
    /\ Goto(c, "denied")
    /\ UNCHANGED <<expired, flows, family, use, key, row, tries>>

\* A conflict, a row that is gone, or the end of the process before a commit.
GiveUp(c) ==
    /\ spc[c] \in {"again", "expired", "read", "inactive", "locked", "deleted", "consumed",
                   "replacing"}
    /\ Goto(c, "denied")
    /\ UNCHANGED <<store, family, use, key, row, tries>>

----------------------------------------------------------------------------
(***************************************************************************)
(* get_current_session.                                                    *)
(***************************************************************************)

\* is_session_active: the token family is introspected by the token that was read.
Usable(k, r) == family[k].active /\ family[k].token = r.token

AskProvider(c) ==
    /\ spc[c] = "read" /\ use[c] = "check"
    /\ Goto(c, IF Usable(key[c], row[c]) THEN "current" ELSE "inactive")
    /\ UNCHANGED <<store, family, use, key, row, tries>>

\* Slip: whatever is stored by now is deleted.
IsVersionAny(c) == key[c] \in DOMAIN session

IsVersion(c) == key[c] \in DOMAIN session /\ session[key[c]].version = row[c].version

\* delete_session_if_version.
DeleteIfVersion(c) ==
    /\ spc[c] = "inactive" /\ Unlocked(key[c])
    /\ IsVersion(c)
    /\ session' = Without(key[c])
    /\ Goto(c, "denied")
    /\ UNCHANGED <<expired, flows, family, use, key, row, tries>>

\* The session was rotated meanwhile: once more, and then no more.
CheckAgain(c) ==
    /\ spc[c] = "inactive" /\ Unlocked(key[c])
    /\ ~IsVersion(c)
    /\ tries' = [tries EXCEPT ![c] = @ - 1]
    /\ Goto(c, IF tries[c] = 2 THEN "again" ELSE "denied")
    /\ UNCHANGED <<store, family, use, key, row>>

----------------------------------------------------------------------------
(***************************************************************************)
(* refresh_session.                                                        *)
(***************************************************************************)

\* lock_for_refresh, and the comparison of the version.
LockForRefresh(c) ==
    /\ spc[c] = "read" /\ use[c] = "refresh" /\ Unlocked(key[c])
    /\ IsVersion(c)
    /\ Goto(c, "locked")
    /\ UNCHANGED <<store, family, use, key, row, tries>>

\* The provider exchanges the latest token of an active family for the next one.
Exchange(c) ==
    LET k == key[c] IN
    /\ spc[c] = "locked" /\ Usable(k, row[c]) /\ row[c].token < MaxToken
    /\ family' = [family EXCEPT ![k].token = @ + 1,
                                ![k].presented = @ \cup {row[c].token}]
    /\ Goto(c, "rotated")
    /\ UNCHANGED <<store, use, key, row, tries>>

\* It refuses a token that is not, and any token when it fails; a response that is
\* lost leaves the family rotated.
ExchangeFails(c) ==
    LET k == key[c] IN
    /\ spc[c] = "locked"
    /\ family' = [family EXCEPT ![k].presented = @ \cup {row[c].token}]
    /\ Goto(c, "refused")
    /\ UNCHANGED <<store, use, key, row, tries>>

ResponseLost(c) ==
    LET k == key[c] IN
    /\ spc[c] = "locked" /\ Usable(k, row[c]) /\ row[c].token < MaxToken
    /\ family' = [family EXCEPT ![k].token = @ + 1, ![k].intact = FALSE,
                                ![k].presented = @ \cup {row[c].token}]
    /\ Goto(c, "refused")
    /\ UNCHANGED <<store, use, key, row, tries>>

\* replace_tokens and the commit; then get_current_session.
ReplaceTokens(c) ==
    LET k == key[c]
        new == [version |-> session[k].version + 1, token |-> row[c].token + 1] IN
    /\ spc[c] = "rotated"
    /\ session' = With(k, new)
    /\ use' = [use EXCEPT ![c] = "check"]
    /\ Goto(c, "again")
    /\ UNCHANGED <<expired, flows, family, key, row, tries>>

\* The transaction is lost after the provider has answered: nobody holds what it said.
LoseCommit(c) ==
    /\ spc[c] \in {"rotated", "refused"}
    /\ family' = [family EXCEPT ![key[c]].intact = FALSE]
    /\ Goto(c, "denied")
    /\ UNCHANGED <<store, use, key, row, tries>>

\* claim.delete: a session whose exchange failed is not kept.
DeleteRefused(c) ==
    /\ spc[c] = "refused"
    /\ session' = Without(key[c])
    /\ Goto(c, "denied")
    /\ UNCHANGED <<expired, flows, family, use, key, row, tries>>

----------------------------------------------------------------------------
(***************************************************************************)
(* logout.                                                                 *)
(***************************************************************************)

\* Slip: the tokens are those that were read before the deletion.
DeleteForLogoutAsRead(c) ==
    /\ spc[c] = "read" /\ use[c] = "logout"
    /\ key[c] \in DOMAIN session
    /\ DeleteSession(key[c])
    /\ Goto(c, "deleted")
    /\ UNCHANGED <<expired, flows, family, use, key, row, tries>>

\* delete_session returns the tokens the row held when it was locked.
DeleteForLogout(c) ==
    /\ spc[c] = "read" /\ use[c] = "logout"
    /\ key[c] \in DOMAIN session
    /\ DeleteSession(key[c])
    /\ row' = [row EXCEPT ![c] = session[key[c]]]
    /\ Goto(c, "deleted")
    /\ UNCHANGED <<expired, flows, family, use, key, tries>>

\* Best effort: a provider that fails leaves the family (GiveUp), and a token that is
\* not the latest ends nothing we may rely upon.
Revoke(c) ==
    /\ spc[c] = "deleted"
    /\ family' = [family EXCEPT ![key[c]].active =
          @ /\ row[c].token # family[key[c]].token]
    /\ Goto(c, "loggedOut")
    /\ UNCHANGED <<store, use, key, row, tries>>

----------------------------------------------------------------------------
(***************************************************************************)
(* complete_login.                                                         *)
(***************************************************************************)

\* consume_pending: DELETE ... RETURNING.  The browser may bring the cookie of the
\* session it had.
ConsumePending(c, f, k) ==
    /\ spc[c] = "idle" /\ f \in flows
    /\ flows' = flows \ {f}
    /\ use' = [use EXCEPT ![c] = "login"]
    /\ key' = [key EXCEPT ![c] = k]
    /\ Goto(c, "consumed")
    /\ UNCHANGED <<session, expired, family, row, tries>>

\* _establish_session: the previous session goes first, whatever it is by now.
ReplaceSession(c) ==
    /\ spc[c] = "consumed"
    /\ DeleteSession(key[c])
    /\ Goto(c, "replacing")
    /\ UNCHANGED <<expired, flows, family, use, key, row, tries>>

SaveSession(c) ==
    /\ spc[c] = "replacing"
    /\ session' = With(c, NewRow)
    /\ Goto(c, "current")
    /\ UNCHANGED <<expired, flows, family, use, key, row, tries>>

----------------------------------------------------------------------------
\* Sessions reach the end of their lifetime, and the provider may end a family.
Expire(k) ==
    /\ k \in DOMAIN session \ expired
    /\ expired' = expired \cup {k}
    /\ UNCHANGED <<session, flows, family, call>>

ProviderEnds(k) ==
    /\ k \in DOMAIN session /\ family[k].active
    /\ family' = [family EXCEPT ![k].active = FALSE]
    /\ UNCHANGED <<store, call>>

SStep(c) ==
    \/ \E k \in Keys : \E operation \in Uses \ {"login"} : Require(c, operation, k)
    \/ \E f \in Flows, k \in Keys : ConsumePending(c, f, k)
    \/ RequireAgain(c) \/ RemoveExpired(c) \/ GiveUp(c)
    \/ AskProvider(c) \/ DeleteIfVersion(c) \/ CheckAgain(c)
    \/ LockForRefresh(c) \/ Exchange(c) \/ ExchangeFails(c) \/ ResponseLost(c)
    \/ ReplaceTokens(c) \/ LoseCommit(c) \/ DeleteRefused(c)
    \/ DeleteForLogout(c) \/ Revoke(c)
    \/ ReplaceSession(c) \/ SaveSession(c)

SNext == (\E c \in Calls : SStep(c)) \/ (\E k \in Keys : Expire(k) \/ ProviderEnds(k))

SSpec == SInit /\ [][SNext]_svars
----------------------------------------------------------------------------
(***************************************************************************)
(* Properties.                                                             *)
(***************************************************************************)

\* No refresh token is presented twice, however refreshes of a session queue for its
\* row, unless the transaction that was to store its successor was lost.
TokenPresentedOnce ==
    [][\A c \in Calls :
          LET k == key[c] IN
          spc[c] = "locked" /\ spc'[c] \in {"rotated", "refused"}
             => row[c].token \notin family[k].presented \/ ~family[k].intact]_svars

\* A provider check that found its token inactive never deletes a session whose
\* token is the latest of a live family: a fresh rotation survives stale answers.
FreshSessionSurvives ==
    [][\A c \in Calls :
          LET k == key[c] IN
          spc[c] = "inactive" /\ spc'[c] = "denied" /\ k \in DOMAIN session \ DOMAIN session'
             => ~Usable(k, session[k])]_svars

\* However refreshes, checks and logouts of a session overlap, the rotation of its
\* tokens neither presents one twice nor loses the latest.
RotationIsSafe == TokenPresentedOnce /\ FreshSessionSurvives

\* A logout whose revocation the provider answered leaves neither a session nor a live
\* token: what it revoked is the last token anyone held.  (Of well-typed sessions.)
LogoutLeavesNothing ==
    /\ SessionTypeOK
    /\ \A c \in Calls :
          spc[c] = "loggedOut" =>
             /\ key[c] \notin DOMAIN session
             /\ family[key[c]].active => ~family[key[c]].intact
=============================================================================
