---------------------------- MODULE Notifications ----------------------------
(***************************************************************************)
(* Messages to the people of one tenant: in the application, where they    *)
(* are marked read, or through an external channel that may fail and be    *)
(* retried by the recipient.                                               *)
(*                                                                         *)
(* A delivery is a sequence of transactions around one call of the         *)
(* channel's adapter, and its outcome is stored whatever the row says by   *)
(* then.  A process may end between any two of these steps.  The channel   *)
(* itself is outside: it accepts a message or raises an error, and raises  *)
(* one too when its answer is lost after it accepted.                      *)
(***************************************************************************)
EXTENDS Naturals, FiniteSets

CONSTANTS
    Senders,        \* create and retry calls; a message has its creator's name
    Recipients,     \* recipients
    External,       \* the external channels
    Configured,     \* those an adapter is configured for
    MaxChoices      \* bound on the changes of preferences

InApp == "in_app"
Channels == External \union {InApp}
NoDelivery == [at |-> "idle", message |-> "none"]

\* Adapters deliver outside: the application needs none.
ChannelsFit == InApp \notin External /\ Configured \subseteq External
ASSUME ChannelsAssumption == ChannelsFit

VARIABLES
    messages,       \* message -> row, of the messages created
    preferences,    \* the stored preferences: <<person, channel>> -> BOOLEAN
    choices,        \* the number of changes made to them
    calls,          \* the progress of each call
    drafts,         \* the messages about to be created: the call, and whom it reaches
    accepted,       \* the messages a channel has accepted
    allowed         \* ghost: the calls whose recipient had the channel on at some
                    \* moment since they began

notificationVars == <<messages, preferences, choices, calls, drafts, accepted, allowed>>

Rows == [recipient : Recipients, channel : Channels,
         status : {"pending", "sent", "read", "retry", "failed"}]
Drafts == [call : Senders, recipient : Recipients, channel : Channels]

NotificationTypeOK ==
    /\ \A m \in DOMAIN messages : m \in Senders /\ messages[m] \in Rows
    /\ DOMAIN preferences \subseteq Recipients \X Channels
    /\ drafts \subseteq Drafts
    /\ accepted \subseteq DOMAIN messages
    /\ allowed \subseteq Senders

-----------------------------------------------------------------------------
(* Preferences: in the application unless switched off, outside only if    *)
(* switched on.                                                            *)
ChannelEnabled(p, ch) ==
    IF <<p, ch>> \in DOMAIN preferences THEN preferences[<<p, ch>>]
    ELSE ch = InApp

SetChannelEnabled(p, ch, enabled) ==
    preferences' = [k \in DOMAIN preferences \union {<<p, ch>>} |->
                      IF k = <<p, ch>> THEN enabled ELSE preferences[k]]

(* A call under way whose message goes to this person by this channel. *)
Concerns(c, p, ch) ==
    \/ [call |-> c, recipient |-> p, channel |-> ch] \in drafts
    \/ /\ calls[c].at \notin {"idle", "creating", "done"}
       /\ messages[calls[c].message].recipient = p
       /\ messages[calls[c].message].channel = ch

SetPreference ==
    /\ choices < MaxChoices
    /\ choices' = choices + 1
    /\ \E p \in Recipients, ch \in Channels, enabled \in BOOLEAN :
         /\ SetChannelEnabled(p, ch, enabled)
         /\ allowed' = allowed \union {c \in Senders : enabled /\ Concerns(c, p, ch)}
    /\ UNCHANGED <<messages, calls, drafts, accepted>>

-----------------------------------------------------------------------------
(* One call, step by step. *)
Goes(c, at, m) == calls' = [calls EXCEPT ![c] = [at |-> at, message |-> m]]
Store(m, row) ==
    messages' = [k \in DOMAIN messages \union {m} |->
                   IF k = m THEN row ELSE messages[k]]

(* create: nothing is created for a channel its recipient has off; the row *)
(* is stored in another transaction than the preference is read in.        *)
StartCreate(c) ==
    /\ calls[c] = NoDelivery
    /\ \E p \in Recipients, ch \in Channels :
         /\ ChannelEnabled(p, ch)
         /\ drafts' = drafts \union {[call |-> c, recipient |-> p, channel |-> ch]}
    /\ allowed' = allowed \union {c}
    /\ Goes(c, "creating", "none")
    /\ UNCHANGED <<messages, preferences, choices, accepted>>

Create(c) ==
    /\ calls[c].at = "creating"
    /\ \E d \in drafts :
         /\ d.call = c
         /\ drafts' = drafts \ {d}
         /\ Store(c, [recipient |-> d.recipient, channel |-> d.channel,
                      status |-> "pending"])
         /\ Goes(c, IF d.channel = InApp THEN "accepted" ELSE "delivering", c)
    /\ UNCHANGED <<preferences, choices, accepted, allowed>>

(* retry_external_delivery, by the recipient: what is to be retried is     *)
(* read first, and the preference in another transaction.                  *)
StartRetry(c, p, m) ==
    /\ calls[c] = NoDelivery
    /\ messages[m].recipient = p
    /\ messages[m].channel # InApp
    /\ messages[m].status = "retry"
    /\ Goes(c, "eligible", m)
    /\ allowed' = IF ChannelEnabled(p, messages[m].channel)
                  THEN allowed \union {c} ELSE allowed
    /\ UNCHANGED <<messages, preferences, choices, drafts, accepted>>

(* A slip: the preference is not asked again. *)
CheckNothing(c) ==
    /\ calls[c].at = "eligible"
    /\ Goes(c, "delivering", calls[c].message)
    /\ UNCHANGED <<messages, preferences, choices, drafts, accepted, allowed>>
CheckChannel(c) ==
    LET m == calls[c].message
        enabled == ChannelEnabled(messages[m].recipient, messages[m].channel)
    IN  /\ calls[c].at = "eligible"
        /\ Goes(c, IF enabled THEN "delivering" ELSE "done", m)
        /\ UNCHANGED <<messages, preferences, choices, drafts, accepted, allowed>>

(* _deliver: present the message to the channel under its own identifier.  *)
Send(c) ==
    LET m == calls[c].message
    IN  /\ calls[c].at = "delivering"
        /\ messages[m].channel \in Configured
        /\ \/ Goes(c, "accepted", m) /\ accepted' = accepted \union {m}
           \/ Goes(c, "failed", m) /\ accepted' = accepted \union {m}
           \/ Goes(c, "failed", m) /\ UNCHANGED accepted
        /\ UNCHANGED <<messages, preferences, choices, drafts, allowed>>

RecordDelivery(c) ==
    LET m == calls[c].message
    IN  /\ calls[c].at = "accepted"
        /\ Store(m, [messages[m] EXCEPT !.status = "sent"])
        /\ Goes(c, "done", m)
        /\ UNCHANGED <<preferences, choices, drafts, accepted, allowed>>

(* A channel with no adapter fails for good, an error may be retried. *)
RecordFailure(c) ==
    LET m == calls[c].message
    IN  /\ \/ /\ calls[c].at = "delivering"
              /\ messages[m].channel \notin Configured
              /\ Store(m, [messages[m] EXCEPT !.status = "failed"])
           \/ /\ calls[c].at = "failed"
              /\ Store(m, [messages[m] EXCEPT !.status = "retry"])
        /\ Goes(c, "done", m)
        /\ UNCHANGED <<preferences, choices, drafts, accepted, allowed>>

(* mark_read: an in-app message, by its recipient. *)
MarkRead(p, m) ==
    /\ messages[m].recipient = p
    /\ messages[m].channel = InApp
    /\ Store(m, [messages[m] EXCEPT !.status = "read"])
    /\ UNCHANGED <<preferences, choices, calls, drafts, accepted, allowed>>

Crash(c) ==
    /\ calls[c].at \notin {"idle", "done"}
    /\ Goes(c, "done", calls[c].message)
    /\ drafts' = {d \in drafts : d.call # c}
    /\ UNCHANGED <<messages, preferences, choices, accepted, allowed>>

-----------------------------------------------------------------------------
NotificationInit ==
    /\ messages = [m \in {} |-> NoDelivery]
    /\ preferences = [k \in {} |-> TRUE]
    /\ choices = 0
    /\ calls = [c \in Senders |-> NoDelivery]
    /\ drafts = {} /\ accepted = {} /\ allowed = {}

DeliveryStep(c) ==
    \/ StartCreate(c) \/ Create(c)
    \/ CheckChannel(c) \/ Send(c) \/ RecordDelivery(c) \/ RecordFailure(c)
    \/ Crash(c)

NotificationNext ==
    \/ SetPreference
    \/ \E c \in Senders : DeliveryStep(c)
    \/ \E p \in Recipients, m \in DOMAIN messages :
         MarkRead(p, m) \/ \E c \in Senders : StartRetry(c, p, m)

NotificationSpec == NotificationInit /\ [][NotificationNext]_notificationVars

-----------------------------------------------------------------------------
(* What the row of a message says of its delivery is true, however its     *)
(* deliveries overlap and fail: sent through an external channel, it was   *)
(* accepted there; failed for good, it was never accepted.  And no call    *)
(* presents a message whose recipient had the channel off ever since the   *)
(* call began (create, retry_external_delivery, record_delivery,           *)
(* record_failure).                                                        *)
DeliveriesAreTrue ==
    /\ \A c \in Senders : calls[c].at \in {"accepted", "failed"} => c \in allowed
    /\ \A m \in DOMAIN messages :
         LET row == messages[m]
         IN  /\ (row.channel \in External /\ row.status = "sent") => m \in accepted
             /\ row.status = "failed" => m \notin accepted
             /\ row.status = "read" => row.channel = InApp
             /\ row.status = "retry" => row.channel \in Configured
=============================================================================
