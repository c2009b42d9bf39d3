---------------------------- MODULE VenueDigests ----------------------------
(***************************************************************************)
(* The digests of the venues: a task that serves one venue after the other *)
(* in every cycle and passes over the muted ones (VenueFanoutScheduler of  *)
(* services/digest_service.py), the mutes that operators set in the        *)
(* key-value backend (services/digest_mute_store.py), and the notification *)
(* each digest becomes, which can be sent again (notify_digest of          *)
(* services/notification_service.py, resend_notification of                *)
(* api/routes_ops.py). Every call of the backend is a step of its own.     *)
(***************************************************************************)
EXTENDS Integers, Sequences

CONSTANTS Venues,
          VenueOrder,       \* those that have a channel, in the order they are served
          Askers,           \* requests that look whether a venue is muted
          Resends,          \* requests that send a digest again
          MuteHorizon       \* bound: ticks

NoVenue == "none"

ASSUME VenueAssumption ==
    /\ NoVenue \notin Venues
    /\ VenueOrder \in Seq(Venues) /\ VenueOrder # << >>
    /\ MuteHorizon \in Nat

VARIABLES time,             \* time.time()
          mute,             \* per venue: until when its field says, or NoMute
          asking,           \* per asker: the venue whose expired mute it removes
          fanout,           \* the cycle of the task
          digest,           \* per venue: status of its last notification
          resending,        \* per request: the venue whose digest it posts again
          delivered,        \* history: venues whose last digest was delivered
          promised,         \* history: until when each venue is to be muted
          raced,            \* history: venues muted while a mute that had expired
                            \* was being removed
          broken            \* history: venues whose last digest was broken off

muteVars == <<mute, asking, promised, raced>>
digestVars == <<digest, resending, delivered, broken>>
venueVars == <<time, muteVars, fanout, digestVars>>

NoMute == -1
Until == 0 .. MuteHorizon

VenueTypeOK ==
    /\ time \in Until
    /\ mute \in [Venues -> Until \cup {NoMute}]
    /\ promised \in [Venues -> Until \cup {NoMute}]
    /\ asking \in [Askers -> Venues \cup {NoVenue}]
    /\ fanout \in [pc : {"asleep", "check", "remove", "compose", "post", "sent", "refused"},
                   at : DOMAIN VenueOrder]
    /\ digest \in [Venues -> {"absent", "QUEUED", "SENT", "FAILED"}]
    /\ resending \in [Resends -> Venues \cup {NoVenue}]
    /\ {delivered, raced, broken} \subseteq SUBSET Venues

VenueInit ==
    /\ time = 0
    /\ mute = [v \in Venues |-> NoMute]
    /\ promised = mute
    /\ asking = [a \in Askers |-> NoVenue]
    /\ fanout = [pc |-> "asleep", at |-> 1]
    /\ digest = [v \in Venues |-> "absent"]
    /\ resending = [r \in Resends |-> NoVenue]
    /\ delivered = {} /\ raced = {} /\ broken = {}

(***************************************************************************)
(* Mutes.                                                                  *)
(***************************************************************************)
Current == VenueOrder[fanout.at]
Removing(v) == (fanout.pc = "remove" /\ Current = v) \/ \E a \in Askers : asking[a] = v

\* Mutant: a mute is over before its time.
OverSoon(v) == mute[v] # NoMute /\ mute[v] <= time

Over(v) == mute[v] # NoMute /\ mute[v] < time
Muted(v) == mute[v] # NoMute /\ ~Over(v)

\* mute.
SetMute(v, until) ==
    /\ until >= time
    /\ mute' = [mute EXCEPT ![v] = until]
    /\ promised' = [promised EXCEPT ![v] = until]
    /\ raced' = IF Removing(v) THEN raced \cup {v} ELSE raced \ {v}
    /\ UNCHANGED <<time, asking, fanout, digestVars>>

Unmute(v) ==
    /\ mute' = [mute EXCEPT ![v] = NoMute]
    /\ promised' = [promised EXCEPT ![v] = NoMute]
    /\ UNCHANGED <<time, asking, raced, fanout, digestVars>>

\* is_muted and active remove a mute that is over; in between it may have
\* been set anew.
LookAtMute(a, v) ==
    /\ asking[a] = NoVenue
    /\ Over(v)
    /\ asking' = [asking EXCEPT ![a] = v]
    /\ UNCHANGED <<time, mute, promised, raced, fanout, digestVars>>

RemoveMute(a) ==
    /\ asking[a] # NoVenue
    /\ mute' = [mute EXCEPT ![asking[a]] = NoMute]
    /\ asking' = [asking EXCEPT ![a] = NoVenue]
    /\ UNCHANGED <<time, promised, raced, fanout, digestVars>>

(***************************************************************************)
(* A cycle: run_once.                                                      *)
(***************************************************************************)
FanoutTo(pc) == fanout' = [fanout EXCEPT !.pc = pc]

Advance ==
    fanout' = IF fanout.at < Len(VenueOrder)
              THEN [pc |-> "check", at |-> fanout.at + 1] ELSE [pc |-> "asleep", at |-> 1]

BeginCycle ==
    /\ fanout.pc = "asleep"
    /\ FanoutTo("check")
    /\ UNCHANGED <<time, muteVars, digestVars>>

CheckMute ==
    /\ fanout.pc = "check"
    /\ IF Muted(Current) THEN Advance
       ELSE FanoutTo(IF Over(Current) THEN "remove" ELSE "compose")
    /\ UNCHANGED <<time, muteVars, digestVars>>

RemoveOver ==
    /\ fanout.pc = "remove"
    /\ mute' = [mute EXCEPT ![Current] = NoMute]
    /\ FanoutTo("compose")
    /\ UNCHANGED <<time, asking, promised, raced, digestVars>>

\* compose_venue_digest, and the notification is added: a new one, which a
\* request that sends the last one again has nothing to do with.
Compose ==
    /\ fanout.pc = "compose"
    /\ digest' = [digest EXCEPT ![Current] = "QUEUED"]
    /\ delivered' = delivered \ {Current} /\ broken' = broken \ {Current}
    /\ resending' = [r \in Resends |-> IF resending[r] = Current THEN NoVenue ELSE resending[r]]
    /\ FanoutTo("post")
    /\ UNCHANGED <<time, muteVars>>

\* The webhook accepts it, or not.
Post ==
    /\ fanout.pc = "post"
    /\ \/ FanoutTo("sent") /\ delivered' = delivered \cup {Current}
       \/ FanoutTo("refused") /\ UNCHANGED delivered
    /\ UNCHANGED <<time, muteVars, digest, resending, broken>>

\* Mutant: whatever became of it, it was sent.
UpdateDigestSent ==
    /\ fanout.pc \in {"sent", "refused"}
    /\ digest' = [digest EXCEPT ![Current] = "SENT"]
    /\ Advance
    /\ UNCHANGED <<time, muteVars, resending, delivered, broken>>

UpdateDigest ==
    /\ fanout.pc \in {"sent", "refused"}
    /\ digest' = [digest EXCEPT ![Current] = IF fanout.pc = "sent" THEN "SENT" ELSE "FAILED"]
    /\ Advance
    /\ UNCHANGED <<time, muteVars, resending, delivered, broken>>

\* An exception, other than the webhook's, ends the cycle, and so does stop:
\* the venues that come after have to wait for the next one.
BreakOff ==
    /\ fanout.pc # "asleep"
    /\ broken' = IF fanout.pc \in {"post", "sent", "refused"} THEN broken \cup {Current} ELSE broken
    /\ fanout' = [pc |-> "asleep", at |-> 1]
    /\ UNCHANGED <<time, muteVars, digest, resending, delivered>>

(***************************************************************************)
(* resend_notification: of a digest in whatever status.                    *)
(***************************************************************************)
Resend(r, v) ==
    /\ resending[r] = NoVenue
    /\ digest[v] # "absent"
    /\ resending' = [resending EXCEPT ![r] = v]
    /\ UNCHANGED <<time, muteVars, fanout, digest, delivered, broken>>

Resent(r) ==
    /\ resending[r] # NoVenue
    /\ \/ /\ digest' = [digest EXCEPT ![resending[r]] = "SENT"]
          /\ delivered' = delivered \cup {resending[r]}
       \/ /\ digest' = [digest EXCEPT ![resending[r]] = "FAILED"]
          /\ UNCHANGED delivered
    /\ resending' = [resending EXCEPT ![r] = NoVenue]
    /\ UNCHANGED <<time, muteVars, fanout, broken>>

VenueTick ==
    /\ time < MuteHorizon
    /\ time' = time + 1
    /\ UNCHANGED <<muteVars, fanout, digestVars>>

VenueNext ==
    \/ \E v \in Venues : Unmute(v) \/ \E until \in Until : SetMute(v, until)
    \/ \E a \in Askers : RemoveMute(a) \/ \E v \in Venues : LookAtMute(a, v)
    \/ BeginCycle \/ CheckMute \/ RemoveOver \/ Compose \/ Post \/ UpdateDigest \/ BreakOff
    \/ \E r \in Resends : Resent(r) \/ \E v \in Venues : Resend(r, v)
    \/ VenueTick

VenueSpec == VenueInit /\ [][VenueNext]_venueVars

-----------------------------------------------------------------------------
(***************************************************************************)
(* Properties.                                                             *)
(***************************************************************************)
\* A mute holds until its time is over or it is lifted, whoever looks at it,
\* unless it was set while another request was removing the one before it
\* (mute, is_muted, active).
MuteHolds ==
    \A v \in Venues \ raced : promised[v] >= time => mute[v] = promised[v]

\* A digest that is told to have been sent was, by the task or again by
\* hand, and one that is queued is on its way or was broken off
\* (notify_digest, resend_notification).
DigestStatusIsTrue ==
    \A v \in Venues :
        /\ digest[v] = "SENT" => v \in delivered
        /\ digest[v] = "QUEUED" => v \in broken \/ (fanout.pc \in {"post", "sent", "refused"} /\ Current = v)
=============================================================================
