------------------------------- MODULE Policy -------------------------------
(***************************************************************************)
(* The decision core of the controller: the class Policy of policy.cpp,    *)
(* driven by the control task of app.cpp.                                  *)
(*                                                                         *)
(* One iteration of the control loop happens at one instant `now`: any     *)
(* number of inputs, then Tick, which publishes `decision` and commands    *)
(* the output; only then does time move on (app.cpp, the 50 ms loop).      *)
(* Times are in units; a distance is one of three zones of the hysteresis. *)
(* A definition marked "mutant" is a plausible bug that no action uses.    *)
(***************************************************************************)
EXTENDS Integers

CONSTANTS
    Lease,        \* lease_s: how long one location keeps HOME
    Sleep,        \* sleep_s: how long asleep confirmations may stretch it
    MaxAge,       \* max_age_s: oldest location that is accepted
    Future,       \* future_s: tolerated future timestamp
    Dwell,        \* dwell_s: minimum OFF time
    MaxOverride,  \* 28800 s, the longest TIMED ON
    Vins, NoVin,  \* vehicle identities, and the empty one of a default Config
    Configs,      \* the configurations the environment may apply
    Saved,        \* the decisions flash may hold at boot
    Reports,      \* the observations the network worker may submit
    MaxTime, MaxUtc, MaxGeneration   \* bounds of the model

AutoStates == {"Unknown", "Away", "Home"}
Kinds      == {"Unknown", "Location", "Asleep", "Revoked"}
Zones      == {"near", "band", "far"}   \* <= enable_m, between, >= disable_m

ConfigType == [valid : BOOLEAN, vin : Vins \cup {NoVin}, commissioned : BOOLEAN,
               disabled : BOOLEAN, dryRun : BOOLEAN, hold : BOOLEAN]

SavedType == [state : AutoStates, source : Nat]

ObservationType ==   \* admissible: basis, Online, quality and coordinates pass
    [generation : Nat, request : Nat, vin : Vins, kind : Kinds,
     admissible : BOOLEAN, zone : Zones, source : Nat]

\* What valid_config demands of the numbers a running configuration holds.
ASSUME PolicyAssumption ==
    /\ Lease \in Nat /\ Sleep \in Nat /\ Sleep >= Lease
    /\ MaxAge \in Nat /\ Future \in Nat
    /\ Dwell \in Nat /\ Dwell > 0 /\ MaxOverride \in Nat
    /\ Configs \subseteq ConfigType
    /\ Saved \subseteq SavedType
    /\ Reports \subseteq ObservationType
    /\ MaxTime \in Nat /\ MaxUtc \in Nat /\ MaxGeneration \in Nat

VARIABLES
    config, generation, configured, fault,   \* the fields of class Policy ...
    lastRequest, override,
    auth,        \* ... its AUTO authority: home_, auto_state_, restored_, lease_,
                 \*     ceiling_ and last_seen_source_
    relay,       \* ... what it last commanded: commanded_ and off_since_
    decision,    \* the Decision of the latest Tick
    now, utc,    \* monotonic time, and the wall clock the SNTP client sets
    clockValid,  \* evidence_time_ok of this iteration
    decided,     \* this iteration has published its decision
    \* History, read by no action: when the evidence behind the lease was
    \* acquired, the latest sample that said AWAY, when the output went OFF.
    fixTime, awaySeen, offAt

settings == <<config, generation, configured, fault, lastRequest>>
clock    == <<now, utc, clockValid>>
history  == <<fixTime, awaySeen>>
vars     == <<settings, override, auth, relay, decision, clock, decided, history, offAt>>

AuthType == [home : BOOLEAN, autoState : AutoStates, restored : BOOLEAN,
             lease : Int, ceiling : Int, lastSeen : Nat]

DecisionType ==
    [autoHome : BOOLEAN, retained : BOOLEAN, restored : BOOLEAN,
     autoState : AutoStates, timed : BOOLEAN, commanded : BOOLEAN]

-----------------------------------------------------------------------------
(* The methods, on the fields they change.                                 *)

Operable == configured /\ ~fault /\ ~config.disabled

\* No authority; samples up to s have been seen.
Nobody(s) == [home |-> FALSE, autoState |-> "Unknown", restored |-> FALSE,
              lease |-> 0, ceiling |-> 0, lastSeen |-> s]

Invalidate(a) == Nobody(a.lastSeen)

\* expire(), on the authority and on the override.
ExpireAuth(a) ==
    IF a.home /\ now >= a.lease /\ ~config.hold THEN Invalidate(a) ELSE a
ExpireOverride == IF now >= override THEN 0 ELSE override

DropCommandSilently ==   \* mutant: no dwell
    [commanded |-> FALSE, offSince |-> relay.offSince]

\* configure(), off() and tick() drop `commanded_` alike: the OFF dwell starts.
DropCommand == [commanded |-> FALSE,
                offSince |-> IF relay.commanded THEN now ELSE relay.offSince]

\* restore(), right after configure() has invalidated everything.
Restore(c, saved) ==
    IF c.commissioned /\ ~c.disabled /\ c.hold /\ saved.state \in {"Home", "Away"}
    THEN [home |-> saved.state = "Home", autoState |-> saved.state, restored |-> TRUE,
          lease |-> 0, ceiling |-> 0, lastSeen |-> saved.source]
    ELSE Nobody(0)

\* Evidence that is bound to this configuration and not a replay.
Bound(o) == /\ Operable
            /\ o.generation = generation
            /\ o.request > lastRequest
            /\ o.vin = config.vin

AcceptableAgain(a, o) == /\ o.kind = "Location" /\ o.admissible   \* mutant: >= for >
                         /\ o.source >= a.lastSeen
                         /\ o.source <= utc + Future
                         /\ utc - o.source <= MaxAge

\* A location of the configured basis, with quality, in order and in time.
Acceptable(a, o) == /\ o.kind = "Location" /\ o.admissible
                    /\ o.source > a.lastSeen
                    /\ o.source <= utc + Future
                    /\ utc - o.source <= MaxAge

Age(o) == IF utc > o.source THEN utc - o.source ELSE 0

Earlier(x, y) == IF x < y THEN x ELSE y

ConfirmWithoutCeiling(a) ==   \* mutant: the ceiling is ignored
    IF a.home /\ now < a.lease THEN [a EXCEPT !.lease = now + Lease] ELSE a

ConfirmEndedLease(a) ==   \* mutant: the lease may have run out
    IF a.home /\ now < a.ceiling
    THEN [a EXCEPT !.lease = Earlier(now + Lease, a.ceiling)] ELSE a

\* An asleep vehicle stretches a live lease, up to the ceiling.
Confirm(a) ==
    IF a.home /\ now < a.lease /\ now < a.ceiling
    THEN [a EXCEPT !.lease = Earlier(now + Lease, a.ceiling)] ELSE a

HomeUntil(o, start) ==
    [home |-> TRUE, autoState |-> "Home", restored |-> FALSE,
     lease |-> start + Lease, ceiling |-> start + Sleep, lastSeen |-> o.source]

LocateUnanchored(a, o) ==   \* mutant: the deadlines start at reception
    IF o.zone = "far" THEN [Nobody(o.source) EXCEPT !.autoState = "Away"]
    ELSE IF o.zone = "near" \/ a.home THEN HomeUntil(o, now)
    ELSE [a EXCEPT !.lastSeen = o.source, !.restored = FALSE]

\* An accepted location: AWAY at once, HOME near, the band keeps what it finds.
Locate(a, o) ==
    IF o.zone = "far" THEN [Nobody(o.source) EXCEPT !.autoState = "Away"]
    ELSE IF o.zone = "near" \/ a.home THEN HomeUntil(o, now - Age(o))
    ELSE [a EXCEPT !.lastSeen = o.source, !.restored = FALSE]

\* The authority after an observation that is Bound.
Observed(a, o) ==
    IF o.kind = "Revoked" THEN Invalidate(a)
    ELSE IF ~clockValid THEN a
    ELSE IF o.kind = "Asleep" THEN Confirm(a)
    ELSE IF Acceptable(a, o) THEN Locate(a, o) ELSE a

\* The decision of tick() for deadlines that have been expired already.
Decide(a, over, commitReady, outputInhibited) ==
    LET autoHome == a.home /\ (now < a.lease \/ config.hold)
        timed    == over > now
    IN  [autoHome |-> autoHome, retained |-> autoHome /\ now >= a.lease,
         restored |-> a.restored, autoState |-> a.autoState, timed |-> timed,
         commanded |-> /\ Operable /\ config.commissioned
                       /\ autoHome \/ timed
                       /\ ~outputInhibited
                       /\ timed \/ commitReady
                       /\ relay.commanded \/ now - relay.offSince >= Dwell
                       /\ ~config.dryRun]

-----------------------------------------------------------------------------
(* The control loop.                                                       *)

DefaultConfig == [valid |-> FALSE, vin |-> NoVin, commissioned |-> FALSE,
                  disabled |-> TRUE, dryRun |-> TRUE, hold |-> FALSE]

Boot == [commanded |-> FALSE, offSince |-> now]   \* Policy(Ms boot)

Init == /\ config = DefaultConfig /\ generation = 0
        /\ configured = FALSE /\ fault = FALSE /\ lastRequest = 0
        /\ override = 0 /\ auth = Nobody(0)
        /\ decision = [autoHome |-> FALSE, retained |-> FALSE, restored |-> FALSE,
                       autoState |-> "Unknown", timed |-> FALSE, commanded |-> FALSE]
        /\ now = 0 /\ utc \in 1..MaxUtc /\ clockValid \in BOOLEAN
        /\ relay = Boot
        /\ decided = FALSE
        /\ fixTime = 0 /\ awaySeen = 0 /\ offAt = 0

\* configure() and, at boot, the decision restored from flash with it.
ApplyConfig(c, saved) ==
    /\ ~decided /\ generation < MaxGeneration
    /\ config' = c /\ generation' = generation + 1
    /\ configured' = c.valid /\ fault' = (fault \/ ~c.valid)
    /\ auth' = IF c.valid /\ ~fault THEN Restore(c, saved) ELSE Nobody(0)
    /\ override' = 0 /\ lastRequest' = 0 /\ awaySeen' = 0
    /\ relay' = DropCommand
    /\ UNCHANGED <<decision, clock, decided, fixTime, offAt>>

ApplyOff ==
    /\ ~decided /\ generation < MaxGeneration
    /\ config' = [config EXCEPT !.disabled = TRUE] /\ generation' = generation + 1
    /\ auth' = Invalidate(auth) /\ override' = 0
    /\ relay' = DropCommand
    /\ UNCHANGED <<configured, fault, lastRequest, decision, clock, decided, history, offAt>>

ApplyTimed(s) ==
    /\ ~decided
    /\ auth' = ExpireAuth(auth)
    /\ override' = IF Operable /\ config.commissioned /\ s > 0 /\ s <= MaxOverride
                   THEN now + s ELSE ExpireOverride
    /\ UNCHANGED <<settings, relay, decision, clock, decided, history, offAt>>

\* ClockGuard reports a jump: the wall clock is somewhere else.
ClockJump ==
    /\ ~decided
    /\ auth' = IF config.hold THEN [auth EXCEPT !.lease = 0, !.ceiling = 0]
                              ELSE Invalidate(auth)
    /\ utc' \in 1..MaxUtc /\ clockValid' = FALSE
    /\ UNCHANGED <<settings, override, relay, decision, now, decided, history, offAt>>

\* fault() ends with a tick of its own, whose decision is not published.
CriticalFault ==
    /\ ~decided
    /\ fault' = TRUE /\ auth' = Invalidate(auth) /\ override' = 0
    /\ relay' = DropCommand
    /\ UNCHANGED <<config, generation, configured, lastRequest, decision, clock,
                   decided, history, offAt>>

Evidence(o) ==
    LET a == ExpireAuth(auth)
    IN  /\ ~decided /\ override' = ExpireOverride
        /\ auth' = IF Bound(o) THEN Observed(a, o) ELSE a
        /\ lastRequest' = IF Bound(o) THEN o.request ELSE lastRequest
        /\ fixTime'  = IF auth'.lastSeen # auth.lastSeen /\ auth'.home
                       THEN now - Age(o) ELSE fixTime
        /\ awaySeen' = IF auth'.lastSeen # auth.lastSeen /\ auth'.autoState = "Away"
                       THEN o.source ELSE awaySeen
        /\ UNCHANGED <<config, generation, configured, fault, relay, decision, clock,
                       decided, offAt>>

\* The gate of the durable commit concerns the hold_last policy alone.
Tick(committed, outputInhibited) ==
    LET d == Decide(ExpireAuth(auth), ExpireOverride, ~config.hold \/ committed,
                    outputInhibited)
    IN  /\ ~decided /\ decided' = TRUE
        /\ auth' = ExpireAuth(auth) /\ override' = ExpireOverride
        /\ decision' = d
        /\ relay' = IF d.commanded THEN [relay EXCEPT !.commanded = TRUE] ELSE DropCommand
        /\ offAt' = IF decision.commanded /\ ~d.commanded THEN now ELSE offAt
        /\ UNCHANGED <<settings, clock, history>>

Elapse ==
    /\ decided /\ decided' = FALSE
    /\ now < MaxTime /\ utc < MaxUtc
    /\ now' = now + 1 /\ utc' = utc + 1 /\ clockValid' \in BOOLEAN
    /\ UNCHANGED <<settings, override, auth, relay, decision, history, offAt>>

Next == \/ \E c \in Configs, saved \in Saved : ApplyConfig(c, saved)
        \/ ApplyOff
        \/ \E s \in 0..(MaxOverride + 1) : ApplyTimed(s)
        \/ ClockJump \/ CriticalFault
        \/ \E o \in Reports : Evidence(o)
        \/ \E committed, outputInhibited \in BOOLEAN : Tick(committed, outputInhibited)
        \/ Elapse

Spec == Init /\ [][Next]_vars

-----------------------------------------------------------------------------
(* Properties.                                                             *)

\* Every variable has its type.
TypeOK ==
    /\ config \in ConfigType /\ generation \in Nat
    /\ configured \in BOOLEAN /\ fault \in BOOLEAN
    /\ lastRequest \in Nat /\ override \in Nat
    /\ auth \in AuthType
    /\ relay \in [commanded : BOOLEAN, offSince : Nat]
    /\ decision \in DecisionType
    /\ now \in Nat /\ utc \in Nat
    /\ clockValid \in BOOLEAN /\ decided \in BOOLEAN
    /\ fixTime \in Int /\ awaySeen \in Nat /\ offAt \in Nat

\* Both deadlines stay anchored to the monotonic instant at which the location
\* behind them was acquired: however many asleep confirmations, replays and
\* clock jumps follow, HOME is never dated later than that location
\* (the anchoring at the end of Policy::observe).
DeadlinesAnchored ==
    auth.home => \/ auth.lease = 0 /\ auth.ceiling = 0
                 \/ auth.lease <= auth.ceiling /\ auth.ceiling = fixTime + Sleep

\* A published HOME that claims to be fresh, or that has no outage policy to
\* outlive its lease, rests on a location younger than sleep_s: retained
\* evidence is never presented as fresh (tick's auto_home and retained).
FreshHomeIsRecent ==
    decided /\ decision.autoHome /\ (~decision.retained \/ ~config.hold)
        => now < fixTime + Sleep

\* A decision restored from flash carries no lease: until a new location
\* arrives it is shown as retained, and no asleep confirmation revives it
\* (Policy::restore, "No restored freshness lease").
RestoredIsHistorical ==
    /\ auth.restored => auth.lease = 0 /\ auth.ceiling = 0
    /\ decided /\ decision.restored /\ decision.autoHome => decision.retained

\* Samples count in source order: after a sample said AWAY, HOME needs a
\* strictly newer one, whatever is replayed or delivered late (last_seen_source_).
HomeIsNewerThanAway ==
    auth.home /\ ~auth.restored => auth.lastSeen > awaySeen

\* The output comes ON only after a whole OFF dwell, measured on the published
\* decisions, through reconfigurations, OFF, faults and expiries (off_since_).
DwellRespected ==
    [][~decision.commanded /\ decision'.commanded => now - offAt >= Dwell]_vars

\* A lease that has run out, or was zeroed by a clock jump or a restart, is live
\* again only with a newer location, never with an asleep confirmation.
EndedLeaseNeedsLocation ==
    [][now >= auth.lease /\ auth'.lease > now => auth'.lastSeen > auth.lastSeen]_vars
=============================================================================
