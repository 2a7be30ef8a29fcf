---------------------------- MODULE PolicyProofs ----------------------------
(***************************************************************************)
(* Proofs about Policy.  `Sound` relates the authority to the history of   *)
(* the evidence behind it; `Resting` relates the OFF dwell of the class to *)
(* the published decisions.  With the type invariant and the two           *)
(* properties of published decisions they are inductive.                   *)
(***************************************************************************)
EXTENDS Policy, TLAPS

\* What holds of an authority a when the evidence behind its lease was acquired
\* at time f and the latest AWAY sample is w.
Sound(a, f, w) ==
    /\ a.home => \/ a.lease = 0 /\ a.ceiling = 0
                 \/ a.lease <= a.ceiling /\ a.ceiling = f + Sleep
    /\ a.home => a.autoState = "Home"
    /\ a.restored => a.lease = 0 /\ a.ceiling = 0
    /\ w <= a.lastSeen
    /\ a.home /\ ~a.restored => a.lastSeen > w

\* The dwell of the class covers the OFF time of the published decisions.
Resting ==
    /\ relay.commanded => decision.commanded
    /\ ~decision.commanded => relay.offSince = offAt
    /\ decision.commanded /\ ~relay.commanded => ~decided /\ relay.offSince = now
    /\ offAt <= now

IInv == /\ TypeOK
        /\ Sound(auth, fixTime, awaySeen)
        /\ Resting
        /\ FreshHomeIsRecent
        /\ RestoredIsHistorical

-----------------------------------------------------------------------------
(* The methods.                                                            *)

\* An authority that was invalidated is sound, and keeps the order of samples.
LEMMA NobodySound ==
    ASSUME NEW s \in Nat, NEW f \in Int, NEW w \in Nat, w <= s
    PROVE  Nobody(s) \in AuthType /\ Sound(Nobody(s), f, w)
BY DEF Nobody, AuthType, AutoStates, Sound

\* invalidate() leaves no authority, and keeps the order of samples.
LEMMA InvalidateSound ==
    ASSUME NEW a \in AuthType, NEW f \in Int, NEW w \in Nat, Sound(a, f, w)
    PROVE  /\ Invalidate(a) \in AuthType /\ Sound(Invalidate(a), f, w)
           /\ ~Invalidate(a).home /\ ~Invalidate(a).restored
           /\ Invalidate(a).lastSeen = a.lastSeen
<1>1. a.lastSeen \in Nat /\ w <= a.lastSeen
  BY DEF AuthType, Sound
<1>2. QED
  BY <1>1, NobodySound DEF Invalidate, Nobody

\* expire() ends an Expire-mode HOME whose lease has run out, and nothing else.
LEMMA ExpireSound ==
    ASSUME NEW a \in AuthType, NEW f \in Int, NEW w \in Nat, Sound(a, f, w)
    PROVE  /\ ExpireAuth(a) \in AuthType /\ Sound(ExpireAuth(a), f, w)
           /\ ExpireAuth(a).lastSeen = a.lastSeen
           /\ ExpireAuth(a).home => ExpireAuth(a) = a
BY InvalidateSound DEF ExpireAuth

\* Only a location that is newer moves lastSeen, and then the deadlines are
\* those of that location; an AWAY sample leaves no HOME behind.
LEMMA LocateSound ==
    ASSUME NEW a \in AuthType, NEW f \in Int, NEW w \in Nat, Sound(a, f, w),
           NEW o \in ObservationType, Acceptable(a, o),
           now \in Nat, utc \in Nat
    PROVE  LET b == Locate(a, o)
               f2 == IF b.home THEN now - Age(o) ELSE f
               w2 == IF b.autoState = "Away" THEN o.source ELSE w
           IN  /\ b \in AuthType /\ b.lastSeen = o.source /\ o.source > a.lastSeen
               /\ Sound(b, f2, w2)
<1> USE PolicyAssumption
<1>1. /\ o.source \in Nat /\ o.source > a.lastSeen /\ a.lastSeen \in Nat /\ w <= a.lastSeen
      /\ Age(o) \in Nat
  BY DEF ObservationType, AuthType, Acceptable, Sound, Age
<1>2. CASE o.zone = "far"
  <2>1. Locate(a, o) = [home |-> FALSE, autoState |-> "Away", restored |-> FALSE,
                        lease |-> 0, ceiling |-> 0, lastSeen |-> o.source]
    BY <1>2 DEF Locate, Nobody
  <2>2. QED
    BY <1>1, <2>1 DEF AuthType, AutoStates, Sound
<1>3. CASE o.zone # "far" /\ (o.zone = "near" \/ a.home)
  <2>1. Locate(a, o) = HomeUntil(o, now - Age(o))
    BY <1>3 DEF Locate
  <2>2. QED
    BY <1>1, <2>1 DEF HomeUntil, AuthType, AutoStates, Sound
<1>4. CASE o.zone # "far" /\ ~(o.zone = "near" \/ a.home)
  <2>1. Locate(a, o) = [a EXCEPT !.lastSeen = o.source, !.restored = FALSE]
    BY <1>4 DEF Locate
  <2>2. /\ Locate(a, o).lastSeen = o.source /\ ~Locate(a, o).home
        /\ ~Locate(a, o).restored
    BY <1>4, <2>1 DEF AuthType
  <2>3. Locate(a, o) \in AuthType
    BY <1>1, <2>1 DEF AuthType
  <2>4. QED
    BY <1>1, <2>2, <2>3 DEF Sound
<1>5. QED
  BY <1>2, <1>3, <1>4

\* An asleep confirmation never moves the ceiling nor passes it, and revives
\* no lease that has ended.
LEMMA ConfirmSound ==
    ASSUME NEW a \in AuthType, NEW f \in Int, NEW w \in Nat, Sound(a, f, w), now \in Nat
    PROVE  /\ Confirm(a) \in AuthType /\ Sound(Confirm(a), f, w)
           /\ Confirm(a).lastSeen = a.lastSeen
           /\ now >= a.lease => Confirm(a) = a
<1> USE PolicyAssumption
<1>1. CASE a.home /\ now < a.lease /\ now < a.ceiling
  <2> DEFINE l == Earlier(now + Lease, a.ceiling)
  <2>1. l \in Int /\ l <= a.ceiling
    BY DEF Earlier, AuthType
  <2>2. Confirm(a) = [a EXCEPT !.lease = l]
    BY <1>1 DEF Confirm
  <2> HIDE DEF l
  <2>3. QED
    BY <1>1, <2>1, <2>2 DEF AuthType, Sound
<1>2. CASE ~(a.home /\ now < a.lease /\ now < a.ceiling)
  BY <1>2 DEF Confirm
<1>3. QED
  BY <1>1, <1>2

\* One observation, of any kind and any age, preserves all of it.
LEMMA ObserveSound ==
    ASSUME NEW a \in AuthType, NEW f \in Int, NEW w \in Nat, Sound(a, f, w),
           NEW o \in ObservationType, now \in Nat, utc \in Nat
    PROVE  LET b == Observed(a, o)
               located == b.lastSeen # a.lastSeen
               f2 == IF located /\ b.home THEN now - Age(o) ELSE f
               w2 == IF located /\ b.autoState = "Away" THEN o.source ELSE w
           IN  /\ b \in AuthType /\ Sound(b, f2, w2)
               /\ b.lastSeen >= a.lastSeen
               /\ now >= a.lease /\ b.lease > now => b.lastSeen > a.lastSeen
<1>1. CASE Observed(a, o) = Invalidate(a)
  <2>1. Invalidate(a).lease = 0
    BY DEF Invalidate, Nobody
  <2>2. QED
    BY <1>1, <2>1, InvalidateSound DEF AuthType
<1>2. CASE Observed(a, o) = a
  BY <1>2 DEF AuthType
<1>3. CASE Observed(a, o) = Confirm(a)
  BY <1>3, ConfirmSound DEF AuthType
<1>4. CASE Observed(a, o) = Locate(a, o) /\ Acceptable(a, o)
  <2>1. a.lastSeen \in Nat /\ o.source \in Nat
    BY DEF AuthType, ObservationType
  <2>2. QED
    BY <1>4, <2>1, LocateSound
<1>5. QED
  BY <1>1, <1>2, <1>3, <1>4 DEF Observed

-----------------------------------------------------------------------------
(* The invariant.                                                          *)

\* DropCommand keeps the dwell of an output that is or goes OFF.
LEMMA DropCommandType ==
    ASSUME TypeOK
    PROVE  /\ DropCommand \in [commanded : BOOLEAN, offSince : Nat]
           /\ ~DropCommand.commanded
           /\ DropCommand.offSince = IF relay.commanded THEN now ELSE relay.offSince
BY DEF TypeOK, DropCommand

\* The boot state satisfies the invariant.
LEMMA InitInvariant == Init => IInv
<1> SUFFICES ASSUME Init PROVE IInv
  OBVIOUS
<1>1. auth = Nobody(0) /\ config = DefaultConfig /\ relay = Boot
  BY DEF Init
<1>2. /\ generation = 0 /\ configured = FALSE /\ fault = FALSE /\ lastRequest = 0
      /\ override = 0 /\ now = 0 /\ utc \in 1..MaxUtc /\ clockValid \in BOOLEAN
      /\ decided = FALSE /\ fixTime = 0 /\ awaySeen = 0 /\ offAt = 0
  BY DEF Init
<1>3. decision \in DecisionType /\ ~decision.commanded
  BY DEF Init, DecisionType, AutoStates
<1>4. auth \in AuthType /\ Sound(auth, fixTime, awaySeen) /\ ~auth.restored
  BY <1>1, <1>2, NobodySound DEF Nobody
<1>5. config \in ConfigType
  BY <1>1 DEF DefaultConfig, ConfigType
<1>6. /\ relay \in [commanded : BOOLEAN, offSince : Nat]
      /\ ~relay.commanded /\ relay.offSince = 0
  BY <1>1, <1>2 DEF Boot
<1>7. /\ generation \in Nat /\ lastRequest \in Nat /\ override \in Nat /\ now \in Nat
      /\ utc \in Nat /\ fixTime \in Int /\ awaySeen \in Nat /\ offAt \in Nat
  BY <1>2, PolicyAssumption
<1>b. configured \in BOOLEAN /\ fault \in BOOLEAN /\ clockValid \in BOOLEAN /\ decided \in BOOLEAN
  BY <1>2, Zenon
<1>8. TypeOK
  BY <1>3, <1>4, <1>5, <1>6, <1>7, <1>b, Zenon DEF TypeOK
<1>9. Resting
  BY <1>2, <1>3, <1>6 DEF Resting
<1>10. FreshHomeIsRecent /\ RestoredIsHistorical
  BY <1>2, <1>4 DEF FreshHomeIsRecent, RestoredIsHistorical
<1>11. QED
  BY <1>4, <1>8, <1>9, <1>10 DEF IInv

\* An input of the iteration publishes nothing: what is left to show is the
\* type, the authority and the dwell.
LEMMA InputStep ==
    ASSUME IInv, ~decided, TypeOK', Sound(auth, fixTime, awaySeen)',
           UNCHANGED <<decision, decided, now, offAt>>,
           relay' = relay \/ relay' = DropCommand
    PROVE  IInv'
<1>1. FreshHomeIsRecent'
  BY DEF FreshHomeIsRecent
<1>2. RestoredIsHistorical'
  BY DEF RestoredIsHistorical, Sound
<1>3. Resting'
  <2>1. CASE relay' = relay
    BY <2>1 DEF IInv, Resting
  <2>2. CASE relay' = DropCommand
    BY <2>2, DropCommandType DEF IInv, Resting, TypeOK
  <2>3. QED
    BY <2>1, <2>2
<1>4. QED
  BY <1>1, <1>2, <1>3 DEF IInv

\* Every input of an iteration, its tick and the passing of time keep the invariant.
LEMMA StepInvariant == IInv /\ [Next]_vars => IInv'
<1> SUFFICES ASSUME IInv, [Next]_vars PROVE IInv'
  OBVIOUS
<1> USE PolicyAssumption
<1>t. /\ TypeOK /\ Sound(auth, fixTime, awaySeen)
      /\ auth \in AuthType /\ fixTime \in Int /\ awaySeen \in Nat
      /\ now \in Nat /\ utc \in Nat /\ 0 \in Nat
  BY DEF IInv, TypeOK
<1>e. /\ ExpireAuth(auth) \in AuthType /\ Sound(ExpireAuth(auth), fixTime, awaySeen)
      /\ ExpireAuth(auth).lastSeen = auth.lastSeen
      /\ ExpireAuth(auth).home => ExpireAuth(auth) = auth
  BY <1>t, ExpireSound
<1>o. ExpireOverride \in Nat
  BY DEF ExpireOverride, IInv, TypeOK
<1>d. DropCommand \in [commanded : BOOLEAN, offSince : Nat]
  BY <1>t, DropCommandType
<1>1. ASSUME NEW c \in Configs, NEW saved \in Saved, ApplyConfig(c, saved)
      PROVE  IInv'
  <2>1. c \in ConfigType /\ saved \in SavedType
    OBVIOUS
  <2>2. Restore(c, saved) \in AuthType /\ Sound(Restore(c, saved), fixTime, 0)
    <3>1. CASE Restore(c, saved) = Nobody(0)
      BY <1>t, <3>1, NobodySound
    <3>2. CASE Restore(c, saved) =
               [home |-> saved.state = "Home", autoState |-> saved.state,
                restored |-> TRUE, lease |-> 0, ceiling |-> 0,
                lastSeen |-> saved.source]
      <4>1. CASE saved.state = "Home"
        BY <2>1, <3>2, <4>1 DEF SavedType, AuthType, Sound
      <4>2. CASE saved.state # "Home"
        <5>1. Restore(c, saved) =
                 [home |-> FALSE, autoState |-> saved.state, restored |-> TRUE,
                  lease |-> 0, ceiling |-> 0, lastSeen |-> saved.source]
          BY <3>2, <4>2, Zenon
        <5>2. QED
          BY <2>1, <5>1 DEF SavedType, AuthType, Sound
      <4>3. QED
        BY <4>1, <4>2
    <3>3. QED
      BY <3>1, <3>2 DEF Restore
  <2>3. auth' \in AuthType /\ Sound(auth, fixTime, awaySeen)'
    BY <1>1, <1>t, <2>2, NobodySound DEF ApplyConfig
  <2>4. TypeOK'
    BY <1>1, <1>t, <1>d, <2>1, <2>3 DEF ApplyConfig, TypeOK, clock, ConfigType
  <2>5. QED
    BY <1>1, <2>3, <2>4, InputStep DEF ApplyConfig, clock
<1>2. CASE ApplyOff
  <2>1. auth' \in AuthType /\ Sound(auth, fixTime, awaySeen)'
    BY <1>2, <1>t, InvalidateSound DEF ApplyOff, history
  <2>2. config' \in ConfigType
    BY <1>2, <1>t DEF ApplyOff, TypeOK, ConfigType
  <2>3. TypeOK'
    BY <1>2, <1>t, <1>d, <2>1, <2>2 DEF ApplyOff, TypeOK, clock, history
  <2>4. QED
    BY <1>2, <2>1, <2>3, InputStep DEF ApplyOff, clock
<1>3. ASSUME NEW s \in 0..(MaxOverride + 1), ApplyTimed(s)
      PROVE  IInv'
  <2>1. override' \in Nat
    BY <1>3, <1>t, <1>o DEF ApplyTimed
  <2>2. TypeOK' /\ Sound(auth, fixTime, awaySeen)'
    BY <1>3, <1>t, <1>e, <2>1 DEF ApplyTimed, TypeOK, settings, clock, history
  <2>3. QED
    BY <1>3, <2>2, InputStep DEF ApplyTimed, clock
<1>4. CASE ClockJump
  <2>1. auth' \in AuthType /\ Sound(auth, fixTime, awaySeen)'
    <3>1. CASE auth' = Invalidate(auth)
      BY <1>4, <1>t, <3>1, InvalidateSound DEF ClockJump, history
    <3>2. CASE auth' = [auth EXCEPT !.lease = 0, !.ceiling = 0]
      <4>1. auth' \in AuthType
        <5> DEFINE r == [auth EXCEPT !.lease = 0]
        <5>1. r \in AuthType
          BY <1>t DEF AuthType
        <5>2. auth' = [r EXCEPT !.ceiling = 0]
          BY <3>2
        <5> HIDE DEF r
        <5>3. QED
          BY <5>1, <5>2 DEF AuthType
      <4>2. /\ auth'.lease = 0 /\ auth'.ceiling = 0 /\ auth'.home = auth.home
            /\ auth'.autoState = auth.autoState /\ auth'.restored = auth.restored
            /\ auth'.lastSeen = auth.lastSeen
        BY <1>t, <3>2 DEF AuthType
      <4>3. UNCHANGED <<fixTime, awaySeen>>
        BY <1>4 DEF ClockJump, history
      <4>4. QED
        BY <1>t, <4>1, <4>2, <4>3 DEF Sound
    <3>3. QED
      BY <1>4, <3>1, <3>2 DEF ClockJump
  <2>2. TypeOK'
    <3>0. utc' \in 1..MaxUtc /\ clockValid' \in BOOLEAN
      BY <1>4, Zenon DEF ClockJump
    <3>1. utc' \in Nat
      BY <3>0
    <3>2. UNCHANGED <<settings, override, relay, decision, now, decided, history, offAt>>
      BY <1>4 DEF ClockJump
    <3>3. QED
      BY <1>t, <2>1, <3>0, <3>1, <3>2 DEF TypeOK, settings, history
  <2>3. QED
    BY <1>4, <2>1, <2>2, InputStep DEF ClockJump
<1>5. CASE CriticalFault
  <2>1. auth' \in AuthType /\ Sound(auth, fixTime, awaySeen)'
    BY <1>5, <1>t, InvalidateSound DEF CriticalFault, history
  <2>2. TypeOK'
    BY <1>5, <1>t, <1>d, <2>1 DEF CriticalFault, TypeOK, clock, history
  <2>3. QED
    BY <1>5, <2>1, <2>2, InputStep DEF CriticalFault, clock
<1>6. ASSUME NEW o \in Reports, Evidence(o)
      PROVE  IInv'
  <2>1. o \in ObservationType
    OBVIOUS
  <2> DEFINE a == ExpireAuth(auth)
  <2>4. auth' \in AuthType /\ Sound(auth, fixTime, awaySeen)'
    <3>1. CASE Bound(o)
      <4>1. /\ auth' = Observed(a, o)
            /\ fixTime' = IF auth'.lastSeen # a.lastSeen /\ auth'.home
                          THEN now - Age(o) ELSE fixTime
            /\ awaySeen' = IF auth'.lastSeen # a.lastSeen /\ auth'.autoState = "Away"
                           THEN o.source ELSE awaySeen
        BY <1>6, <1>e, <3>1 DEF Evidence
      <4> HIDE DEF a
      <4>2. a \in AuthType /\ Sound(a, fixTime, awaySeen)
        BY <1>e DEF a
      <4>3. QED
        BY <1>t, <2>1, <4>1, <4>2, ObserveSound
    <3>2. CASE ~Bound(o)
      <4>1. auth' = ExpireAuth(auth) /\ fixTime' = fixTime /\ awaySeen' = awaySeen
        BY <1>6, <1>e, <3>2 DEF Evidence
      <4>2. QED
        BY <1>e, <4>1
    <3>3. QED
      BY <3>1, <3>2
  <2>5. /\ lastRequest' \in Nat /\ fixTime' \in Int /\ awaySeen' \in Nat
        /\ override' \in Nat
    BY <1>6, <1>t, <1>o, <2>1 DEF Evidence, ObservationType, TypeOK, Age
  <2>6. TypeOK'
    BY <1>6, <1>t, <2>4, <2>5 DEF Evidence, TypeOK, clock
  <2>7. QED
    BY <1>6, <2>4, <2>6, InputStep DEF Evidence, clock
<1>7. ASSUME NEW committed \in BOOLEAN, NEW inhibited \in BOOLEAN, Tick(committed, inhibited)
      PROVE  IInv'
  <2> DEFINE a == ExpireAuth(auth)
             d == Decide(a, ExpireOverride, ~config.hold \/ committed, inhibited)
  <2>1. /\ ~decided /\ decided' /\ auth' = a /\ decision' = d
        /\ override' = ExpireOverride
        /\ relay' = IF d.commanded THEN [relay EXCEPT !.commanded = TRUE] ELSE DropCommand
        /\ offAt' = IF decision.commanded /\ ~d.commanded THEN now ELSE offAt
        /\ UNCHANGED <<settings, clock, history>>
    BY <1>7 DEF Tick
  <2>2. /\ d \in DecisionType
        /\ d.autoHome => a.home /\ (now < a.lease \/ config.hold)
        /\ d.retained = (d.autoHome /\ now >= a.lease)
        /\ d.restored = a.restored
        /\ d.commanded => relay.commanded \/ now - relay.offSince >= Dwell
    <3>1. a.autoState \in AutoStates /\ a.restored \in BOOLEAN /\ a.home \in BOOLEAN
      BY <1>e DEF AuthType
    <3>2. config.hold \in BOOLEAN
      BY <1>t DEF TypeOK, ConfigType
    <3> HIDE DEF a
    <3>3. QED
      BY <3>1, <3>2 DEF Decide, DecisionType
  <2> HIDE DEF a, d
  <2>3. decided' \in BOOLEAN /\ relay' \in [commanded : BOOLEAN, offSince : Nat] /\ offAt' \in Nat
    BY <1>7, <1>t, <1>d, <2>1 DEF TypeOK, Tick
  <2>4. TypeOK'
    BY <1>t, <1>o, <1>e, <2>1, <2>2, <2>3 DEF TypeOK, settings, clock, history, a
  <2>5. Sound(auth, fixTime, awaySeen)'
    BY <1>e, <2>1 DEF history, a
  <2>6. Resting'
    <3>1. CASE d.commanded
      BY <1>t, <2>1, <2>2, <3>1 DEF IInv, Resting, TypeOK, clock
    <3>2. CASE ~d.commanded
      BY <1>t, <2>1, <3>2, DropCommandType DEF IInv, Resting, TypeOK, clock
    <3>3. QED
      BY <3>1, <3>2
  <2>7. FreshHomeIsRecent'
    <3>1. /\ a.lease \in Int /\ a.ceiling \in Int /\ config.hold \in BOOLEAN
      BY <1>t, <1>e DEF TypeOK, AuthType, ConfigType, a
    <3>2. d.autoHome /\ (~d.retained \/ ~config.hold) => now < a.lease /\ a.home
      BY <1>t, <2>2, <3>1
    <3>3. a.home /\ now < a.lease => now < fixTime + Sleep
      BY <1>t, <1>e, <3>1 DEF Sound, a
    <3>4. QED
      BY <2>1, <3>2, <3>3 DEF FreshHomeIsRecent, settings, clock, history
  <2>8. RestoredIsHistorical'
    <3>1. a.restored => a.lease = 0 /\ a.ceiling = 0
      BY <1>e DEF Sound, a
    <3>2. auth'.restored => auth'.lease = 0 /\ auth'.ceiling = 0
      BY <2>1, <3>1
    <3>3. ASSUME d.restored, d.autoHome PROVE d.retained
      <4>1. a.restored
        BY <2>2, <3>3, Zenon
      <4>2. now >= a.lease
        BY <1>t, <3>1, <4>1
      <4>3. QED
        BY <2>2, <3>3, <4>2, Zenon
    <3>4. QED
      BY <2>1, <3>2, <3>3 DEF RestoredIsHistorical
  <2>9. QED
    BY <2>4, <2>5, <2>6, <2>7, <2>8 DEF IInv
<1>8. CASE Elapse
  <2>1. decided /\ ~decided' /\ now' = now + 1 /\ UNCHANGED <<auth, history, relay, decision, offAt>>
    BY <1>8 DEF Elapse
  <2>2. TypeOK'
    <3>0. clockValid' \in BOOLEAN /\ decided' \in BOOLEAN
      BY <1>8, Zenon DEF Elapse
    <3>1. now' \in Nat /\ utc' \in Nat
      BY <1>8, <1>t DEF Elapse
    <3>2. UNCHANGED <<settings, override, auth, relay, decision, history, offAt>>
      BY <1>8 DEF Elapse
    <3>3. QED
      BY <1>t, <3>0, <3>1, <3>2 DEF TypeOK, settings, history
  <2>3. Sound(auth, fixTime, awaySeen)'
    BY <1>t, <2>1 DEF history
  <2>4. Resting'
    BY <1>t, <2>1 DEF IInv, Resting, TypeOK
  <2>5. FreshHomeIsRecent' /\ RestoredIsHistorical'
    BY <2>1 DEF FreshHomeIsRecent, RestoredIsHistorical, IInv
  <2>6. QED
    BY <2>2, <2>3, <2>4, <2>5 DEF IInv
<1>9. CASE UNCHANGED vars
  BY <1>9 DEF vars, settings, clock, history, IInv, TypeOK, Sound, Resting,
              FreshHomeIsRecent, RestoredIsHistorical
<1>10. QED
  BY <1>1, <1>2, <1>3, <1>4, <1>5, <1>6, <1>7, <1>8, <1>9 DEF Next

\* In every reachable state the authority is backed by the evidence recorded for it.
THEOREM Invariant == Spec => []IInv
BY InitInvariant, StepInvariant, PTL DEF Spec

-----------------------------------------------------------------------------
(* The properties of Policy, for every configuration and every history of  *)
(* observations.                                                           *)

\* Every reachable state of the policy is well typed.
THEOREM TypeCorrect == Spec => []TypeOK
BY Invariant, PTL DEF IInv

\* HOME is never dated later than the location behind it.
THEOREM AnchoredDeadlines == Spec => []DeadlinesAnchored
<1>1. IInv => DeadlinesAnchored
  BY DEF IInv, Sound, DeadlinesAnchored
<1>2. QED
  BY Invariant, <1>1, PTL

\* What is published as fresh HOME is younger than sleep_s.
THEOREM RecentFreshHome == Spec => []FreshHomeIsRecent
BY Invariant, PTL DEF IInv

\* A restored decision never becomes fresh by itself.
THEOREM HistoricalRestore == Spec => []RestoredIsHistorical
BY Invariant, PTL DEF IInv

\* No replayed or late sample turns an AWAY decision back to HOME.
THEOREM OrderedSamples == Spec => []HomeIsNewerThanAway
<1>1. IInv => HomeIsNewerThanAway
  BY DEF IInv, Sound, HomeIsNewerThanAway
<1>2. QED
  BY Invariant, <1>1, PTL

\* The output rests for the whole dwell before it comes ON.
THEOREM RespectedDwell == Spec => DwellRespected
<1>1. IInv /\ [Next]_vars => [~decision.commanded /\ decision'.commanded => now - offAt >= Dwell]_vars
  <2> SUFFICES ASSUME IInv, Next, ~decision.commanded, decision'.commanded
               PROVE  now - offAt >= Dwell
    OBVIOUS
  <2>1. PICK committed, inhibited \in BOOLEAN : Tick(committed, inhibited)
    BY DEF Next, ApplyConfig, ApplyOff, ApplyTimed, ClockJump, CriticalFault, Evidence, Elapse
  <2>2. relay.commanded \/ now - relay.offSince >= Dwell
    BY <2>1 DEF Tick, Decide
  <2>3. QED
    BY <2>2 DEF IInv, Resting
<1>2. QED
  BY Invariant, <1>1, PTL DEF Spec, DwellRespected

\* A lease that has ended is live again only with a newer location.
THEOREM EndedLease == Spec => EndedLeaseNeedsLocation
<1> DEFINE Renewed == now >= auth.lease /\ auth'.lease > now
<1>1. IInv /\ [Next]_vars => [Renewed => auth'.lastSeen > auth.lastSeen]_vars
  <2> SUFFICES ASSUME IInv, Next, Renewed PROVE auth'.lastSeen > auth.lastSeen
    OBVIOUS
  <2>t. /\ auth \in AuthType /\ Sound(auth, fixTime, awaySeen) /\ now \in Nat /\ utc \in Nat
        /\ fixTime \in Int /\ awaySeen \in Nat
    BY DEF IInv, TypeOK
  <2>n. \A s : Nobody(s).lease = 0 /\ Invalidate(auth).lease = 0
    BY DEF Nobody, Invalidate
  <2>e. /\ ExpireAuth(auth) \in AuthType /\ Sound(ExpireAuth(auth), fixTime, awaySeen)
        /\ ExpireAuth(auth).lastSeen = auth.lastSeen
    BY <2>t, ExpireSound
  <2>x. ExpireAuth(auth).lease <= now
    BY <2>t, <2>n DEF ExpireAuth
  <2>1. ASSUME NEW c \in Configs, NEW saved \in Saved, ApplyConfig(c, saved) PROVE FALSE
    <3>1. auth'.lease = 0
      BY <2>1, <2>n DEF ApplyConfig, Restore
    <3>2. QED
      BY <2>t, <3>1
  <2>2. CASE ApplyOff \/ ClockJump \/ CriticalFault
    <3>1. auth'.lease = 0
      BY <2>2, <2>t, <2>n DEF ApplyOff, ClockJump, CriticalFault, AuthType
    <3>2. QED
      BY <2>t, <3>1
  <2>3. CASE auth' = ExpireAuth(auth)
    BY <2>3, <2>t, <2>x, <2>e DEF AuthType
  <2>4. ASSUME NEW o \in Reports, Evidence(o) PROVE auth'.lastSeen > auth.lastSeen
    <3> DEFINE a == ExpireAuth(auth)
    <3>1. CASE auth' = Observed(a, o)
      <4>1. o \in ObservationType
        BY PolicyAssumption
      <4> HIDE DEF a
      <4>2. a \in AuthType /\ Sound(a, fixTime, awaySeen) /\ now >= a.lease
            /\ a.lastSeen = auth.lastSeen
        BY <2>t, <2>e, <2>x DEF a, AuthType
      <4>3. QED
        BY <2>t, <3>1, <4>1, <4>2, ObserveSound
    <3>2. CASE auth' = a
      BY <2>3, <3>2
    <3>3. QED
      BY <2>4, <3>1, <3>2 DEF Evidence
  <2>5. CASE Elapse
    BY <2>5, <2>t DEF Elapse, AuthType
  <2>6. QED
    BY <2>1, <2>2, <2>3, <2>4, <2>5 DEF Next, ApplyTimed, Tick
<1>2. QED
  BY Invariant, <1>1, PTL DEF Spec, EndedLeaseNeedsLocation
=============================================================================
