--------------------------- MODULE ControlProofs ---------------------------
(***************************************************************************)
(* Proofs about module Control, for any settings, command tasks, failures, *)
(* timeouts and number of generations.  The inductive invariant has parts  *)
(* that build on one another, and each part one lemma per component of     *)
(* Next:                                                                   *)
(*   Types     what every variable holds, and that no task holds a         *)
(*             generation from the future;                                 *)
(*   Core      who has config_mutex, whose command is the latest one, and  *)
(*             how what a writer holds compares with what is in flash;     *)
(*   Offs      what an OFF that stands excludes in every task;             *)
(*   Judged    which settings every copy of a decision was judged under;   *)
(*   Sound, Booting, StaleWrite, Gate                                      *)
(*             how the published, the decided and the stored AUTO decision *)
(*             compare.                                                    *)
(***************************************************************************)
EXTENDS Control, TLAPS

\* The steps of change_config with config_mutex.
Changing == {"clear", "save", "check", "cover", "configure"}
Settings == [place : Places \cup {None}, disabled : BOOLEAN]
Decisions == [auto : AutoStates, place : Places \cup {None}, timed : BOOLEAN, commanded : BOOLEAN]

\* The types of TypeOK in which generations up to n occur.
StateOf(n) ==
    [place : Places \cup {None}, disabled : BOOLEAN, ready : BOOLEAN, inhibited : BOOLEAN,
     auto : AutoStates, judged : Places \cup {None}, timed : BOOLEAN, saved : AutoStates,
     savedGen : 0 .. n]
PendingOf(n) ==
    [off : BOOLEAN, config : Config \cup {None}, epoch : 0 .. n, restored : AutoStates,
     timed : 0 .. n]
PolicyOf(n) ==
    [gen : 0 .. n, place : Places \cup {None}, disabled : BOOLEAN, configured : BOOLEAN,
     auto : AutoStates, timed : BOOLEAN, fault : BOOLEAN]
WriterOf(n) ==
    [pc : {"idle", "lock"} \cup Changing, change : Changes, epoch : 0 .. n,
     config : Config \cup {None}]
WorkerOf(n) ==
    [pc : {"idle", "lock", "write", "ack"}, op : {"none", "clear", "save"}, gen : 0 .. n,
     auto : AutoStates, judged : Places \cup {None}, config : Settings \cup {None}]
SetupOf(n) ==
    [pc : {"load", "recover", "configure", "quiet", "up", "halted"}, gen : 0 .. n,
     config : Config \cup {None}, saved : AutoStates]

TypeShared == epoch \in 1 .. MaxEpoch /\ state \in StateOf(epoch) /\ pending \in PendingOf(epoch)
TypeLocals ==
    /\ policy \in PolicyOf(epoch)
    /\ control \in [pc : {"apply", "decide", "command"}, d : Decisions]
    /\ gpio \in BOOLEAN
TypeFlags ==
    /\ fault \in BOOLEAN /\ failed \in BOOLEAN /\ busy \in {"none", "firmware", "provisioning"}
TypeTasks ==
    /\ writer \in [Writers -> WriterOf(epoch)] /\ worker \in WorkerOf(epoch)
    /\ setup \in SetupOf(epoch) /\ mutex \in Writers \cup {None, "storage"}
TypeFlash == nvs \in [profile : Config, journal : Journal] /\ judged \in Places \cup {None}
TypeOffs  == offAt \in 0 .. epoch /\ offAcked \in BOOLEAN /\ (offAcked => OffStands)

\* Whoever has the mutex, or new settings, has a configuration.
WritersTyped ==
    \A p \in Writers :
        writer[p].pc \in Changing \/ (writer[p].pc = "lock" /\ writer[p].change = "Settings")
            => writer[p].config \in Config

Types ==
    /\ TypeShared /\ TypeLocals /\ TypeFlags /\ TypeTasks /\ TypeFlash /\ TypeOffs
    /\ WritersTyped

LEMMA TypeParts ==
    TypeOK <=> TypeShared /\ TypeLocals /\ TypeFlags /\ TypeTasks /\ TypeFlash /\ TypeOffs
BY DEF TypeOK, TypeShared, TypeLocals, TypeFlags, TypeTasks, TypeFlash, TypeOffs, StateOf,
       PendingOf, PolicyOf, WriterOf, WorkerOf, SetupOf, Settings, Decisions, Changing

\* A new generation leaves the types of what is older.
LEMMA Grow ==
    ASSUME NEW n \in Nat
    PROVE  /\ StateOf(n) \subseteq StateOf(n + 1) /\ PendingOf(n) \subseteq PendingOf(n + 1)
           /\ PolicyOf(n) \subseteq PolicyOf(n + 1) /\ WriterOf(n) \subseteq WriterOf(n + 1)
           /\ WorkerOf(n) \subseteq WorkerOf(n + 1) /\ SetupOf(n) \subseteq SetupOf(n + 1)
<1>1. 0 .. n \subseteq 0 .. n + 1
  OBVIOUS
<1> QED
  BY <1>1 DEF StateOf, PendingOf, PolicyOf, WriterOf, WorkerOf, SetupOf

\* What everything begins with fits every generation.
LEMMA Zero ==
    ASSUME NEW n \in Nat
    PROVE  /\ Idle \in WriterOf(n) /\ NoPending \in PendingOf(n) /\ NoWork \in WorkerOf(n)
           /\ SetupBegins \in SetupOf(n) /\ InitState \in StateOf(n) /\ InitPolicy \in PolicyOf(n)
           /\ Undecided \in Decisions /\ Cleared \in Journal
BY DEF Idle, NoPending, NoWork, SetupBegins, InitState, InitPolicy, Undecided, Cleared, WriterOf,
       PendingOf, WorkerOf, SetupOf, StateOf, PolicyOf, Decisions, Journal, Changes, AutoStates

\* Cancel: the generations that were there stay below the new one.
LEMMA Cancelled ==
    ASSUME Types, Cancel
    PROVE  /\ epoch' = epoch + 1 /\ epoch' \in 1 .. MaxEpoch /\ epoch \in Nat /\ epoch' \in Nat
           /\ state \in StateOf(epoch') /\ pending \in PendingOf(epoch')
           /\ policy \in PolicyOf(epoch') /\ writer \in [Writers -> WriterOf(epoch')]
           /\ worker \in WorkerOf(epoch') /\ setup \in SetupOf(epoch')
           /\ offAt \in 0 .. epoch'
<1>1. epoch \in Nat /\ epoch' = epoch + 1 /\ epoch' \in 1 .. MaxEpoch /\ epoch' \in Nat
  BY ControlAssumption DEF Types, TypeShared, Cancel
<1>2. offAt \in 0 .. epoch'
  BY <1>1 DEF Types, TypeOffs
<1> QED
  BY <1>1, <1>2, Grow DEF Types, TypeShared, TypeLocals, TypeTasks

\* A configuration waits that the control task will take.
Handed == pending.config # None /\ pending.epoch = epoch

\* One pass of the control task over its commands (Apply).
LEMMA Applied ==
    ASSUME Types, Apply
    PROVE  /\ UNCHANGED <<epoch, gpio, fault, busy, writer, worker, setup, mutex, nvs, offAt,
                          offAcked, judged, failed>>
           /\ control.pc = "apply" /\ control' = [control EXCEPT !.pc = "decide"]
           /\ pending' = NoPending
           /\ IF Handed THEN Publish(pending.config, pending.restored) ELSE UNCHANGED state
           /\ policy' \in PolicyOf(epoch)
           /\ policy'.gen = IF Handed \/ pending.off THEN epoch ELSE policy.gen
           /\ policy'.place = IF Handed THEN pending.config.place ELSE policy.place
           /\ policy'.disabled = IF Handed THEN pending.config.disabled
                                 ELSE pending.off \/ policy.disabled
           /\ policy'.fault = (policy.fault \/ fault)
           /\ policy'.auto = IF fault THEN "Unknown"
                             ELSE IF ~Handed
                             THEN IF pending.off THEN "Unknown" ELSE policy.auto
                             ELSE IF pending.config.disabled \/ policy.fault THEN "Unknown"
                             ELSE pending.restored
<1> USE DEF Types
<1> DEFINE p1 == IF pending.off
                 THEN [Forget(policy) EXCEPT !.gen = epoch, !.disabled = TRUE] ELSE policy
           p2 == IF Handed THEN Configured(p1, pending.config, pending.restored) ELSE p1
           p3 == [p2 EXCEPT !.timed = @ \/ (/\ pending.timed = epoch
                                            /\ p2.configured /\ ~p2.fault /\ ~p2.disabled)]
<1>1. /\ UNCHANGED <<epoch, gpio, fault, busy, writer, worker, setup, mutex, nvs, history>>
      /\ control.pc = "apply" /\ control' = [control EXCEPT !.pc = "decide"]
      /\ pending' = NoPending
      /\ IF Handed THEN Publish(pending.config, pending.restored) ELSE UNCHANGED state
  BY DEF Apply, Handed
<1>2. epoch \in 0 .. epoch /\ "Unknown" \in AutoStates
  BY DEF TypeShared, AutoStates
<1>3. p1 \in PolicyOf(epoch) /\ policy \in PolicyOf(epoch)
  BY <1>2 DEF TypeLocals, PolicyOf, Forget
<1>4. /\ p1.gen = IF pending.off THEN epoch ELSE policy.gen
      /\ p1.place = policy.place /\ p1.fault = policy.fault
      /\ p1.disabled = (pending.off \/ policy.disabled)
      /\ p1.auto = IF pending.off THEN "Unknown" ELSE policy.auto
  BY <1>3 DEF PolicyOf, Forget, TypeShared, PendingOf
<1> HIDE DEF p1
<1>5. /\ p2 \in PolicyOf(epoch)
      /\ p2.gen = IF Handed THEN epoch ELSE p1.gen
      /\ p2.place = IF Handed THEN pending.config.place ELSE p1.place
      /\ p2.fault = p1.fault
      /\ p2.disabled = IF Handed THEN pending.config.disabled ELSE p1.disabled
      /\ p2.auto = IF ~Handed THEN p1.auto
                   ELSE IF pending.config.disabled \/ p1.fault THEN "Unknown" ELSE pending.restored
  <2>1. CASE Handed
    <3>1. pending.config \in Config /\ pending.restored \in AutoStates
      BY <2>1 DEF Handed, TypeShared, PendingOf
    <3> QED
      BY <1>2, <1>3, <2>1, <3>1 DEF Configured, PolicyOf, Config
  <2>2. CASE ~Handed
    BY <1>3, <2>2
  <2> QED
    BY <2>1, <2>2
<1> HIDE DEF p2
<1>6. /\ p3 \in PolicyOf(epoch) /\ p3.gen = p2.gen /\ p3.place = p2.place
      /\ p3.fault = p2.fault /\ p3.disabled = p2.disabled /\ p3.auto = p2.auto
  BY <1>5 DEF PolicyOf
<1>7. policy' = IF fault THEN [Forget(p3) EXCEPT !.fault = TRUE] ELSE p3
  BY DEF Apply, Handed, p1, p2, p3
<1> HIDE DEF p3
<1>8. /\ policy' \in PolicyOf(epoch) /\ policy'.gen = p3.gen /\ policy'.place = p3.place
      /\ policy'.disabled = p3.disabled /\ policy'.fault = (p3.fault \/ fault)
      /\ policy'.auto = IF fault THEN "Unknown" ELSE p3.auto
  BY <1>2, <1>6, <1>7 DEF PolicyOf, Forget, TypeFlags
<1> QED
  BY <1>1, <1>4, <1>5, <1>6, <1>8 DEF history

\* A configuration that is handed over becomes the published one (configure_policy).
LEMMA Published ==
    ASSUME NEW n, state \in StateOf(n), epoch \in 0 .. n, NEW c \in Config,
           NEW r \in AutoStates, Publish(c, r)
    PROVE  state' \in StateOf(n) /\ state'.place = c.place /\ state'.judged = c.place
<1>1. c.place \in Places \cup {None} /\ c.disabled \in BOOLEAN
  BY DEF Config
<1> QED
  BY <1>1 DEF Publish, StateOf

LEMMA ControlTypes ==
    ASSUME Types, ControlStep
    PROVE  Types'
<1> USE DEF Types
<1>1. CASE Apply
  <2>1. /\ UNCHANGED <<epoch, gpio, fault, busy, writer, worker, setup, mutex, nvs, offAt,
                       offAcked, judged, failed>>
        /\ pending' = NoPending /\ control' = [control EXCEPT !.pc = "decide"]
        /\ IF Handed THEN Publish(pending.config, pending.restored) ELSE UNCHANGED state
        /\ policy' \in PolicyOf(epoch)
    BY <1>1, Applied
  <2>2. state' \in StateOf(epoch)
    <3>1. CASE Handed
      <4>1. pending.config \in Config /\ pending.restored \in AutoStates /\ epoch \in 0 .. epoch
        BY <3>1 DEF Handed, TypeShared, PendingOf
      <4> QED
        BY <2>1, <3>1, <4>1, Published DEF TypeShared
    <3> QED
      BY <2>1, <3>1 DEF TypeShared
  <2>3. TypeShared' /\ TypeLocals'
    BY <2>1, <2>2, Zero DEF TypeShared, TypeLocals
  <2> QED
    BY <2>1, <2>3 DEF TypeFlags, TypeTasks, TypeFlash, TypeOffs, OffStands, WritersTyped
<1>2. ASSUME NEW auto \in AutoStates, NEW ends \in BOOLEAN, NEW rested \in BOOLEAN,
             Decide(auto, ends, rested)
      PROVE  Types'
  <2>1. UNCHANGED <<shared, gpio, fault, busy, writer, worker, setup, mutex, nvs, history>>
    BY <1>2 DEF Decide
  <2>2. policy' \in PolicyOf(epoch)
    BY <1>2 DEF Decide, TypeLocals, PolicyOf
  <2>3. control' \in [pc : {"apply", "decide", "command"}, d : Decisions]
    <3> DEFINE p == [policy EXCEPT !.auto = auto, !.timed = @ /\ ~ends]
               on == /\ Operable
                     /\ p.timed \/ (p.auto = "Home" /\ CommitReady)
                     /\ gpio \/ rested
                     /\ busy # "firmware"
    <3>1. p.place \in Places \cup {None} /\ p.timed \in BOOLEAN
      BY DEF TypeLocals, PolicyOf
    <3>2. on \in BOOLEAN
      OBVIOUS
    <3>3. control' = [pc |-> "command", d |-> [auto |-> auto, place |-> p.place,
                                               timed |-> p.timed, commanded |-> on]]
      BY <1>2 DEF Decide
    <3> HIDE DEF p, on
    <3> QED
      BY <3>1, <3>2, <3>3 DEF Decisions
  <2> QED
    BY <2>1, <2>2, <2>3
    DEF shared, history, TypeShared, TypeLocals, TypeFlags, TypeTasks, TypeFlash, TypeOffs,
        OffStands, WritersTyped
<1>3. ASSUME NEW works \in BOOLEAN, Command(works)
      PROVE  Types'
  <2>1. /\ UNCHANGED <<epoch, pending, policy, busy, writer, worker, setup, mutex, nvs, offAt,
                       offAcked, judged>>
        /\ control' = [pc |-> "apply", d |-> Undecided]
    BY <1>3 DEF Command
  <2>2. state' \in StateOf(epoch)
    BY <1>3 DEF Command, TypeShared, TypeLocals, StateOf, Decisions
  <2>3. gpio' \in BOOLEAN /\ fault' \in BOOLEAN /\ failed' \in BOOLEAN
    BY <1>3, Zenon DEF Command, TypeFlags
  <2>4. TypeShared' /\ TypeLocals' /\ TypeFlags'
    BY <2>1, <2>2, <2>3, Zero DEF TypeShared, TypeLocals, TypeFlags
  <2> QED
    BY <2>1, <2>4 DEF TypeTasks, TypeFlash, TypeOffs, OffStands, WritersTyped
<1> QED
  BY <1>1, <1>2, <1>3 DEF ControlStep

\* A command of p that cancels what is under way: OFF, AUTO, settings, arming, and
\* the OFF with which provisioning begins (writer' below is all they have apart).
LEMMA CommandTypes ==
    ASSUME Types, Cancel, InhibitLocked, NEW p \in Writers, NEW w \in WriterOf(epoch'),
           writer' = [writer EXCEPT ![p] = w], w.pc = "lock",
           w.change = "Settings" => w.config \in Config,
           UNCHANGED <<locals, fault, worker, setup, mutex, nvs, judged, failed>>,
           busy' \in {busy, "provisioning"}, TypeOffs'
    PROVE  Types'
<1> USE DEF Types
<1>1. TypeShared'
  <2>1. state' \in StateOf(epoch')
    BY Cancelled DEF InhibitLocked, StateOf
  <2>2. pending' \in PendingOf(epoch')
    BY Cancelled, Zero DEF InhibitLocked, PendingOf
  <2> QED
    BY <2>1, <2>2, Cancelled DEF TypeShared
<1>2. TypeLocals' /\ TypeFlags'
  BY Cancelled DEF TypeLocals, TypeFlags, locals
<1>3. TypeTasks'
  BY Cancelled DEF TypeTasks
<1>4. WritersTyped'
  BY DEF WritersTyped, TypeTasks, Changing
<1> QED
  BY <1>1, <1>2, <1>3, <1>4 DEF TypeFlash

LEMMA RequestTypes ==
    ASSUME Types, NEW p \in Writers, Request(p)
    PROVE  Types'
<1> USE DEF Types
<1>1. CASE Off(p)
  <2>1. [Idle EXCEPT !.pc = "lock", !.epoch = epoch'] \in WriterOf(epoch')
    <3>1. Idle \in WriterOf(epoch') /\ epoch' \in 0 .. epoch'
      BY <1>1, Cancelled, Zero DEF Off
    <3> QED
      BY <3>1 DEF WriterOf
  <2>2. TypeOffs'
    BY <1>1, Cancelled DEF Off, TypeOffs, OffStands
  <2> QED
    BY <1>1, <2>1, <2>2, CommandTypes DEF Off, Idle
<1>2. ASSUME NEW seen \in 1 .. epoch, TimedOn(p, seen)
      PROVE  Types'
  <2>1. pending' \in PendingOf(epoch)
    BY <1>2 DEF TimedOn, TypeShared, PendingOf
  <2> QED
    BY <1>2, <2>1 DEF TimedOn, locals, history, TypeShared, TypeLocals, TypeFlags, TypeTasks,
       TypeFlash, TypeOffs, OffStands, WritersTyped
<1>3. ASSUME NEW seen \in 1 .. epoch, NEW change \in Changes \ {"Disabled"},
             NEW place \in Places, Begin(p, change, place, seen)
      PROVE  Types'
  <2> DEFINE w == [pc |-> "lock", change |-> change, epoch |-> epoch',
                   config |-> IF change = "Settings"
                              THEN [place |-> place, disabled |-> state.disabled] ELSE None]
  <2>1. [place |-> place, disabled |-> state.disabled] \in Config
    BY DEF TypeShared, StateOf, Config
  <2>2. w \in WriterOf(epoch')
    BY <1>3, <2>1, Cancelled DEF Begin, WriterOf
  <2>3. TypeOffs'
    <3>1. offAcked' \in BOOLEAN /\ (offAcked' => offAt' # 0)
      BY <1>3, Zenon DEF Begin
    <3>2. offAt' \in 0 .. epoch'
      BY <1>3, Cancelled DEF Begin
    <3> QED
      BY <3>1, <3>2 DEF TypeOffs, OffStands
  <2> QED
    BY <1>3, <2>1, <2>2, <2>3, CommandTypes DEF Begin
<1> QED
  BY <1>1, <1>2, <1>3 DEF Request

\* change_config moves p on, or ends it.
LEMMA WriterTypes ==
    ASSUME Types, NEW p \in Writers, NEW w \in WriterOf(epoch),
           writer' = [writer EXCEPT ![p] = w], UNCHANGED epoch,
           w.pc \in Changing => w.config \in Config, w.pc # "lock"
    PROVE  writer' \in [Writers -> WriterOf(epoch')] /\ WritersTyped'
BY DEF Types, TypeTasks, WritersTyped

LEMMA WriteTypes ==
    ASSUME Types, NEW p \in Writers, Write(p)
    PROVE  Types'
<1> USE DEF Types
<1>0. /\ epoch \in Nat /\ writer[p] \in WriterOf(epoch) /\ nvs.profile \in Config
      /\ Idle \in WriterOf(epoch)
  BY Zero DEF TypeShared, TypeTasks, TypeFlash
<1>1. CASE Lock(p)
  <2> DEFINE config == IF writer[p].change = "Settings" THEN writer[p].config
                       ELSE [nvs.profile EXCEPT !.disabled = (writer[p].change # "Auto")]
  <2>1. writer[p].pc = "lock" /\ UNCHANGED <<shared, locals, fault, busy, worker, setup, nvs, history>>
    BY <1>1 DEF Lock
  <2>2. config \in Config
    BY <1>0, <2>1 DEF WritersTyped, Config
  <2>3. \/ writer' = [writer EXCEPT ![p] = [writer[p] EXCEPT !.pc = "clear", !.config = config]]
           /\ mutex' = p
        \/ Done(p) /\ UNCHANGED mutex
    BY <1>0, <1>1 DEF Lock, Acquire, TypeTasks, WriterOf
  <2>4. [writer[p] EXCEPT !.pc = "clear", !.config = config] \in WriterOf(epoch)
    <3> HIDE DEF config
    <3> QED
      BY <1>0, <2>2, ZenonT(40) DEF WriterOf, Changing
  <2>5. writer' \in [Writers -> WriterOf(epoch')] /\ WritersTyped'
    <3>1. CASE Done(p)
      BY <1>0, <2>1, <3>1, WriterTypes DEF Done, Idle, shared, Changing
    <3>2. CASE ~Done(p)
      BY <1>0, <2>1, <2>2, <2>3, <2>4, <3>2, WriterTypes, ZenonT(40) DEF shared, WriterOf
    <3> QED
      BY <3>1, <3>2
  <2> QED
    BY <2>1, <2>3, <2>5 DEF shared, locals, history, TypeShared, TypeLocals, TypeFlags, TypeTasks,
       TypeFlash, TypeOffs, OffStands
<1>2. CASE LockTimeout(p)
  <2>1. writer' \in [Writers -> WriterOf(epoch')] /\ WritersTyped'
    BY <1>0, <1>2, WriterTypes DEF LockTimeout, Done, Idle, shared, Changing
  <2> QED
    BY <1>2, <2>1 DEF LockTimeout, shared, locals, history, TypeShared, TypeLocals, TypeFlags,
       TypeTasks, TypeFlash, TypeOffs, OffStands
<1>3. ASSUME NEW pc \in Changing, writer[p].pc \in Changing, Step(p, pc), UNCHANGED epoch
      PROVE  writer' \in [Writers -> WriterOf(epoch')] /\ WritersTyped'
  <2>1. writer' = [writer EXCEPT ![p] = [writer[p] EXCEPT !.pc = pc]]
    BY <1>0, <1>3 DEF Step, TypeTasks
  <2>2. [writer[p] EXCEPT !.pc = pc] \in WriterOf(epoch)
    BY <1>0, <1>3 DEF WriterOf
  <2>3. writer[p].config \in Config
    BY <1>3 DEF WritersTyped
  <2> QED
    BY <1>0, <1>3, <2>1, <2>2, <2>3, WriterTypes DEF WriterOf, Changing
<1>4. ASSUME Done(p), UNCHANGED epoch
      PROVE  writer' \in [Writers -> WriterOf(epoch')] /\ WritersTyped'
  BY <1>0, <1>4, WriterTypes DEF Done, Idle, Changing
<1>5. CASE ClearJournal(p)
  <2>1. writer' \in [Writers -> WriterOf(epoch')] /\ WritersTyped'
    BY <1>3, <1>5 DEF ClearJournal, shared, Changing
  <2>2. nvs' \in [profile : Config, journal : Journal]
    BY <1>0, <1>5, Zero DEF ClearJournal, TypeFlash
  <2> QED
    BY <1>5, <2>1, <2>2 DEF ClearJournal, shared, locals, history, TypeShared, TypeLocals,
       TypeFlags, TypeTasks, TypeFlash, TypeOffs, OffStands
<1>6. CASE SaveProfile(p)
  <2>1. writer' \in [Writers -> WriterOf(epoch')] /\ WritersTyped'
    BY <1>3, <1>6 DEF SaveProfile, shared, Changing
  <2>2. nvs' \in [profile : Config, journal : Journal]
    BY <1>6 DEF SaveProfile, TypeFlash, WritersTyped, Changing
  <2> QED
    BY <1>6, <2>1, <2>2 DEF SaveProfile, shared, locals, history, TypeShared, TypeLocals,
       TypeFlags, TypeTasks, TypeFlash, TypeOffs, OffStands
<1>7. CASE CheckSuperseded(p)
  <2>1. writer' \in [Writers -> WriterOf(epoch')] /\ WritersTyped'
    BY <1>3, <1>7 DEF CheckSuperseded, shared, Changing
  <2> QED
    BY <1>7, <2>1 DEF CheckSuperseded, shared, locals, history, TypeShared, TypeLocals,
       TypeFlags, TypeTasks, TypeFlash, TypeOffs, OffStands
<1>8. CASE Cover(p)
  <2>1. writer' \in [Writers -> WriterOf(epoch')] /\ WritersTyped'
    BY <1>4, <1>8 DEF Cover, shared
  <2>2. nvs' \in [profile : Config, journal : Journal]
    BY <1>8 DEF Cover, TypeFlash, Config
  <2> QED
    BY <1>8, <2>1, <2>2 DEF Cover, Release, shared, locals, history, TypeShared, TypeLocals,
       TypeFlags, TypeTasks, TypeFlash, TypeOffs, OffStands
<1>9. CASE HandOverChange(p)
  <2>1. writer' \in [Writers -> WriterOf(epoch')] /\ WritersTyped'
    BY <1>4, <1>9 DEF HandOverChange
  <2>2. pending' \in PendingOf(epoch)
    BY <1>0, <1>9 DEF HandOverChange, HandOver, TypeShared, PendingOf, WriterOf, AutoStates
  <2>3. TypeOffs'
    BY <1>9 DEF HandOverChange, TypeOffs, OffStands
  <2> QED
    BY <1>9, <2>1, <2>2, <2>3 DEF HandOverChange, Release, locals, TypeShared, TypeLocals,
       TypeFlags, TypeTasks, TypeFlash
<1>10. CASE WriteFails(p)
  <2>1. writer' \in [Writers -> WriterOf(epoch')] /\ WritersTyped'
    BY <1>4, <1>10 DEF WriteFails, shared
  <2> QED
    BY <1>10, <2>1 DEF WriteFails, Fail, Release, shared, locals, TypeShared, TypeLocals,
       TypeFlags, TypeTasks, TypeFlash, TypeOffs, OffStands
<1> QED
  BY <1>1, <1>2, <1>5, <1>6, <1>7, <1>8, <1>9, <1>10 DEF Write

LEMMA StorageTypes ==
    ASSUME Types, Storage
    PROVE  Types'
<1> USE DEF Types
<1>0. worker \in WorkerOf(epoch) /\ NoWork \in WorkerOf(epoch) /\ Cleared \in Journal
  BY Zero DEF TypeTasks, TypeShared
<1>1. ASSUME worker' \in WorkerOf(epoch), mutex' \in Writers \cup {None, "storage"},
             UNCHANGED <<shared, locals, fault, busy, writer, setup, nvs, history>>
      PROVE  Types'
  BY <1>1 DEF shared, locals, history, TypeShared, TypeLocals, TypeFlags, TypeTasks, TypeFlash,
     TypeOffs, OffStands, WritersTyped
<1>2. CASE StorageSnapshot
  <2>1. /\ [place |-> state.place, disabled |-> state.disabled] \in Settings
        /\ state.auto \in AutoStates /\ state.judged \in Places \cup {None} /\ epoch \in 0 .. epoch
    BY DEF TypeShared, StateOf, Settings
  <2>2. worker' \in WorkerOf(epoch)
    BY <1>2, <2>1 DEF StorageSnapshot, WorkerOf
  <2> QED
    BY <1>1, <1>2, <2>2 DEF StorageSnapshot, TypeTasks
<1>3. CASE StorageLock
  <2>1. worker' \in WorkerOf(epoch)
    <3> DEFINE op == IF fault \/ state.inhibited \/ state.disabled THEN "clear" ELSE "save"
    <3>1. \/ worker' = [worker EXCEPT !.pc = "write", !.op = "save"]
          \/ worker' = [NoWork EXCEPT !.pc = "write", !.op = "clear", !.gen = worker.gen,
                                      !.auto = worker.auto]
          \/ worker' = NoWork
      BY <1>3 DEF StorageLock
    <3> QED
      BY <1>0, <3>1 DEF WorkerOf
  <2>2. mutex' \in Writers \cup {None, "storage"}
    BY <1>3 DEF StorageLock, TypeTasks
  <2> QED
    BY <1>1, <1>3, <2>1, <2>2 DEF StorageLock
<1>4. CASE StorageWrite
  <2>1. worker' \in WorkerOf(epoch)
    <3>1. \/ worker' = NoWork
          \/ worker' = [NoWork EXCEPT !.pc = "ack", !.gen = worker.gen, !.auto = worker.auto]
      BY <1>4 DEF StorageWrite
    <3> QED
      BY <1>0, <3>1 DEF WorkerOf
  <2>2. /\ nvs' \in [profile : Config, journal : Journal] /\ judged' \in Places \cup {None}
        /\ fault' \in BOOLEAN
    <3>1. CASE worker.op = "clear"
      BY <1>0, <1>4, <3>1 DEF StorageWrite, TypeFlash, TypeFlags
    <3>2. CASE worker.op # "clear"
      <4>1. [config |-> nvs.profile, state |-> worker.auto] \in Journal
        BY <1>0 DEF TypeFlash, Journal, WorkerOf
      <4> QED
        BY <1>0, <1>4, <3>2, <4>1 DEF StorageWrite, Save, TypeFlash, TypeFlags, WorkerOf
    <3> QED
      BY <3>1, <3>2
  <2>3. UNCHANGED failed
    BY <1>4 DEF StorageWrite, Save
  <2> QED
    BY <1>4, <2>1, <2>2, <2>3 DEF StorageWrite, Release, shared, locals, TypeShared, TypeLocals,
       TypeFlags, TypeTasks, TypeFlash, TypeOffs, OffStands, WritersTyped
<1>5. CASE StorageFails
  <2>1. mutex' \in Writers \cup {None, "storage"}
    BY <1>5 DEF StorageFails, Release, TypeTasks
  <2> QED
    BY <1>0, <1>5, <2>1 DEF StorageFails, Fail, shared, locals, TypeShared, TypeLocals, TypeFlags,
       TypeTasks, TypeFlash, TypeOffs, OffStands, WritersTyped
<1>6. CASE StorageAck
  <2>1. state' \in StateOf(epoch)
    BY <1>0, <1>6 DEF StorageAck, Acknowledge, TypeShared, StateOf, WorkerOf
  <2> QED
    BY <1>0, <1>6, <2>1 DEF StorageAck, locals, history, TypeShared, TypeLocals, TypeFlags,
       TypeTasks, TypeFlash, TypeOffs, OffStands, WritersTyped
<1> QED
  BY <1>2, <1>3, <1>4, <1>5, <1>6 DEF Storage

LEMMA SetupTypes ==
    ASSUME Types, Setup
    PROVE  Types'
<1> USE DEF Types
<1>0. /\ setup \in SetupOf(epoch) /\ SetupBegins \in SetupOf(epoch) /\ Cleared \in Journal
      /\ epoch \in 0 .. epoch
  BY Zero DEF TypeTasks, TypeShared
<1>1. CASE SetupLoad
  <2>1. setup' \in SetupOf(epoch)
    BY <1>0, <1>1 DEF SetupLoad, SetupOf, TypeFlash
  <2> QED
    BY <1>1, <2>1 DEF SetupLoad, shared, locals, history, TypeShared, TypeLocals, TypeFlags,
       TypeTasks, TypeFlash, TypeOffs, OffStands, WritersTyped
<1>2. ASSUME NEW resume \in BOOLEAN, SetupRecover(resume)
      PROVE  Types'
  <2>1. Restorable(setup.config) \in AutoStates
    BY DEF Restorable, TypeFlash, Journal, AutoStates
  <2>2. setup' \in SetupOf(epoch)
    <3>1. \/ setup' = [setup EXCEPT !.pc = "configure", !.saved = Restorable(setup.config)]
          \/ setup' = [setup EXCEPT !.pc = "configure"]
      BY <1>2 DEF SetupRecover
    <3> QED
      BY <1>0, <2>1, <3>1 DEF SetupOf
  <2>3. nvs' \in [profile : Config, journal : Journal]
    BY <1>0, <1>2 DEF SetupRecover, TypeFlash
  <2> QED
    BY <1>2, <2>2, <2>3 DEF SetupRecover, shared, locals, history, TypeShared, TypeLocals,
       TypeFlags, TypeTasks, TypeFlash, TypeOffs, OffStands, WritersTyped
<1>3. CASE SetupFails
  <2>1. setup' \in SetupOf(epoch)
    BY <1>0, <1>3 DEF SetupFails, SetupOf
  <2> QED
    BY <1>3, <2>1 DEF SetupFails, Fail, shared, locals, TypeShared, TypeLocals, TypeFlags,
       TypeTasks, TypeFlash, TypeOffs, OffStands, WritersTyped
<1>4. CASE SetupConfigure
  <2>1. setup' \in SetupOf(epoch)
    BY <1>0, <1>4 DEF SetupConfigure, SetupOf
  <2>2. pending' \in PendingOf(epoch)
    BY <1>0, <1>4 DEF SetupConfigure, HandOver, TypeShared, PendingOf, SetupOf
  <2> QED
    BY <1>4, <2>1, <2>2 DEF SetupConfigure, locals, history, TypeShared, TypeLocals, TypeFlags,
       TypeTasks, TypeFlash, TypeOffs, OffStands, WritersTyped
<1> QED
  BY <1>1, <1>2, <1>3, <1>4 DEF Setup

LEMMA PowerTypes ==
    ASSUME Types, PowerLoss
    PROVE  Types'
<1> USE DEF Types
<1>1. /\ epoch' \in 1 .. MaxEpoch /\ epoch' \in Nat
      /\ Idle \in WriterOf(epoch') /\ NoPending \in PendingOf(epoch')
      /\ NoWork \in WorkerOf(epoch') /\ SetupBegins \in SetupOf(epoch')
      /\ InitState \in StateOf(epoch') /\ InitPolicy \in PolicyOf(epoch')
      /\ Undecided \in Decisions
  BY Cancelled, Zero DEF PowerLoss
<1>2. TypeShared' /\ TypeLocals' /\ TypeFlags' /\ TypeTasks' /\ TypeFlash'
  BY <1>1 DEF PowerLoss, TypeShared, TypeLocals, TypeFlags, TypeTasks, TypeFlash
<1>3. TypeOffs'
  BY <1>1, Cancelled DEF PowerLoss, TypeOffs, OffStands
<1>4. WritersTyped'
  BY DEF PowerLoss, WritersTyped, Idle, Changing
<1> QED
  BY <1>2, <1>3, <1>4

LEMMA RestTypes ==
    ASSUME Types, FirmwareBegin \/ FirmwareEnd \/ BeginProvision \/ LocalFault \/ UNCHANGED vars
    PROVE  Types'
<1> USE DEF Types
<1>1. CASE FirmwareBegin \/ FirmwareEnd
  BY <1>1 DEF FirmwareBegin, FirmwareEnd, shared, locals, history, TypeShared, TypeLocals,
     TypeFlags, TypeTasks, TypeFlash, TypeOffs, OffStands, WritersTyped
<1>2. CASE BeginProvision
  <2>1. Idle \in WriterOf(epoch') /\ epoch' \in 0 .. epoch'
    BY <1>2, Cancelled, Zero DEF BeginProvision
  <2>2. [Idle EXCEPT !.pc = "lock", !.epoch = epoch'] \in WriterOf(epoch')
    BY <2>1 DEF WriterOf
  <2>3. TypeOffs'
    BY <1>2, Cancelled DEF BeginProvision, history, TypeOffs, OffStands
  <2> QED
    BY <1>2, <2>2, <2>3, CommandTypes DEF BeginProvision, history, Idle
<1>3. CASE LocalFault
  BY <1>3 DEF LocalFault, Fail, shared, locals, TypeShared, TypeLocals, TypeFlags, TypeTasks,
     TypeFlash, TypeOffs, OffStands, WritersTyped
<1>4. CASE UNCHANGED vars
  BY <1>4 DEF vars, shared, locals, history, TypeShared, TypeLocals, TypeFlags, TypeTasks,
     TypeFlash, TypeOffs, OffStands, WritersTyped
<1> QED
  BY <1>1, <1>2, <1>3, <1>4

LEMMA InitTypes == Init => Types
<1> SUFFICES ASSUME Init PROVE Types
  OBVIOUS
<1>1. /\ epoch = 1 /\ 1 \in 1 .. MaxEpoch /\ 1 \in Nat
      /\ Idle \in WriterOf(1) /\ NoPending \in PendingOf(1)
      /\ NoWork \in WorkerOf(1) /\ SetupBegins \in SetupOf(1)
      /\ InitState \in StateOf(1) /\ InitPolicy \in PolicyOf(1)
      /\ Undecided \in Decisions /\ Cleared \in Journal
  BY ControlAssumption, Zero DEF Init
<1>2. TypeShared /\ TypeLocals /\ TypeFlags /\ TypeTasks
  BY <1>1 DEF Init, TypeShared, TypeLocals, TypeFlags, TypeTasks
<1>3. TypeFlash
  BY <1>1 DEF Init, TypeFlash
<1>4. TypeOffs
  <2>1. offAt \in 0 .. epoch
    BY <1>1 DEF Init
  <2>2. offAcked \in BOOLEAN /\ (offAcked => offAt # 0)
    BY Zenon DEF Init, OffStands
  <2> QED
    BY <2>1, <2>2 DEF TypeOffs, OffStands
<1>5. WritersTyped
  BY DEF Init, WritersTyped, Idle, Changing
<1> QED
  BY <1>2, <1>3, <1>4, <1>5 DEF Types

\* Every step keeps the types.
LEMMA StepTypes == Types /\ [Next]_vars => Types'
BY ControlTypes, RequestTypes, WriteTypes, StorageTypes, SetupTypes, PowerTypes, RestTypes DEF Next

\* Every task's data has the shape that the code gives it: in particular a generation
\* that any task holds is not newer than the current one, and what a writer that has
\* config_mutex saves is a configuration.
THEOREM TypesHold == Spec => []TypeOK
<1>1. Types => TypeOK
  BY TypeParts DEF Types
<1> QED
  BY <1>1, InitTypes, StepTypes, PTL DEF Spec

-----------------------------------------------------------------------------
(* The inductive invariant, first what the writers rely on.                *)

\* p carries out the latest command, the one of the current generation.
Latest(p) == writer[p].pc # "idle" /\ writer[p].epoch = epoch

\* The setup task is about to hand over a profile that nobody has superseded.
Loaded   == setup.pc \in {"recover", "configure"} /\ setup.gen = epoch
Starting == setup.pc = "load" \/ Loaded

Exclusion ==
    /\ \A p \in Writers : writer[p].pc \in Changing => mutex = p
    /\ worker.pc = "write" => mutex = "storage"

Order ==
    /\ \A p, q \in Writers : Latest(p) /\ Latest(q) => p = q
    /\ Starting => /\ \A p \in Writers : writer[p].pc = "idle"
                   /\ state.inhibited /\ pending.config = None
    /\ Loaded => setup.config = nvs.profile

\* What a writer holds in its hands is what it has written.
Copies ==
    \A p \in Writers :
        /\ writer[p].pc \in Changing \ {"clear"} => nvs.journal = Cleared
        /\ writer[p].pc \in {"check", "cover", "configure"} => nvs.profile = writer[p].config
        /\ writer[p].pc \in Changing /\ writer[p].change \notin {"Auto", "Settings"} =>
               writer[p].config.disabled

\* Nobody changes the profile that runs or waits to run.
Running ==
    /\ pending.config # None \/ ~state.inhibited =>
           \A p \in Writers : writer[p].pc \in {"idle", "lock"} /\ ~Latest(p)
    /\ pending.config # None =>
           state.inhibited /\ pending.epoch = epoch /\ pending.config = nvs.profile
    /\ ~state.inhibited =>
           /\ nvs.profile = [place |-> state.place, disabled |-> state.disabled]
           /\ ~pending.off /\ state.savedGen = epoch
           /\ policy.gen = epoch /\ policy.disabled = state.disabled

Core == Exclusion /\ Order /\ Copies /\ Running

\* Only the control task, setup and the writers disturb it.
LEMMA CoreFrame ==
    ASSUME Core, Types,
           UNCHANGED <<epoch, pending, writer, setup, nvs, mutex, state.inhibited, state.place,
                       state.disabled, state.savedGen, policy.gen, policy.disabled>>,
           worker'.pc \in {worker.pc, "idle", "lock", "ack"}
    PROVE  Core'
<1> USE DEF Core
<1>1. Exclusion' /\ Copies'
  BY DEF Exclusion, Copies
<1>2. Order'
  BY DEF Order, Latest, Starting, Loaded
<1>3. Running'
  BY DEF Running, Latest
<1> QED
  BY <1>1, <1>2, <1>3

LEMMA CoreCommand ==
    ASSUME Core, Types, Cancel, InhibitLocked, NEW p \in Writers, setup.pc # "load",
           NEW w, w.pc = "lock", w.epoch = epoch', writer' = [writer EXCEPT ![p] = w],
           UNCHANGED <<policy, worker, setup, mutex, nvs>>
    PROVE  Core'
<1> USE DEF Core
<1>1. /\ epoch' \notin 0 .. epoch
      /\ state'.inhibited /\ pending'.config = None
      /\ \A q \in Writers : writer'[q] = IF q = p THEN w ELSE writer[q]
      /\ \A q \in Writers : writer[q].epoch \in 0 .. epoch
      /\ setup.gen \in 0 .. epoch
  BY DEF Types, TypeShared, TypeTasks, StateOf, WriterOf, SetupOf, InhibitLocked, NoPending, Cancel
<1>2. Exclusion' /\ Copies'
  BY <1>1 DEF Exclusion, Copies, Changing
<1>3. Order'
  BY <1>1 DEF Order, Latest, Starting, Loaded
<1>4. Running'
  BY <1>1 DEF Running
<1> QED
  BY <1>2, <1>3, <1>4

LEMMA CoreControl ==
    ASSUME Core, Types, ControlStep
    PROVE  Core'
<1> USE DEF Core
<1>1. CASE Apply
  <2>1. CASE Handed
    <3>1. /\ UNCHANGED <<epoch, writer, worker, setup, mutex, nvs>>
          /\ pending'.config = None /\ ~pending'.off
          /\ policy'.gen = epoch /\ policy'.disabled = pending.config.disabled
          /\ state'.place = pending.config.place /\ state'.disabled = pending.config.disabled
          /\ ~state'.inhibited /\ state'.savedGen = epoch
      <4>1. /\ UNCHANGED <<epoch, writer, worker, setup, mutex, nvs>> /\ pending' = NoPending
            /\ Publish(pending.config, pending.restored)
            /\ policy'.gen = epoch /\ policy'.disabled = pending.config.disabled
        BY <1>1, <2>1, Applied
      <4>2. /\ state'.place = pending.config.place /\ state'.disabled = pending.config.disabled
            /\ ~state'.inhibited /\ state'.savedGen = epoch
        BY <4>1 DEF Publish, Types, TypeShared, StateOf
      <4> QED
        BY <4>1, <4>2 DEF NoPending
    <3>2. /\ pending.config = nvs.profile /\ nvs.profile \in Config
          /\ \A p \in Writers : writer[p].pc \in {"idle", "lock"} /\ ~Latest(p)
      BY <2>1 DEF Handed, Running, Types, TypeFlash
    <3>3. Exclusion' /\ Copies'
      BY <3>1 DEF Exclusion, Copies
    <3>4. ~Starting
      BY <2>1 DEF Handed, Order
    <3>5. Order'
      BY <3>1, <3>4 DEF Order, Latest, Starting, Loaded
    <3>6. nvs.profile = [place |-> nvs.profile.place, disabled |-> nvs.profile.disabled]
      BY <3>2 DEF Config
    <3>7. Running'
      BY <3>1, <3>2, <3>6 DEF Running, Latest
    <3> QED
      BY <3>3, <3>5, <3>7
  <2>2. CASE ~Handed
    <3>1. /\ UNCHANGED <<epoch, writer, worker, setup, mutex, nvs, state>>
          /\ pending'.config = None /\ ~pending'.off
          /\ ~pending.off => UNCHANGED <<policy.gen, policy.disabled>>
      BY <1>1, <2>2, Applied DEF NoPending, Types, TypeLocals, PolicyOf
    <3>2. Exclusion' /\ Copies'
      BY <3>1 DEF Exclusion, Copies
    <3>3. Order'
      BY <3>1 DEF Order, Latest, Starting, Loaded
    <3>4. Running'
      BY <3>1 DEF Running, Latest
    <3> QED
      BY <3>2, <3>3, <3>4
  <2> QED
    BY <2>1, <2>2
<1>2. ASSUME NEW auto \in AutoStates, NEW ends \in BOOLEAN, NEW rested \in BOOLEAN,
             Decide(auto, ends, rested)
      PROVE  Core'
  BY <1>2, CoreFrame DEF Decide, shared, Types, TypeLocals, PolicyOf
<1>3. ASSUME NEW works \in BOOLEAN, Command(works)
      PROVE  Core'
  BY <1>3, CoreFrame DEF Command, Types, TypeShared, StateOf
<1> QED
  BY <1>1, <1>2, <1>3 DEF ControlStep

LEMMA CoreRequest ==
    ASSUME Core, Types, NEW p \in Writers, Request(p) \/ BeginProvision
    PROVE  Core'
<1>1. CASE Off(p)
  <2> DEFINE w == [Idle EXCEPT !.pc = "lock", !.epoch = epoch']
  <2>1. w.pc = "lock" /\ w.epoch = epoch'
    BY DEF Idle
  <2>2. writer' = [writer EXCEPT ![p] = w]
    BY <1>1 DEF Off
  <2> HIDE DEF w
  <2> QED
    BY <1>1, <2>1, <2>2, CoreCommand DEF Off, locals, Reachable
<1>2. ASSUME NEW seen \in 1 .. epoch, TimedOn(p, seen)
      PROVE  Core'
  <2>1. /\ UNCHANGED <<epoch, state, writer, worker, setup, mutex, nvs, policy>>
        /\ pending' = [pending EXCEPT !.timed = epoch]
    BY <1>2 DEF TimedOn, locals
  <2>2. UNCHANGED <<pending.off, pending.config, pending.epoch>>
    BY <2>1 DEF Types, TypeShared, PendingOf
  <2>3. Exclusion' /\ Copies'
    BY <2>1 DEF Core, Exclusion, Copies
  <2>4. Order' /\ Running'
    BY <2>1, <2>2 DEF Core, Order, Running, Latest, Starting, Loaded
  <2> QED
    BY <2>3, <2>4 DEF Core
<1>3. ASSUME NEW seen \in 1 .. epoch, NEW change \in Changes \ {"Disabled"},
             NEW place \in Places, Begin(p, change, place, seen)
      PROVE  Core'
  <2> DEFINE w == [pc |-> "lock", change |-> change, epoch |-> epoch',
                   config |-> IF change = "Settings"
                              THEN [place |-> place, disabled |-> state.disabled] ELSE None]
  <2>1. w.pc = "lock" /\ w.epoch = epoch' /\ writer' = [writer EXCEPT ![p] = w]
    BY <1>3 DEF Begin
  <2> HIDE DEF w
  <2> QED
    BY <1>3, <2>1, CoreCommand DEF Begin, Accepts, locals, Reachable
<1>4. CASE BeginProvision
  <2> DEFINE w == [Idle EXCEPT !.pc = "lock", !.epoch = epoch']
  <2>1. w.pc = "lock" /\ w.epoch = epoch'
    BY DEF Idle
  <2>2. writer' = [writer EXCEPT ![Usb] = w] /\ Usb \in Writers
    BY <1>4 DEF BeginProvision
  <2> HIDE DEF w
  <2> QED
    BY <1>4, <2>1, <2>2, CoreCommand DEF BeginProvision, locals, Reachable
<1> QED
  BY <1>1, <1>2, <1>3, <1>4 DEF Request

\* A writer that does not have the mutex, or gives it back without a hand-over.
LEMMA CoreDone ==
    ASSUME Core, Types, NEW p \in Writers, Done(p), mutex' \in {mutex, None},
           mutex' = mutex \/ mutex = p, writer[p].pc # "idle",
           UNCHANGED <<shared, policy, worker, setup, nvs.journal>>,
           nvs'.profile = nvs.profile \/ writer[p].pc \in Changing
    PROVE  Core'
<1> USE DEF Core
<1>1. /\ \A q \in Writers : writer'[q] = IF q = p THEN Idle ELSE writer[q]
      /\ UNCHANGED <<epoch, state, pending>> /\ Idle.pc = "idle"
  BY DEF Done, Types, TypeTasks, shared, Idle
<1>2. p # "storage" /\ None # p
  BY ControlAssumption
<1>3. Exclusion'
  BY <1>1, <1>2, ControlAssumption DEF Exclusion, Changing
<1>4. \A q \in Writers : q # p /\ writer[p].pc \in Changing => writer[q].pc \notin Changing
  BY DEF Exclusion
<1>5. Order'
  BY <1>1 DEF Order, Latest, Starting, Loaded
<1>6. Copies'
  BY <1>1, <1>4 DEF Copies, Changing
<1>7. Running'
  BY <1>1 DEF Running, Latest, Changing
<1> QED
  BY <1>3, <1>5, <1>6, <1>7

\* A writer that keeps the mutex.
LEMMA CoreStepOn ==
    ASSUME Core, Types, NEW p \in Writers, NEW pc \in Changing, writer[p].pc \in Changing,
           Step(p, pc), UNCHANGED <<shared, policy, worker, setup, mutex>>,
           writer[p].pc # "clear" => nvs'.journal = nvs.journal,
           pc # "clear" => nvs'.journal = Cleared,
           pc \in {"check", "cover", "configure"} => nvs'.profile = writer[p].config,
           pc \in {"clear", "save"} => nvs'.profile = nvs.profile
    PROVE  Core'
<1> USE DEF Core
<1>1. /\ \A q \in Writers : q # p => writer'[q] = writer[q]
      /\ writer'[p].pc = pc /\ writer'[p].epoch = writer[p].epoch
      /\ writer'[p].change = writer[p].change /\ writer'[p].config = writer[p].config
      /\ UNCHANGED <<epoch, state, pending>>
  BY DEF Step, Types, TypeTasks, WriterOf, shared
<1>2. \A q \in Writers : q # p => writer[q].pc \notin Changing
  BY DEF Exclusion
<1>3. Exclusion'
  BY <1>1 DEF Exclusion
<1>4. Order'
  BY <1>1 DEF Order, Latest, Starting, Loaded, Changing
<1>5. Copies'
  BY <1>1, <1>2 DEF Copies, Changing
<1>6. pending.config = None /\ state.inhibited
  BY DEF Running, Changing
<1>7. Running'
  BY <1>1, <1>6 DEF Running
<1> QED
  BY <1>3, <1>4, <1>5, <1>7

LEMMA CoreWrite ==
    ASSUME Core, Types, NEW p \in Writers, Write(p)
    PROVE  Core'
<1>1. CASE Lock(p)
  <2>1. CASE Matches(writer[p].epoch)
    <3> DEFINE config == IF writer[p].change = "Settings" THEN writer[p].config
                         ELSE [nvs.profile EXCEPT !.disabled = (writer[p].change # "Auto")]
    <3>1. /\ mutex = None /\ mutex' = p
          /\ writer' = [writer EXCEPT ![p].pc = "clear", ![p].config = config]
          /\ UNCHANGED <<epoch, state, pending, policy, worker, setup, nvs>>
          /\ writer[p].pc = "lock" /\ Latest(p)
      BY <1>1, <2>1 DEF Lock, Acquire, shared, locals, Matches, Latest
    <3>2. /\ \A q \in Writers : q # p => writer'[q] = writer[q]
          /\ writer'[p].pc = "clear" /\ writer'[p].epoch = writer[p].epoch
          /\ writer'[p].change = writer[p].change
          /\ writer'[p].config = config
      BY <3>1 DEF Types, TypeTasks, WriterOf
    <3>3. writer[p].change \notin {"Auto", "Settings"} => config.disabled
      BY DEF Types, TypeFlash, Config
    <3> HIDE DEF config
    <3>4. Exclusion'
      BY <3>1, <3>2, ControlAssumption DEF Core, Exclusion
    <3>5. Order'
      BY <3>1, <3>2 DEF Core, Order, Latest, Starting, Loaded
    <3>6. Copies'
      BY <3>1, <3>2, <3>3 DEF Core, Copies, Changing
    <3>7. Running'
      BY <3>1, <3>2 DEF Core, Running
    <3> QED
      BY <3>4, <3>5, <3>6, <3>7 DEF Core
  <2>2. CASE ~Matches(writer[p].epoch)
    BY <1>1, <2>2, CoreDone DEF Lock, locals
  <2> QED
    BY <2>1, <2>2
<1>2. CASE LockTimeout(p)
  BY <1>2, CoreDone DEF LockTimeout, locals
<1>3. CASE ClearJournal(p)
  BY <1>3, CoreStepOn DEF ClearJournal, locals, Changing, Types, TypeFlash
<1>4. CASE SaveProfile(p)
  <2>1. nvs'.profile = writer[p].config /\ nvs'.journal = Cleared /\ nvs.journal = Cleared
    BY <1>4 DEF SaveProfile, Core, Copies, Changing, Types, TypeFlash
  <2> QED
    BY <1>4, <2>1, CoreStepOn DEF SaveProfile, locals, Changing
<1>5. CASE CheckSuperseded(p)
  <2>1. nvs.profile = writer[p].config /\ nvs.journal = Cleared
    BY <1>5 DEF CheckSuperseded, Core, Copies, Changing
  <2> QED
    BY <1>5, <2>1, CoreStepOn DEF CheckSuperseded, locals, Changing
<1>6. CASE Cover(p)
  <2>1. nvs'.journal = nvs.journal /\ mutex = p
    BY <1>6 DEF Cover, Core, Exclusion, Changing, Types, TypeFlash
  <2> QED
    BY <1>6, <2>1, CoreDone DEF Cover, Release, locals, Changing
<1>7. CASE WriteFails(p)
  <2>1. mutex = p
    BY <1>7 DEF WriteFails, Core, Exclusion, Changing
  <2> QED
    BY <1>7, <2>1, CoreDone DEF WriteFails, Release, locals, Changing
<1>8. CASE HandOverChange(p)
  <2>1. mutex = p /\ nvs.profile = writer[p].config
    BY <1>8 DEF HandOverChange, Core, Exclusion, Copies, Changing
  <2>2. CASE ~Matches(writer[p].epoch)
    BY <1>8, <2>1, <2>2, CoreDone DEF HandOverChange, HandOver, Release, locals, shared
  <2>3. CASE Matches(writer[p].epoch)
    <3>1. /\ \A q \in Writers : writer'[q] = IF q = p THEN Idle ELSE writer[q]
          /\ UNCHANGED <<epoch, state, policy, worker, setup, nvs>> /\ Idle.pc = "idle"
          /\ pending'.config = nvs.profile /\ pending'.epoch = epoch
          /\ mutex' = None /\ Latest(p)
      BY <1>8, <2>1, <2>3 DEF HandOverChange, HandOver, Release, locals, Done, Types, TypeTasks,
         TypeShared, PendingOf, Matches, Latest, Idle
    <3>2. \A q \in Writers : q # p => writer[q].pc \notin Changing /\ ~Latest(q)
      BY <2>1, <3>1 DEF Core, Exclusion, Order
    <3>3. state.inhibited /\ ~Starting
      BY <3>1 DEF Core, Running, Order, Latest
    <3>4. Exclusion' /\ Copies'
      BY <3>1, <3>2, <2>1, ControlAssumption DEF Core, Exclusion, Copies, Changing
    <3>5. Order'
      BY <3>1, <3>3 DEF Core, Order, Latest, Starting, Loaded
    <3>6. \A q \in Writers : writer'[q].pc \in {"idle", "lock"} /\ ~Latest(q)'
      BY <3>1, <3>2 DEF Latest, Types, TypeTasks, WriterOf
    <3>7. Running'
      BY <3>1, <3>3, <3>6 DEF Core, Running
    <3> QED
      BY <3>4, <3>5, <3>7 DEF Core
  <2> QED
    BY <2>2, <2>3
<1> QED
  BY <1>1, <1>2, <1>3, <1>4, <1>5, <1>6, <1>7, <1>8 DEF Write

LEMMA CoreStorage ==
    ASSUME Core, Types, Storage
    PROVE  Core'
<1>1. CASE StorageSnapshot
  BY <1>1, CoreFrame DEF StorageSnapshot, shared, locals
<1>2. CASE StorageLock
  <2>1. /\ UNCHANGED <<epoch, state, pending, policy, writer, setup, nvs>>
        /\ mutex = None /\ mutex' \in {None, "storage"}
        /\ worker'.pc = "write" => mutex' = "storage"
    <3>1. NoWork.pc = "idle"
      BY DEF NoWork
    <3> QED
      BY <1>2, <3>1 DEF StorageLock, shared, locals
  <2>2. Exclusion'
    BY <2>1, ControlAssumption DEF Core, Exclusion
  <2>3. Order' /\ Copies' /\ Running'
    BY <2>1 DEF Core, Order, Copies, Running, Latest, Starting, Loaded
  <2> QED
    BY <2>2, <2>3 DEF Core
<1>3. CASE StorageWrite
  <2>1. /\ UNCHANGED <<epoch, state, pending, policy, writer, setup>>
        /\ mutex = "storage" /\ mutex' = None /\ worker'.pc # "write"
        /\ nvs'.profile = nvs.profile
    BY <1>3 DEF StorageWrite, Save, Release, NoWork, shared, locals, Core, Exclusion, Types, TypeFlash
  <2>2. \A p \in Writers : writer[p].pc \notin Changing
    BY <2>1, ControlAssumption DEF Core, Exclusion
  <2>3. Exclusion' /\ Copies'
    BY <2>1, <2>2 DEF Exclusion, Copies, Changing
  <2>4. Order' /\ Running'
    BY <2>1 DEF Core, Order, Running, Latest, Starting, Loaded
  <2> QED
    BY <2>3, <2>4 DEF Core
<1>4. CASE StorageFails
  <2>1. /\ UNCHANGED <<epoch, state, pending, policy, writer, setup, nvs>>
        /\ worker'.pc # "write"
        /\ mutex' = mutex \/ (mutex = "storage" /\ mutex' = None)
    BY <1>4 DEF StorageFails, Release, NoWork, shared, locals, Core, Exclusion
  <2>2. Exclusion'
    BY <2>1, ControlAssumption DEF Core, Exclusion
  <2>3. Order' /\ Copies' /\ Running'
    BY <2>1 DEF Core, Order, Copies, Running, Latest, Starting, Loaded
  <2> QED
    BY <2>2, <2>3 DEF Core
<1>5. CASE StorageAck
  <2>1. /\ UNCHANGED <<epoch, pending, policy, writer, setup, mutex, nvs>>
        /\ worker'.pc = "idle"
    BY <1>5 DEF StorageAck, NoWork, locals
  <2>2. /\ UNCHANGED <<state.inhibited, state.place, state.disabled>>
        /\ state'.savedGen \in {state.savedGen, epoch}
    BY <1>5 DEF StorageAck, Acknowledge, Matches, Types, TypeShared, StateOf
  <2>3. Exclusion' /\ Copies'
    BY <2>1 DEF Core, Exclusion, Copies
  <2>4. Order'
    BY <2>1, <2>2 DEF Core, Order, Latest, Starting, Loaded
  <2>5. Running'
    BY <2>1, <2>2 DEF Core, Running, Latest
  <2> QED
    BY <2>3, <2>4, <2>5 DEF Core
<1> QED
  BY <1>1, <1>2, <1>3, <1>4, <1>5 DEF Storage

LEMMA CoreSetup ==
    ASSUME Core, Types, Setup
    PROVE  Core'
<1> USE DEF Core
<1>1. CASE SetupLoad
  <2>1. /\ UNCHANGED <<epoch, state, pending, policy, writer, worker, mutex, nvs>>
        /\ setup.pc = "load"
        /\ \/ setup'.pc = "halted"
           \/ setup'.pc = "recover" /\ setup'.config = nvs.profile
    BY <1>1 DEF SetupLoad, shared, locals, Types, TypeTasks, SetupOf
  <2>2. Exclusion' /\ Copies' /\ Running'
    BY <2>1 DEF Exclusion, Copies, Running, Latest
  <2>3. Order'
    BY <2>1 DEF Order, Latest, Starting, Loaded
  <2> QED
    BY <2>2, <2>3
<1>2. ASSUME NEW resume \in BOOLEAN, SetupRecover(resume)
      PROVE  Core'
  <2>1. /\ UNCHANGED <<epoch, state, pending, policy, writer, worker, mutex>>
        /\ setup.pc = "recover" /\ setup'.pc = "configure"
        /\ setup'.gen = setup.gen /\ setup'.config = setup.config
        /\ nvs'.profile = nvs.profile /\ nvs'.journal \in {nvs.journal, Cleared}
    BY <1>2 DEF SetupRecover, shared, locals, Types, TypeTasks, TypeFlash, SetupOf
  <2>2. Exclusion' /\ Copies' /\ Running'
    BY <2>1 DEF Exclusion, Copies, Running, Latest
  <2>3. Order'
    BY <2>1 DEF Order, Latest, Starting, Loaded
  <2> QED
    BY <2>2, <2>3
<1>3. CASE SetupFails
  <2>1. /\ UNCHANGED <<epoch, state, pending, policy, writer, worker, mutex, nvs>>
        /\ setup.pc = "recover" /\ setup'.pc = "configure"
        /\ setup'.gen = setup.gen /\ setup'.config = setup.config
    BY <1>3 DEF SetupFails, shared, locals, Types, TypeTasks, SetupOf
  <2>2. Exclusion' /\ Copies' /\ Running'
    BY <2>1 DEF Exclusion, Copies, Running, Latest
  <2>3. Order'
    BY <2>1 DEF Order, Latest, Starting, Loaded
  <2> QED
    BY <2>2, <2>3
<1>4. CASE SetupConfigure
  <2>1. /\ UNCHANGED <<epoch, state, policy, writer, worker, mutex, nvs>>
        /\ setup.pc = "configure" /\ setup'.pc \in {"quiet", "up"}
    BY <1>4 DEF SetupConfigure, SetupBegins, locals
  <2>2. Exclusion' /\ Copies'
    BY <2>1 DEF Exclusion, Copies
  <2>3. Order'
    BY <2>1 DEF Order, Latest, Starting, Loaded
  <2>4. CASE UNCHANGED pending
    <3>1. Running'
      BY <2>1, <2>4 DEF Running, Latest
    <3> QED
      BY <2>2, <2>3, <3>1
  <2>5. CASE ~UNCHANGED pending
    <3>1. /\ Loaded
          /\ pending'.config = setup.config /\ pending'.epoch = epoch
      BY <1>4, <2>5 DEF SetupConfigure, HandOver, Matches, Loaded, Types, TypeShared, PendingOf
    <3>2. /\ \A p \in Writers : writer[p].pc = "idle"
          /\ state.inhibited /\ setup.config = nvs.profile
      BY <3>1 DEF Order, Starting
    <3>3. Running'
      BY <2>1, <3>1, <3>2 DEF Running, Latest
    <3> QED
      BY <2>2, <2>3, <3>3
  <2> QED
    BY <2>4, <2>5
<1> QED
  BY <1>1, <1>2, <1>3, <1>4 DEF Setup

\* A restart, and the steps that it does not depend on.
LEMMA CoreRest ==
    ASSUME Core, Types,
           PowerLoss \/ FirmwareBegin \/ FirmwareEnd \/ LocalFault \/ UNCHANGED vars
    PROVE  Core'
<1>1. CASE PowerLoss
  <2>1. /\ \A p \in Writers : writer'[p].pc = "idle"
        /\ worker'.pc = "idle" /\ setup'.pc = "load"
        /\ state'.inhibited /\ pending'.config = None
    BY <1>1 DEF PowerLoss, Idle, NoWork, SetupBegins, InitState, NoPending
  <2> QED
    BY <2>1 DEF Core, Exclusion, Order, Copies, Running, Latest, Starting, Loaded, Changing
<1>2. CASE ~PowerLoss
  BY <1>2, CoreFrame DEF FirmwareBegin, FirmwareEnd, LocalFault, vars, shared, locals
<1> QED
  BY <1>1, <1>2

LEMMA InitCore == Init => Core
<1> SUFFICES ASSUME Init PROVE Core
  OBVIOUS
<1>1. /\ \A p \in Writers : writer[p].pc = "idle"
      /\ worker.pc = "idle" /\ setup.pc = "load"
      /\ state.inhibited /\ pending.config = None
  BY DEF Init, Idle, NoWork, SetupBegins, InitState, NoPending
<1> QED
  BY <1>1 DEF Core, Exclusion, Order, Copies, Running, Latest, Starting, Loaded, Changing

LEMMA StepCore == Core /\ Types /\ [Next]_vars => Core'
<1>1. BeginProvision => Usb \in Writers
  BY DEF BeginProvision
<1> QED
  BY <1>1, CoreControl, CoreRequest, CoreWrite, CoreStorage, CoreSetup, CoreRest DEF Next

\* A configuration runs, or waits for the control task to take it, only while it is
\* the profile in flash, whichever command, boot or failed write comes in between:
\* change_config saves before it hands over, under a mutex and a generation that let
\* nobody save in between (management.cpp, app.cpp configure()).
THEOREM RunningPersisted == Spec => []RunningIsPersisted
<1>1. Core => RunningIsPersisted
  BY DEF Core, Running, RunningIsPersisted
<1> QED
  BY <1>1, InitTypes, StepTypes, InitCore, StepCore, PTL DEF Spec

-----------------------------------------------------------------------------
(* An OFF that stands.                                                      *)

\* No task can bring an enabled configuration, or has one in hand, in its generation.
OffHolds ==
    OffStands =>
        /\ state.disabled
        /\ pending.config # None => nvs.profile.disabled
        /\ policy.gen = epoch => policy.disabled
        /\ Starting => offAcked
        /\ \A p \in Writers : Latest(p) =>
               /\ writer[p].change # "Auto"
               /\ writer[p].pc \in Changing \/ writer[p].change = "Settings" =>
                      writer[p].config.disabled

\* Once it is acknowledged neither flash nor those who write it undo it.
Durable ==
    /\ offAcked => /\ nvs.profile.disabled /\ nvs.journal = Cleared
                   /\ \A p \in Writers :
                          writer[p].pc \in {"clear", "save"} => writer[p].config.disabled
    /\ worker.pc = "write" /\ worker.op # "clear" => ~offAcked

Commanding == control.pc = "command" /\ control.d.commanded => ~policy.disabled

Offs == OffHolds /\ Durable /\ Commanding

LEMMA OffsFrame ==
    ASSUME Offs, Types, Commanding', Starting' => Starting,
           UNCHANGED <<epoch, state.disabled, pending.config, policy.gen, policy.disabled, writer,
                       nvs.profile, offAt, offAcked>>,
           nvs'.journal \in {nvs.journal, Cleared},
           worker'.pc = "write" /\ worker'.op # "clear" => ~offAcked
    PROVE  Offs'
<1>1. OffHolds'
  BY DEF Offs, OffHolds, OffStands, Latest
<1>2. Durable'
  BY DEF Offs, Durable
<1> QED
  BY <1>1, <1>2 DEF Offs

LEMMA OffsCommand ==
    ASSUME Offs, Types, Cancel, InhibitLocked, NEW p \in Writers, setup.pc # "load",
           NEW w, w.pc = "lock", w.epoch = epoch', writer' = [writer EXCEPT ![p] = w],
           OffStands' => /\ w.change # "Auto"
                         /\ w.change = "Settings" => w.config.disabled,
           offAcked' => offAcked,
           UNCHANGED <<policy, control, worker, setup, mutex, nvs>>
    PROVE  Offs'
<1>1. /\ epoch' \notin 0 .. epoch
      /\ state'.disabled /\ pending'.config = None
      /\ \A q \in Writers : writer'[q] = IF q = p THEN w ELSE writer[q]
      /\ \A q \in Writers : writer[q].epoch \in 0 .. epoch
      /\ setup.gen \in 0 .. epoch /\ policy.gen \in 0 .. epoch
  BY DEF Types, TypeShared, TypeLocals, TypeTasks, StateOf, WriterOf, SetupOf, PolicyOf,
         InhibitLocked, NoPending, Cancel
<1>2. OffHolds'
  BY <1>1 DEF OffHolds, Latest, Starting, Loaded, Changing
<1>3. Durable'
  BY <1>1 DEF Offs, Durable
<1>4. Commanding'
  BY DEF Offs, Commanding
<1> QED
  BY <1>2, <1>3, <1>4 DEF Offs

LEMMA OffsControl ==
    ASSUME Offs, Core, Types, ControlStep
    PROVE  Offs'
<1> USE DEF Offs
<1>1. CASE Apply
  <2>1. /\ UNCHANGED <<epoch, writer, worker, setup, nvs, offAt, offAcked>>
        /\ pending' = NoPending /\ control'.pc = "decide"
        /\ IF Handed THEN Publish(pending.config, pending.restored) ELSE UNCHANGED state
        /\ policy'.gen = IF Handed \/ pending.off THEN epoch ELSE policy.gen
        /\ policy'.disabled = IF Handed THEN pending.config.disabled
                              ELSE pending.off \/ policy.disabled
    BY <1>1, Applied DEF Types, TypeLocals
  <2>2. pending'.config = None
    BY <2>1 DEF NoPending
  <2>3. Handed => pending.config = nvs.profile /\ (OffStands => nvs.profile.disabled)
    BY DEF Handed, Core, Running, OffHolds
  <2>4. OffStands => state'.disabled /\ (policy'.gen = epoch => policy'.disabled)
    <3>1. CASE Handed
      BY <2>1, <2>3, <3>1 DEF Publish, Types, TypeShared, StateOf
    <3>2. CASE ~Handed
      BY <2>1, <3>2 DEF OffHolds, Types, TypeLocals, TypeShared, PolicyOf, PendingOf
    <3> QED
      BY <3>1, <3>2
  <2>5. OffHolds'
    BY <2>1, <2>2, <2>4 DEF OffHolds, OffStands, Latest, Starting, Loaded
  <2>6. Durable' /\ Commanding'
    BY <2>1 DEF Durable, Commanding
  <2> QED
    BY <2>5, <2>6
<1>2. ASSUME NEW auto \in AutoStates, NEW ends \in BOOLEAN, NEW rested \in BOOLEAN,
             Decide(auto, ends, rested)
      PROVE  Offs'
  <2>1. /\ policy'.gen = policy.gen /\ policy'.disabled = policy.disabled
        /\ UNCHANGED <<shared, writer, worker, setup, nvs, history>>
    BY <1>2 DEF Decide, Types, TypeLocals, PolicyOf
  <2>2. control'.d.commanded => ~policy.disabled
    BY <1>2 DEF Decide, Operable
  <2> QED
    BY <2>1, <2>2, OffsFrame DEF Commanding, Durable, Starting, Loaded, shared, history
<1>3. ASSUME NEW works \in BOOLEAN, Command(works)
      PROVE  Offs'
  <2>1. /\ UNCHANGED <<epoch, pending, policy, writer, worker, setup, nvs, offAt, offAcked>>
        /\ control'.pc = "apply" /\ state'.disabled = state.disabled
    BY <1>3 DEF Command, Types, TypeShared, StateOf
  <2> QED
    BY <2>1, OffsFrame DEF Commanding, Durable, Starting, Loaded
<1> QED
  BY <1>1, <1>2, <1>3 DEF ControlStep

LEMMA OffsRequest ==
    ASSUME Offs, Types, NEW p \in Writers, Request(p) \/ BeginProvision
    PROVE  Offs'
<1>1. CASE Off(p)
  <2> DEFINE w == [Idle EXCEPT !.pc = "lock", !.epoch = epoch']
  <2>1. w.pc = "lock" /\ w.epoch = epoch' /\ w.change = "Disabled"
    BY DEF Idle
  <2>2. writer' = [writer EXCEPT ![p] = w]
    BY <1>1 DEF Off
  <2> HIDE DEF w
  <2> QED
    BY <1>1, <2>1, <2>2, OffsCommand DEF Off, locals, Reachable
<1>2. ASSUME NEW seen \in 1 .. epoch, TimedOn(p, seen)
      PROVE  Offs'
  <2>1. /\ UNCHANGED <<epoch, state, writer, worker, setup, nvs, policy, control, history>>
        /\ pending'.config = pending.config
    BY <1>2 DEF TimedOn, locals, Types, TypeShared, PendingOf
  <2> QED
    BY <2>1, OffsFrame DEF Offs, Commanding, Durable, Starting, Loaded, history
<1>3. ASSUME NEW seen \in 1 .. epoch, NEW change \in Changes \ {"Disabled"},
             NEW place \in Places, Begin(p, change, place, seen)
      PROVE  Offs'
  <2> DEFINE w == [pc |-> "lock", change |-> change, epoch |-> epoch',
                   config |-> IF change = "Settings"
                              THEN [place |-> place, disabled |-> state.disabled] ELSE None]
  <2>1. /\ w.pc = "lock" /\ w.epoch = epoch' /\ writer' = [writer EXCEPT ![p] = w]
        /\ w.change = change /\ (change = "Settings" => w.config.disabled = state.disabled)
    BY <1>3 DEF Begin
  <2> HIDE DEF w
  <2>2. seen = epoch /\ offAt <= epoch
    BY <1>3 DEF Begin, Accepts, Matches, Types, TypeShared, TypeOffs
  <2>3. /\ offAt' = IF change = "Auto" THEN 0 ELSE offAt
        /\ offAcked' => offAcked
    BY <1>3, <2>2 DEF Begin, Types, TypeShared, TypeOffs
  <2>4. OffStands' => change # "Auto" /\ state.disabled
    BY <2>3 DEF OffStands, Offs, OffHolds
  <2> QED
    BY <1>3, <2>1, <2>3, <2>4, OffsCommand DEF Begin, Accepts, locals, Reachable
<1>4. CASE BeginProvision
  <2> DEFINE w == [Idle EXCEPT !.pc = "lock", !.epoch = epoch']
  <2>1. w.pc = "lock" /\ w.epoch = epoch' /\ w.change = "Disabled"
    BY DEF Idle
  <2>2. writer' = [writer EXCEPT ![Usb] = w] /\ Usb \in Writers
    BY <1>4 DEF BeginProvision
  <2> HIDE DEF w
  <2> QED
    BY <1>4, <2>1, <2>2, OffsCommand DEF BeginProvision, locals, history, Reachable
<1> QED
  BY <1>1, <1>2, <1>3, <1>4 DEF Request

\* A writer ends, and what it leaves in flash is no less off than before.
LEMMA OffsDone ==
    ASSUME Offs, Types, NEW p \in Writers, Done(p),
           UNCHANGED <<shared, locals, worker, setup, offAt, offAcked, nvs.journal>>,
           nvs.profile.disabled => nvs'.profile.disabled
    PROVE  Offs'
<1>1. /\ \A q \in Writers : writer'[q] = IF q = p THEN Idle ELSE writer[q]
      /\ UNCHANGED <<epoch, state, pending, policy, control>> /\ Idle.pc = "idle"
  BY DEF Done, Types, TypeTasks, shared, locals, Idle
<1>2. OffHolds'
  BY <1>1 DEF Offs, OffHolds, OffStands, Latest, Starting, Loaded
<1>3. Durable' /\ Commanding'
  BY <1>1 DEF Offs, Durable, Commanding
<1> QED
  BY <1>2, <1>3 DEF Offs

\* A writer goes on with the same configuration.
LEMMA OffsStepOn ==
    ASSUME Offs, Core, Types, NEW p \in Writers, NEW pc \in Changing, writer[p].pc \in Changing,
           pc \in {"clear", "save"} => writer[p].pc \in {"clear", "save"},
           Step(p, pc), UNCHANGED <<shared, locals, worker, setup, offAt, offAcked>>,
           nvs'.journal \in {nvs.journal, Cleared},
           nvs'.profile = nvs.profile \/ (writer[p].pc = "save" /\ nvs'.profile = writer[p].config)
    PROVE  Offs'
<1>1. /\ \A q \in Writers : q # p => writer'[q] = writer[q]
      /\ writer'[p].pc = pc /\ writer'[p].epoch = writer[p].epoch
      /\ writer'[p].change = writer[p].change /\ writer'[p].config = writer[p].config
      /\ UNCHANGED <<epoch, state, pending, policy, control>>
  BY DEF Step, Types, TypeTasks, WriterOf, shared, locals
<1>2. pending.config = None
  BY DEF Core, Running, Changing
<1>3. OffHolds'
  BY <1>1, <1>2 DEF Offs, OffHolds, OffStands, Latest, Starting, Loaded, Changing
<1>4. Durable' /\ Commanding'
  BY <1>1 DEF Offs, Durable, Commanding
<1> QED
  BY <1>3, <1>4 DEF Offs

LEMMA OffsWrite ==
    ASSUME Offs, Core, Types, NEW p \in Writers, Write(p)
    PROVE  Offs'
<1>1. CASE Lock(p)
  <2>1. CASE Matches(writer[p].epoch)
    <3> DEFINE config == IF writer[p].change = "Settings" THEN writer[p].config
                         ELSE [nvs.profile EXCEPT !.disabled = (writer[p].change # "Auto")]
    <3>1. /\ writer' = [writer EXCEPT ![p].pc = "clear", ![p].config = config]
          /\ UNCHANGED <<epoch, state, pending, policy, control, worker, setup, nvs, offAt, offAcked>>
          /\ writer[p].pc = "lock" /\ Latest(p)
      BY <1>1, <2>1 DEF Lock, shared, locals, history, Matches, Latest
    <3>2. /\ \A q \in Writers : q # p => writer'[q] = writer[q]
          /\ writer'[p].pc = "clear" /\ writer'[p].epoch = writer[p].epoch
          /\ writer'[p].change = writer[p].change
          /\ writer'[p].config = config
      BY <3>1 DEF Types, TypeTasks, WriterOf
    <3>3. OffStands => writer[p].change # "Auto" /\ config.disabled
      BY <3>1 DEF Types, TypeFlash, Config, Offs, OffHolds
    <3>4. offAcked => OffStands
      BY DEF Types, TypeOffs
    <3> HIDE DEF config
    <3>5. OffHolds'
      BY <3>1, <3>2, <3>3 DEF Offs, OffHolds, OffStands, Latest, Starting, Loaded
    <3>6. Durable' /\ Commanding'
      BY <3>1, <3>2, <3>3, <3>4 DEF Offs, Durable, Commanding
    <3> QED
      BY <3>5, <3>6 DEF Offs
  <2>2. CASE ~Matches(writer[p].epoch)
    BY <1>1, <2>2, OffsDone DEF Lock, history
  <2> QED
    BY <2>1, <2>2
<1>2. CASE LockTimeout(p)
  BY <1>2, OffsDone DEF LockTimeout, history
<1>3. CASE ClearJournal(p)
  BY <1>3, OffsStepOn DEF ClearJournal, history, Changing, Types, TypeFlash
<1>4. CASE SaveProfile(p)
  BY <1>4, OffsStepOn DEF SaveProfile, history, Changing, Types, TypeFlash
<1>5. CASE CheckSuperseded(p)
  BY <1>5, OffsStepOn DEF CheckSuperseded, history, Changing
<1>6. CASE Cover(p)
  <2>1. nvs'.journal = nvs.journal /\ nvs'.profile.disabled
    BY <1>6 DEF Cover, Types, TypeFlash, Config
  <2> QED
    BY <1>6, <2>1, OffsDone DEF Cover, history
<1>7. CASE WriteFails(p)
  BY <1>7, OffsDone DEF WriteFails
<1>8. CASE HandOverChange(p)
  <2>1. /\ mutex = p /\ nvs.profile = writer[p].config /\ nvs.journal = Cleared
        /\ writer[p].change \notin {"Auto", "Settings"} => writer[p].config.disabled
        /\ UNCHANGED <<epoch, state, policy, control, worker, setup, nvs, offAt>>
    BY <1>8 DEF HandOverChange, Core, Exclusion, Copies, Changing, locals
  <2>2. CASE ~Matches(writer[p].epoch)
    <3>1. offAcked' = offAcked
      BY <1>8, <2>2 DEF HandOverChange, Types, TypeOffs
    <3> QED
      BY <1>8, <2>1, <2>2, <3>1, OffsDone DEF HandOverChange, HandOver, locals, shared
  <2>3. CASE Matches(writer[p].epoch)
    <3>1. /\ \A q \in Writers : writer'[q] = IF q = p THEN Idle ELSE writer[q]
          /\ Idle.pc = "idle" /\ Latest(p)
          /\ pending'.config = nvs.profile
      BY <1>8, <2>1, <2>3 DEF HandOverChange, HandOver, Done, Types, TypeTasks,
         TypeShared, PendingOf, Matches, Latest, Idle
    <3>2. /\ offAcked' => offAcked \/ writer[p].change = "Disabled"
          /\ offAcked => offAcked'
      BY <1>8 DEF HandOverChange
    <3>3. \A q \in Writers : q # p => writer[q].pc \notin Changing
      BY <2>1 DEF Core, Exclusion
    <3>4. worker.pc # "write"
      BY <2>1, ControlAssumption DEF Core, Exclusion
    <3>5. OffHolds'
      BY <1>8, <2>1, <3>1, <3>2 DEF HandOverChange, Offs, OffHolds, OffStands, Latest, Starting,
         Loaded, Changing
    <3>6. Durable' /\ Commanding'
      BY <2>1, <3>1, <3>2, <3>3, <3>4 DEF Offs, Durable, Commanding, Changing
    <3> QED
      BY <3>5, <3>6 DEF Offs
  <2> QED
    BY <2>2, <2>3
<1> QED
  BY <1>1, <1>2, <1>3, <1>4, <1>5, <1>6, <1>7, <1>8 DEF Write

\* The storage worker's second look, under config_mutex.
LEMMA StorageLocked ==
    ASSUME Types, StorageLock
    PROVE  /\ UNCHANGED <<shared, locals, fault, busy, writer, setup, nvs, history>>
           /\ worker.pc = "lock" /\ mutex = None
           /\ \/ worker' = NoWork
              \/ /\ worker'.pc = "write" /\ worker'.gen = worker.gen /\ worker.gen = epoch
                 /\ worker'.auto = worker.auto /\ state.auto = worker.auto
                 /\ \/ /\ worker'.op = "clear" /\ (fault \/ state.inhibited \/ state.disabled)
                    \/ /\ worker'.op = "save" /\ ~fault /\ ~state.inhibited /\ ~state.disabled
                       /\ worker'.config = worker.config /\ worker'.judged = worker.judged
<1>1. CASE worker' = NoWork
  BY <1>1 DEF StorageLock
<1>2. CASE worker' # NoWork
  <2>1. CASE fault \/ state.inhibited \/ state.disabled
    BY <1>2, <2>1 DEF StorageLock, NoWork, Matches
  <2>2. CASE ~(fault \/ state.inhibited \/ state.disabled)
    BY <1>2, <2>2 DEF StorageLock, NoWork, Matches, Types, TypeTasks, WorkerOf
  <2> QED
    BY <2>1, <2>2
<1> QED
  BY <1>1, <1>2

LEMMA OffsStorage ==
    ASSUME Offs, Core, Types, Storage
    PROVE  Offs'
<1>1. CASE StorageSnapshot
  BY <1>1, OffsFrame DEF StorageSnapshot, shared, locals, history, Offs, Commanding, Starting, Loaded
<1>2. CASE StorageLock
  <2>1. /\ UNCHANGED <<epoch, state, pending, policy, control, writer, setup, nvs, offAt, offAcked>>
        /\ worker'.pc = "write" /\ worker'.op # "clear" => ~state.disabled
    BY <1>2, StorageLocked DEF NoWork, shared, locals, history
  <2>2. offAcked => state.disabled
    BY DEF Offs, OffHolds, Types, TypeOffs
  <2> QED
    BY <2>1, <2>2, OffsFrame DEF Offs, Commanding, Starting, Loaded
<1>3. CASE StorageWrite
  <2>1. /\ UNCHANGED <<epoch, state, pending, policy, control, writer, setup, offAt, offAcked>>
        /\ worker.pc = "write" /\ worker'.pc # "write"
        /\ nvs'.profile = nvs.profile
        /\ worker.op = "clear" => nvs'.journal = Cleared
    BY <1>3 DEF StorageWrite, Save, NoWork, shared, locals, Types, TypeFlash
  <2>2. OffHolds' /\ Commanding'
    BY <2>1 DEF Offs, OffHolds, OffStands, Commanding, Latest, Starting, Loaded
  <2>3. Durable'
    BY <2>1 DEF Offs, Durable
  <2> QED
    BY <2>2, <2>3 DEF Offs
<1>4. CASE StorageFails
  BY <1>4, OffsFrame DEF StorageFails, NoWork, shared, locals, Offs, Commanding, Starting, Loaded
<1>5. CASE StorageAck
  <2>1. /\ UNCHANGED <<epoch, pending, policy, control, writer, setup, nvs, offAt, offAcked>>
        /\ worker'.pc = "idle" /\ state'.disabled = state.disabled
    BY <1>5 DEF StorageAck, Acknowledge, NoWork, locals, history, Types, TypeShared, StateOf
  <2> QED
    BY <2>1, OffsFrame DEF Offs, Commanding, Starting, Loaded
<1> QED
  BY <1>1, <1>2, <1>3, <1>4, <1>5 DEF Storage

LEMMA OffsSetup ==
    ASSUME Offs, Core, Types, Setup
    PROVE  Offs'
<1>1. CASE SetupLoad
  BY <1>1, OffsFrame DEF SetupLoad, shared, locals, history, Offs, Commanding, Durable, Starting,
     Loaded
<1>2. ASSUME NEW resume \in BOOLEAN, SetupRecover(resume)
      PROVE  Offs'
  <2>1. /\ UNCHANGED <<epoch, state, pending, policy, control, writer, worker, offAt, offAcked>>
        /\ setup.pc = "recover" /\ setup'.pc = "configure" /\ setup'.gen = setup.gen
        /\ nvs'.profile = nvs.profile /\ nvs'.journal \in {nvs.journal, Cleared}
    BY <1>2 DEF SetupRecover, shared, locals, history, Types, TypeTasks, TypeFlash, SetupOf
  <2> QED
    BY <2>1, OffsFrame DEF Offs, Commanding, Durable, Starting, Loaded
<1>3. CASE SetupFails
  <2>1. setup'.gen = setup.gen /\ setup.pc = "recover" /\ setup'.pc = "configure"
    BY <1>3 DEF SetupFails, Types, TypeTasks, SetupOf
  <2> QED
    BY <1>3, <2>1, OffsFrame DEF SetupFails, shared, locals, Offs, Commanding, Durable,
       Starting, Loaded
<1>4. CASE SetupConfigure
  <2>1. /\ UNCHANGED <<epoch, state, policy, control, writer, worker, nvs, offAt, offAcked>>
        /\ setup.pc = "configure" /\ setup'.pc \in {"quiet", "up"}
    BY <1>4 DEF SetupConfigure, SetupBegins, locals, history
  <2>2. UNCHANGED pending \/ Loaded
    BY <1>4 DEF SetupConfigure, HandOver, Matches, Loaded
  <2>3. OffStands /\ pending'.config # None => nvs.profile.disabled
    BY <2>2 DEF Offs, OffHolds, Durable, Starting
  <2>4. OffHolds'
    BY <2>1, <2>3 DEF Offs, OffHolds, OffStands, Latest, Starting, Loaded
  <2>5. Durable' /\ Commanding'
    BY <2>1 DEF Offs, Durable, Commanding
  <2> QED
    BY <2>4, <2>5 DEF Offs
<1> QED
  BY <1>1, <1>2, <1>3, <1>4 DEF Setup

LEMMA OffsRest ==
    ASSUME Offs, Types,
           PowerLoss \/ FirmwareBegin \/ FirmwareEnd \/ LocalFault \/ UNCHANGED vars
    PROVE  Offs'
<1>1. CASE PowerLoss
  <2>1. /\ \A p \in Writers : writer'[p].pc = "idle"
        /\ worker'.pc = "idle" /\ control'.pc = "apply"
        /\ state'.disabled /\ pending'.config = None /\ policy'.disabled
        /\ UNCHANGED <<nvs, offAcked>>
    BY <1>1 DEF PowerLoss, Idle, NoWork, InitState, InitPolicy, NoPending
  <2>2. offAt' # 0 => offAcked
    BY <1>1 DEF PowerLoss
  <2> QED
    BY <2>1, <2>2 DEF Offs, OffHolds, OffStands, Durable, Commanding, Latest, Changing
<1>2. CASE ~PowerLoss
  BY <1>2, OffsFrame DEF FirmwareBegin, FirmwareEnd, LocalFault, vars, shared, locals, history,
     Offs, Commanding, Durable, Starting, Loaded
<1> QED
  BY <1>1, <1>2

LEMMA InitOffs == Init => Offs
<1> SUFFICES ASSUME Init PROVE Offs
  OBVIOUS
<1>1. /\ \A p \in Writers : writer[p].pc = "idle"
      /\ worker.pc = "idle" /\ control.pc = "apply"
      /\ state.disabled /\ pending.config = None /\ policy.disabled
      /\ nvs.journal = Cleared
  BY DEF Init, Idle, NoWork, InitState, InitPolicy, NoPending
<1>2. OffStands => offAcked /\ nvs.profile.disabled
  BY DEF Init, OffStands
<1>3. offAcked => OffStands
  BY DEF Init
<1> QED
  BY <1>1, <1>2, <1>3 DEF Offs, OffHolds, Durable, Commanding, Latest, Changing

LEMMA StepOffs == Offs /\ Core /\ Types /\ [Next]_vars => Offs'
<1>1. BeginProvision => Usb \in Writers
  BY DEF BeginProvision
<1> QED
  BY <1>1, OffsControl, OffsRequest, OffsWrite, OffsStorage, OffsSetup, OffsRest DEF Next

\* Only the control task writes the GPIO.
LEMMA OnlyCommand ==
    ASSUME [Next]_vars, ~gpio, gpio'
    PROVE  \E works \in BOOLEAN : Command(works)
<1>1. ~UNCHANGED gpio
  OBVIOUS
<1>2. ControlStep => \E works \in BOOLEAN : Command(works)
  BY <1>1 DEF ControlStep, Apply, Decide
<1>3. ~Storage /\ ~Setup /\ ~PowerLoss
  BY <1>1 DEF Storage, StorageSnapshot, StorageLock, StorageWrite, StorageFails, StorageAck,
     Setup, SetupLoad, SetupRecover, SetupFails, SetupConfigure, PowerLoss, locals
<1>4. \A p \in Writers : ~Request(p) /\ ~Write(p)
  BY <1>1 DEF Request, Off, TimedOn, Begin, Write, Lock, LockTimeout, ClearJournal, SaveProfile,
     CheckSuperseded, Cover, HandOverChange, WriteFails, locals
<1>5. ~FirmwareBegin /\ ~FirmwareEnd /\ ~BeginProvision /\ ~LocalFault /\ ~UNCHANGED vars
  BY <1>1 DEF FirmwareBegin, FirmwareEnd, BeginProvision, LocalFault, vars, locals
<1> QED
  BY <1>2, <1>3, <1>4, <1>5 DEF Next

LEMMA OffBlocks ==
    ASSUME Offs, Types, [Next]_vars, ~gpio, gpio'
    PROVE  ~OffStands
<1>1. PICK works \in BOOLEAN : Command(works)
  BY OnlyCommand
<1>2. control.pc = "command" /\ control.d.commanded /\ Allowed
  BY <1>1 DEF Command
<1>3. policy.gen = epoch /\ ~policy.disabled
  BY <1>2 DEF Allowed, Matches, Offs, Commanding
<1> QED
  BY <1>3 DEF Offs, OffHolds

\* After an OFF, until AUTO is asked for by somebody who has seen it, no step of any task
\* turns the output on: neither a configuration in flight, nor one that setup loads, nor
\* the decision that the control task had computed before it (app.cpp, the last check
\* before set_output).
THEOREM OffKeptOff == Spec => OffStaysOff
<1>1. Types /\ Offs /\ [Next]_vars => [~gpio /\ gpio' => ~OffStands]_vars
  BY OffBlocks
<1> QED
  BY <1>1, InitTypes, StepTypes, InitCore, StepCore, InitOffs, StepOffs, PTL DEF Spec, OffStaysOff

\* An acknowledged OFF is in flash, with no decision to restore, through power losses,
\* failed writes and every command that came before it: change_config clears the journal
\* and saves before it answers, and the storage worker looks again under the mutex.
THEOREM OffDurable == Spec => []OffIsDurable
<1>1. Offs => OffIsDurable
  BY DEF Offs, Durable, OffIsDurable
<1> QED
  BY <1>1, InitTypes, StepTypes, InitCore, StepCore, InitOffs, StepOffs, PTL DEF Spec

-----------------------------------------------------------------------------
(* The settings that a decision was judged under.                           *)

\* Every copy of the decision goes with the settings it was judged under.
Judged ==
    /\ state.judged = state.place /\ policy.place = state.place
    /\ control.pc = "command" => control.d.place = policy.place
    /\ worker.pc = "lock" \/ (worker.pc = "write" /\ worker.op # "clear") =>
           worker.judged = worker.config.place
    /\ HomeBoundToItsSettings

LEMMA JudgedFrame ==
    ASSUME Judged, Types, UNCHANGED <<state.judged, state.place, policy.place, judged>>,
           UNCHANGED control, UNCHANGED worker \/ worker'.pc \in {"idle", "ack"},
           nvs'.journal \in {nvs.journal, Cleared}
    PROVE  Judged'
BY DEF Judged, HomeBoundToItsSettings, Cleared

LEMMA JudgedControl ==
    ASSUME Judged, Types, ControlStep
    PROVE  Judged'
<1>1. CASE Apply
  <2>1. /\ UNCHANGED <<worker, nvs, judged>> /\ control'.pc = "decide"
        /\ IF Handed THEN Publish(pending.config, pending.restored) ELSE UNCHANGED state
        /\ policy'.place = IF Handed THEN pending.config.place ELSE policy.place
    BY <1>1, Applied DEF Types, TypeLocals
  <2>2. state'.judged = state'.place /\ policy'.place = state'.place
    <3>1. CASE Handed
      <4>1. pending.config \in Config /\ pending.restored \in AutoStates /\ epoch \in 0 .. epoch
        BY <3>1 DEF Handed, Types, TypeShared, PendingOf
      <4> QED
        BY <2>1, <3>1, <4>1, Published DEF Types, TypeShared
    <3>2. CASE ~Handed
      BY <2>1, <3>2 DEF Judged
    <3> QED
      BY <3>1, <3>2
  <2> QED
    BY <2>1, <2>2 DEF Judged, HomeBoundToItsSettings
<1>2. ASSUME NEW auto \in AutoStates, NEW ends \in BOOLEAN, NEW rested \in BOOLEAN,
             Decide(auto, ends, rested)
      PROVE  Judged'
  <2>1. UNCHANGED <<state, worker, nvs, judged>> /\ policy'.place = policy.place
    BY <1>2 DEF Decide, shared, history, Types, TypeLocals, PolicyOf
  <2>2. control'.d.place = policy.place
    BY <1>2 DEF Decide, Types, TypeLocals, PolicyOf
  <2> QED
    BY <2>1, <2>2 DEF Judged, HomeBoundToItsSettings
<1>3. ASSUME NEW works \in BOOLEAN, Command(works)
      PROVE  Judged'
  <2>1. /\ UNCHANGED <<policy, worker, nvs, judged>> /\ control'.pc = "apply"
        /\ state'.judged = control.d.place /\ state'.place = state.place
        /\ control.pc = "command"
    BY <1>3 DEF Command, Types, TypeShared, StateOf
  <2> QED
    BY <2>1 DEF Judged, HomeBoundToItsSettings
<1> QED
  BY <1>1, <1>2, <1>3 DEF ControlStep

LEMMA JudgedRequest ==
    ASSUME Judged, Types, NEW p \in Writers, Request(p) \/ BeginProvision
    PROVE  Judged'
<1>1. /\ UNCHANGED <<policy, control, worker, nvs, judged>>
      /\ InhibitLocked \/ UNCHANGED state
  BY DEF Request, Off, TimedOn, Begin, BeginProvision, locals, history
<1>2. UNCHANGED <<state.judged, state.place>>
  BY <1>1 DEF InhibitLocked, Types, TypeShared, StateOf
<1> QED
  BY <1>1, <1>2, JudgedFrame

LEMMA JudgedWrite ==
    ASSUME Judged, Types, NEW p \in Writers, Write(p)
    PROVE  Judged'
<1>1. /\ UNCHANGED <<state, policy, control, worker, judged>>
      /\ nvs'.journal \in {nvs.journal, Cleared}
  BY DEF Write, Lock, LockTimeout, ClearJournal, SaveProfile, CheckSuperseded, Cover,
     HandOverChange, WriteFails, shared, locals, history, Types, TypeFlash
<1> QED
  BY <1>1, JudgedFrame

LEMMA JudgedStorage ==
    ASSUME Judged, Types, Storage
    PROVE  Judged'
<1>1. CASE StorageSnapshot
  <2>1. /\ UNCHANGED <<state, policy, control, nvs, judged>>
        /\ worker'.judged = state.judged /\ worker'.config.place = state.place
    BY <1>1 DEF StorageSnapshot, shared, locals, history
  <2> QED
    BY <2>1 DEF Judged, HomeBoundToItsSettings
<1>2. CASE StorageLock
  <2>1. UNCHANGED <<state, policy, control, nvs, judged>> /\ worker.pc = "lock"
    BY <1>2, StorageLocked DEF shared, locals, history
  <2>2. worker'.pc = "lock" \/ (worker'.pc = "write" /\ worker'.op # "clear") =>
            worker'.judged = worker.judged /\ worker'.config = worker.config
    BY <1>2, StorageLocked DEF NoWork
  <2> QED
    BY <2>1, <2>2 DEF Judged, HomeBoundToItsSettings
<1>3. CASE StorageWrite
  <2>1. /\ UNCHANGED <<state, policy, control>> /\ worker'.pc \in {"idle", "ack"}
        /\ worker.pc = "write"
    BY <1>3 DEF StorageWrite, NoWork, shared, locals
  <2>2. CASE UNCHANGED judged /\ nvs'.journal \in {nvs.journal, Cleared}
    BY <2>1, <2>2, JudgedFrame
  <2>3. CASE ~(UNCHANGED judged /\ nvs'.journal \in {nvs.journal, Cleared})
    <3>1. /\ worker.op # "clear" /\ nvs.profile = worker.config /\ judged' = worker.judged
          /\ nvs'.journal.config = nvs.profile
      BY <1>3, <2>3 DEF StorageWrite, Save, Types, TypeFlash
    <3> QED
      BY <2>1, <3>1 DEF Judged, HomeBoundToItsSettings
  <2> QED
    BY <2>2, <2>3
<1>4. CASE StorageFails
  BY <1>4, JudgedFrame DEF StorageFails, NoWork, shared, locals
<1>5. CASE StorageAck
  <2>1. UNCHANGED <<state.judged, state.place>>
    BY <1>5 DEF StorageAck, Acknowledge, Types, TypeShared, StateOf
  <2> QED
    BY <1>5, <2>1, JudgedFrame DEF StorageAck, NoWork, locals, history
<1> QED
  BY <1>1, <1>2, <1>3, <1>4, <1>5 DEF Storage

LEMMA JudgedRest ==
    ASSUME Judged, Types,
           Setup \/ PowerLoss \/ FirmwareBegin \/ FirmwareEnd \/ LocalFault \/ UNCHANGED vars
    PROVE  Judged'
<1>1. CASE PowerLoss
  BY <1>1 DEF PowerLoss, InitState, InitPolicy, NoWork, Judged, HomeBoundToItsSettings
<1>2. CASE ~PowerLoss
  <2>1. /\ UNCHANGED <<state, policy, control, worker, judged>>
        /\ nvs'.journal \in {nvs.journal, Cleared}
    BY <1>2 DEF Setup, SetupLoad, SetupRecover, SetupFails, SetupConfigure, FirmwareBegin,
       FirmwareEnd, LocalFault, vars, shared, locals, history, Types, TypeFlash
  <2> QED
    BY <2>1, JudgedFrame
<1> QED
  BY <1>1, <1>2

\* A HOME in flash is bound to the settings that it was judged under: the control task
\* publishes a configuration together with its decision (app.cpp), and the storage worker
\* saves under the configuration of its snapshot or not at all (auto_state.cpp).
THEOREM HomeBound == Spec => []HomeBoundToItsSettings
<1>1. Init => Judged
  BY DEF Init, InitState, InitPolicy, NoWork, Cleared, Judged, HomeBoundToItsSettings
<1>2. Judged /\ Types /\ [Next]_vars => Judged'
  <2>1. BeginProvision => Usb \in Writers
    BY DEF BeginProvision
  <2> QED
    BY <2>1, JudgedControl, JudgedRequest, JudgedWrite, JudgedStorage, JudgedRest DEF Next
<1>3. Judged => HomeBoundToItsSettings
  BY DEF Judged
<1> QED
  BY <1>1, <1>2, <1>3, InitTypes, StepTypes, PTL DEF Spec

-----------------------------------------------------------------------------
(* The gate of the commit.                                                  *)

\* What the Policy object never forgets on its own.
Sound == (policy.fault => fault) /\ (policy.disabled => policy.auto = "Unknown")

\* Until the restored decision is published nobody touches the record it comes from.
Booting ==
    /\ setup.pc # "configure" => setup.saved = "Unknown"
    /\ setup.pc \notin {"quiet", "up"} => worker.pc = "idle" /\ state.saved = "Unknown"
    /\ Starting => /\ ~state.ready
                   /\ setup.saved # "Unknown" =>
                          /\ ~setup.config.disabled
                          /\ nvs.journal = [config |-> setup.config, state |-> setup.saved]
    /\ pending.config # None /\ pending.restored # "Unknown" =>
           /\ setup.pc \in {"quiet", "up"} /\ worker.pc = "idle" /\ ~state.ready
           /\ ~pending.config.disabled
           /\ nvs.journal = [config |-> pending.config, state |-> pending.restored]

LEMMA SoundStep ==
    ASSUME Sound, Booting, Types, [Next]_vars
    PROVE  Sound'
<1>1. CASE Apply
  <2>1. policy'.fault => fault'
    BY <1>1, Applied DEF Sound
  <2>2. policy'.disabled => policy'.auto = "Unknown"
    BY <1>1, Applied DEF Sound, Types, TypeLocals, TypeShared, PolicyOf, PendingOf
  <2> QED
    BY <2>1, <2>2 DEF Sound
<1>2. ASSUME NEW auto \in AutoStates, NEW ends \in BOOLEAN, NEW rested \in BOOLEAN,
             Decide(auto, ends, rested)
      PROVE  Sound'
  <2>1. /\ policy'.fault = policy.fault /\ policy'.disabled = policy.disabled
        /\ policy'.auto = auto /\ UNCHANGED fault
        /\ auto # policy.auto => ~policy.disabled
    BY <1>2 DEF Decide, Operable, Types, TypeLocals, PolicyOf
  <2> QED
    BY <2>1 DEF Sound
<1>3. ASSUME NEW works \in BOOLEAN, Command(works)
      PROVE  Sound'
  BY <1>3 DEF Command, Sound
<1>4. CASE PowerLoss
  BY <1>4 DEF PowerLoss, InitPolicy, Sound
<1>5. CASE ~ControlStep /\ ~PowerLoss
  <2>1. UNCHANGED policy
    BY <1>5 DEF Next, Storage, StorageSnapshot, StorageLock, StorageWrite, StorageFails,
       StorageAck, Setup, SetupLoad, SetupRecover, SetupFails, SetupConfigure, Request, Off,
       TimedOn, Begin, Write, Lock, LockTimeout, ClearJournal, SaveProfile, CheckSuperseded,
       Cover, HandOverChange, WriteFails, FirmwareBegin, FirmwareEnd, BeginProvision, LocalFault,
       vars, locals
  <2>2. fault => fault'
    BY <1>5 DEF Next, Storage, StorageSnapshot, StorageLock, StorageWrite, Save, StorageFails,
       StorageAck, Setup, SetupLoad, SetupRecover, SetupFails, SetupConfigure, Request, Off,
       TimedOn, Begin, Write, Lock, LockTimeout, ClearJournal, SaveProfile, CheckSuperseded,
       Cover, HandOverChange, WriteFails, FirmwareBegin, FirmwareEnd, BeginProvision, LocalFault,
       vars, Fail
  <2> QED
    BY <2>1, <2>2 DEF Sound
<1> QED
  BY <1>1, <1>2, <1>3, <1>4, <1>5 DEF ControlStep

LEMMA BootingFrame ==
    ASSUME Booting, Types, Starting' => Starting,
           UNCHANGED <<setup.pc, setup.config, setup.saved, state.ready,
                       pending.config, pending.restored>>,
           state'.saved \in {state.saved, "Unknown"},
           worker.pc = "idle" => worker'.pc = "idle" /\ UNCHANGED nvs.journal
    PROVE  Booting'
BY DEF Booting

LEMMA BootingControl ==
    ASSUME Booting, Core, Types, ControlStep
    PROVE  Booting'
<1>1. CASE Apply
  <2>1. /\ UNCHANGED <<epoch, worker, setup, nvs>> /\ pending' = NoPending
        /\ IF Handed THEN Publish(pending.config, pending.restored) ELSE UNCHANGED state
    BY <1>1, Applied
  <2>2. pending'.config = None
    BY <2>1 DEF NoPending
  <2>3. CASE ~Handed
    BY <2>1, <2>2, <2>3 DEF Booting, Starting, Loaded
  <2>4. CASE Handed
    <3>1. state'.saved = pending.restored
      BY <2>1, <2>4 DEF Publish, Types, TypeShared, StateOf
    <3>2. ~Starting
      BY <2>4 DEF Handed, Core, Order
    <3> QED
      BY <2>1, <2>2, <2>4, <3>1, <3>2 DEF Booting, Starting, Loaded, Handed
  <2> QED
    BY <2>3, <2>4
<1>2. ASSUME NEW auto \in AutoStates, NEW ends \in BOOLEAN, NEW rested \in BOOLEAN,
             Decide(auto, ends, rested)
      PROVE  Booting'
  BY <1>2, BootingFrame DEF Decide, shared, Starting, Loaded
<1>3. ASSUME NEW works \in BOOLEAN, Command(works)
      PROVE  Booting'
  <2>1. UNCHANGED <<state.ready, state.saved>>
    BY <1>3 DEF Command, Types, TypeShared, StateOf
  <2> QED
    BY <1>3, <2>1, BootingFrame DEF Command, Starting, Loaded
<1> QED
  BY <1>1, <1>2, <1>3 DEF ControlStep

LEMMA BootingRequest ==
    ASSUME Booting, Types, NEW p \in Writers, Request(p) \/ BeginProvision
    PROVE  Booting'
<1>1. CASE Cancel /\ InhibitLocked
  <2>1. /\ UNCHANGED <<worker, setup, nvs>> /\ setup.pc # "load"
    BY DEF Request, Off, TimedOn, Begin, BeginProvision, Accepts, Reachable, Booting, Types,
       TypeTasks, SetupOf
  <2>2. /\ UNCHANGED <<state.ready, state.saved>> /\ pending'.config = None
        /\ epoch' \notin 0 .. epoch /\ setup.gen \in 0 .. epoch
    BY <1>1 DEF InhibitLocked, NoPending, Cancel, Types, TypeShared, TypeTasks, StateOf, SetupOf
  <2> QED
    BY <2>1, <2>2 DEF Booting, Starting, Loaded
<1>2. ASSUME NEW seen \in 1 .. epoch, TimedOn(p, seen)
      PROVE  Booting'
  <2>1. UNCHANGED <<pending.config, pending.restored>>
    BY <1>2 DEF TimedOn, Types, TypeShared, PendingOf
  <2> QED
    BY <1>2, <2>1, BootingFrame DEF TimedOn, Starting, Loaded
<1> QED
  BY <1>1, <1>2 DEF Request, Off, Begin, BeginProvision

LEMMA BootingWrite ==
    ASSUME Booting, Core, Types, NEW p \in Writers, Write(p)
    PROVE  Booting'
<1>1. UNCHANGED <<epoch, state, worker, setup>>
  BY DEF Write, Lock, LockTimeout, ClearJournal, SaveProfile, CheckSuperseded, Cover,
     HandOverChange, WriteFails, shared
<1>2. CASE writer[p].pc = "lock"
  <2>1. UNCHANGED <<pending, nvs>>
    BY <1>2 DEF Write, Lock, LockTimeout, ClearJournal, SaveProfile, CheckSuperseded, Cover,
       HandOverChange, WriteFails, shared
  <2> QED
    BY <1>1, <2>1, BootingFrame DEF Starting, Loaded
<1>3. CASE writer[p].pc # "lock"
  <2>1. writer[p].pc \in Changing
    BY <1>3 DEF Write, Lock, LockTimeout, ClearJournal, SaveProfile, CheckSuperseded, Cover,
       HandOverChange, WriteFails, Changing
  <2>2. ~Starting /\ pending.config = None
    BY <2>1 DEF Core, Order, Running, Changing
  <2>3. pending'.config = None \/ pending'.restored = "Unknown"
    BY <2>2 DEF Write, Lock, LockTimeout, ClearJournal, SaveProfile, CheckSuperseded, Cover,
       HandOverChange, HandOver, WriteFails, shared, Types, TypeShared, PendingOf
  <2> QED
    BY <1>1, <2>2, <2>3 DEF Booting, Starting, Loaded
<1> QED
  BY <1>2, <1>3

LEMMA BootingStorage ==
    ASSUME Booting, Types, Storage
    PROVE  Booting'
<1>1. UNCHANGED <<epoch, pending, setup, state.ready>>
  BY DEF Storage, StorageSnapshot, StorageLock, StorageWrite, StorageFails, StorageAck,
     Acknowledge, shared, Types, TypeShared, StateOf
<1>2. CASE StorageSnapshot
  BY <1>1, <1>2 DEF StorageSnapshot, Booting, Starting, Loaded, shared
<1>3. CASE ~StorageSnapshot
  <2>1. worker.pc # "idle"
    BY <1>3 DEF Storage, StorageLock, StorageWrite, StorageFails, StorageAck
  <2> QED
    BY <1>1, <2>1 DEF Booting, Starting, Loaded
<1> QED
  BY <1>2, <1>3

LEMMA BootingSetup ==
    ASSUME Booting, Core, Types, Setup
    PROVE  Booting'
<1>1. CASE SetupLoad
  <2>1. /\ UNCHANGED <<epoch, state, pending, worker, nvs>>
        /\ setup.pc = "load" /\ setup'.pc \in {"halted", "recover"} /\ setup'.saved = setup.saved
    BY <1>1 DEF SetupLoad, shared, Types, TypeTasks, SetupOf
  <2> QED
    BY <2>1 DEF Booting, Core, Order, Starting, Loaded
<1>2. ASSUME NEW resume \in BOOLEAN, SetupRecover(resume)
      PROVE  Booting'
  <2>1. /\ UNCHANGED <<epoch, state, pending, worker>>
        /\ setup.pc = "recover" /\ setup'.pc = "configure"
        /\ setup'.gen = setup.gen /\ setup'.config = setup.config
        /\ \/ setup'.saved = "Unknown"
           \/ setup'.saved = Restorable(setup.config) /\ UNCHANGED nvs
    <3>1. setup.pc = "recover" /\ setup.saved = "Unknown"
      BY <1>2 DEF SetupRecover, Booting
    <3>2. UNCHANGED <<epoch, state, pending, worker>>
      BY <1>2 DEF SetupRecover, shared
    <3>3. \/ /\ setup' = [setup EXCEPT !.pc = "configure", !.saved = Restorable(setup.config)]
             /\ UNCHANGED nvs
          \/ setup' = [setup EXCEPT !.pc = "configure"]
      BY <1>2 DEF SetupRecover
    <3> QED
      BY <3>1, <3>2, <3>3 DEF Types, TypeTasks, SetupOf
  <2>2. Restorable(setup.config) # "Unknown" =>
            /\ ~setup.config.disabled
            /\ nvs.journal = [config |-> setup.config, state |-> Restorable(setup.config)]
    BY DEF Restorable, Types, TypeFlash, Journal
  <2> QED
    BY <2>1, <2>2 DEF Booting, Starting, Loaded
<1>3. CASE SetupFails
  <2>1. /\ UNCHANGED <<epoch, state, pending, worker, nvs>>
        /\ setup.pc = "recover" /\ setup'.pc = "configure"
        /\ setup'.gen = setup.gen /\ setup'.config = setup.config /\ setup'.saved = setup.saved
    BY <1>3 DEF SetupFails, shared, Types, TypeTasks, SetupOf
  <2> QED
    BY <2>1 DEF Booting, Starting, Loaded
<1>4. CASE SetupConfigure
  <2>1. /\ UNCHANGED <<epoch, state, worker, nvs>>
        /\ setup.pc = "configure" /\ setup'.pc \in {"quiet", "up"} /\ setup'.saved = "Unknown"
    BY <1>4 DEF SetupConfigure, SetupBegins
  <2>2. \/ UNCHANGED pending
        \/ Loaded /\ pending'.config = setup.config /\ pending'.restored = setup.saved
    BY <1>4 DEF SetupConfigure, HandOver, Matches, Loaded, Types, TypeShared, PendingOf
  <2> QED
    BY <2>1, <2>2 DEF Booting, Starting, Loaded
<1> QED
  BY <1>1, <1>2, <1>3, <1>4 DEF Setup

LEMMA BootingRest ==
    ASSUME Booting, Types,
           PowerLoss \/ FirmwareBegin \/ FirmwareEnd \/ LocalFault \/ UNCHANGED vars
    PROVE  Booting'
<1>1. CASE PowerLoss
  BY <1>1 DEF PowerLoss, InitState, NoPending, NoWork, SetupBegins, Booting
<1>2. CASE ~PowerLoss
  BY <1>2, BootingFrame DEF FirmwareBegin, FirmwareEnd, LocalFault, vars, shared, Starting, Loaded
<1> QED
  BY <1>1, <1>2

LEMMA BootingStep == Booting /\ Core /\ Types /\ [Next]_vars => Booting'
<1>1. BeginProvision => Usb \in Writers
  BY DEF BeginProvision
<1> QED
  BY <1>1, BootingControl, BootingRequest, BootingWrite, BootingStorage, BootingSetup, BootingRest
  DEF Next

\* A write under an old generation ends before a configuration can be handed over.
StaleWrite ==
    worker.pc = "write" /\ worker.gen # epoch => state.inhibited /\ pending.config = None

LEMMA StaleWriteStep ==
    ASSUME StaleWrite, Booting, Core, Types, [Next]_vars
    PROVE  StaleWrite'
<1>1. CASE ControlStep
  <2>1. CASE Apply
    <3>1. /\ UNCHANGED <<epoch, worker>> /\ pending'.config = None
          /\ IF Handed THEN Publish(pending.config, pending.restored) ELSE UNCHANGED state
      BY <2>1, Applied DEF NoPending
    <3> QED
      BY <3>1 DEF StaleWrite, Handed
  <2>2. CASE ~Apply
    <3>1. UNCHANGED <<epoch, worker, pending, state.inhibited>>
      BY <1>1, <2>2 DEF ControlStep, Decide, Command, shared, Types, TypeShared, StateOf
    <3> QED
      BY <3>1 DEF StaleWrite
  <2> QED
    BY <2>1, <2>2
<1>2. ASSUME NEW p \in Writers, Request(p) \/ BeginProvision
      PROVE  StaleWrite'
  <2>1. CASE Cancel /\ InhibitLocked
    BY <2>1 DEF StaleWrite, InhibitLocked, NoPending, Types, TypeShared, StateOf
  <2>2. ASSUME NEW seen \in 1 .. epoch, TimedOn(p, seen)
        PROVE  StaleWrite'
    <3>1. UNCHANGED pending.config
      BY <2>2 DEF TimedOn, Types, TypeShared, PendingOf
    <3> QED
      BY <2>2, <3>1 DEF TimedOn, StaleWrite
  <2> QED
    BY <1>2, <2>1, <2>2 DEF Request, Off, Begin, BeginProvision
<1>3. ASSUME NEW p \in Writers, Write(p)
      PROVE  StaleWrite'
  <2>1. UNCHANGED <<epoch, state, worker>>
    BY <1>3 DEF Write, Lock, LockTimeout, ClearJournal, SaveProfile, CheckSuperseded, Cover,
       HandOverChange, WriteFails, shared
  <2>2. CASE HandOverChange(p)
    <3>1. worker.pc # "write"
      BY <2>2, ControlAssumption DEF HandOverChange, Core, Exclusion, Changing
    <3> QED
      BY <2>1, <3>1 DEF StaleWrite
  <2>3. CASE ~HandOverChange(p)
    <3>1. UNCHANGED pending
      BY <1>3, <2>3 DEF Write, Lock, LockTimeout, ClearJournal, SaveProfile, CheckSuperseded,
         Cover, WriteFails, shared
    <3> QED
      BY <2>1, <3>1 DEF StaleWrite
  <2> QED
    BY <2>2, <2>3
<1>4. CASE Storage
  <2>1. UNCHANGED <<epoch, pending, state.inhibited>>
    BY <1>4 DEF Storage, StorageSnapshot, StorageLock, StorageWrite, StorageFails, StorageAck,
       Acknowledge, shared, Types, TypeShared, StateOf
  <2>2. worker'.pc = "write" => worker'.gen = epoch
    <3>1. CASE StorageLock
      BY <3>1, StorageLocked DEF NoWork
    <3>2. CASE StorageWrite
      BY <3>2 DEF StorageWrite, NoWork
    <3>3. CASE StorageSnapshot \/ StorageFails \/ StorageAck
      BY <3>3 DEF StorageSnapshot, StorageFails, StorageAck, NoWork
    <3> QED
      BY <1>4, <3>1, <3>2, <3>3 DEF Storage
  <2> QED
    BY <2>1, <2>2 DEF StaleWrite
<1>5. CASE Setup
  <2>1. UNCHANGED <<epoch, state, worker>>
    BY <1>5 DEF Setup, SetupLoad, SetupRecover, SetupFails, SetupConfigure, shared
  <2>2. CASE SetupConfigure
    BY <2>1, <2>2 DEF SetupConfigure, Booting, StaleWrite
  <2>3. CASE ~SetupConfigure
    <3>1. UNCHANGED pending
      BY <1>5, <2>3 DEF Setup, SetupLoad, SetupRecover, SetupFails, shared
    <3> QED
      BY <2>1, <3>1 DEF StaleWrite
  <2> QED
    BY <2>2, <2>3
<1>6. CASE PowerLoss
  BY <1>6 DEF PowerLoss, NoWork, StaleWrite
<1>7. CASE FirmwareBegin \/ FirmwareEnd \/ LocalFault \/ UNCHANGED vars
  BY <1>7 DEF FirmwareBegin, FirmwareEnd, LocalFault, vars, shared, StaleWrite
<1>8. BeginProvision => Usb \in Writers
  BY DEF BeginProvision
<1> QED
  BY <1>1, <1>2, <1>3, <1>4, <1>5, <1>6, <1>7, <1>8 DEF Next

Live == ~fault /\ ~state.inhibited
HomeStored == nvs.journal = [config |-> nvs.profile, state |-> "Home"]

\* What the control task decides on is what is published, or follows a commit.
Agreed ==
    Live =>
        /\ control.pc # "command" => policy.auto = state.auto
        /\ control.pc = "command" =>
               /\ control.d.auto = policy.auto
               /\ \/ policy.auto = state.auto
                  \/ ~policy.disabled /\ worker.pc = "idle" /\ state.saved = state.auto
               /\ control.d.commanded /\ ~control.d.timed =>
                      state.auto = "Home" /\ state.saved = "Home"

\* HOME counts as saved only when it is in flash, and no request in flight removes it.
Kept ==
    Live =>
        /\ state.auto = "Home" /\ state.saved = "Home" => worker.pc = "idle" /\ HomeStored
        /\ worker.gen = epoch /\ worker.auto = "Home" /\ state.auto = "Home" =>
               /\ worker.pc = "write" => worker.op # "clear"
               /\ worker.pc = "ack" => HomeStored

Gate == Agreed /\ Kept

LEMMA GateFrame ==
    ASSUME Gate, Types, Live' => Live, Live => UNCHANGED <<epoch, nvs>>,
           UNCHANGED <<policy, control, worker, state.auto, state.saved>>
    PROVE  Gate'
<1>1. Agreed'
  BY DEF Gate, Agreed
<1>2. Kept'
  BY DEF Gate, Kept, HomeStored
<1> QED
  BY <1>1, <1>2 DEF Gate

LEMMA GateControl ==
    ASSUME SpacedEvidence, Gate, Sound, Booting, Core, Types, ControlStep
    PROVE  Gate'
<1>1. CASE Apply
  <2>1. /\ UNCHANGED <<epoch, fault, worker, nvs>> /\ control'.pc = "decide" /\ control.pc = "apply"
        /\ IF Handed THEN Publish(pending.config, pending.restored) ELSE UNCHANGED state
        /\ policy'.auto = IF fault THEN "Unknown"
                          ELSE IF ~Handed
                          THEN IF pending.off THEN "Unknown" ELSE policy.auto
                          ELSE IF pending.config.disabled \/ policy.fault THEN "Unknown"
                          ELSE pending.restored
    BY <1>1, Applied DEF Types, TypeLocals
  <2>2. CASE Handed
    <3>1. state'.auto = pending.restored /\ state'.saved = pending.restored
      BY <2>1, <2>2 DEF Publish, Types, TypeShared, StateOf
    <3>2. Live' => policy'.auto = state'.auto
      BY <2>1, <2>2, <3>1 DEF Live, Sound, Booting, Handed
    <3>3. Agreed'
      BY <2>1, <3>2 DEF Agreed
    <3>4. pending.restored = "Home" => worker.pc = "idle" /\ HomeStored
      BY <2>2 DEF Handed, Booting, Core, Running, HomeStored
    <3>5. Kept'
      BY <2>1, <3>1, <3>4 DEF Kept, HomeStored
    <3> QED
      BY <3>3, <3>5 DEF Gate
  <2>3. CASE ~Handed
    <3>1. Live => ~pending.off
      BY DEF Live, Core, Running
    <3>2. Agreed'
      BY <2>1, <2>3, <3>1 DEF Gate, Agreed, Live
    <3>3. Kept'
      BY <2>1, <2>3 DEF Gate, Kept, HomeStored, Live
    <3> QED
      BY <3>2, <3>3 DEF Gate
  <2> QED
    BY <2>2, <2>3
<1>2. ASSUME NEW auto \in AutoStates, NEW ends \in BOOLEAN, NEW rested \in BOOLEAN,
             Decide(auto, ends, rested)
      PROVE  Gate'
  <2>1. /\ UNCHANGED <<shared, epoch, state, fault, worker, nvs>> /\ control.pc = "decide"
        /\ control'.pc = "command" /\ control'.d.auto = auto
        /\ auto # policy.auto => Operable /\ Settled
    BY <1>2 DEF Decide, shared
  <2>2. /\ policy'.auto = auto /\ policy'.disabled = policy.disabled
        /\ policy'.timed = control'.d.timed
    BY <1>2 DEF Decide, Types, TypeLocals, PolicyOf
  <2>3. control'.d.commanded => policy'.timed \/ (policy'.auto = "Home" /\ CommitReady)
    BY <1>2 DEF Decide
  <2>4. ASSUME Live
        PROVE  \/ auto = state.auto
               \/ ~policy.disabled /\ worker.pc = "idle" /\ state.saved = state.auto
    BY <2>1, <2>4 DEF Gate, Agreed, Settled, Operable, Live
  <2>5. Live /\ control'.d.commanded /\ ~control'.d.timed => state.auto = "Home" /\ state.saved = "Home"
    BY <2>2, <2>3, <2>4 DEF CommitReady
  <2>6. Agreed'
    BY <2>1, <2>2, <2>4, <2>5 DEF Agreed, Live
  <2>7. Kept'
    BY <2>1 DEF Gate, Kept, HomeStored, Live
  <2> QED
    BY <2>6, <2>7 DEF Gate
<1>3. ASSUME NEW works \in BOOLEAN, Command(works)
      PROVE  Gate'
  <2>1. /\ UNCHANGED <<epoch, policy, worker, nvs>> /\ control'.pc = "apply"
        /\ state'.auto = control.d.auto /\ state'.saved = state.saved
        /\ state'.inhibited = state.inhibited /\ control.pc = "command"
        /\ fault => fault'
    BY <1>3 DEF Command, Types, TypeShared, StateOf
  <2>2. Live' => Live
    BY <2>1 DEF Live
  <2>3. Agreed'
    BY <2>1, <2>2 DEF Gate, Agreed
  <2>4. Kept'
    BY <2>1, <2>2 DEF Gate, Agreed, Kept, HomeStored
  <2> QED
    BY <2>3, <2>4 DEF Gate
<1> QED
  BY <1>1, <1>2, <1>3 DEF ControlStep

LEMMA GateStorage ==
    ASSUME Gate, StaleWrite, Sound, Core, Types, Storage
    PROVE  Gate'
<1>1. CASE StorageSnapshot
  <2>1. /\ UNCHANGED <<epoch, state, policy, control, fault, nvs>>
        /\ worker.pc = "idle" /\ worker'.pc = "lock" /\ ~Committed
    BY <1>1 DEF StorageSnapshot, shared, locals
  <2>2. Live => state.saved # state.auto
    BY <2>1 DEF Committed, Live, Core, Running
  <2> QED
    BY <2>1, <2>2 DEF Gate, Agreed, Kept, Live
<1>2. CASE StorageLock
  <2>1. /\ UNCHANGED <<epoch, state, policy, control, fault, nvs>> /\ worker.pc = "lock"
        /\ worker' = NoWork \/ worker'.pc = "write"
    BY <1>2, StorageLocked DEF shared, locals
  <2>2. Live /\ state.auto = "Home" => ~state.disabled
    BY DEF Live, Gate, Agreed, Sound, Core, Running
  <2>3. worker'.pc = "write" /\ worker'.op = "clear" => ~Live \/ state.disabled
    BY <1>2, StorageLocked DEF NoWork, Live
  <2> QED
    BY <2>1, <2>2, <2>3 DEF Gate, Agreed, Kept, Live, NoWork
<1>3. CASE StorageWrite
  <2>1. /\ UNCHANGED <<epoch, state, policy, control>> /\ worker.pc = "write"
        /\ fault => fault'
        /\ \/ worker'.pc = "idle" /\ fault'
           \/ worker'.pc = "ack" /\ worker'.gen = worker.gen /\ worker'.auto = worker.auto
    BY <1>3 DEF StorageWrite, Save, NoWork, shared, locals
  <2>2. Live' => worker'.pc = "ack" /\ Live /\ worker.gen = epoch
    BY <2>1 DEF Live, StaleWrite
  <2>3. Live' /\ worker.op # "clear" /\ worker.auto = "Home" => HomeStored'
    BY <1>3 DEF StorageWrite, Save, Live, HomeStored, Types, TypeFlash, TypeFlags
  <2>4. Agreed'
    BY <2>1, <2>2 DEF Gate, Agreed
  <2>5. Kept'
    BY <2>1, <2>2, <2>3 DEF Gate, Kept
  <2> QED
    BY <2>4, <2>5 DEF Gate
<1>4. CASE StorageFails
  BY <1>4 DEF StorageFails, Fail, Live, Gate, Agreed, Kept
<1>5. CASE StorageAck
  <2>1. /\ UNCHANGED <<epoch, policy, control, fault, nvs>>
        /\ worker.pc = "ack" /\ worker'.pc = "idle"
        /\ state'.auto = state.auto /\ state'.inhibited = state.inhibited
        /\ \/ state'.saved = state.saved
           \/ worker.gen = epoch /\ state.auto = worker.auto
    BY <1>5 DEF StorageAck, Acknowledge, Matches, NoWork, locals, Types, TypeShared, StateOf
  <2>2. Live' => Live
    BY <2>1 DEF Live
  <2>3. Agreed'
    BY <2>1, <2>2 DEF Gate, Agreed, Kept
  <2>4. Kept'
    BY <2>1, <2>2 DEF Gate, Kept, HomeStored
  <2> QED
    BY <2>3, <2>4 DEF Gate
<1> QED
  BY <1>1, <1>2, <1>3, <1>4, <1>5 DEF Storage

LEMMA GateWrite ==
    ASSUME Gate, Core, Types, NEW p \in Writers, Write(p)
    PROVE  Gate'
<1>1. /\ UNCHANGED <<epoch, state, policy, control, worker>>
      /\ fault => fault'
      /\ writer[p].pc \in {"idle", "lock"} => UNCHANGED nvs
  BY DEF Write, Lock, LockTimeout, ClearJournal, SaveProfile, CheckSuperseded, Cover,
     HandOverChange, WriteFails, Fail, shared, locals
<1>2. Live => UNCHANGED nvs
  BY <1>1 DEF Live, Core, Running
<1> QED
  BY <1>1, <1>2, GateFrame DEF Live

LEMMA GateRequest ==
    ASSUME Gate, Types, NEW p \in Writers, Request(p) \/ BeginProvision
    PROVE  Gate'
<1>1. CASE Cancel /\ InhibitLocked
  <2>1. ~Live'
    BY <1>1 DEF InhibitLocked, Live, Types, TypeShared, StateOf
  <2> QED
    BY <2>1 DEF Gate, Agreed, Kept
<1>2. ASSUME NEW seen \in 1 .. epoch, TimedOn(p, seen)
      PROVE  Gate'
  BY <1>2, GateFrame DEF TimedOn, Live, locals
<1> QED
  BY <1>1, <1>2 DEF Request, Off, Begin, BeginProvision

LEMMA GateRest ==
    ASSUME Gate, Booting, Types,
           Setup \/ PowerLoss \/ FirmwareBegin \/ FirmwareEnd \/ LocalFault \/ UNCHANGED vars
    PROVE  Gate'
<1>1. CASE PowerLoss
  BY <1>1 DEF PowerLoss, InitState, Live, Gate, Agreed, Kept
<1>2. CASE \E resume \in BOOLEAN : SetupRecover(resume)
  <2>1. /\ UNCHANGED <<epoch, state, policy, control, fault, worker>>
        /\ worker.pc = "idle" /\ state.saved = "Unknown"
    BY <1>2 DEF SetupRecover, Booting, shared, locals
  <2> QED
    BY <2>1 DEF Gate, Agreed, Kept, Live
<1>3. CASE ~PowerLoss /\ ~\E resume \in BOOLEAN : SetupRecover(resume)
  BY <1>3, GateFrame DEF Setup, SetupLoad, SetupFails, SetupConfigure, FirmwareBegin,
     FirmwareEnd, LocalFault, Fail, vars, shared, locals, Live
<1> QED
  BY <1>1, <1>2, <1>3

LEMMA GateStep ==
    ASSUME SpacedEvidence
    PROVE  Gate /\ StaleWrite /\ Sound /\ Booting /\ Core /\ Types /\ [Next]_vars => Gate'
<1>1. BeginProvision => Usb \in Writers
  BY DEF BeginProvision
<1> QED
  BY <1>1, GateControl, GateStorage, GateWrite, GateRequest, GateRest DEF Next

LEMMA InitGate == Init => Gate /\ StaleWrite /\ Sound /\ Booting
BY DEF Init, InitState, InitPolicy, NoWork, NoPending, SetupBegins, Gate, Agreed, Kept, Live,
       StaleWrite, Sound, Booting

\* The output goes on by a decision that Gate is about.
LEMMA GateOpens ==
    ASSUME Gate, Types, [Next]_vars, ~gpio, gpio', ~control.d.timed
    PROVE  HomeStored
<1>1. PICK works \in BOOLEAN : Command(works)
  BY OnlyCommand
<1>2. control.pc = "command" /\ control.d.commanded /\ Live
  BY <1>1 DEF Command, Allowed, Live
<1> QED
  BY <1>2 DEF Gate, Agreed, Kept

\* As long as polls are further apart than a commit takes, AUTO turns the output on only
\* when flash holds HOME for the profile in flash: the storage worker's acknowledgement,
\* a restored record and every write that is still under way when the decision, the
\* configuration or the generation changes are consistent with what is in flash
\* (app.cpp tick_policy, auto_state.cpp).
THEOREM CommitGated ==
    ASSUME SpacedEvidence
    PROVE  Spec => CommitGate
<1>1. Types /\ Gate /\ [Next]_vars =>
          [~gpio /\ gpio' /\ ~control.d.timed =>
           nvs.journal = [config |-> nvs.profile, state |-> "Home"]]_vars
  BY GateOpens DEF HomeStored
<1>2. Gate /\ StaleWrite /\ Sound /\ Booting /\ Core /\ Types /\ [Next]_vars => Gate'
  BY GateStep
<1> QED
  BY <1>1, <1>2, InitTypes, StepTypes, InitCore, StepCore, InitGate, BootingStep, SoundStep,
     StaleWriteStep, PTL DEF Spec, CommitGate

=============================================================================
