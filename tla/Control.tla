------------------------------ MODULE Control -------------------------------
(***************************************************************************)
(* How the tasks of the controller share one decision: the control task    *)
(* (app.cpp), the web and USB command handlers with the configuration      *)
(* writer (management.cpp, usb.cpp, storage.cpp), the storage worker that  *)
(* commits AUTO decisions (auto_state.cpp), the setup task, and power      *)
(* loss.  The profile uses outage policy hold_last and is commissioned and *)
(* out of dry run; the policy itself is abstracted to what these tasks see *)
(* of it (module Policy has the rest), and time to the choices of `rested` *)
(* and OverrideEnds.  A definition marked "mutant" is a plausible bug.     *)
(***************************************************************************)
EXTENDS Integers

CONSTANTS
    Places,         \* home positions, standing for all the settings
    Web, Usb,       \* the tasks that carry out commands
    Writers,        \* those of them that a client uses
    None,           \* no task, no configuration
    Failures,       \* may a write, the GPIO or another local check fail?
    Timeouts,       \* may the five-second wait for config_mutex run out?
    SpacedEvidence, \* do polls stay further apart than one commit takes?
    Maintenance,    \* may firmware uploads and provisioning begin?
    MaxEpoch        \* bound on changes of mode, settings and restarts

ASSUME ControlAssumption ==
    /\ Web # Usb /\ None \notin {Web, Usb} /\ Writers \subseteq {Web, Usb}
    /\ "storage" \notin {Web, Usb, None}
    /\ Failures \in BOOLEAN /\ Timeouts \in BOOLEAN
    /\ SpacedEvidence \in BOOLEAN /\ Maintenance \in BOOLEAN
    /\ MaxEpoch \in Nat \ {0}

AutoStates == {"Unknown", "Away", "Home"}
Changes    == {"Disabled", "Auto", "Settings", "Arm"}
Config     == [place : Places, disabled : BOOLEAN]
Journal    == [config : Config \cup {None}, state : AutoStates]

VARIABLES
    epoch,       \* control_epoch
    state,       \* the shared Snapshot: config, decision and what was committed
    pending,     \* commands for the control task: forced_off, new_config, timed
    policy,      \* the control task's Policy object
    control,     \* where the control loop is, and the decision it computed
    gpio,        \* the commanded output
    fault,       \* critical_fault
    busy,        \* firmware_busy or provisioning
    writer,      \* each command task: its step in change_config and its epoch
    worker,      \* the storage worker: its step and the snapshot it commits
    setup,       \* the setup task: its step, the profile and decision it loaded
    mutex,       \* config_mutex
    nvs,         \* flash: the profile and the AUTO journal
    \* History, read by no action: the generation of the latest OFF, which stands
    \* until an AUTO is asked for by somebody who saw it (0: none); it was
    \* acknowledged; the settings that the committed decision was judged under;
    \* a write or another local check failed.
    offAt, offAcked, judged, failed

shared  == <<epoch, state, pending>>
locals  == <<policy, control, gpio>>
history == <<offAt, offAcked, judged, failed>>
vars == <<shared, locals, fault, busy, writer, worker, setup, mutex, nvs, history>>

OffStands == offAt # 0

Idle      == [pc |-> "idle", change |-> "Disabled", epoch |-> 0, config |-> None]
NoPending == [off |-> FALSE, config |-> None, epoch |-> 0, restored |-> "Unknown", timed |-> 0]
Cleared   == [config |-> None, state |-> "Unknown"]
NoWork    == [pc |-> "idle", op |-> "none", gen |-> 0, auto |-> "Unknown", judged |-> None,
              config |-> None]
SetupBegins == [pc |-> "load", gen |-> 0, config |-> None, saved |-> "Unknown"]
InitState == [place |-> None, disabled |-> TRUE, ready |-> FALSE, inhibited |-> TRUE,
              auto |-> "Unknown", judged |-> None, timed |-> FALSE,
              saved |-> "Unknown", savedGen |-> 0]
InitPolicy == [gen |-> 0, place |-> None, disabled |-> TRUE, configured |-> FALSE,
               auto |-> "Unknown", timed |-> FALSE, fault |-> FALSE]
Undecided == [auto |-> "Unknown", place |-> None, timed |-> FALSE, commanded |-> FALSE]

-----------------------------------------------------------------------------
(* The lock-protected operations of app.cpp.                               *)

InhibitLocked ==
    /\ state' = [state EXCEPT !.inhibited = TRUE, !.disabled = TRUE]
    /\ pending' = [NoPending EXCEPT !.off = TRUE]

WrapToZero == epoch' = (epoch + 1) % MaxEpoch   \* mutant: zero is not skipped

\* ControlEpoch::cancel, short of the wrap of its 32 bits.
Cancel == epoch < MaxEpoch /\ epoch' = epoch + 1

MatchesAny(e) == TRUE   \* mutant: the generation is not compared

\* ControlEpoch::matches, the comparison that begin() makes too.
Matches(e) == e # 0 /\ e = epoch

HandOverUnmarked(c, e, restored) ==   \* mutant: config_epoch is not recorded
    pending' = IF Matches(e) THEN [pending EXCEPT !.config = c, !.restored = restored] ELSE pending

\* configure(): hands a configuration to the control task.
HandOver(c, e, restored) ==
    pending' = IF Matches(e)
               THEN [pending EXCEPT !.config = c, !.epoch = e, !.restored = restored]
               ELSE pending

-----------------------------------------------------------------------------
(* The control task: one loop iteration is Apply, Decide and Command, with *)
(* the other tasks running in between.                                     *)

Operable == policy.configured /\ ~policy.fault /\ ~policy.disabled

Forget(p) == [p EXCEPT !.auto = "Unknown", !.timed = FALSE]

Configured(p, c, restored) ==
    [p EXCEPT !.gen = epoch, !.place = c.place, !.disabled = c.disabled,
              !.configured = TRUE, !.timed = FALSE,
              !.auto = IF c.disabled \/ p.fault THEN "Unknown" ELSE restored]

ApplyKeepingDecision(c, restored) ==   \* mutant: the old decision stays published
    state' = [state EXCEPT !.place = c.place, !.disabled = c.disabled,
                  !.ready = TRUE, !.inhibited = FALSE,
                  !.timed = FALSE, !.saved = restored, !.savedGen = epoch]

\* The new generation's configuration is published together with an empty or
\* restored decision, so that no one binds the previous decision to it.
Publish(c, restored) ==
    state' = [state EXCEPT !.place = c.place, !.disabled = c.disabled,
                  !.ready = TRUE, !.inhibited = FALSE,
                  !.auto = restored, !.judged = c.place, !.timed = FALSE,
                  !.saved = restored, !.savedGen = epoch]

Apply ==
    LET apply == pending.config # None /\ pending.epoch = epoch
        p1 == IF pending.off
              THEN [Forget(policy) EXCEPT !.gen = epoch, !.disabled = TRUE] ELSE policy
        p2 == IF apply THEN Configured(p1, pending.config, pending.restored) ELSE p1
        p3 == [p2 EXCEPT !.timed = @ \/ (/\ pending.timed = epoch
                                         /\ p2.configured /\ ~p2.fault /\ ~p2.disabled)]
    IN  /\ control.pc = "apply"
        /\ IF apply THEN Publish(pending.config, pending.restored) ELSE UNCHANGED state
        /\ policy' = IF fault THEN [Forget(p3) EXCEPT !.fault = TRUE] ELSE p3
        /\ pending' = NoPending
        /\ control' = [control EXCEPT !.pc = "decide"]
        /\ UNCHANGED <<epoch, gpio, fault, busy, writer, worker, setup, mutex, nvs,
                       history>>

\* The last decision is published and, unless inhibited, in flash.
Settled ==
    \/ state.inhibited
    \/ worker.pc = "idle" /\ state.auto = policy.auto
       /\ state.savedGen = epoch /\ state.saved = state.auto

PublishedHome == state.savedGen = policy.gen /\ state.auto = "Home"   \* mutant

\* The gate of the durable commit: HOME of this policy's generation is in flash.
CommitReady == state.savedGen = policy.gen /\ state.saved = "Home"

\* The accepted observations of this iteration (Unknown is a revocation), the end
\* of TIMED ON, and Policy::tick; rested: the OFF dwell is over.
Decide(auto, ends, rested) ==
    LET p == [policy EXCEPT !.auto = auto, !.timed = @ /\ ~ends]
        on == /\ Operable
              /\ p.timed \/ (p.auto = "Home" /\ CommitReady)
              /\ gpio \/ rested
              /\ busy # "firmware"
    IN  /\ control.pc = "decide"
        /\ auto # policy.auto => Operable /\ (SpacedEvidence => Settled)
        /\ policy' = p
        /\ control' = [pc |-> "command", d |-> [auto |-> auto, place |-> p.place,
                                               timed |-> p.timed, commanded |-> on]]
        /\ UNCHANGED <<shared, gpio, fault, busy, writer, worker, setup, mutex, nvs, history>>

AlwaysAllowed == ~fault   \* mutant: the epoch is not checked again

\* The check under the lock, right before the GPIO is written.
Allowed == ~state.inhibited /\ Matches(policy.gen) /\ ~fault /\ busy = "none"

Command(works) ==
    /\ control.pc = "command"
    /\ gpio' = (control.d.commanded /\ Allowed /\ works)
    /\ fault' = (fault \/ ~works) /\ failed' = (failed \/ ~works)
    /\ state' = [state EXCEPT !.auto = control.d.auto, !.judged = control.d.place,
                              !.timed = control.d.timed]
    /\ control' = [pc |-> "apply", d |-> Undecided]
    /\ UNCHANGED <<epoch, pending, policy, busy, writer, worker, setup, mutex, nvs,
                   offAt, offAcked, judged>>

-----------------------------------------------------------------------------
(* Commands.  A client reads the generation with a page and sends it back  *)
(* with every command except OFF, which is unconditional.                  *)

Step(p, pc) == writer' = [writer EXCEPT ![p].pc = pc]
Done(p)     == writer' = [writer EXCEPT ![p] = Idle]

Reachable(p) == IF p = Web THEN setup.pc = "up" ELSE setup.pc # "load"

\* The guards that the Web and USB handlers share; `seen` is the generation of
\* the page or status that the client answers to.
Accepts(p, seen) ==
    /\ writer[p].pc = "idle" /\ Reachable(p)
    /\ ~fault /\ busy = "none" /\ (p = Web => state.ready)
    /\ Matches(seen)

\* inhibit() and the first step of change_config.
Off(p) ==
    /\ writer[p].pc = "idle" /\ Reachable(p)
    /\ Cancel /\ InhibitLocked
    /\ writer' = [writer EXCEPT ![p] = [Idle EXCEPT !.pc = "lock", !.epoch = epoch']]
    /\ offAt' = epoch'
    /\ UNCHANGED <<locals, fault, busy, worker, setup, mutex, nvs, offAcked, judged, failed>>

\* AUTO, settings and the USB arming commands: inhibit_current.
Begin(p, change, place, seen) ==
    /\ Accepts(p, seen) /\ Cancel /\ InhibitLocked
    /\ change = "Settings" => p = Web
    /\ change = "Arm" => p = Usb
    /\ writer' = [writer EXCEPT ![p] =
                    [pc |-> "lock", change |-> change, epoch |-> epoch',
                     config |-> IF change = "Settings"
                                THEN [place |-> place, disabled |-> state.disabled]
                                ELSE None]]
    /\ offAt' = IF change = "Auto" /\ seen >= offAt THEN 0 ELSE offAt
    /\ offAcked' = (offAcked /\ offAt' # 0)
    /\ UNCHANGED <<locals, fault, busy, worker, setup, mutex, nvs, judged, failed>>

TimedOn(p, seen) ==
    /\ Accepts(p, seen)
    /\ state.ready /\ ~state.inhibited /\ ~state.disabled
    /\ pending' = [pending EXCEPT !.timed = epoch]
    /\ UNCHANGED <<epoch, state, locals, fault, busy, writer, worker, setup, mutex, nvs,
                   history>>

-----------------------------------------------------------------------------
(* change_config, one step for every operation that others can observe.    *)

Fail == fault' = TRUE /\ failed' = TRUE
Acquire(p) == mutex = None /\ mutex' = p
KeepMutex == UNCHANGED mutex   \* mutant: config_mutex is not given back
Release == mutex' = None

\* The lock, the check of the generation and the profile that is read.
Lock(p) ==
    LET change == writer[p].change
        config == IF change = "Settings" THEN writer[p].config
                  ELSE [nvs.profile EXCEPT !.disabled = (change # "Auto")]
    IN  /\ writer[p].pc = "lock"
        /\ IF Matches(writer[p].epoch)
           THEN /\ Acquire(p)
                /\ writer' = [writer EXCEPT ![p].pc = "clear", ![p].config = config]
           ELSE mutex = None /\ Done(p) /\ UNCHANGED mutex
        /\ UNCHANGED <<shared, locals, fault, busy, worker, setup, nvs, history>>

LockTimeout(p) ==
    /\ Timeouts /\ writer[p].pc = "lock" /\ mutex \notin {None, p}
    /\ Done(p)
    /\ UNCHANGED <<shared, locals, fault, busy, worker, setup, mutex, nvs, history>>

SkipClear(p) ==   \* mutant: the journal is not cleared before the profile is saved
    /\ writer[p].pc = "clear" /\ Step(p, "save")
    /\ UNCHANGED <<shared, locals, fault, busy, worker, setup, mutex, nvs, history>>

ClearJournal(p) ==
    /\ writer[p].pc = "clear" /\ Step(p, "save")
    /\ nvs' = [nvs EXCEPT !.journal = Cleared]
    /\ UNCHANGED <<shared, locals, fault, busy, worker, setup, mutex, history>>

SaveProfile(p) ==
    /\ writer[p].pc = "save" /\ Step(p, "check")
    /\ nvs' = [nvs EXCEPT !.profile = writer[p].config]
    /\ UNCHANGED <<shared, locals, fault, busy, worker, setup, mutex, history>>

CheckSuperseded(p) ==
    /\ writer[p].pc = "check"
    /\ Step(p, IF Matches(writer[p].epoch) THEN "configure" ELSE "cover")
    /\ UNCHANGED <<shared, locals, fault, busy, worker, setup, mutex, nvs, history>>

\* The writer was superseded: its AUTO is overwritten before the lock is free.
Cover(p) ==
    /\ writer[p].pc = "cover" /\ Done(p) /\ Release
    /\ nvs' = [nvs EXCEPT !.profile.disabled = TRUE]
    /\ UNCHANGED <<shared, locals, fault, busy, worker, setup, history>>

\* configure(), and the answer to the client.
HandOverChange(p) ==
    /\ writer[p].pc = "configure" /\ Done(p) /\ Release
    /\ HandOver(writer[p].config, writer[p].epoch, "Unknown")
    /\ offAcked' = (offAcked \/ (/\ OffStands /\ writer[p].change = "Disabled"
                                 /\ Matches(writer[p].epoch)))
    /\ UNCHANGED <<epoch, state, locals, fault, busy, worker, setup, nvs, offAt, judged, failed>>

WriteFails(p) ==
    /\ Failures /\ writer[p].pc \in {"clear", "save", "cover"}
    /\ Done(p) /\ Release /\ Fail
    /\ UNCHANGED <<shared, locals, busy, worker, setup, nvs, offAt, offAcked, judged>>

-----------------------------------------------------------------------------
(* The storage worker commits the published decision to the journal.       *)

\* A decision of this generation that is in flash already.
Committed == ~fault /\ ~state.inhibited /\ state.savedGen = epoch /\ state.saved = state.auto

StorageSnapshot ==
    /\ worker.pc = "idle" /\ setup.pc \in {"quiet", "up"}
    /\ state.ready /\ busy # "provisioning" /\ ~Committed
    /\ worker' = [pc |-> "lock", op |-> "none", gen |-> epoch, auto |-> state.auto,
                  judged |-> state.judged,
                  config |-> [place |-> state.place, disabled |-> state.disabled]]
    /\ UNCHANGED <<shared, locals, fault, busy, writer, setup, mutex, nvs, history>>

\* The second snapshot, under the mutex: the request must still be current.
StorageLock ==
    LET current == busy # "provisioning" /\ state.ready /\ Matches(worker.gen)
                   /\ state.auto = worker.auto
        op == IF fault \/ state.inhibited \/ state.disabled THEN "clear" ELSE "save"
    IN  /\ worker.pc = "lock" /\ mutex = None
        /\ IF current
           THEN /\ mutex' = "storage"
                /\ worker' = IF op = "save" THEN [worker EXCEPT !.pc = "write", !.op = op]
                             ELSE [NoWork EXCEPT !.pc = "write", !.op = op,
                                                 !.gen = worker.gen, !.auto = worker.auto]
           ELSE worker' = NoWork /\ UNCHANGED mutex
        /\ UNCHANGED <<shared, locals, fault, busy, writer, setup, nvs, history>>

\* persist_auto_state's save: only for the very configuration of the request.
\* (Writing a record that is there already changes nothing.)
Save ==
    IF nvs.profile = worker.config
    THEN /\ nvs' = [nvs EXCEPT !.journal = [config |-> nvs.profile, state |-> worker.auto]]
         /\ judged' = worker.judged /\ UNCHANGED <<fault, failed>>
    ELSE fault' = TRUE /\ UNCHANGED <<nvs, judged, failed>>

StorageWrite ==
    /\ worker.pc = "write" /\ Release
    /\ IF worker.op = "clear"
       THEN /\ nvs' = [nvs EXCEPT !.journal = Cleared] /\ UNCHANGED <<judged, fault, failed>>
       ELSE Save
    /\ worker' = IF fault' /\ ~fault THEN NoWork ELSE [NoWork EXCEPT !.pc = "ack", !.gen = worker.gen,
                                                                 !.auto = worker.auto]
    /\ UNCHANGED <<shared, locals, busy, writer, setup, offAt, offAcked>>

\* A failed write, or the mutex was not free within five seconds.
StorageFails ==
    /\ \/ Failures /\ worker.pc = "write" /\ Release
       \/ Timeouts /\ worker.pc = "lock" /\ mutex # None /\ UNCHANGED mutex
    /\ worker' = NoWork /\ Fail
    /\ UNCHANGED <<shared, locals, busy, writer, setup, nvs, offAt, offAcked, judged>>

AckUnmarked ==   \* mutant: what was committed is not recorded
    UNCHANGED state

Acknowledge ==
    state' = IF /\ ~fault /\ busy # "provisioning" /\ ~state.inhibited
                /\ Matches(worker.gen) /\ state.auto = worker.auto
             THEN [state EXCEPT !.saved = worker.auto, !.savedGen = worker.gen]
             ELSE state

StorageAck ==
    /\ worker.pc = "ack" /\ worker' = NoWork /\ Acknowledge
    /\ UNCHANGED <<epoch, pending, locals, fault, busy, writer, setup, mutex, nvs,
                   history>>

-----------------------------------------------------------------------------
(* The setup task and power.                                               *)

\* A profile in a flash that was not interrupted while it was provisioned; the
\* generation is the one captured before anybody could send a command.
SetupLoad ==
    /\ setup.pc = "load"
    /\ setup' = IF fault THEN [setup EXCEPT !.pc = "halted"]
                ELSE [setup EXCEPT !.pc = "recover", !.gen = epoch, !.config = nvs.profile]
    /\ UNCHANGED <<shared, locals, fault, busy, writer, worker, mutex, nvs, history>>

\* AutoJournal::load: a record counts for the configuration that it is bound to.
Restorable(c) ==
    IF nvs.journal.config = c /\ ~c.disabled THEN nvs.journal.state ELSE "Unknown"

\* resume: an ordinary reset, and for HOME a token chain that is not revoked.
SetupRecover(resume) ==
    /\ setup.pc = "recover" /\ mutex = None
    /\ IF resume
       THEN /\ setup' = [setup EXCEPT !.pc = "configure", !.saved = Restorable(setup.config)]
            /\ UNCHANGED nvs
       ELSE /\ setup' = [setup EXCEPT !.pc = "configure"]
            /\ nvs' = [nvs EXCEPT !.journal = Cleared]
    /\ UNCHANGED <<shared, locals, fault, busy, writer, worker, mutex, history>>

SetupFails ==
    /\ setup.pc = "recover" /\ (Failures \/ (Timeouts /\ mutex # None))
    /\ setup' = [setup EXCEPT !.pc = "configure"] /\ Fail
    /\ UNCHANGED <<shared, locals, busy, writer, worker, mutex, nvs, offAt,
                   offAcked, judged>>

\* USB OFF may have superseded the profile while it was being validated.
SetupConfigure ==
    /\ setup.pc = "configure"
    /\ IF fault THEN UNCHANGED pending ELSE HandOver(setup.config, setup.gen, setup.saved)
    /\ setup' = [SetupBegins EXCEPT !.pc = IF busy = "provisioning" THEN "quiet" ELSE "up"]
    /\ UNCHANGED <<epoch, state, locals, fault, busy, writer, worker, mutex, nvs,
                   history>>

\* Flash and the pages of the clients survive; the new generation is random.
PowerLoss ==
    /\ Cancel
    /\ state' = InitState /\ pending' = NoPending /\ policy' = InitPolicy
    /\ control' = [pc |-> "apply", d |-> Undecided] /\ gpio' = FALSE
    /\ fault' = FALSE /\ busy' = "none" /\ failed' = FALSE
    /\ writer' = [p \in Writers |-> Idle]
    /\ worker' = NoWork /\ setup' = SetupBegins /\ mutex' = None
    /\ offAt' = IF offAcked THEN offAt ELSE 0
    /\ UNCHANGED <<nvs, offAcked, judged>>

-----------------------------------------------------------------------------
(* Maintenance, and local faults found elsewhere.                          *)

\* ota_begin and the end of an upload; the session itself is not modelled here.
FirmwareBegin ==
    /\ Maintenance /\ busy = "none" /\ setup.pc = "up"
    /\ ~fault /\ state.ready /\ ~state.inhibited /\ ~state.timed
    /\ state.savedGen = epoch /\ state.saved = state.auto
    /\ busy' = "firmware"
    /\ UNCHANGED <<shared, locals, fault, writer, worker, setup, mutex, nvs, history>>

FirmwareEnd ==
    /\ busy = "firmware" /\ busy' = "none"
    /\ UNCHANGED <<shared, locals, fault, writer, worker, setup, mutex, nvs, history>>

\* stop_network: provisioning inhibits and persists DISABLED first.
BeginProvision ==
    /\ Maintenance /\ Usb \in Writers /\ writer[Usb].pc = "idle" /\ Reachable(Usb) /\ busy # "firmware"
    /\ Cancel /\ InhibitLocked /\ busy' = "provisioning"
    /\ writer' = [writer EXCEPT ![Usb] = [Idle EXCEPT !.pc = "lock", !.epoch = epoch']]
    /\ UNCHANGED <<locals, fault, worker, setup, mutex, nvs, history>>

LocalFault ==
    /\ Failures /\ ~fault /\ Fail
    /\ UNCHANGED <<shared, locals, busy, writer, worker, setup, mutex, nvs, offAt,
                   offAcked, judged>>

-----------------------------------------------------------------------------

Init ==
    /\ epoch = 1 /\ state = InitState /\ pending = NoPending /\ policy = InitPolicy
    /\ control = [pc |-> "apply", d |-> Undecided] /\ gpio = FALSE
    /\ fault = FALSE /\ busy = "none"
    /\ writer = [p \in Writers |-> Idle] /\ worker = NoWork /\ setup = SetupBegins
    /\ mutex = None
    /\ nvs \in [profile : Config, journal : {Cleared}]
    /\ offAt = (IF nvs.profile.disabled THEN epoch ELSE 0) /\ offAcked = OffStands
    /\ judged = None /\ failed = FALSE

ControlStep ==
    \/ Apply
    \/ \E auto \in AutoStates, ends, rested \in BOOLEAN : Decide(auto, ends, rested)
    \/ Command(TRUE) \/ (Failures /\ Command(FALSE))

Request(p) ==
    \/ Off(p)
    \/ \E seen \in 1 .. epoch :
        \/ TimedOn(p, seen)
        \/ \E change \in Changes \ {"Disabled"}, place \in Places :
               Begin(p, change, place, seen)

Write(p) ==
    \/ Lock(p) \/ LockTimeout(p) \/ ClearJournal(p) \/ SaveProfile(p)
    \/ CheckSuperseded(p) \/ Cover(p) \/ HandOverChange(p) \/ WriteFails(p)

Storage == StorageSnapshot \/ StorageLock \/ StorageWrite \/ StorageFails \/ StorageAck

Setup == SetupLoad \/ (\E resume \in BOOLEAN : SetupRecover(resume)) \/ SetupFails
         \/ SetupConfigure

Next ==
    \/ ControlStep \/ Storage \/ Setup \/ PowerLoss
    \/ \E p \in Writers : Request(p) \/ Write(p)
    \/ FirmwareBegin \/ FirmwareEnd \/ BeginProvision \/ LocalFault

Spec == Init /\ [][Next]_vars

\* The scheduler runs every ready task.  FreeRTOS hands a mutex to its waiters in
\* turn, so that a waiting task gets it although others keep coming; and an OFF
\* dwell ends.  Nothing obliges clients, vehicles, power or failures to act.
Fairness ==
    /\ WF_vars(Apply) /\ WF_vars(\E auto \in AutoStates, ends, rested \in BOOLEAN :
                                    Decide(auto, ends, rested))
    /\ WF_vars(\E works \in BOOLEAN : Command(works) /\ (works \/ Failures))
    /\ SF_vars(\E auto \in AutoStates, ends \in BOOLEAN : Decide(auto, ends, TRUE))
    /\ \A p \in Writers :
        /\ SF_vars(Lock(p))
        /\ WF_vars(ClearJournal(p) \/ SaveProfile(p) \/ CheckSuperseded(p) \/ Cover(p)
                   \/ HandOverChange(p))
    /\ WF_vars(StorageSnapshot) /\ SF_vars(StorageLock)
    /\ WF_vars(StorageWrite \/ StorageAck)
    /\ WF_vars(SetupLoad \/ SetupConfigure) /\ SF_vars(\E resume \in BOOLEAN : SetupRecover(resume))

FairSpec == Spec /\ Fairness

-----------------------------------------------------------------------------
(* Correctness.                                                            *)

\* Every task's data has the shape that the code gives it.
TypeOK ==
    /\ epoch \in 1 .. MaxEpoch
    /\ state \in [place : Places \cup {None}, disabled : BOOLEAN, ready : BOOLEAN,
                  inhibited : BOOLEAN, auto : AutoStates, judged : Places \cup {None},
                  timed : BOOLEAN, saved : AutoStates, savedGen : 0 .. epoch]
    /\ pending \in [off : BOOLEAN, config : Config \cup {None}, epoch : 0 .. epoch,
                    restored : AutoStates, timed : 0 .. epoch]
    /\ policy \in [gen : 0 .. epoch, place : Places \cup {None}, disabled : BOOLEAN,
                   configured : BOOLEAN, auto : AutoStates, timed : BOOLEAN, fault : BOOLEAN]
    /\ control \in [pc : {"apply", "decide", "command"},
                    d : [auto : AutoStates, place : Places \cup {None}, timed : BOOLEAN,
                         commanded : BOOLEAN]]
    /\ gpio \in BOOLEAN /\ fault \in BOOLEAN /\ failed \in BOOLEAN
    /\ busy \in {"none", "firmware", "provisioning"}
    /\ writer \in [Writers -> [pc : {"idle", "lock", "clear", "save", "check", "cover",
                                     "configure"},
                               change : Changes, epoch : 0 .. epoch,
                               config : Config \cup {None}]]
    /\ worker \in [pc : {"idle", "lock", "write", "ack"}, op : {"none", "clear", "save"},
                   gen : 0 .. epoch, auto : AutoStates, judged : Places \cup {None},
                   config : [place : Places \cup {None}, disabled : BOOLEAN] \cup {None}]
    /\ setup \in [pc : {"load", "recover", "configure", "quiet", "up", "halted"},
                  gen : 0 .. epoch, config : Config \cup {None}, saved : AutoStates]
    /\ mutex \in Writers \cup {None, "storage"}
    /\ nvs \in [profile : Config, journal : Journal] 
    /\ offAt \in 0 .. epoch /\ offAcked \in BOOLEAN /\ (offAcked => OffStands)
    /\ judged \in Places \cup {None}

\* An acknowledged OFF is in flash, with no decision that a restart could
\* restore, until an AUTO is asked for by a client that saw the OFF: not a
\* superseded AUTO, settings, the storage worker nor a power loss undoes it.
OffIsDurable == OffStands /\ offAcked => nvs.profile.disabled /\ nvs.journal = Cleared

\* After OFF the output stays off until such an AUTO: no configuration that was
\* in flight, queued command or stale decision of any task turns it on.
OffStaysOff == [][~gpio /\ gpio' => ~OffStands]_vars

\* AUTO turns the output on only when flash holds HOME for the profile in flash:
\* a restart at any later moment finds the permission that is being used.
CommitGate ==
    [][ ~gpio /\ gpio' /\ ~control.d.timed =>
        nvs.journal = [config |-> nvs.profile, state |-> "Home"] ]_vars

\* A HOME in flash is bound to the very settings that it was judged under.
HomeBoundToItsSettings ==
    nvs.journal.state = "Home" => nvs.journal.config.place = judged

\* A configuration runs, or waits to run, only while it is the one in flash.
RunningIsPersisted ==
    /\ ~state.inhibited => nvs.profile = [place |-> state.place, disabled |-> state.disabled]
    /\ pending.config # None => pending.epoch = epoch /\ pending.config = nvs.profile

\* architecture.md: "A storage failure inhibits this boot": the fault that stops
\* the controller until it is restarted has a failure as its cause.
FaultMeansFailure == fault => failed

\* Every command gets its answer: nobody keeps config_mutex or waits for good.
CommandsEnd == \A p \in Writers : writer[p].pc # "idle" ~> writer[p].pc = "idle"

\* Without a failure an inhibit is lifted in the end by the very change, or boot,
\* that raised it, unless another one takes its place.
InhibitIsTemporary ==
    \A e \in 1 .. MaxEpoch : epoch = e /\ state.inhibited ~> epoch # e \/ ~state.inhibited

\* A HOME that holds while nothing inhibits the output is committed and heats:
\* the gate of the commit always opens in the end.
Undisturbed ==
    /\ Operable /\ policy.auto = "Home" /\ Matches(policy.gen)
    /\ ~fault /\ busy = "none" /\ ~state.inhibited
HomeHeats == <>[]Undisturbed => []<>gpio
=============================================================================
