----------------------------- MODULE Provision -----------------------------
(* The records that make a device someone's: profile, refresh token, AUTO  *)
(* decision, and the marker of an unfinished replacement. The USB task     *)
(* replaces them (provision_profile) or the Wi-Fi credentials (update_wifi)*)
(* while the web task changes the mode, the storage worker commits HOME, a *)
(* login migrates the password record, the Tesla worker stores rotated     *)
(* tokens, any write fails and power is lost anywhere. A generation is     *)
(* modelled by who still holds the current one, so that nothing here needs *)
(* a bound on the number of commands.                                      *)
CONSTANTS
    Present,    \* installations that may be on the device at first
    Incoming,   \* installations that USB requests bring: profile and token
    Nobody,     \* no installation, no holder of the mutex
    Web, Usb,   \* the tasks that carry out commands
    Worker,     \* the storage worker, as a holder of the mutex
    Login,      \* the password check, as a holder of the mutex
    Failures    \* may a read, a write or a wait for the mutex fail?

Owners  == Present \cup Incoming
Tasks   == {Web, Usb}
Holders == {Web, Usb, Worker, Login}

ASSUME ProvisionAssumption ==
    /\ Nobody \notin Owners \cup Holders
    /\ Web # Usb /\ Worker \notin {Web, Usb, Login} /\ Login \notin {Web, Usb}
    /\ Failures \in BOOLEAN

Someone == Owners \cup {Nobody}

VARIABLES
    nvs,       \* flash: marker, profile, token and decision, each by its owner
    mutex,     \* config_mutex
    ram,       \* flags: provisioning, network_busy, critical_fault; the Snapshot
    task,      \* web and USB tasks: step, operation, the profile each loaded
    worker,    \* the Tesla worker: its step and whose token it loaded
    storage,   \* the storage worker: its step, and what it writes
    migrating, \* does the password check hold the mutex to store version 2?
    setup,     \* the setup task: its step and the profile it loaded
    stopped    \* history: a replacement stopped the device, no AUTO came since

vars == <<nvs, mutex, ram, task, worker, storage, migrating, setup, stopped>>

\* Version 1 of a profile stores a password digest that a login replaces.
NoProfile == [owner |-> Nobody, disabled |-> TRUE, version |-> 2]
IdleTask  == [pc |-> "idle", op |-> "off", current |-> FALSE, read |-> FALSE,
              profile |-> NoProfile, owner |-> Nobody]
BootRam   == [provisioning |-> FALSE, busy |-> FALSE, fault |-> FALSE, ready |-> FALSE,
              disabled |-> TRUE, inhibited |-> TRUE, pending |-> "none"]
BootSetup == [pc |-> "load", current |-> TRUE, profile |-> NoProfile]

\* load_profile: a pending marker makes any profile unreadable.
Readable == ~nvs.marker /\ nvs.profile.owner # Nobody
Reads    == IF Failures THEN {Readable, FALSE} ELSE {Readable}

Flag(f)  == ram' = [ram EXCEPT ![f] = TRUE]
At(t, s) == task[t].pc = s

\* inhibit_locked by task t: all hand-overs in flight lose the generation.
Inhibit(t, new, flags) ==
    /\ ram' = [flags EXCEPT !.inhibited = TRUE, !.disabled = TRUE, !.pending = "none"]
    /\ task' = [u \in Tasks |-> IF u = t THEN new ELSE [task[u] EXCEPT !.current = FALSE]]
    /\ setup' = [setup EXCEPT !.current = FALSE]
    /\ storage' = [storage EXCEPT !.current = FALSE]

-----------------------------------------------------------------------------
(* The requests.                                                           *)

Online == setup.pc = "online"
Begun(op, pc, o) == [IdleTask EXCEPT !.pc = pc, !.op = op, !.owner = o, !.current = TRUE]

\* OFF from the web page, and AUTO with inhibit_current.
WebMode(op) ==
    /\ Online /\ At(Web, "idle")
    /\ op = "auto" => ~ram.provisioning /\ ~ram.fault /\ ram.ready
    /\ Inhibit(Web, Begun(op, "acquire", Nobody), ram)
    /\ stopped' = (stopped /\ op = "off")
    /\ UNCHANGED <<nvs, mutex, worker, migrating>>

\* begin_provision for a replacement by o, or for new Wi-Fi credentials of a
\* device that is OFF: the flag is set with the inhibition, in one section.
BeginProvision(op, o) ==
    /\ setup.pc # "load" /\ At(Usb, "idle")
    /\ op = "wifi" => Readable /\ nvs.profile.disabled
    /\ Inhibit(Usb, Begun(op, "load", o), [ram EXCEPT !.provisioning = TRUE])
    /\ UNCHANGED <<nvs, mutex, worker, migrating, stopped>>

-----------------------------------------------------------------------------
(* Steps of a command that several operations share.                       *)

Goto(t, s) == task' = [task EXCEPT ![t].pc = s]

\* change_config returned: stop_network goes on or gives up, a web command ends.
Return(t, ok) ==
    task' = [task EXCEPT ![t] = IF ok /\ @.op \in {"provision", "wifi"}
                                THEN [@ EXCEPT !.pc = "wait"] ELSE IdleTask]

Step(t, s) == Goto(t, s) /\ UNCHANGED mutex
Leave(t, s) == Goto(t, s) /\ mutex' = Nobody
GiveUp(t)   == Return(t, FALSE) /\ mutex' = Nobody

\* nvs_set_blob replaces a blob or does not, whatever nvs_commit reports.
Effects(new) == {nvs, new}

\* One write: it succeeds, or it is a fault that may have taken effect.
Write(t, new, done) ==
    \/ nvs' = new /\ done /\ UNCHANGED ram
    \/ Failures /\ nvs' \in Effects(new) /\ GiveUp(t) /\ Flag("fault")

Rest == UNCHANGED <<worker, storage, migrating, setup, stopped>>

-----------------------------------------------------------------------------
(* change_config, in the web task or inside stop_network.                  *)

Stored(t) == [nvs EXCEPT !.profile = task[t].profile]
Mode(t, p) == [p EXCEPT !.disabled = (task[t].op # "auto")]

Acquire(t) ==
    /\ At(t, "acquire") /\ mutex = Nobody
    /\ \E ok \in Reads :
        \/ /\ task[t].current /\ ok
           /\ mutex' = t
           /\ task' = [task EXCEPT ![t].pc = "clear", ![t].profile = Mode(t, nvs.profile)]
           /\ UNCHANGED ram
        \/ /\ task[t].current /\ ~ok
           /\ Return(t, FALSE) /\ Flag("fault") /\ UNCHANGED mutex
        \/ /\ ~task[t].current
           /\ Return(t, FALSE) /\ UNCHANGED <<mutex, ram>>
    /\ UNCHANGED nvs /\ Rest

Clear(t) == At(t, "clear") /\ Write(t, [nvs EXCEPT !.journal = Nobody], Step(t, "save")) /\ Rest

Save(t) == At(t, "save") /\ Write(t, Stored(t), Step(t, "check")) /\ Rest

Check(t) ==
    /\ At(t, "check")
    /\ IF task[t].current THEN Goto(t, "handover")
       ELSE task' = [task EXCEPT ![t].pc = "cover", ![t].profile.disabled = TRUE]
    /\ UNCHANGED <<nvs, mutex, ram>> /\ Rest

\* A superseded writer overwrites what it saved with DISABLED and fails.
Cover(t) == At(t, "cover") /\ Write(t, Stored(t), GiveUp(t)) /\ Rest

HandOverAnyway(t) ==   \* mutant: configure() does not compare the generation
    /\ At(t, "handover")
    /\ ram' = [ram EXCEPT !.pending = IF task[t].profile.disabled THEN "off" ELSE "auto"]
    /\ Return(t, task[t].current)
    /\ mutex' = Nobody /\ UNCHANGED nvs /\ Rest

\* configure() with a generation that still matches.
HandOver(t) ==
    /\ At(t, "handover")
    /\ ram' = [ram EXCEPT !.pending = IF ~task[t].current THEN @
                                      ELSE IF task[t].profile.disabled THEN "off" ELSE "auto"]
    /\ Return(t, task[t].current)
    /\ mutex' = Nobody /\ UNCHANGED nvs /\ Rest

\* The five-second waits for config_mutex run out; only some are a fault.
LockTimeout(t) ==
    /\ Failures /\ mutex # Nobody
    /\ task[t].pc \in {"acquire", "exclude", "wifi"}
    /\ ram' = [ram EXCEPT !.fault = @ \/ ~At(t, "acquire")]
    /\ Return(t, FALSE)
    /\ UNCHANGED <<nvs, mutex>> /\ Rest

-----------------------------------------------------------------------------
(* USB: stop_network, then provision_profile or update_wifi, then restart. *)

LoadPreviousOnly ==   \* mutant: the profile is read and not made DISABLED
    /\ At(Usb, "load")
    /\ \E ok \in Reads : task' = [task EXCEPT ![Usb].pc = "wait", ![Usb].read = ok]
    /\ UNCHANGED <<nvs, mutex, ram>> /\ Rest

\* What can be read is made DISABLED first; what cannot will not run.
LoadPrevious ==
    /\ At(Usb, "load")
    /\ \E ok \in Reads :
        task' = [task EXCEPT ![Usb].pc = IF ok THEN "acquire" ELSE "wait", ![Usb].read = ok]
    /\ UNCHANGED <<nvs, mutex, ram>> /\ Rest

DrainForever ==   \* mutant: the wait has no deadline
    /\ At(Usb, "wait") /\ ~ram.busy
    /\ Step(Usb, IF task[Usb].op = "wifi" THEN "wifi" ELSE "validate")
    /\ stopped' = (stopped \/ task[Usb].read)
    /\ UNCHANGED <<nvs, ram, worker, storage, migrating, setup>>

\* Up to 30 s for a Fleet operation to end.
Drain ==
    /\ At(Usb, "wait")
    /\ IF ram.busy THEN Return(Usb, FALSE) /\ UNCHANGED <<mutex, stopped>>
       ELSE /\ Step(Usb, IF task[Usb].op = "wifi" THEN "wifi" ELSE "validate")
            /\ stopped' = (stopped \/ task[Usb].read)
    /\ UNCHANGED <<nvs, ram, worker, storage, migrating, setup>>

\* The new profile is parsed, its password hashed, its key pair checked.
Validate ==
    /\ At(Usb, "validate")
    /\ Goto(Usb, "exclude") \/ Return(Usb, FALSE)
    /\ UNCHANGED <<nvs, mutex, ram>> /\ Rest

Quiet == ram.provisioning /\ ~ram.busy /\ ram.disabled

Exclude ==
    /\ At(Usb, "exclude") /\ mutex = Nobody
    /\ IF Quiet THEN Goto(Usb, "mark") /\ mutex' = Usb
       ELSE Return(Usb, FALSE) /\ UNCHANGED mutex
    /\ UNCHANGED <<nvs, ram>> /\ Rest

New      == task[Usb].owner
Mark     == At(Usb, "mark") /\ Write(Usb, [nvs EXCEPT !.marker = TRUE], Step(Usb, "empty")) /\ Rest
Empty    == At(Usb, "empty") /\ Write(Usb, [nvs EXCEPT !.journal = Nobody], Step(Usb, "token")) /\ Rest
Token    == At(Usb, "token") /\ Write(Usb, [nvs EXCEPT !.token = New], Step(Usb, "profile")) /\ Rest
Replace  == /\ At(Usb, "profile")
            /\ Write(Usb, [nvs EXCEPT !.profile = [owner |-> New, disabled |-> TRUE, version |-> 2]],
                     Step(Usb, "complete"))
            /\ Rest
Complete == At(Usb, "complete") /\ Write(Usb, [nvs EXCEPT !.marker = FALSE], Leave(Usb, "reboot")) /\ Rest

\* update_wifi works on a profile that it loads under the mutex.
Wifi ==
    /\ At(Usb, "wifi") /\ mutex = Nobody
    /\ \E ok \in Reads :
        IF task[Usb].current /\ ram.disabled /\ ok /\ nvs.profile.disabled
        THEN mutex' = Usb
             /\ task' = [task EXCEPT ![Usb].pc = "forget", ![Usb].profile = nvs.profile]
        ELSE Return(Usb, FALSE) /\ UNCHANGED mutex
    /\ UNCHANGED <<nvs, ram>> /\ Rest

Forget   == At(Usb, "forget") /\ Write(Usb, [nvs EXCEPT !.journal = Nobody], Step(Usb, "store")) /\ Rest
StoreNew == At(Usb, "store") /\ Write(Usb, Stored(Usb), Leave(Usb, "reboot")) /\ Rest

-----------------------------------------------------------------------------
(* The tasks that the replacement must keep out.                           *)

Others == UNCHANGED <<task, migrating, stopped>>

\* A Fleet operation is claimed by network_busy between two looks at the flags.
Look ==
    /\ worker.pc = "idle" /\ ~ram.provisioning /\ ~ram.fault /\ ram.ready /\ ~ram.disabled
    /\ worker' = [worker EXCEPT !.pc = "about"]
    /\ UNCHANGED <<nvs, mutex, ram, storage, setup>> /\ Others

Claim ==
    /\ worker.pc = "about"
    /\ worker' = [worker EXCEPT !.pc = "claimed"] /\ Flag("busy")
    /\ UNCHANGED <<nvs, mutex, storage, setup>> /\ Others

RecheckSkipped ==   \* mutant: the flags are not read again once busy is set
    /\ worker.pc = "claimed"
    /\ worker' = [worker EXCEPT !.pc = "busy"]
    /\ UNCHANGED <<nvs, mutex, ram, storage, setup>> /\ Others

Recheck ==
    /\ worker.pc = "claimed"
    /\ IF ram.provisioning
       THEN worker' = [worker EXCEPT !.pc = "idle"] /\ ram' = [ram EXCEPT !.busy = FALSE]
       ELSE worker' = [worker EXCEPT !.pc = "busy"] /\ UNCHANGED ram
    /\ UNCHANGED <<nvs, mutex, storage, setup>> /\ Others

\* The operation may store a rotated token of the chain that the worker loaded.
Operate ==
    /\ worker.pc = "busy"
    /\ nvs' \in {nvs, [nvs EXCEPT !.token = worker.owner]}
    /\ worker' = [worker EXCEPT !.pc = "idle"]
    /\ \E bad \in {FALSE, Failures} :
         ram' = [ram EXCEPT !.busy = FALSE, !.fault = @ \/ bad]
    /\ UNCHANGED <<mutex, storage, setup>> /\ Others

\* client.initialize: the token in flash when the worker starts.
Initialize ==
    /\ worker.pc = "init"
    /\ worker' = [pc |-> "idle", owner |-> nvs.token]
    /\ UNCHANGED <<nvs, mutex, ram, storage, setup>> /\ Others

\* auto_storage_step: the storage worker sees a decision to commit, or one to
\* clear because of a fault or an inhibition, waits for the mutex and writes.
Decide ==
    /\ storage.pc = "idle" /\ setup.pc \in {"online", "offline"}
    /\ ram.ready /\ ~ram.provisioning
    /\ ram.fault \/ ram.inhibited \/ ~ram.disabled
    /\ storage' = [storage EXCEPT !.pc = "lock", !.current = TRUE]
    /\ UNCHANGED <<nvs, mutex, ram, worker, setup>> /\ Others

Denied   == ram.fault \/ ram.inhibited \/ ram.disabled
Matching ==
    Readable /\ ~nvs.profile.disabled /\ nvs.profile.owner = setup.profile.owner

\* persist_auto_state looks at all of it once more.
StorageLock ==
    /\ storage.pc = "lock"
    /\ \/ /\ mutex = Nobody /\ ~ram.provisioning /\ storage.current
          /\ Denied \/ Matching
          /\ mutex' = Worker /\ UNCHANGED ram
          /\ storage' = [storage EXCEPT !.pc = "save", !.clear = Denied]
       \/ /\ mutex = Nobody /\ (ram.provisioning \/ ~storage.current)
          /\ storage' = [storage EXCEPT !.pc = "idle"] /\ UNCHANGED <<mutex, ram>>
       \/ /\ Failures \/ (mutex = Nobody /\ ~ram.provisioning /\ storage.current
                          /\ ~Denied /\ ~Matching)
          /\ storage' = [storage EXCEPT !.pc = "idle"] /\ Flag("fault") /\ UNCHANGED mutex
    /\ UNCHANGED <<nvs, worker, setup>> /\ Others

StorageSave ==
    /\ storage.pc = "save"
    /\ LET new == [nvs EXCEPT !.journal = IF storage.clear THEN Nobody ELSE nvs.profile.owner]
       IN \/ nvs' = new /\ UNCHANGED ram
          \/ Failures /\ nvs' \in Effects(new) /\ Flag("fault")
    /\ mutex' = Nobody
    /\ storage' = [storage EXCEPT !.pc = "idle", !.clear = FALSE]
    /\ UNCHANGED <<worker, setup>> /\ Others

Migratable ==
    Readable /\ nvs.profile.version = 1 /\ nvs.profile.owner = setup.profile.owner

MigrateUnlocked ==   \* mutant: the mutex is not taken
    /\ Online /\ setup.profile.version = 1 /\ ~migrating /\ Migratable
    /\ migrating' = TRUE
    /\ UNCHANGED <<nvs, mutex, ram, task, worker, storage, setup, stopped>>

\* The first login to a version 1 record: migrate_password reloads the profile
\* and changes it only if it is still the one the password was checked with.
MigrateLock ==
    /\ Online /\ setup.profile.version = 1 /\ ~migrating
    /\ \/ mutex = Nobody /\ Migratable /\ migrating' = TRUE /\ mutex' = Login /\ UNCHANGED ram
       \/ /\ Failures \/ (mutex = Nobody /\ ~Migratable)
          /\ Flag("fault") /\ UNCHANGED <<mutex, migrating>>
    /\ UNCHANGED <<nvs, task, worker, storage, setup, stopped>>

MigrateStore ==
    /\ migrating
    /\ nvs' \in {[nvs EXCEPT !.profile.version = 2]} \cup (IF Failures THEN {nvs} ELSE {})
    /\ \/ /\ nvs'.profile.version = 2
          /\ setup' = [setup EXCEPT !.profile.version = 2] /\ UNCHANGED ram
       \/ Failures /\ Flag("fault") /\ UNCHANGED setup
    /\ migrating' = FALSE /\ mutex' = Nobody
    /\ UNCHANGED <<task, worker, storage, stopped>>

\* The control task applies a configuration that was handed over.
Apply ==
    /\ ram.pending # "none"
    /\ ram' = [ram EXCEPT !.pending = "none", !.ready = TRUE, !.inhibited = FALSE,
                          !.disabled = (ram.pending = "off")]
    /\ UNCHANGED <<nvs, mutex, worker, storage, setup>> /\ Others

-----------------------------------------------------------------------------
(* Start-up and power.                                                     *)

SetupLoad ==
    /\ setup.pc = "load"
    /\ \E ok \in Reads :
        /\ setup' = [setup EXCEPT !.pc = IF ok THEN "recover" ELSE "stopped",
                                  !.profile = IF ok THEN nvs.profile ELSE NoProfile]
        /\ ram' = [ram EXCEPT !.fault = ~ok /\ (nvs.marker \/ nvs.profile.owner # Nobody)]
    /\ UNCHANGED <<nvs, mutex, task, worker, storage, migrating, stopped>>

\* load_auto_state: after a watchdog or panic the saved decision is cleared.
Recover ==
    /\ setup.pc = "recover"
    /\ \/ mutex = Nobody /\ nvs' \in {nvs, [nvs EXCEPT !.journal = Nobody]} /\ UNCHANGED ram
       \/ Failures /\ Flag("fault") /\ UNCHANGED nvs
    /\ setup' = [setup EXCEPT !.pc = "configure"]
    /\ UNCHANGED <<mutex, task, worker, storage, migrating, stopped>>

Configure ==
    /\ setup.pc = "configure"
    /\ ram' = [ram EXCEPT !.pending = IF ram.fault \/ ~setup.current THEN @
                                      ELSE IF setup.profile.disabled THEN "off" ELSE "auto"]
    /\ setup' = [setup EXCEPT !.pc = IF ram.provisioning THEN "offline" ELSE "online"]
    /\ worker' = [worker EXCEPT !.pc = IF ram.provisioning THEN "off" ELSE "init"]
    /\ UNCHANGED <<nvs, mutex, task, storage, migrating, stopped>>

BootRest ==
    /\ mutex' = Nobody /\ ram' = BootRam /\ setup' = BootSetup
    /\ task' = [t \in Tasks |-> IdleTask]
    /\ worker' = [pc |-> "off", owner |-> Nobody]
    /\ storage' = [pc |-> "idle", current |-> FALSE, clear |-> FALSE]
    /\ migrating' = FALSE
    /\ UNCHANGED <<nvs, stopped>>

Restart   == At(Usb, "reboot") /\ BootRest
PowerLoss == BootRest

Init ==
    /\ nvs \in {[marker |-> FALSE, profile |-> p, token |-> p.owner, journal |-> Nobody] :
                p \in {NoProfile} \cup [owner : Present, disabled : BOOLEAN, version : {1, 2}]}
    /\ mutex = Nobody /\ ram = BootRam /\ setup = BootSetup
    /\ task = [t \in Tasks |-> IdleTask]
    /\ worker = [pc |-> "off", owner |-> Nobody]
    /\ storage = [pc |-> "idle", current |-> FALSE, clear |-> FALSE]
    /\ migrating = FALSE
    /\ stopped = FALSE

Change(t) ==
    \/ Acquire(t) \/ Clear(t) \/ Save(t) \/ Check(t) \/ Cover(t) \/ HandOver(t) \/ LockTimeout(t)

UsbStep ==
    \/ Change(Usb) \/ LoadPrevious \/ Drain \/ Validate \/ Exclude
    \/ Mark \/ Empty \/ Token \/ Replace \/ Complete
    \/ Wifi \/ Forget \/ StoreNew \/ Restart

Requests ==
    \/ \E op \in {"off", "auto"} : WebMode(op)
    \/ \E o \in Incoming : BeginProvision("provision", o)
    \/ BeginProvision("wifi", Nobody)

Next ==
    \/ Requests \/ Change(Web) \/ UsbStep
    \/ Look \/ Claim \/ Recheck \/ Operate \/ Initialize
    \/ Decide \/ StorageLock \/ StorageSave \/ Apply
    \/ MigrateLock \/ MigrateStore
    \/ SetupLoad \/ Recover \/ Configure \/ PowerLoss

Spec == Init /\ [][Next]_vars

\* FreeRTOS runs every ready task, the 5 s and 30 s waits end, and whoever
\* holds the mutex releases it.
FairSpec ==
    /\ Spec /\ WF_vars(UsbStep) /\ WF_vars(Change(Web))
    /\ WF_vars(StorageLock \/ StorageSave) /\ WF_vars(MigrateStore)
    /\ WF_vars(SetupLoad \/ Recover \/ Configure)

-----------------------------------------------------------------------------
(* Properties.                                                             *)

\* Whose records these are; a mixture is nobody's and not Nobody either.
Identity ==
    IF nvs.marker THEN Nobody
    ELSE IF nvs.token = nvs.profile.owner /\ nvs.journal \in {Nobody, nvs.profile.owner}
         THEN nvs.profile.owner
    ELSE <<nvs.profile.owner, nvs.token, nvs.journal>>

Installation == INSTANCE Install WITH
    installed <- Identity,
    requested <- task[Usb].owner

\* Profile, token and saved decision that a start would use are always of one
\* installation: neither a power loss between the five writes, nor a Fleet
\* operation, a commit or a command that was in flight, mixes two.
WholeRecords == Identity \in Someone

\* Once a replacement or a change of the Wi-Fi credentials has stopped the
\* device, it stays DISABLED in flash through every failure and restart, until
\* an AUTO command is accepted afterwards (the promise of usb.cpp:80).
NoRevival == stopped => nvs.marker \/ nvs.profile.disabled

\* From begin_provision to the restart, whatever comes of the attempt, no
\* configuration that was in flight turns AUTO on again.
StaysStopped == ram.provisioning => ram.disabled /\ ram.pending # "auto"

\* The five writes implement the atomic replacement of module Install; with
\* the fairness above every request ends.
Installs == Installation!Spec

\* A password record that was migrated is never written back by a command that
\* loaded the profile before the migration.
MigrationSticks ==
    [][nvs.profile.version = 2 => nvs'.profile.version = 2]_vars
=============================================================================
