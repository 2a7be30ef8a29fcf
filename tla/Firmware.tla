------------------------------ MODULE Firmware ------------------------------
(***************************************************************************)
(* A firmware update over HTTPS (firmware_update.cpp, ota.cpp): the upload *)
(* session that the request handlers and the update worker share, the      *)
(* flash that the worker writes, the gate `firmware_busy` that keeps the   *)
(* output and the Tesla worker quiet meanwhile, and the self-test of a new *)
(* image.  The control task and the commands are what Control shows of     *)
(* them; a handler or a task step ends where it reads or writes data that  *)
(* another task may change.  Time counts in ticks, sizes in units of which *)
(* MaxChunk fit in a request; SDK and bootloader follow from their use.    *)
(* A definition marked "mutant" is a plausible bug.                        *)
(***************************************************************************)
EXTENDS Integers, Sequences

CONSTANTS
    Sizes,               \* sizes of the images that are offered
    MaxChunk,            \* kFirmwareChunkBytes
    Idle, Lifetime,      \* kFirmwareIdleMs, kFirmwareTotalMs
    Delay,               \* ticks between acceptance and restart
    BootLimit, Healthy,  \* ticks that a self-test may take, and has to take
    Failures,            \* may the flash, the GPIO or another local check fail?
    Crashes,             \* may the power fail?
    TimedOns,            \* are TIMED ON commands given?
    MaxGen, MaxUploads   \* bounds on the commands and the uploads of one boot

ASSUME FirmwareAssumption ==
    /\ Sizes \subseteq Nat \ {0} /\ MaxChunk \in Nat \ {0}
    /\ Delay \in Nat \ {0} /\ Idle \in Nat /\ Lifetime \in Nat /\ Delay < Idle /\ Idle < Lifetime
    /\ Healthy \in Nat \ {0} /\ BootLimit \in Nat /\ Healthy <= BootLimit
    /\ Failures \in BOOLEAN /\ Crashes \in BOOLEAN /\ TimedOns \in BOOLEAN
    /\ MaxGen \in Nat \ {0} /\ MaxUploads \in Nat

ActiveStates == {"Preparing", "Receiving", "Writing", "Verifying", "Rebooting"}

VARIABLES
    control,      \* the Snapshot: generation, inhibit, published decision; a TIMED ON asked for
    fault,        \* critical_fault
    provisioning,
    fleet,        \* the Tesla worker's loop
    busy,         \* firmware_busy
    transfer,     \* the FirmwareUpdate and its upload_id
    buffer,       \* the chunk handed to the worker
    web,          \* the request that the HTTPS task serves, and the generation it read
    worker,       \* the update worker: its step and its own variables
    boot,         \* the self-test of this boot
    flash,        \* the slot that does not run, and which slot boots next
    cancelled     \* history: the session was interrupted before its last check

vars == <<control, fault, provisioning, fleet, busy, transfer, buffer, web, worker, boot,
          flash, cancelled>>

NoTransfer == [state |-> "Idle", id |-> 0, gen |-> 0, total |-> 0, received |-> 0,
               queued |-> 0, age |-> 0, idle |-> 0]
NoRequest  == [op |-> "none", gen |-> 0]
NoChunk    == [id |-> 0, offset |-> 0, bytes |-> 0]

Least(a, b) == IF a < b THEN a ELSE b

-----------------------------------------------------------------------------
(* The session: class FirmwareUpdate, each method under the lock of ota.cpp. *)

Active == transfer.state \in ActiveStates

CurrentForever(gen) ==   \* mutant: no deadline
    Active /\ gen = transfer.gen

\* FirmwareUpdate::current
Current(gen) ==
    /\ Active /\ gen = transfer.gen
    /\ transfer.age < Lifetime /\ transfer.idle < Idle

Started(total) ==
    [NoTransfer EXCEPT !.state = "Preparing", !.id = transfer.id + 1, !.gen = web.gen,
                       !.total = total]

FailSession == transfer' = [transfer EXCEPT !.state = "Failed", !.queued = 0]

\* current() of ota.cpp: the session still belongs to a healthy controller that
\* nobody has sent a command to.
StillCurrent ==
    ~fault /\ ~provisioning /\ ~control.inhibited /\ Current(control.gen)

-----------------------------------------------------------------------------
(* The other tasks.                                                        *)

Interrupt == cancelled' = (cancelled \/ (Active /\ worker.pc # "restart"))

Inhibit == control' = [control EXCEPT !.gen = @ + 1, !.inhibited = TRUE, !.asked = FALSE]

\* OFF; the other changes of mode and settings do the same and need ~busy.
Off ==
    /\ control.gen < MaxGen /\ Inhibit /\ Interrupt
    /\ UNCHANGED <<fault, provisioning, fleet, busy, transfer, buffer, web, worker, boot, flash>>

\* begin_provision
Provision ==
    /\ ~busy /\ control.gen < MaxGen /\ Inhibit /\ Interrupt /\ provisioning' = TRUE
    /\ UNCHANGED <<fault, fleet, busy, transfer, buffer, web, worker, boot, flash>>

\* timed()
TimedOn ==
    /\ TimedOns /\ ~busy /\ ~fault /\ ~provisioning /\ ~control.inhibited
    /\ control' = [control EXCEPT !.asked = TRUE]
    /\ UNCHANGED <<fault, provisioning, fleet, busy, transfer, buffer, web, worker, boot, flash,
                   cancelled>>

\* The control task publishes the configuration of the last change or of setup.
Apply ==
    /\ control.inhibited
    /\ control' = [control EXCEPT !.inhibited = FALSE, !.timed = FALSE, !.commanded = FALSE]
    /\ UNCHANGED <<fault, provisioning, fleet, busy, transfer, buffer, web, worker, boot, flash,
                   cancelled>>

OutputAllowed == ~control.inhibited /\ ~fault /\ ~provisioning /\ ~busy

\* The control task's tick and its command, in one section under its lock.
Command(on, timed) ==
    /\ timed => control.timed \/ control.asked
    /\ control' = [control EXCEPT !.commanded = on /\ OutputAllowed, !.timed = timed,
                                  !.asked = FALSE]
    /\ UNCHANGED <<fault, provisioning, fleet, busy, transfer, buffer, web, worker, boot, flash,
                   cancelled>>

NetworkBusy == fleet \in {"claimed", "request"}

FleetUnchecked ==   \* mutant: the gate is not looked at again
    \/ fleet = "idle" /\ ~busy /\ ~provisioning /\ ~fault /\ fleet' = "due"
    \/ fleet = "due" /\ fleet' = "claimed"
    \/ fleet = "claimed" /\ fleet' = "request"
    \/ fleet = "request" /\ fleet' = "idle"

\* The loop of tesla.cpp: the gate is looked at before network_busy is set, and
\* again after it; then a poll or a refresh runs to its end.
FleetStep ==
    \/ fleet = "idle" /\ ~busy /\ ~provisioning /\ ~fault /\ fleet' = "due"
    \/ fleet = "due" /\ fleet' = "claimed"
    \/ fleet = "claimed" /\ fleet' = IF busy \/ provisioning THEN "idle" ELSE "request"
    \/ fleet = "request" /\ fleet' = "idle"

Fleet ==
    /\ boot.setup /\ FleetStep
    /\ UNCHANGED <<control, fault, provisioning, busy, transfer, buffer, web, worker, boot, flash,
                   cancelled>>

\* setup() ends.
SetupDone ==
    /\ ~boot.setup /\ boot' = [boot EXCEPT !.setup = TRUE]
    /\ UNCHANGED <<control, fault, provisioning, fleet, busy, transfer, buffer, web, worker, flash,
                   cancelled>>

\* fail() somewhere else, or a control gap over 100 ms.
LocalFault ==
    /\ Failures /\ ~fault
    /\ \/ fault' = TRUE /\ Interrupt /\ UNCHANGED boot
       \/ ~boot.late /\ boot' = [boot EXCEPT !.late = TRUE] /\ UNCHANGED <<fault, cancelled>>
    /\ UNCHANGED <<control, provisioning, fleet, busy, transfer, buffer, web, worker, flash>>

Elapse ==
    /\ transfer' = IF Active
                   THEN [transfer EXCEPT !.age = Least(@ + 1, Lifetime), !.idle = Least(@ + 1, Idle)]
                   ELSE transfer
    /\ worker' = [worker EXCEPT !.wait = Least(@ + 1, Delay)]
    /\ boot' = IF boot.pending
               THEN [boot EXCEPT !.age = Least(@ + 1, BootLimit + 1),
                                 !.accepted = IF @ < 0 THEN @ ELSE Least(@ + 1, Healthy)]
               ELSE boot
    /\ <<transfer, worker, boot>>' # <<transfer, worker, boot>>
    /\ UNCHANGED <<control, fault, provisioning, fleet, busy, buffer, web, flash, cancelled>>

-----------------------------------------------------------------------------
(* The HTTPS task serves one request at a time.  A handler takes a snapshot *)
(* first and the lock of the session after it.                             *)

AskIgnoringGate ==   \* mutant: firmware_busy is not checked
    ~fault /\ ~provisioning /\ ~control.inhibited /\ ~control.timed

\* The checks of ota_begin before the lock (a decision that is not in flash yet
\* is another reason to refuse; Control has it).
MayBegin ==
    ~busy /\ ~fault /\ ~provisioning /\ ~control.inhibited /\ ~control.timed

\* Any request but an abort: the snapshot.
Ask(op) ==
    /\ web.op = "none" /\ boot.setup
    /\ op = "begin" => MayBegin /\ transfer.id < MaxUploads
    /\ op = "request" => transfer.id # 0
    /\ web' = [op |-> op, gen |-> control.gen]
    /\ UNCHANGED <<control, fault, provisioning, fleet, busy, transfer, buffer, worker, boot,
                   flash, cancelled>>

\* ota_begin, the generation of the page being the one in the snapshot.
Begin(total) ==
    /\ web.op = "begin" /\ web' = NoRequest
    /\ IF Active THEN UNCHANGED <<transfer, busy, cancelled>>
       ELSE transfer' = Started(total) /\ busy' = TRUE /\ cancelled' = FALSE
    /\ UNCHANGED <<control, fault, provisioning, fleet, buffer, worker, boot, flash>>

AcceptableOverlong(id, offset, bytes) ==   \* mutant: the end of the image is not checked
    /\ id = transfer.id /\ transfer.state = "Receiving" /\ Current(web.gen)
    /\ offset = transfer.received

\* FirmwareUpdate::chunk, for a first chunk that carries a compatible header.
Acceptable(id, offset, bytes) ==
    /\ id = transfer.id /\ transfer.state = "Receiving" /\ Current(web.gen)
    /\ offset = transfer.received /\ bytes <= transfer.total - transfer.received

\* ota_chunk.  Requests may be late, repeated or of an earlier upload.
Chunk(id, offset, bytes) ==
    /\ web.op = "request" /\ web' = NoRequest
    /\ Acceptable(id, offset, bytes)
    /\ transfer' = [transfer EXCEPT !.state = "Writing", !.queued = bytes]
    /\ buffer' = [id |-> id, offset |-> offset, bytes |-> bytes]
    /\ UNCHANGED <<control, fault, provisioning, fleet, busy, worker, boot, flash, cancelled>>

FinishableEarly(id) ==   \* mutant: missing chunks are not noticed
    id = transfer.id /\ transfer.state = "Receiving" /\ Current(web.gen)

Finishable(id) ==
    /\ id = transfer.id /\ transfer.state = "Receiving" /\ Current(web.gen)
    /\ transfer.received = transfer.total

\* ota_finish
Finish(id) ==
    /\ web.op = "request" /\ web' = NoRequest
    /\ Finishable(id) /\ transfer' = [transfer EXCEPT !.state = "Verifying"]
    /\ UNCHANGED <<control, fault, provisioning, fleet, busy, buffer, worker, boot, flash, cancelled>>

Refuse ==
    /\ web.op = "request" /\ web' = NoRequest
    /\ UNCHANGED <<control, fault, provisioning, fleet, busy, transfer, buffer, worker, boot,
                   flash, cancelled>>

\* ota_abort
Abort(id) ==
    /\ web.op = "none" /\ Active /\ id = transfer.id /\ FailSession /\ Interrupt
    /\ UNCHANGED <<control, fault, provisioning, fleet, busy, buffer, web, worker, boot, flash>>

-----------------------------------------------------------------------------
(* Restart.  Nothing in RAM survives; the generation is a new random one.  *)

Start(pending, next) ==
    /\ control' = [gen |-> 1, inhibited |-> TRUE, commanded |-> FALSE, timed |-> FALSE,
                   asked |-> FALSE]
    /\ fault' = FALSE /\ provisioning' = FALSE /\ fleet' = "idle"
    /\ busy' = pending /\ transfer' = NoTransfer /\ buffer' = NoChunk /\ web' = NoRequest
    /\ worker' = [pc |-> "top", saw |-> "Idle", gen |-> 0, wait |-> Delay, open |-> FALSE,
                  selected |-> FALSE]
    /\ boot' = [pending |-> pending, checked |-> ~pending, age |-> 0, accepted |-> -1,
                setup |-> FALSE, late |-> FALSE]
    /\ flash' = next /\ cancelled' = FALSE

\* The other slot runs from now on.
Swapped(whole, confirmed) ==
    [spare |-> <<>>, whole |-> whole, boots |-> "running", confirmed |-> confirmed]

\* The bootloader gives up an image that restarts before it is confirmed, if
\* there is another one.
GivesUp == boot.pending /\ flash.whole

\* ota_boot_initialize in the image that the bootloader picked.
Boot ==
    IF flash.boots = "spare" THEN Start(TRUE, Swapped(TRUE, FALSE))
    ELSE IF GivesUp THEN Start(FALSE, Swapped(FALSE, TRUE))
    ELSE Start(~flash.confirmed, flash)

PowerLoss == Crashes /\ Boot

-----------------------------------------------------------------------------
(* The worker.                                                             *)

\* An iteration ends with its local variables.
Go(pc) == worker' = IF pc = "top" THEN [worker EXCEPT !.pc = pc, !.saw = "Idle", !.gen = 0]
                    ELSE [worker EXCEPT !.pc = pc]

\* Goes on only if the session is still current.
Check(pc) == Go(IF StillCurrent THEN pc ELSE "fail")

OnlyWorker == UNCHANGED <<control, provisioning, fleet, buffer, web, boot, cancelled>>

\* esp_ota_mark_app_invalid_rollback_and_reboot, or its failure.
Rollback ==
    \/ flash.whole /\ Start(FALSE, Swapped(FALSE, TRUE))
    \/ /\ Failures \/ ~flash.whole
       /\ fault' = TRUE /\ boot' = [boot EXCEPT !.checked = TRUE] /\ Go("look")
       /\ UNCHANGED <<control, provisioning, fleet, busy, transfer, buffer, web, flash, cancelled>>

\* The self-test cannot succeed any more.
Doomed == fault \/ boot.age > BootLimit

LocallyHealthy ==
    boot.setup /\ ~control.inhibited /\ ~provisioning /\ ~control.commanded /\ ~boot.late

\* check_boot
CheckBoot ==
    /\ worker.pc = "top" /\ boot.pending /\ ~boot.checked
    /\ IF Doomed THEN Rollback
       ELSE /\ Go("look")
            /\ \/ /\ LocallyHealthy /\ boot.accepted = Healthy
                  /\ \/ /\ boot' = [boot EXCEPT !.checked = TRUE, !.pending = FALSE]
                        /\ busy' = FALSE /\ flash' = [flash EXCEPT !.confirmed = TRUE]
                        /\ UNCHANGED <<fault, cancelled>>
                     \/ /\ Failures /\ fault' = TRUE /\ UNCHANGED <<boot, busy, flash, cancelled>>
               \/ /\ LocallyHealthy /\ boot.accepted < Healthy
                  /\ boot' = [boot EXCEPT !.accepted = IF @ < 0 THEN 0 ELSE @]
                  /\ UNCHANGED <<busy, flash, fault, cancelled>>
               \/ ~LocallyHealthy /\ UNCHANGED <<boot, busy, flash, fault, cancelled>>
            /\ UNCHANGED <<control, provisioning, fleet, transfer, buffer, web>>

\* The loop's view of the session.
Look ==
    /\ \/ worker.pc = "look"
       \/ worker.pc = "top" /\ ~(boot.pending /\ ~boot.checked)
    /\ worker' = [worker EXCEPT !.pc = IF Active THEN "judge" ELSE "sweep",
                                !.saw = transfer.state]
    /\ OnlyWorker /\ UNCHANGED <<fault, busy, transfer, flash>>

\* A session that an abort has failed still holds the gate.
SweepBusy == Go(IF busy /\ ~boot.pending /\ boot.checked THEN "fail" ELSE "top")

Sweep ==
    /\ worker.pc = "sweep" /\ SweepBusy
    /\ OnlyWorker /\ UNCHANGED <<fault, busy, transfer, flash>>

\* What the state that was seen asks for.
Task ==
    CASE worker.saw = "Preparing" -> "prepare"
      [] worker.saw = "Writing" -> IF worker.open THEN "check" ELSE "open"
      [] worker.saw = "Verifying" -> "end"
      [] worker.saw = "Rebooting" /\ worker.wait = Delay -> "last"
      [] OTHER -> "top"

Judge ==
    /\ worker.pc = "judge" /\ Check(Task)
    /\ OnlyWorker /\ UNCHANGED <<fault, busy, transfer, flash>>

\* The output is off, and ...
PrepareOff ==
    IF control.commanded THEN Go("top")
    ELSE worker' = [worker EXCEPT !.pc = "quiet", !.gen = control.gen]

Prepare ==
    /\ worker.pc = "prepare" /\ PrepareOff
    /\ OnlyWorker /\ UNCHANGED <<fault, busy, transfer, flash>>

\* ... no Fleet operation is under way.
Quiet ==
    /\ worker.pc = "quiet" /\ Go(IF NetworkBusy THEN "top" ELSE "ready")
    /\ OnlyWorker /\ UNCHANGED <<fault, busy, transfer, flash>>

Ready ==
    /\ worker.pc = "ready" /\ Go("top")
    /\ IF transfer.state = "Preparing" /\ Current(worker.gen)
       THEN transfer' = [transfer EXCEPT !.state = "Receiving", !.idle = 0]
       ELSE FailSession
    /\ OnlyWorker /\ UNCHANGED <<fault, busy, flash>>

\* esp_ota_begin
Open ==
    /\ worker.pc = "open"
    /\ \/ /\ worker' = [worker EXCEPT !.pc = "check", !.open = TRUE]
          /\ flash' = [flash EXCEPT !.spare = <<>>, !.whole = FALSE]
       \/ Failures /\ Go("fail") /\ UNCHANGED flash
    /\ OnlyWorker /\ UNCHANGED <<fault, busy, transfer>>

CheckWrite ==
    /\ worker.pc = "check" /\ Check("write")
    /\ OnlyWorker /\ UNCHANGED <<fault, busy, transfer, flash>>

\* esp_ota_write of the buffer, and the snapshot after it.
Write ==
    /\ worker.pc = "write"
    /\ \/ /\ flash' = [flash EXCEPT !.spare = Append(@, buffer)]
          /\ worker' = [worker EXCEPT !.pc = "written", !.gen = control.gen]
       \/ Failures /\ Go("fail") /\ UNCHANGED flash
    /\ OnlyWorker /\ UNCHANGED <<fault, busy, transfer>>

\* FirmwareUpdate::written
Written ==
    /\ worker.pc = "written"
    /\ IF transfer.state = "Writing" /\ buffer.bytes = transfer.queued /\ Current(worker.gen)
       THEN /\ transfer' = [transfer EXCEPT !.state = "Receiving", !.received = @ + buffer.bytes,
                                            !.queued = 0, !.idle = 0]
            /\ Go("recheck")
       ELSE Go("fail") /\ UNCHANGED transfer
    /\ OnlyWorker /\ UNCHANGED <<fault, busy, flash>>

Recheck ==
    /\ worker.pc = "recheck" /\ Check("top")
    /\ OnlyWorker /\ UNCHANGED <<fault, busy, transfer, flash>>

\* The chunks in flash are one after the other what this upload consists of.
InOrder(chunks) ==
    \A i \in 1 .. Len(chunks) :
        /\ chunks[i].id = transfer.id
        /\ chunks[i].offset = IF i = 1 THEN 0 ELSE chunks[i - 1].offset + chunks[i - 1].bytes
Stored(chunks) ==
    IF chunks = <<>> THEN 0 ELSE chunks[Len(chunks)].offset + chunks[Len(chunks)].bytes

\* esp_ota_end verifies the signed image and closes the handle in any case.
End ==
    /\ worker.pc = "end"
    /\ \E valid \in BOOLEAN :
        /\ valid => worker.open
        /\ flash' = [flash EXCEPT !.whole = valid]
        /\ worker' = [worker EXCEPT !.pc = IF valid THEN "choose" ELSE "fail", !.open = FALSE]
    /\ OnlyWorker /\ UNCHANGED <<fault, busy, transfer>>

CheckSelect ==
    /\ worker.pc = "choose" /\ Check("select")
    /\ OnlyWorker /\ UNCHANGED <<fault, busy, transfer, flash>>

\* esp_ota_set_boot_partition: an image selected anew is not confirmed.  A
\* failure may have taken effect.
Select ==
    /\ worker.pc = "select"
    /\ \/ /\ flash' = [flash EXCEPT !.boots = "spare", !.confirmed = FALSE]
          /\ worker' = [worker EXCEPT !.pc = "verified", !.selected = TRUE, !.gen = control.gen]
       \/ /\ Failures
          /\ flash' \in {flash, [flash EXCEPT !.boots = "spare", !.confirmed = FALSE]}
          /\ worker' = [worker EXCEPT !.pc = "fail", !.selected = TRUE]
    /\ OnlyWorker /\ UNCHANGED <<fault, busy, transfer>>

\* FirmwareUpdate::verified
Verified ==
    /\ worker.pc = "verified"
    /\ IF transfer.state = "Verifying" /\ Current(worker.gen)
       THEN transfer' = [transfer EXCEPT !.state = "Rebooting", !.idle = 0] /\ Go("accept")
       ELSE Go("fail") /\ UNCHANGED transfer
    /\ OnlyWorker /\ UNCHANGED <<fault, busy, flash>>

Accept ==
    /\ worker.pc = "accept"
    /\ IF StillCurrent
       THEN worker' = [worker EXCEPT !.pc = "top", !.saw = "Idle", !.gen = 0, !.wait = 0]
       ELSE Go("fail")
    /\ OnlyWorker /\ UNCHANGED <<fault, busy, transfer, flash>>

LastUnchecked == Go("restart")   \* mutant: OFF during the delay is not noticed

LastCheck == Check("restart")

BeforeRestart ==
    /\ worker.pc = "last" /\ LastCheck
    /\ OnlyWorker /\ UNCHANGED <<fault, busy, transfer, flash>>

\* esp_restart
Restart == worker.pc = "restart" /\ Boot

CleanupKeepingSelection ==   \* mutant: the running slot is not selected again
    /\ worker' = [worker EXCEPT !.pc = "failed", !.open = FALSE, !.selected = FALSE]
    /\ UNCHANGED <<flash, fault>>

CleanupKeepingHandle ==   \* mutant: the handle stays open
    /\ worker' = [worker EXCEPT !.pc = "failed", !.selected = FALSE]
    /\ flash' = IF worker.selected THEN [flash EXCEPT !.boots = "running", !.confirmed = FALSE]
                ELSE flash
    /\ UNCHANGED fault

\* failed(), its first half: the handle is closed and the running slot selected
\* again, or a fault is raised.
Cleanup ==
    /\ worker' = [worker EXCEPT !.pc = "failed", !.open = FALSE, !.selected = FALSE]
    /\ \/ /\ flash' = IF worker.selected
                      THEN [flash EXCEPT !.boots = "running", !.confirmed = FALSE] ELSE flash
          /\ UNCHANGED fault
       \/ /\ Failures /\ (worker.open \/ worker.selected) /\ fault' = TRUE
          /\ flash' \in {flash, IF worker.selected
                                THEN [flash EXCEPT !.boots = "running", !.confirmed = FALSE]
                                ELSE flash}

Fail ==
    /\ worker.pc = "fail" /\ Cleanup
    /\ OnlyWorker /\ UNCHANGED <<busy, transfer>>

FailTransfer ==
    /\ worker.pc = "failed" /\ Go("release") /\ FailSession
    /\ OnlyWorker /\ UNCHANGED <<fault, busy, flash>>

\* The end of failed(): the gate opens.
OpenGate ==
    /\ worker.pc = "release" /\ Go("top") /\ busy' = FALSE
    /\ OnlyWorker /\ UNCHANGED <<fault, transfer, flash>>

-----------------------------------------------------------------------------

Init ==
    /\ control = [gen |-> 1, inhibited |-> TRUE, commanded |-> FALSE, timed |-> FALSE,
                  asked |-> FALSE]
    /\ fault = FALSE /\ provisioning = FALSE /\ fleet = "idle" /\ busy = FALSE
    /\ transfer = NoTransfer /\ buffer = NoChunk /\ web = NoRequest
    /\ worker = [pc |-> "top", saw |-> "Idle", gen |-> 0, wait |-> Delay, open |-> FALSE,
                 selected |-> FALSE]
    /\ boot = [pending |-> FALSE, checked |-> TRUE, age |-> 0, accepted |-> -1, setup |-> FALSE,
               late |-> FALSE]
    /\ flash \in [spare : {<<>>}, whole : BOOLEAN, boots : {"running"}, confirmed : {TRUE}]
    /\ cancelled = FALSE

Tasks ==
    \/ Off \/ Provision \/ TimedOn \/ Apply \/ Fleet \/ SetupDone \/ LocalFault \/ Elapse
    \/ \E on, timed \in BOOLEAN : Command(on, timed)

Requests ==
    \/ \E op \in {"begin", "request"} : Ask(op)
    \/ \E total \in Sizes : Begin(total)
    \/ \E id \in 1 .. MaxUploads :
        \/ \E total \in Sizes : \E offset \in 0 .. total, bytes \in 1 .. MaxChunk :
               Chunk(id, offset, bytes)
        \/ Finish(id) \/ Abort(id)
    \/ Refuse

WorkerStep ==
    \/ CheckBoot \/ Look \/ Sweep \/ Judge
    \/ Prepare \/ Quiet \/ Ready
    \/ Open \/ CheckWrite \/ Write \/ Written \/ Recheck
    \/ End \/ CheckSelect \/ Select \/ Verified \/ Accept \/ BeforeRestart \/ Restart
    \/ Fail \/ FailTransfer \/ OpenGate

Next == Tasks \/ Requests \/ WorkerStep \/ PowerLoss

Spec == Init /\ [][Next]_vars

\* The scheduler runs the worker, and time passes; nothing obliges clients, the
\* other tasks, power or failures to act.
FairSpec ==
    Spec /\ WF_vars(WorkerStep) /\ WF_vars(Elapse)

-----------------------------------------------------------------------------
(* Correctness.                                                            *)

Pcs == {"top", "look", "sweep", "judge", "prepare", "quiet", "ready", "open", "check", "write",
        "written", "recheck", "end", "choose", "select", "verified", "accept", "last", "restart",
        "fail", "failed", "release"}
Chunks == [id : 0 .. MaxUploads, offset : Nat, bytes : 0 .. MaxChunk]

TypeTasks ==
    /\ control \in [gen : 1 .. MaxGen, inhibited : BOOLEAN, commanded : BOOLEAN, timed : BOOLEAN,
                    asked : BOOLEAN]
    /\ fault \in BOOLEAN /\ provisioning \in BOOLEAN /\ busy \in BOOLEAN /\ cancelled \in BOOLEAN
    /\ fleet \in {"idle", "due", "claimed", "request"}
TypeSession ==
    /\ transfer \in [state : ActiveStates \cup {"Idle", "Failed"}, id : 0 .. MaxUploads,
                     gen : 0 .. MaxGen, total : Sizes \cup {0}, received : Nat,
                     queued : 0 .. MaxChunk, age : 0 .. Lifetime, idle : 0 .. Idle]
    /\ transfer.received + transfer.queued <= transfer.total
    /\ web \in [op : {"none", "begin", "request"}, gen : 0 .. MaxGen]
TypeWorker ==
    worker \in [pc : Pcs, saw : ActiveStates \cup {"Idle", "Failed"}, gen : 0 .. MaxGen,
                wait : 0 .. Delay, open : BOOLEAN, selected : BOOLEAN]
TypeBoot ==
    boot \in [pending : BOOLEAN, checked : BOOLEAN, age : 0 .. BootLimit + 1,
              accepted : -1 .. Healthy, setup : BOOLEAN, late : BOOLEAN]
TypeFlash ==
    /\ buffer \in Chunks
    /\ flash \in [spare : Seq(Chunks), whole : BOOLEAN, boots : {"running", "spare"},
                  confirmed : BOOLEAN]

\* The data of every task has the shape that the code gives it, and a chunk never
\* reaches beyond the end of the image.
TypeOK == TypeTasks /\ TypeSession /\ TypeWorker /\ TypeBoot /\ TypeFlash

Transferring == transfer.state \in ActiveStates \ {"Preparing"}

\* From the first chunk to the restart, and during a self-test, the output is
\* commanded off, no Fleet operation is under way whose token the restart could
\* lose, and no provisioning rewrites the settings.
UpdateIsExclusive ==
    Transferring \/ boot.pending => ~control.commanded /\ fleet # "request" /\ ~provisioning

\* The slot holds the accepted chunks of this upload, each once and in order,
\* whatever requests are late, repeated or of an earlier upload.
SlotIsTheUpload ==
    worker.open /\ transfer.state \in {"Receiving", "Verifying"} =>
        InOrder(flash.spare) /\ Stored(flash.spare) = transfer.received

\* The image selected to boot is a complete upload that was verified.
SelectedIsWhole ==
    flash.boots = "spare" =>
        flash.whole /\ InOrder(flash.spare) /\ Stored(flash.spare) = transfer.total

\* When the gate opens nothing of the session is left: no handle, and unless
\* that failed and is reported, the running image is the one that boots next.
GateOpensClean ==
    ~busy => ~Active /\ ~worker.open /\ (fault \/ flash.boots = "running")

\* An image is installed only if nothing interrupted the session up to the last
\* check: no OFF, provisioning, abort or fault.
CancelledNeverRestarts == worker.pc = "restart" => ~cancelled

\* Until a new image is confirmed, the image to fall back to is not touched.
FallbackKept ==
    [][ boot.pending /\ boot'.pending => flash'.spare = flash.spare /\ flash'.whole = flash.whole ]_vars

\* An upload or a self-test does not inhibit the output for ever: it ends though
\* the client goes away, and at the latest with a reported fault, unless the power
\* fails again and again.
GateReopens == (busy ~> ~busy \/ fault) \/ []<><<PowerLoss>>_vars
=============================================================================
