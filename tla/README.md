# TSL Smart Contactor: a verification project

TLA+ models of the controller firmware under `components/controller` and
`main`, checked with TLC on small instances, with theorems proved by TLAPS for
all values of the constants. The source is the reference: every definition of a
model is translated from the lines that the `map` of `PROJECT.json` names.

The firmware drives one contactor. It turns the output on when Tesla's Fleet API
says that the car is at home (AUTO), or for a while by hand (TIMED ON), and it
must turn it off, and keep it off, on OFF, on doubt and on faults, across power
losses, with one flash, six tasks and a network that loses replies.

## 1. Inventory

| Component | State | Operations | Hard part | What makes it correct |
|---|---|---|---|---|
| AUTO policy (`policy.cpp`) | configuration and generation, AUTO authority (HOME/AWAY/unknown, lease, ceiling, order of samples), override, OFF dwell | configure, restore, off, timed_on, clock_discontinuity, fault, observe, tick | replays, asleep replies, clock jumps, restarts | HOME rests on recent and ordered evidence; no ON without a dwell |
| Control task (`app.cpp`) | shared snapshot, pending commands, `control_epoch`, GPIO | a 50 ms loop; lock-protected inhibit, configure, timed, auto_commit_ack, begin_provision | other tasks run between its critical sections | OFF wins over everything in flight |
| Configuration writer (`storage.cpp`) | `config_mutex`, the profile in flash | change_config, persist_auto_state, provision_profile, update_wifi, migrate_password | superseded writers, power loss between writes | an acknowledged mode is durable; what runs is what is stored |
| AUTO journal and storage worker (`auto_journal.cpp`, `auto_state.cpp`) | the decision in flash, bound to a configuration by its CRC | save, clear, load/recover; poll, commit, acknowledge | snapshots that are stale when used | HOME in flash belongs to its settings, and precedes heating |
| Setup task (`app.cpp`) | profile and decision it loaded | load, recover, hand over, start the others | commands that arrive while it validates | it cannot override a newer command |
| Command handlers (`management.cpp`, `usb.cpp`) | sessions, parsed commands | off, auto, timed_on, settings, arm, enable_output, check_now, wifi_update, provision | stale pages | only an up-to-date client changes anything but OFF |
| Refresh-token journal (`reliability.cpp`, `client.cpp`) | token record in flash and RAM, prior intent | load, begin, cancel_unsent, finish, revoke, provision | a one-time token, lost replies, resets | never lose the usable token, never retry without bound |
| Request budget (`reliability.cpp`) | counters in flash and RAM, credit in RAM | load, take | resets, failed writes, dates, lowered caps | nothing is sent uncounted or over a cap |
| Poll scheduler, Tesla worker, Fleet client | deadlines, back-off, pause; one flight; access token | begin, finish, check_now, calendar_month; poll, refresh, 401 retry | OFF and configuration changes during a request | at most one request after OFF, none before an embargo ends, and polling resumes |
| Firmware update (`ota.cpp`, `firmware_update.cpp`) | upload session, flash handle, boot selection, self-test | begin, chunk, finish, abort; the worker; check_boot | handlers, worker and OFF interleave | a cancelled image never boots; the output is off meanwhile |
| USB provisioning (`usb.cpp`, `storage.cpp`) | pending marker and three records | stop_network, provision_profile, update_wifi | five writes against power loss, and four other users of the mutex and the token | atomic: never an old profile with a new token; what it stopped stays OFF |
| Sessions and login (`management.cpp`, `storage.cpp`) | one session, one login in flight, the kind of password record | login, verify, migrate, finish, logout | a task of its own per check, results that come back through the server's queue | no guess before its delay is over; the slot comes back; a migration locks nobody out |
| Network (`network.cpp`) | Wi-Fi and SNTP flags | callbacks, reconnect | callbacks race a disconnection | no stale clock admits evidence |
| HTTP decoder, JSON, vehicle protocol | parser state | feed, parse | malformed input | reject what is not understood |
| Event log, Wi-Fi scan, relay bench, browser application, laptop tools, hosting | - | - | - | display, diagnostics and operator tools |

How they interact. The web and USB tasks change the mode in two steps: under the
control lock they advance the epoch and inhibit the output (`inhibit`,
`inhibit_current`), then under `config_mutex` they write flash and hand the
configuration to the control task (`configure`), which accepts it only with the
current epoch. The control task owns the policy and the GPIO, and publishes a
snapshot. The storage worker reads snapshots, commits the decision under
`config_mutex` and acknowledges it; HOME heats only after that. The Tesla worker
sends observations, each carrying its generation and request number, through a
queue. Faults set one latched flag that the control task reads.

`PROJECT.json` lists the hazards of this code at the lines where they bite, with
the properties that cover each one, or why none does yet.

## 2. Modules

| Module | Models |
|---|---|
| `Policy`, `MCPolicy`, `PolicyProofs` | class `Policy`, driven by the control loop |
| `Control`, `MCControl`, `ControlProofs` | control task, web and USB writers, storage worker, setup task, flash, power |
| `Tokens`, `MCTokens`, `TokensProofs` | `TokenJournal` under `FleetClient::refresh`, flash, and the external authorization server |
| `Budget`, `MCBudget`, `BudgetProofs` | class `Budget` and the calls it grants |
| `Install` | abstract: an installation is replaced whole, or withdrawn, and every request ends |
| `Provision`, `MCProvision`, `ProvisionProofs` | USB provisioning and all other users of `config_mutex` over the records it replaces; implements `Install` |
| `Fleet`, `MCFleet`, `FleetProofs` | class `Scheduler`, the Tesla worker's loop, `FleetClient::poll`, Wi-Fi and SNTP callbacks |
| `Login`, `MCLogin`, `LoginProofs` | the login slot, the password check, the migration, the throttle |
| `Firmware`, `MCFirmware`, `FirmwareProofs` | class `FirmwareUpdate`, the handlers and the worker of `ota.cpp`, the gate, the slots, the self-test |

A definition whose comment says "mutant" is a plausible bug that no action uses;
putting it in the place of the definition that follows it makes the property it is
paired with in `PROJECT.json` fail under its run.

### Policy

One iteration of the loop happens at one instant: any number of inputs
(`ApplyConfig`, `ApplyOff`, `ApplyTimed`, `ClockJump`, `CriticalFault`,
`Evidence`), then `Tick`, which publishes a decision, then `Elapse`. `config`,
`generation`, `configured`, `fault`, `lastRequest` and `override` are the fields of
the class, `auth` groups the ones that carry AUTO authority, `relay` the two of the
OFF dwell. Seconds are units, a distance is one of three zones of the hysteresis,
the quality checks of an observation are one flag. The wall clock may jump. The
history variables `fixTime`, `awaySeen` and `offAt` are read by no action.

### Control

One action per operation that another task can observe. The control loop is
`Apply` (its first critical section and the policy calls), `Decide` (observations
and tick) and `Command` (the last critical section with the GPIO). change_config is
`Lock`, `ClearJournal`, `SaveProfile`, `CheckSuperseded`, then `Cover` or
`HandOverChange`; the storage worker is `StorageSnapshot`, `StorageLock`,
`StorageWrite`, `StorageAck`; setup is `SetupLoad`, `SetupRecover`,
`SetupConfigure`. `PowerLoss` keeps flash and the pages of clients. The policy is
abstracted to the authority it holds: `Decide` may choose any new one, and whether
the OFF dwell is over (`rested`). The home position stands for all settings.
A profile is commissioned, out of dry run and under outage policy `hold_last`.
`Arm` stands for both USB arming commands, which change nothing the model tells
apart but the mode. The USB command `reboot` is `Off` short of its persistence
followed by a power loss, and adds nothing to them.

*Assumption `SpacedEvidence`.* A decision changes only when the last one is committed.
Polls are at least 60 s apart (`policy.cpp:43`) and a commit takes at most a few
waits of five seconds. Without it an acknowledgement can be lost between two
changes and `CommitGate` fails in the model: the hazard list has that.

*History.* `offAt` is the generation of the latest OFF. It stands until an AUTO is
requested by a client that saw it, or until a power loss before it was
acknowledged; `offAcked` says that it was. `judged` is the home position that the
committed decision was judged under, `failed` that a write or another local check
failed in this boot.

### Tokens

`flash` and `record` are the record in flash and in RAM; `step` is where
`FleetClient::refresh` is. `NotSent`, `Lost`, `Replied` and `Refused` are the
outcomes of the request: `Lost` covers every outcome after a byte was written that
brought no usable reply, whether or not the server exchanged the token. A failed
write leaves the old record or the new one. The authorization server is external:
it accepts the newest token and the one that was exchanged for it
(`docs/verified_interfaces.md`), until the owner or Tesla withdraws the chain.
`Provision` is the successful provisioning transaction, after the worker was drained;
consent given for it ends the old chain, which is the worst case. The wall clock
of a request is any of `Epochs`: it may be set back.

### Budget

`take()` is split by its outcome: `UseCredit`, `Reserve` (with its write) and
`Refuse`. The date of a call is any day, also one before the last. `calls` is
history: the requests made on the latest day and month that had any. A failed write
stops the worker until a restart (`tesla.cpp:58`), and may have taken effect.

### Firmware

A handler is `Ask` (its snapshot) and then `Begin`, `Chunk`, `Finish` or `Refuse` (the
locked call), because the worker and the control task run in between; `Abort` takes no
snapshot. The worker is one action per piece of an iteration that reads or writes what
another task may change, with the program counter in `worker.pc`: `CheckBoot`, `Look`
(its copy of the session), `Judge` (`current()`), `Prepare` and `Quiet` (the two halves
of one condition), `Open`, `CheckWrite`, `Write`, `Written`, and so on, `Restart` last.
`failed()` is `Fail`, `FailTransfer`, `OpenGate`. Of the other tasks it has what touches
the gate: a command that inhibits, provisioning, TIMED ON, the command of the control
task, and the two looks of the Fleet worker at the gate. `flash` is the slot that does
not run, as the sequence of chunks written to it, and which slot boots next; its
signature check is any verdict. The bootloader is external: it starts the selected
slot, and gives up an image that resets before it is confirmed if there is another.
`Elapse` counts the ages of the session and of the self-test. The generation of a page
is the one in the handler's snapshot: another is refused. A chunk that is refused for
its header, a layout without a second slot and a worker that cannot be created are
left out. `cancelled` is history: OFF, provisioning, abort or a fault came after the
session began and before its last check.

### Install and Provision

`Install` has two variables: whose records the device would run, and whose a request is
installing. A request may withdraw what is there, commit what it brings, and ends.
`Provision` implements it (`Installs == Installation!Spec`) under the mapping
*installed* = the owner of profile, token and decision, Nobody while the pending marker
makes `load_profile` fail, and a tuple that is no owner when the records are mixed;
*requested* = the owner that the USB task is installing. `Mark` is Withdraw, `Complete` is
Commit, every return of the USB task and every power loss is End, and all other steps,
the three writes in between included, must leave the mapped state alone.

`task[t]` is what a command of the web or the USB task keeps on its stack: its step, what
it is to do, whether its epoch is still the current one, and the copy of the profile that
it loaded. A new generation takes `current` from everybody who holds an older one, so that
no epoch has to be counted and the module needs no bound. `Acquire` to `HandOver` are
change_config, in the web task or inside stop_network; `LoadPrevious`, `Drain`, `Validate`,
`Exclude`, then `Mark`, `Empty`, `Token`, `Replace`, `Complete` are a provisioning; `Wifi`,
`Forget`, `StoreNew` are update_wifi. `Write` is one record written: it succeeds, or it is
reported as failed and did or did not take effect, which is a fault. Those it must keep
out: the Tesla worker (`Look`, `Claim`, `Recheck`, `Operate`: busy is set between two looks
at the flag) which may store a rotated token of the chain it loaded, the storage worker
(`Decide`, `StorageLock`, `StorageSave`), and the first login of a version 1 record
(`MigrateLock`, `MigrateStore`). Web commands are OFF and AUTO; settings write the same
records as AUTO. Off, auto and arming over USB are serial with a provisioning and are in
`Control`. `stopped` is history.

### Fleet

`Pass` is the beginning of an iteration of the worker, with the snapshot and a check that
was asked for; `Start` and `Claim` are the two looks at the gates; `Poll`, `Refresh`,
`Fetch` begin a step of the client and `RefreshReply`, `FetchReply`, `Unauthorized` end
one; `Finish` reports the outcome to the scheduler. Every time (next poll, embargo, manual
delay, access token) is what is left of it and counts down in `Elapse`, which happens
while the worker sleeps or waits for a reply. `control.moved` says that a command changed
the generation since the worker's snapshot, `control.gated` that an upload or a
provisioning is on. Of an error the scheduler tells apart whether it pauses, and Billing
and Budget; `Denied` stands for Permission, Authentication and Redirect, `Transient` for
the rest. What Budget and Tokens decide is an outcome of `Poll` and `Send`. `Ask` may come
at any moment, which is more than the guards of check_now allow. In `net` an SNTP
callback is two steps, because it reads `wifi_connected` and stores `utc_synced` later; so
is GOT_IP. *Assumption:* an address (DHCP, seconds) does not come in the middle of an SNTP
callback that was already running, which takes microseconds.

### Login

`Refuse`, `Accept` and `NoTask` are the outcomes of a login request past the throttle;
`Verify`, `Migrate`, `Announce`, `Publish` are the task that checks one password; `Finish`
runs in the HTTP task when the server serves its queue. `record` has the version of the
password record in flash, in the profile that the server works with, and the one that
`auth_mode` announces. The task that checks and the HTTP task overlap in every order; each
call of the server, of flash and of the mutex may fail.

## 3. Runs

Deadlock is checked where the model cannot stop. The bounds on time, epochs and tokens
stop the others (`CHECK_DEADLOCK FALSE`), and in `Fleet` a fault and in `Login` a clock at
zero leave only stuttering steps. `Budget` needs none and is checked for deadlock.

| Run | Question | Instance |
|---|---|---|
| `policy` | Evidence, leases, ordering and the OFF dwell | lease 2, sleep 3, age 1, future 1, dwell 2, override 1, `MaxTime` 4, `MaxUtc` 4, `MaxGeneration` 2 |
| `control_tasks` | Two writers, the storage worker, the control task, uploads, provisioning, lock timeouts and power loss | web and USB, one position, `MaxEpoch` 3 |
| `control_faults` | Failed writes and GPIO, changes of settings and restarts | web, two positions (symmetric), `MaxEpoch` 4 |
| `control_live` | Commands end, inhibits lift, HOME heats | web, one position, `MaxEpoch` 2 |
| `control_fault` | finding: a fault without a failure | web, `MaxEpoch` 3 |
| `tokens` | Resets, lost replies, failed writes, provisioning | `Attempts` 3, `Window` 2, five times, `MaxToken` 6 |
| `firmware` | An upload against OFF, aborts, faults and the other tasks | one image of two chunks, `MaxUploads` 2, `MaxGen` 2, lifetime 3, idle 2 |
| `firmware_boot` | Self-test, fallback and the end of every session, with power loss and TIMED ON | an image of one chunk, `MaxUploads` 1, `MaxGen` 1, `Healthy` 1, `BootLimit` 1 |
| `budget` | Resets, failed writes, dates, caps | three days of two months, two pairs of caps, `MonthlyData` 3, `Chunk` 2 |
| `provision` | A replacement against commands, commits, a migration, the Tesla worker, failures and power loss | one installation present, one brought by USB; no bound |
| `fleet` | Embargoes, pauses, superseded polls, the clock, and that polling resumes | every period 1 tick, `Retry-After` 2, one failure counted; no bound |
| `login` | The throttle, the migration and the slot, with every call failing | delays 2, 4, 6, a session of 4 ticks, three failures counted; no bound |

What they show:

- **policy.** `DeadlinesAnchored`, `FreshHomeIsRecent`, `HomeIsNewerThanAway`,
  `EndedLeaseNeedsLocation` and `DwellRespected`: HOME is dated by the acquisition of its
  location whatever replays, asleep replies and clock jumps follow; samples count in
  order; the output rests for a whole dwell on every path.
- **control_tasks.** `OffStaysOff`: after OFF no configuration, command or decision in
  flight turns the output on. `RunningIsPersisted`: what runs is what is in flash.
  `TypeOK` has the epoch's range, zero excluded.
- **control_faults.** `OffIsDurable`: once OFF is acknowledged no restart restores the
  permission, with every write allowed to fail. `HomeBoundToItsSettings` and `CommitGate`:
  HOME in flash is the judgement of its very settings, and AUTO heats only while it is there.
- **control_live.** `CommandsEnd`, `InhibitIsTemporary`, `HomeHeats`.
- **tokens.** `SentIsJournaled`, `AttemptsBounded`, `RetriesInWindow`, `TokenUsable`.
- **budget.** `CallsReserved`, `WithinCaps`.
- **firmware**, **firmware_boot.** `UpdateIsExclusive`: from the first chunk to the
  restart, and during a self-test, the output is off, no Fleet operation runs and nobody
  provisions. `SlotIsTheUpload`, `SelectedIsWhole`: whatever requests are repeated, late
  or of another upload, the slot holds the accepted chunks in order, and only a complete
  image is selected. `GateOpensClean`, `CancelledNeverRestarts`: a failed session leaves
  nothing behind, and an interrupted one is not installed. `FallbackKept`: the image to
  fall back to stays until the new one is confirmed. `GateReopens`: an upload or a
  self-test ends, or reports a fault, unless power fails again and again.

- **provision.** `WholeRecords`: what a start would use is of one installation.
  `NoRevival`, `StaysStopped`: what was stopped for a replacement is not turned on again by
  anything in flight, a failure or a restart. `MigrationSticks`: no copy of an old record
  is written back. `Installs`: the refinement, with its liveness: every request ends.
- **fleet.** `AtMostOneLate`: of a superseded poll (up to five requests) at most one more
  starts: the code asks before each request, but accounting, a flash write and the look at
  the clock lie between that and the first byte. `RequestsWait`: no request while a
  Retry-After that the client took or a permanent error stands, whichever of poll, refresh, manual check and
  month comes next. `ClockIsFresh`: evidence is judged only by a clock that was set since Wi-Fi
  connected. `Resumes`: no error, discarded reply or superseded operation leaves the
  scheduler stuck.
- **login.** `GuessesWait`, `KindFits`, `SlotReturns`.

Why the bounds are enough. `provision`, `fleet` and `login` are not cut off by a bound on
the number of steps: their states repeat. One installation that is there and one that USB
brings are all that the records can mix at a time, and the theorems have any number; one
tick for the periods of the scheduler and two for a Retry-After order every pair of
deadlines both ways; the delays of a login still grow, reach their longest and outlast a
session. An epoch is consumed by every command and power loss, so
three of them are OFF, AUTO and a power loss in any order, with any interleaving of
the tasks; the fourth of `control_faults` admits settings changed twice around a
restart. `control_live` needs one command after the boot. In `policy` the lease, the
ceiling and the dwell all begin, end and overlap within `MaxTime`; two generations
separate observations of the old configuration from the new. In `tokens` three
attempts are one more than the first retry, the window lies inside the times, and
six tokens let provisioning and lost exchanges alternate. In `budget` the caps are
not multiples of the chunk, and the data cap lies between the monthly caps. The
theorems below remove these bounds for every safety property of the passing runs: what
they leave to the runs is liveness, and the finding. In `firmware` an image of two chunks has a first and a last one, and in
`firmware_boot` a chunk may be too long for the image; the second upload is the one that late requests and an undone first upload
can disturb; the second generation is the command that interrupts (`firmware` has it,
`firmware_boot`, which is about restarts and time, does not). Healthy, BootLimit, Delay and
Idle of one or two ticks let every deadline pass before or after every step.
The type invariants of `Policy`, `Tokens` and `Budget` are proved below and not run again.

### Fairness

`control_live` uses `FairSpec`. FreeRTOS runs every ready task, so each step of the
control loop, of a writer that holds the mutex, of the storage worker and of setup is
weakly fair. Waiting for `config_mutex` is strongly fair: FreeRTOS hands a mutex to its
waiters by priority and then in turn, and these tasks share one priority. `Decide` with
the dwell over is strongly fair because dwell time passes. Clients, vehicles, failures
and power losses are under no obligation. Failures and timeouts are off in that run:
with them a fault legitimately ends all progress.

`firmware_boot` makes a step of the update worker and the passing of time weakly fair: the
worker is a task of its own that sleeps 50 ms per iteration, and its program is sequential,
so that at most one of its steps is enabled. The client, the other tasks and the Fleet
worker owe nothing: a Fleet operation that never ends is ended by the deadline of the session.

`provision`: a step of the USB task, of the web command in flight, of whoever holds or waits
for the mutex and of setup is weakly fair: these are tasks that FreeRTOS runs, whose waits
are bounded (5 s for the mutex, 30 s for the Tesla worker), so a step is enabled until it
is taken: a wait that lasts ends with its timeout. Requests, power losses, the Tesla and
the control task owe nothing. `fleet`: a step of the worker (its requests end after 20 s)
and the passing of time. `login`: the check that runs and the server's queue.

### Findings

1. `control_fault` (`FaultMeansFailure`): the storage worker can raise the latched
   fault `auto_state_write` when nothing failed. Its first snapshot is taken while an
   AUTO command is in flight, and the second one after the new configuration was
   applied; the comparison at `storage.cpp:62` then finds another configuration and
   reports a storage error. The output stays off until a restart.

Observations that are no runs:

- `docs/architecture.md:45` says that a writer superseded by OFF persists DISABLED before it
  releases its lock. An OFF after the check at `storage.cpp:221` leaves that to the OFF's own
  writer; nothing acknowledged is lost (`OffIsDurable` holds).
- The update worker may end a session that has just begun as `upload_aborted`: it looks before
  `ota_begin` and takes the gate that it finds closed afterwards for that of an aborted session
  (`ota.cpp:129`). Nothing unsafe follows; the client has to begin again.
- `docs/ota.md` wants TIMED ON cancelled before an upload, but one that was accepted within the
  last tick is not seen (`ota.cpp:162`); the output is off all the same (`UpdateIsExclusive`).
- A reply that arrives after OFF or a change of settings is discarded with its Retry-After and its
  pause (`client.cpp:95` returns before `:97`): only the back-off of a minute then applies.
  `docs/autonomy_readiness.md:36` has no such exception. `RequestsWait` speaks of the
  replies that the client took. Embargo and pause live in RAM and end with a restart.
- A wrong password whose result cannot be queued (`management.cpp:163`) is not counted as a
  failure; the fault that this raises is latched.

## 4. Proofs

`ASSUME`s are the named assumptions of each module: the ranges that `valid_config`
enforces, nothing about sizes; `ControlAssumption` also keeps the names of the tasks apart.

- **PolicyProofs.** `IInv` joins the types, `Sound` (the authority against the history
  of its evidence), `Resting` (the class's dwell against the published decisions) and two
  properties of decisions. The last two are needed because a decision outlives the
  authority that it was computed from; `Resting` because configure, off and tick start the
  dwell in the class, while the property speaks of published decisions. All seven
  properties of the run follow.
- **TokensProofs.** `IInv` adds to the properties that RAM mirrors flash until a write
  fails (`Mirror`), and what holds between the intent and the request (`Intent`): the
  journal has room for one more request, and what `cancel_unsent` would restore still
  accounts for the earlier ones. Without the latter, `SentIsJournaled` is not
  inductive. All five properties follow, for every bound, window and clock.
- **BudgetProofs.** `IInv` adds `Mirror` and `Backed`: on the record's date, the calls
  made plus the credit left are within the counters in flash. The lemmas about totals,
  dates and room carry the arithmetic. All three properties follow, for every caps,
  calendar and chunk.

- **ControlProofs.** For any places, writers, failures, timeouts and number of
  generations. Parts that build on one another, each with a lemma per component of `Next`:
  - `Types`: the variables are typed and no task holds a generation from the future.
  - `Core`: exclusion under `config_mutex`; at most one writer carries out the latest
    command; a writer past a step has in hand what it has written (`Copies`); nothing is
    handed over or runs while one is under way (`Running`). Gives `RunningPersisted`.
  - `Offs`: while an OFF stands no task has an enabled configuration, or can get one, in the
    current generation, and once it is acknowledged flash and all who write it keep it.
    Gives `OffKeptOff` and `OffDurable`. `OffStaysOff` alone is not inductive: what breaks
    it is a command in flight in any of five tasks, so each has its conjunct.
  - `Judged`: the published, the decided and the stored decision and the copy in the
    storage worker all go with the settings that they were judged under. Gives `HomeBound`.
  - `Sound`, `Booting` (nobody touches the record between its recovery and its
    publication), `StaleWrite` (a commit of an old generation ends before a configuration
    can be handed over), `Gate` (what is decided is what is published, or follows a commit;
    what counts as saved is in flash and no request in flight removes it). Gives
    `CommitGated`, under the hypothesis `SpacedEvidence`, which it needs: see `Control`.
- **FleetProofs.** For any periods, jitter, ceiling and Retry-After, and up to seven counted
  failures. `LateOnce`: after a superseding command the worker is in one of the three places
  from which no second request follows. `Hushed`: what is left of an embargo is covered by
  the next poll, the embargo of the scheduler and that of the refresh at once, and while the
  outcome travels to the scheduler by the reply in hand. `Latched`: a permanent error holds
  also against a check that was asked for before it. `Fresh`: a callback that has passed its
  look at Wi-Fi still stores a fresh clock. `FleetAssumption` has `MaxFailures` in 1..7, the
  cap of the code's shift, because the prover computes 2^f for given f only. The run's
  instances keep to it.
- **FirmwareProofs.** `Inv` adds to the types `GateHeld` (whoever is in the middle of an
  update holds `firmware_busy`, and a self-test excludes a session), `LeftOver` (what the
  worker has still to undo when it ends a session) and `Silenced` (in `prepare`
  nobody provisions any more, in `quiet` the output is off, in `ready` no Fleet operation
  runs: without these stages `UpdateIsExclusive` is not inductive). `TypeOK`,
  `UpdateIsExclusive` and `GateOpensClean` follow. `Image` is what the slot holds:
  `Staged` (only the worker takes a session out of the state that its step works on, or it
  fails), `Counted` (counters, buffer and handle belong together), `Filled` (what is in
  flash at each step: between the write and its count a chunk more than is counted),
  `Chosen` (once an image is selected nothing is written and no session begins) and `Marked`
  (an interruption leaves a fault or an older generation behind, which is what the last
  check sees). `UploadInSlot`, `WholeSelected`, `NeverRestarts` and `KeptFallback` follow,
  for every size, deadline and bound; `HoldsMore` is the lemma about appending a chunk.
- **ProvisionProofs.** `IInv` is mutual exclusion and what it protects. `Exclusion`: who is
  between taking the mutex and giving it back is its holder. `Copies`: the copy that a
  holder works on has the owner and the version of the record in flash, which is why
  saving it neither mixes installations nor undoes a migration. `Progress`: how far the
  five writes have come. `Chain`: whoever may still store a rotated token holds the
  one in flash, and nobody does while a token is replaced; the proof of `Exclude` is where
  the two looks of the Tesla worker are needed. `Stop` and `Revival` carry the OFF that a
  replacement begins with. The steps of a command go through three lemmas: it ends
  (`Ending`), its holder moves on (`Advance`), it moves without the mutex (`Onward`).
  `RecordsWhole`, `RevivedNever`, `StoppedStays` and `MigrationKept` follow, and
  `Implements`: initial states map to initial states of `Install` and every step to a step
  or a stutter (lemma `Effect` sorts the steps), for any sets of installations.
- **LoginProofs.** `Inv` adds whose step it is while the slot is taken (`Held`) and which
  versions of the record can meet at each step of the check (`Versions`). `WaitingGuesses`
  and `FittingKind` follow for every delay, lifetime and number of failures.

The invariants were checked with TLC on the instances of the runs before they were proved.
Every invariant and every safety action property of a passing run is a theorem. Only
model-checked is liveness (`CommandsEnd`, `InhibitIsTemporary`, `HomeHeats`, `GateReopens`,
`Resumes`, `SlotReturns` and the liveness that `Installs` implies: fairness and ENABLED are
beyond TLAPS), and the finding is a run. No module uses a recursive operator.

## 5. Not modelled, and why

Parsing, TLS, HTTP framing and cryptography are pure or external; their outcomes are inputs:
the HTTP decoder and the JSON and vehicle parsers are byte machines for unit and fuzz tests.
`valid_config` and the great-circle distance are a flag and a zone. Physical timing
(the 250 ms deadline, the watchdog) is one local fault. Corrupted flash records stop the
boot in the code; `Provision` has the unreadable profile, the others leave it out. The queue
of eight observations (`app.cpp:100`) is left out: the worker sends one at a time and the
control task takes eight per 50 ms. `network_status`, diagnostics, the event log and the
browser show state and decide nothing. Cookies, CSRF values and origins are compared, no
more. The laptop tools and the bench image are separate programs.

## 6. Plan

1. An abstract switch (an OFF opens it, only a commit of AUTO that came after closes it)
   that `Control` implements, with `OffHolds` and `Gate` as what its steps rest on.
2. An abstract update (an image is installed whole and uninterrupted, or not at all) that
   `Firmware` implements, from `Image`.
3. The dwell of `Policy` composed with the final gate of `Control` (`app.cpp:214`).
