--------------------------- MODULE FirmwareProofs ---------------------------
(***************************************************************************)
(* Proofs about Firmware, for all sizes, deadlines and bounds: Inv is about *)
(* who holds the gate and what the worker has to undo, Image about what the *)
(* slot holds at each step and what an interruption leaves behind.          *)
(***************************************************************************)
EXTENDS Firmware, TLAPS

Flash == [spare : Seq(Chunks), whole : BOOLEAN, boots : {"running", "spare"},
          confirmed : BOOLEAN]

\* Who holds the gate: a session, a self-test, or the worker that ends a session.
GateHeld ==
    /\ Active \/ boot.pending => busy
    /\ web.op = "begin" => ~busy /\ transfer.id < MaxUploads
    /\ boot.pending => ~Active /\ worker.pc \in {"top", "look", "sweep"}
    /\ worker.pc \notin {"top", "look", "sweep"} => busy
    /\ worker.pc = "release" => transfer.state = "Failed"

\* What the worker still has to undo.
LeftOver ==
    /\ worker.open \/ worker.selected => busy /\ ~boot.pending
    /\ worker.pc \in {"failed", "release"} => ~worker.open /\ ~worker.selected
    /\ flash.boots = "spare" => worker.selected \/ fault

\* The others fall silent one after the other while the worker prepares.
Silenced ==
    /\ worker.pc \in {"prepare", "quiet", "ready"} \/ Transferring \/ boot.pending => ~provisioning
    /\ worker.pc \in {"quiet", "ready"} \/ Transferring \/ boot.pending => ~control.commanded
    /\ worker.pc = "ready" \/ Transferring \/ boot.pending => fleet # "request"

Inv == TypeOK /\ GateHeld /\ LeftOver /\ Silenced

\* Bounds that the types below are made of.
LEMMA Zeros ==
    /\ 0 \in 0 .. MaxGen /\ 0 \in 0 .. MaxChunk /\ 0 \in 0 .. Idle /\ 0 \in 0 .. Lifetime
    /\ 0 \in 0 .. Delay /\ 1 .. MaxGen \subseteq 0 .. MaxGen
    /\ Sizes \cup {0} \subseteq Nat /\ 0 .. MaxChunk \subseteq Nat
BY FirmwareAssumption

LEMMA EmptySpare == <<>> \in Seq(Chunks)
OBVIOUS

\* The sizes of a session are numbers.
LEMMA Nats ==
    ASSUME TypeSession
    PROVE  transfer.received \in Nat /\ transfer.total \in Nat /\ transfer.queued \in Nat
BY Zeros DEF TypeSession

\* FirmwareUpdate::fail leaves a session.
LEMMA FailTyped ==
    ASSUME TypeSession, FailSession, UNCHANGED web
    PROVE  TypeSession'
<1>1. transfer'.received + transfer'.queued <= transfer'.total
  BY Nats DEF FailSession, TypeSession
<1> QED
  BY <1>1, Zeros DEF FailSession, TypeSession

\* The worker goes on, or an iteration ends (Go).
LEMMA GoTyped ==
    ASSUME TypeWorker, NEW pc \in Pcs, Go(pc)
    PROVE  /\ TypeWorker' /\ worker'.pc = pc
           /\ worker'.open = worker.open /\ worker'.selected = worker.selected
BY Zeros DEF TypeWorker, Go

\* A restart leaves nothing of the session, whichever image boots (Start).
LEMMA StartInv ==
    ASSUME NEW p \in BOOLEAN, NEW next \in Flash, next.boots = "running", Start(p, next)
    PROVE  Inv'
<1>1. TypeOK'
  <2>1. TypeTasks'
    <3>1. /\ control' \in [gen : 1 .. MaxGen, inhibited : BOOLEAN, commanded : BOOLEAN,
                           timed : BOOLEAN, asked : BOOLEAN]
          /\ fleet' \in {"idle", "due", "claimed", "request"}
      BY FirmwareAssumption DEF Start
    <3>2. fault' \in BOOLEAN /\ provisioning' \in BOOLEAN /\ busy' \in BOOLEAN /\ cancelled' \in BOOLEAN
      BY Zenon DEF Start
    <3> QED
      BY <3>1, <3>2 DEF TypeTasks
  <2>2. TypeSession'
    BY FirmwareAssumption DEF Start, TypeSession, NoTransfer, NoRequest
  <2>3. TypeWorker' /\ TypeBoot'
    BY FirmwareAssumption DEF Start, TypeWorker, TypeBoot, Pcs
  <2>4. TypeFlash'
    BY FirmwareAssumption DEF Start, TypeFlash, NoChunk, Chunks, Flash
  <2> QED
    BY <2>1, <2>2, <2>3, <2>4 DEF TypeOK
<1>2. GateHeld' /\ LeftOver' /\ Silenced'
  BY DEF Start, GateHeld, LeftOver, Silenced, NoTransfer, NoRequest, Active, ActiveStates,
         Transferring, Flash
<1> QED
  BY <1>1, <1>2 DEF Inv

\* What the bootloader may pick (Boot).
LEMMA BootInv ==
    ASSUME TypeOK, Boot
    PROVE  Inv'
<1>1. <<>> \in Seq(Chunks)
  OBVIOUS
<1>2. CASE flash.boots = "spare"
  BY <1>1, <1>2, StartInv DEF Boot, Swapped, Flash
<1>3. CASE flash.boots = "running" /\ GivesUp
  BY <1>1, <1>3, StartInv DEF Boot, Swapped, Flash
<1>4. CASE flash.boots = "running" /\ ~GivesUp
  BY <1>4, StartInv DEF Boot, Flash, TypeOK, TypeFlash
<1> QED
  BY <1>2, <1>3, <1>4 DEF TypeOK, TypeFlash

\* The other tasks respect the gate (the commands, the control task, tesla.cpp).
LEMMA TasksInv ==
    ASSUME Inv, Tasks
    PROVE  Inv'
<1> USE DEF Inv, TypeOK
<1>1. CASE Off
  <2>1. TypeTasks'
    <3>1. control.gen + 1 \in 1 .. MaxGen
      BY <1>1, FirmwareAssumption DEF TypeTasks, Off
    <3>2. control' \in [gen : 1 .. MaxGen, inhibited : BOOLEAN, commanded : BOOLEAN,
                       timed : BOOLEAN, asked : BOOLEAN]
      BY <1>1, <3>1 DEF TypeTasks, Off, Inhibit
    <3>3. /\ fault' \in BOOLEAN /\ provisioning' \in BOOLEAN /\ busy' \in BOOLEAN
          /\ cancelled' \in BOOLEAN
      BY <1>1, Zenon DEF TypeTasks, Off, Interrupt
    <3>4. fleet' \in {"idle", "due", "claimed", "request"}
      BY <1>1 DEF TypeTasks, Off
    <3> QED
      BY <3>2, <3>3, <3>4 DEF TypeTasks
  <2>2. TypeSession' /\ TypeWorker' /\ TypeBoot' /\ TypeFlash'
    BY <1>1 DEF Off, TypeSession, TypeWorker, TypeBoot, TypeFlash
  <2>3. GateHeld'
    BY <1>1 DEF Off, Inhibit, Interrupt, TypeSession, TypeWorker, TypeBoot, GateHeld, Active,
        ActiveStates
  <2>4. LeftOver'
    BY <1>1 DEF Off, Inhibit, Interrupt, TypeWorker, TypeBoot, TypeFlash, GateHeld, LeftOver,
        Active, ActiveStates
  <2>5. Silenced'
    BY <1>1 DEF Off, Inhibit, Interrupt, TypeTasks, TypeSession, TypeWorker, TypeBoot, GateHeld,
        Silenced, Transferring, Active, ActiveStates
  <2> QED
    BY <2>1, <2>2, <2>3, <2>4, <2>5
<1>2. CASE Provision
  <2>1. TypeTasks'
    <3>1. control.gen + 1 \in 1 .. MaxGen
      BY <1>2, FirmwareAssumption DEF TypeTasks, Provision
    <3>2. control' \in [gen : 1 .. MaxGen, inhibited : BOOLEAN, commanded : BOOLEAN,
                       timed : BOOLEAN, asked : BOOLEAN]
      BY <1>2, <3>1 DEF TypeTasks, Provision, Inhibit
    <3>3. /\ fault' \in BOOLEAN /\ provisioning' \in BOOLEAN /\ busy' \in BOOLEAN
          /\ cancelled' \in BOOLEAN
      BY <1>2, Zenon DEF TypeTasks, Provision, Interrupt
    <3>4. fleet' \in {"idle", "due", "claimed", "request"}
      BY <1>2 DEF TypeTasks, Provision
    <3> QED
      BY <3>2, <3>3, <3>4 DEF TypeTasks
  <2>2. TypeSession' /\ TypeWorker' /\ TypeBoot' /\ TypeFlash'
    BY <1>2 DEF Provision, TypeSession, TypeWorker, TypeBoot, TypeFlash
  <2>3. GateHeld'
    BY <1>2 DEF Provision, Inhibit, Interrupt, TypeSession, TypeWorker, TypeBoot, GateHeld,
        Active, ActiveStates
  <2>4. LeftOver'
    BY <1>2 DEF Provision, Inhibit, Interrupt, TypeWorker, TypeBoot, TypeFlash, GateHeld,
        LeftOver, Active, ActiveStates
  <2>5. Silenced'
    BY <1>2 DEF Provision, Inhibit, Interrupt, TypeTasks, TypeSession, TypeWorker, TypeBoot,
        GateHeld, Silenced, Transferring, Active, ActiveStates
  <2> QED
    BY <2>1, <2>2, <2>3, <2>4, <2>5
<1>3. CASE TimedOn
  <2>1. TypeTasks'
    BY <1>3 DEF TimedOn, TypeTasks
  <2>2. TypeSession' /\ TypeWorker' /\ TypeBoot' /\ TypeFlash'
    BY <1>3 DEF TimedOn, TypeSession, TypeWorker, TypeBoot, TypeFlash
  <2>3. GateHeld'
    BY <1>3 DEF TimedOn, TypeSession, TypeWorker, TypeBoot, GateHeld, Active, ActiveStates
  <2>4. LeftOver'
    BY <1>3 DEF TimedOn, TypeWorker, TypeBoot, TypeFlash, GateHeld, LeftOver, Active,
        ActiveStates
  <2>5. Silenced'
    BY <1>3 DEF TimedOn, TypeTasks, TypeSession, TypeWorker, TypeBoot, GateHeld, Silenced,
        Transferring, Active, ActiveStates
  <2> QED
    BY <2>1, <2>2, <2>3, <2>4, <2>5
<1>4. CASE Apply
  <2>1. TypeTasks'
    BY <1>4 DEF Apply, TypeTasks
  <2>2. TypeSession' /\ TypeWorker' /\ TypeBoot' /\ TypeFlash'
    BY <1>4 DEF Apply, TypeSession, TypeWorker, TypeBoot, TypeFlash
  <2>3. GateHeld'
    BY <1>4 DEF Apply, TypeSession, TypeWorker, TypeBoot, GateHeld, Active, ActiveStates
  <2>4. LeftOver'
    BY <1>4 DEF Apply, TypeWorker, TypeBoot, TypeFlash, GateHeld, LeftOver, Active, ActiveStates
  <2>5. Silenced'
    BY <1>4 DEF Apply, TypeTasks, TypeSession, TypeWorker, TypeBoot, GateHeld, Silenced,
        Transferring, Active, ActiveStates
  <2> QED
    BY <2>1, <2>2, <2>3, <2>4, <2>5
<1>5. CASE Fleet
  <2>1. TypeTasks'
    BY <1>5 DEF Fleet, FleetStep, TypeTasks
  <2>2. TypeSession' /\ TypeWorker' /\ TypeBoot' /\ TypeFlash'
    BY <1>5 DEF Fleet, TypeSession, TypeWorker, TypeBoot, TypeFlash
  <2>3. GateHeld'
    BY <1>5 DEF Fleet, FleetStep, TypeSession, TypeWorker, TypeBoot, GateHeld, Active,
        ActiveStates
  <2>4. LeftOver'
    BY <1>5 DEF Fleet, FleetStep, TypeWorker, TypeBoot, TypeFlash, GateHeld, LeftOver, Active,
        ActiveStates
  <2>5. Silenced'
    BY <1>5 DEF Fleet, FleetStep, TypeTasks, TypeSession, TypeWorker, TypeBoot, GateHeld,
        Silenced, Transferring, Active, ActiveStates
  <2> QED
    BY <2>1, <2>2, <2>3, <2>4, <2>5
<1>6. CASE SetupDone
  <2>1. TypeBoot'
    BY <1>6, FirmwareAssumption DEF SetupDone, TypeBoot
  <2>2. TypeTasks' /\ TypeSession' /\ TypeWorker' /\ TypeFlash'
    BY <1>6 DEF SetupDone, TypeTasks, TypeSession, TypeWorker, TypeFlash
  <2>3. GateHeld'
    BY <1>6 DEF SetupDone, TypeSession, TypeWorker, TypeBoot, GateHeld, Active, ActiveStates
  <2>4. LeftOver'
    BY <1>6 DEF SetupDone, TypeWorker, TypeBoot, TypeFlash, GateHeld, LeftOver, Active,
        ActiveStates
  <2>5. Silenced'
    BY <1>6 DEF SetupDone, TypeTasks, TypeSession, TypeWorker, TypeBoot, GateHeld, Silenced,
        Transferring, Active, ActiveStates
  <2> QED
    BY <2>1, <2>2, <2>3, <2>4, <2>5
<1>7. CASE LocalFault
  <2>1. TypeTasks'
    BY <1>7 DEF LocalFault, Interrupt, TypeTasks
  <2>2. TypeBoot'
    BY <1>7, FirmwareAssumption DEF LocalFault, Interrupt, TypeBoot
  <2>3. TypeSession' /\ TypeWorker' /\ TypeFlash'
    BY <1>7 DEF LocalFault, TypeSession, TypeWorker, TypeFlash
  <2>4. GateHeld'
    BY <1>7 DEF LocalFault, Interrupt, TypeSession, TypeWorker, TypeBoot, GateHeld, Active,
        ActiveStates
  <2>5. LeftOver'
    BY <1>7 DEF LocalFault, Interrupt, TypeWorker, TypeBoot, TypeFlash, GateHeld, LeftOver,
        Active, ActiveStates
  <2>6. Silenced'
    BY <1>7 DEF LocalFault, Interrupt, TypeTasks, TypeSession, TypeWorker, TypeBoot, GateHeld,
        Silenced, Transferring, Active, ActiveStates
  <2> QED
    BY <2>1, <2>2, <2>3, <2>4, <2>5, <2>6
<1>8. CASE Elapse
  <2>1. TypeSession'
    <3>1. /\ Least(transfer.age + 1, Lifetime) \in 0 .. Lifetime
          /\ Least(transfer.idle + 1, Idle) \in 0 .. Idle
      BY FirmwareAssumption DEF TypeSession, Least
    <3> QED
      BY <1>8, <3>1 DEF TypeSession, Elapse
  <2>2. TypeWorker'
    <3>1. Least(worker.wait + 1, Delay) \in 0 .. Delay
      BY FirmwareAssumption DEF TypeWorker, Least
    <3> QED
      BY <1>8, <3>1 DEF TypeWorker, Elapse
  <2>3. TypeBoot'
    <3>1. Least(boot.age + 1, BootLimit + 1) \in 0 .. BootLimit + 1
      BY FirmwareAssumption DEF TypeBoot, Least
    <3>2. (IF boot.accepted < 0 THEN boot.accepted ELSE Least(boot.accepted + 1, Healthy))
               \in -1 .. Healthy
      BY FirmwareAssumption DEF TypeBoot, Least
    <3> QED
      BY <1>8, <3>1, <3>2 DEF TypeBoot, Elapse
  <2>4. TypeTasks' /\ TypeFlash'
    BY <1>8 DEF Elapse, TypeTasks, TypeFlash
  <2>5. GateHeld'
    BY <1>8 DEF Elapse, Least, TypeSession, TypeWorker, TypeBoot, GateHeld, Active, ActiveStates
  <2>6. LeftOver'
    BY <1>8 DEF Elapse, Least, TypeWorker, TypeBoot, TypeFlash, GateHeld, LeftOver, Active,
        ActiveStates
  <2>7. Silenced'
    BY <1>8 DEF Elapse, Least, TypeTasks, TypeSession, TypeWorker, TypeBoot, GateHeld, Silenced,
        Transferring, Active, ActiveStates
  <2> QED
    BY <2>1, <2>2, <2>3, <2>4, <2>5, <2>6, <2>7
<1>9. ASSUME NEW on \in BOOLEAN, NEW timed \in BOOLEAN, Command(on, timed)
     PROVE  Inv'
  <2>1. TypeTasks'
    BY <1>9 DEF Command, OutputAllowed, TypeTasks
  <2>2. TypeSession' /\ TypeWorker' /\ TypeBoot' /\ TypeFlash'
    BY <1>9 DEF Command, TypeSession, TypeWorker, TypeBoot, TypeFlash
  <2>3. GateHeld'
    BY <1>9 DEF Command, OutputAllowed, TypeSession, TypeWorker, TypeBoot, GateHeld, Active,
        ActiveStates
  <2>4. LeftOver'
    BY <1>9 DEF Command, OutputAllowed, TypeWorker, TypeBoot, TypeFlash, GateHeld, LeftOver,
        Active, ActiveStates
  <2>5. Silenced'
    BY <1>9 DEF Command, OutputAllowed, TypeTasks, TypeSession, TypeWorker, TypeBoot, GateHeld,
        Silenced, Transferring, Active, ActiveStates
  <2> QED
    BY <2>1, <2>2, <2>3, <2>4, <2>5
<1> QED
  BY <1>1, <1>2, <1>3, <1>4, <1>5, <1>6, <1>7, <1>8, <1>9 DEF Tasks

\* The handlers of the HTTPS task respect it too, from whatever snapshot they start.
LEMMA RequestsInv ==
    ASSUME Inv, Requests
    PROVE  Inv'
<1> USE DEF Inv, TypeOK
<1>1. ASSUME NEW op \in {"begin", "request"}, Ask(op)
     PROVE  Inv'
  <2>1. TypeSession'
    BY <1>1, Zeros DEF Ask, MayBegin, TypeSession, TypeTasks
  <2>2. TypeTasks' /\ TypeWorker' /\ TypeBoot' /\ TypeFlash'
    BY <1>1 DEF Ask, TypeTasks, TypeWorker, TypeBoot, TypeFlash
  <2>3. GateHeld'
    BY <1>1 DEF Ask, MayBegin, TypeSession, TypeWorker, TypeBoot, GateHeld, Active, ActiveStates
  <2>4. LeftOver'
    BY <1>1 DEF Ask, MayBegin, TypeWorker, TypeBoot, TypeFlash, GateHeld, LeftOver, Active,
        ActiveStates
  <2>5. Silenced'
    BY <1>1 DEF Ask, MayBegin, TypeTasks, TypeSession, TypeWorker, TypeBoot, GateHeld, Silenced,
        Transferring, Active, ActiveStates
  <2> QED
    BY <2>1, <2>2, <2>3, <2>4, <2>5
<1>2. ASSUME NEW total \in Sizes, Begin(total)
     PROVE  Inv'
  <2>1. TypeTasks'
    BY <1>2 DEF Begin, Started, NoTransfer, NoRequest, TypeTasks
  <2>2. TypeSession'
    <3>1. CASE Active
      BY <1>2, <3>1, Zeros DEF TypeSession, Begin, NoRequest
    <3>2. CASE ~Active
      <4>1. transfer'.received = 0 /\ transfer'.queued = 0 /\ transfer'.total = total
        BY <1>2, <3>2 DEF Begin, Started, NoTransfer
      <4>2. transfer.id + 1 \in 0 .. MaxUploads
        BY <1>2, FirmwareAssumption DEF TypeSession, Begin, GateHeld
      <4>3. transfer'.received + transfer'.queued <= transfer'.total
        BY <4>1, Zeros
      <4> QED
        BY <1>2, <3>2, <4>2, <4>3, Zeros
        DEF TypeSession, Begin, NoRequest, Started, NoTransfer, ActiveStates
    <3> QED
      BY <3>1, <3>2
  <2>3. TypeWorker' /\ TypeBoot' /\ TypeFlash'
    BY <1>2 DEF Begin, TypeWorker, TypeBoot, TypeFlash
  <2>4. GateHeld'
    BY <1>2 DEF Begin, Started, NoTransfer, NoRequest, TypeSession, TypeWorker, TypeBoot,
        GateHeld, Active, ActiveStates
  <2>5. LeftOver'
    BY <1>2 DEF Begin, Started, NoTransfer, NoRequest, TypeWorker, TypeBoot, TypeFlash,
        GateHeld, LeftOver, Active, ActiveStates
  <2>6. Silenced'
    BY <1>2 DEF Begin, Started, NoTransfer, NoRequest, TypeTasks, TypeSession, TypeWorker,
        TypeBoot, GateHeld, Silenced, Transferring, Active, ActiveStates
  <2> QED
    BY <2>1, <2>2, <2>3, <2>4, <2>5, <2>6
<1>3. ASSUME NEW total \in Sizes, NEW id \in 1 .. MaxUploads, NEW offset \in 0 .. total,
            NEW bytes \in 1 .. MaxChunk, Chunk(id, offset, bytes)
     PROVE  Inv'
  <2>1. TypeSession'
    <3>1. transfer.received + bytes <= transfer.total /\ bytes \in 0 .. MaxChunk
      BY <1>3, FirmwareAssumption, Nats DEF Chunk, Acceptable
    <3> QED
      BY <1>3, <3>1, Zeros DEF TypeSession, Chunk, NoRequest, ActiveStates
  <2>2. TypeFlash'
    BY <1>3, FirmwareAssumption DEF Chunk, Acceptable, Current, NoRequest, TypeFlash,
        Chunks, TypeSession
  <2>3. TypeTasks' /\ TypeWorker' /\ TypeBoot'
    BY <1>3 DEF Chunk, TypeTasks, TypeWorker, TypeBoot
  <2>4. GateHeld'
    BY <1>3 DEF Chunk, Acceptable, Current, NoRequest, TypeSession, TypeWorker, TypeBoot,
        GateHeld, Active, ActiveStates
  <2>5. LeftOver'
    BY <1>3 DEF Chunk, Acceptable, Current, NoRequest, TypeWorker, TypeBoot, TypeFlash,
        GateHeld, LeftOver, Active, ActiveStates
  <2>6. Silenced'
    BY <1>3 DEF Chunk, Acceptable, Current, NoRequest, TypeTasks, TypeSession, TypeWorker,
        TypeBoot, GateHeld, Silenced, Transferring, Active, ActiveStates
  <2> QED
    BY <2>1, <2>2, <2>3, <2>4, <2>5, <2>6
<1>4. ASSUME NEW id \in 1 .. MaxUploads, Finish(id)
     PROVE  Inv'
  <2>1. TypeSession'
    <3>1. transfer'.received + transfer'.queued <= transfer'.total
      BY <1>4 DEF Finish, TypeSession
    <3> QED
      BY <1>4, <3>1, Zeros DEF TypeSession, Finish, NoRequest, ActiveStates
  <2>2. TypeTasks' /\ TypeWorker' /\ TypeBoot' /\ TypeFlash'
    BY <1>4 DEF Finish, TypeTasks, TypeWorker, TypeBoot, TypeFlash
  <2>3. GateHeld'
    BY <1>4 DEF Finish, Finishable, Current, NoRequest, TypeSession, TypeWorker, TypeBoot,
        GateHeld, Active, ActiveStates
  <2>4. LeftOver'
    BY <1>4 DEF Finish, Finishable, Current, NoRequest, TypeWorker, TypeBoot, TypeFlash,
        GateHeld, LeftOver, Active, ActiveStates
  <2>5. Silenced'
    BY <1>4 DEF Finish, Finishable, Current, NoRequest, TypeTasks, TypeSession, TypeWorker,
        TypeBoot, GateHeld, Silenced, Transferring, Active, ActiveStates
  <2> QED
    BY <2>1, <2>2, <2>3, <2>4, <2>5
<1>5. ASSUME NEW id \in 1 .. MaxUploads, Abort(id)
     PROVE  Inv'
  <2>1. TypeTasks'
    BY <1>5 DEF Abort, FailSession, Interrupt, TypeTasks
  <2>2. TypeSession'
    BY <1>5, FailTyped DEF Abort
  <2>3. TypeWorker' /\ TypeBoot' /\ TypeFlash'
    BY <1>5 DEF Abort, TypeWorker, TypeBoot, TypeFlash
  <2>4. GateHeld'
    BY <1>5 DEF Abort, FailSession, Interrupt, TypeSession, TypeWorker, TypeBoot, GateHeld,
        Active, ActiveStates
  <2>5. LeftOver'
    BY <1>5 DEF Abort, FailSession, Interrupt, TypeWorker, TypeBoot, TypeFlash, GateHeld,
        LeftOver, Active, ActiveStates
  <2>6. Silenced'
    BY <1>5 DEF Abort, FailSession, Interrupt, TypeTasks, TypeSession, TypeWorker, TypeBoot,
        GateHeld, Silenced, Transferring, Active, ActiveStates
  <2> QED
    BY <2>1, <2>2, <2>3, <2>4, <2>5, <2>6
<1>6. CASE Refuse
  <2>1. TypeSession'
    BY <1>6, Zeros DEF Refuse, NoRequest, TypeSession
  <2>2. TypeTasks' /\ TypeWorker' /\ TypeBoot' /\ TypeFlash'
    BY <1>6 DEF Refuse, TypeTasks, TypeWorker, TypeBoot, TypeFlash
  <2>3. GateHeld'
    BY <1>6 DEF Refuse, NoRequest, TypeSession, TypeWorker, TypeBoot, GateHeld, Active,
        ActiveStates
  <2>4. LeftOver'
    BY <1>6 DEF Refuse, NoRequest, TypeWorker, TypeBoot, TypeFlash, GateHeld, LeftOver, Active,
        ActiveStates
  <2>5. Silenced'
    BY <1>6 DEF Refuse, NoRequest, TypeTasks, TypeSession, TypeWorker, TypeBoot, GateHeld,
        Silenced, Transferring, Active, ActiveStates
  <2> QED
    BY <2>1, <2>2, <2>3, <2>4, <2>5
<1> QED
  BY <1>1, <1>2, <1>3, <1>4, <1>5, <1>6 DEF Requests

\* The steps of the update worker (worker, failed and check_boot).
LEMMA WorkerInv ==
    ASSUME Inv, WorkerStep
    PROVE  Inv'
<1> USE DEF Inv, TypeOK
<1>1. CASE CheckBoot
  <2>1. CASE Doomed /\ flash.whole /\ Start(FALSE, Swapped(FALSE, TRUE))
    <3>1. Swapped(FALSE, TRUE) \in Flash /\ Swapped(FALSE, TRUE).boots = "running"
      BY EmptySpare DEF Swapped, Flash
    <3> QED
      BY <2>1, <3>1, StartInv
  <2>2. CASE ~(Doomed /\ flash.whole /\ Start(FALSE, Swapped(FALSE, TRUE)))
    <3>1. /\ Go("look") /\ worker.pc = "top" /\ boot.pending /\ (fault => fault')
          /\ UNCHANGED <<control, provisioning, fleet, transfer, buffer, web, cancelled>>
          /\ fault' \in {fault, TRUE} /\ busy' \in {busy, FALSE}
          /\ \/ boot'.pending /\ UNCHANGED <<busy, flash>>
             \/ ~boot'.pending /\ busy' = FALSE /\ flash' = [flash EXCEPT !.confirmed = TRUE]
      BY <1>1, <2>2 DEF CheckBoot, Rollback, TypeBoot
    <3>2. TypeTasks'
      BY <3>1, Zenon DEF TypeTasks
    <3>3. TypeSession'
      BY <3>1 DEF TypeSession
    <3>4. TypeWorker' /\ TypeFlash'
      BY <3>1, GoTyped DEF TypeWorker, TypeFlash, Pcs
    <3>5. TypeBoot'
      <4>1. 0 \in -1 .. Healthy
        BY FirmwareAssumption
      <4>2. \/ UNCHANGED boot
            \/ boot' = [boot EXCEPT !.checked = TRUE]
            \/ boot' = [boot EXCEPT !.checked = TRUE, !.pending = FALSE]
            \/ boot' = [boot EXCEPT !.accepted = 0]
        BY <1>1, <2>2 DEF CheckBoot, Rollback, TypeBoot
      <4> QED
        BY <4>1, <4>2 DEF TypeBoot
    <3>6. worker'.pc = "look" /\ worker'.open = worker.open /\ worker'.selected = worker.selected
      BY <3>1, GoTyped DEF Pcs
    <3>7. ~worker.open /\ ~worker.selected /\ ~Active' /\ web'.op # "begin"
      BY <3>1 DEF GateHeld, LeftOver, Active
    <3>8. boot'.pending => busy'
      BY <3>1 DEF GateHeld
    <3>9. flash'.boots = flash.boots
      BY <3>1 DEF TypeFlash
    <3>10. GateHeld'
      BY <3>6, <3>7, <3>8 DEF GateHeld
    <3>11. LeftOver'
      BY <3>1, <3>6, <3>7, <3>8, <3>9 DEF LeftOver
    <3>12. Silenced'
      BY <3>1, <3>6 DEF GateHeld, Silenced, Active, Transferring, ActiveStates
    <3> QED
      BY <3>2, <3>3, <3>4, <3>5, <3>10, <3>11, <3>12
  <2> QED
    BY <2>1, <2>2
<1>2. CASE Look
  <2>1. TypeWorker'
    BY <1>2, Zeros DEF Look, OnlyWorker, TypeWorker, Pcs, TypeSession
  <2>2. TypeTasks' /\ TypeSession' /\ TypeBoot' /\ TypeFlash'
    BY <1>2 DEF Look, OnlyWorker, TypeTasks, TypeSession, TypeBoot, TypeFlash
  <2>3. GateHeld'
    BY <1>2 DEF Look, OnlyWorker, TypeSession, TypeWorker, TypeBoot, GateHeld, Active,
        ActiveStates
  <2>4. LeftOver'
    BY <1>2 DEF Look, OnlyWorker, TypeWorker, TypeBoot, TypeFlash, GateHeld, LeftOver, Active,
        ActiveStates
  <2>5. Silenced'
    BY <1>2 DEF Look, OnlyWorker, TypeTasks, TypeSession, TypeWorker, TypeBoot, GateHeld,
        Silenced, Transferring, Active, ActiveStates
  <2> QED
    BY <2>1, <2>2, <2>3, <2>4, <2>5
<1>3. CASE Sweep
  <2>1. TypeWorker'
    BY <1>3, Zeros DEF Sweep, SweepBusy, Go, OnlyWorker, TypeWorker, Pcs
  <2>2. TypeTasks' /\ TypeSession' /\ TypeBoot' /\ TypeFlash'
    BY <1>3 DEF Sweep, OnlyWorker, TypeTasks, TypeSession, TypeBoot, TypeFlash
  <2>3. GateHeld'
    BY <1>3 DEF Sweep, SweepBusy, Go, OnlyWorker, TypeSession, TypeWorker, TypeBoot, GateHeld,
        Active, ActiveStates
  <2>4. LeftOver'
    BY <1>3 DEF Sweep, SweepBusy, Go, OnlyWorker, TypeWorker, TypeBoot, TypeFlash, GateHeld,
        LeftOver, Active, ActiveStates
  <2>5. Silenced'
    BY <1>3 DEF Sweep, SweepBusy, Go, OnlyWorker, TypeTasks, TypeSession, TypeWorker, TypeBoot,
        GateHeld, Silenced, Transferring, Active, ActiveStates
  <2> QED
    BY <2>1, <2>2, <2>3, <2>4, <2>5
<1>4. CASE Judge
  <2>1. TypeWorker'
    BY <1>4, Zeros DEF Judge, Check, Task, Go, StillCurrent, OnlyWorker, TypeWorker, Pcs
  <2>2. TypeTasks' /\ TypeSession' /\ TypeBoot' /\ TypeFlash'
    BY <1>4 DEF Judge, OnlyWorker, TypeTasks, TypeSession, TypeBoot, TypeFlash
  <2>3. GateHeld'
    BY <1>4 DEF Judge, Check, Task, Go, StillCurrent, OnlyWorker, TypeSession, TypeWorker,
        TypeBoot, GateHeld, Active, ActiveStates
  <2>4. LeftOver'
    BY <1>4 DEF Judge, Check, Task, Go, StillCurrent, OnlyWorker, TypeWorker, TypeBoot,
        TypeFlash, GateHeld, LeftOver, Active, ActiveStates
  <2>5. Silenced'
    BY <1>4 DEF Judge, Check, Task, Go, StillCurrent, OnlyWorker, TypeTasks, TypeSession,
        TypeWorker, TypeBoot, GateHeld, Silenced, Transferring, Active, ActiveStates
  <2> QED
    BY <2>1, <2>2, <2>3, <2>4, <2>5
<1>5. CASE Prepare
  <2>1. TypeWorker'
    BY <1>5, Zeros, ZenonT(40) DEF Prepare, PrepareOff, Go, OnlyWorker, TypeWorker, Pcs, TypeTasks
  <2>2. TypeTasks' /\ TypeSession' /\ TypeBoot' /\ TypeFlash'
    BY <1>5 DEF Prepare, OnlyWorker, TypeTasks, TypeSession, TypeBoot, TypeFlash
  <2>3. GateHeld'
    BY <1>5 DEF Prepare, PrepareOff, Go, OnlyWorker, TypeSession, TypeWorker, TypeBoot,
        GateHeld, Active, ActiveStates
  <2>4. LeftOver'
    BY <1>5 DEF Prepare, PrepareOff, Go, OnlyWorker, TypeWorker, TypeBoot, TypeFlash, GateHeld,
        LeftOver, Active, ActiveStates
  <2>5. Silenced'
    BY <1>5 DEF Prepare, PrepareOff, Go, OnlyWorker, TypeTasks, TypeSession, TypeWorker,
        TypeBoot, GateHeld, Silenced, Transferring, Active, ActiveStates
  <2> QED
    BY <2>1, <2>2, <2>3, <2>4, <2>5
<1>6. CASE Quiet
  <2>1. TypeWorker'
    BY <1>6, Zeros DEF Quiet, Go, OnlyWorker, NetworkBusy, TypeWorker, Pcs
  <2>2. TypeTasks' /\ TypeSession' /\ TypeBoot' /\ TypeFlash'
    BY <1>6 DEF Quiet, OnlyWorker, TypeTasks, TypeSession, TypeBoot, TypeFlash
  <2>3. GateHeld'
    BY <1>6 DEF Quiet, Go, OnlyWorker, NetworkBusy, TypeSession, TypeWorker, TypeBoot, GateHeld,
        Active, ActiveStates
  <2>4. LeftOver'
    BY <1>6 DEF Quiet, Go, OnlyWorker, NetworkBusy, TypeWorker, TypeBoot, TypeFlash, GateHeld,
        LeftOver, Active, ActiveStates
  <2>5. Silenced'
    BY <1>6 DEF Quiet, Go, OnlyWorker, NetworkBusy, TypeTasks, TypeSession, TypeWorker,
        TypeBoot, GateHeld, Silenced, Transferring, Active, ActiveStates
  <2> QED
    BY <2>1, <2>2, <2>3, <2>4, <2>5
<1>7. CASE Ready
  <2>1. TypeSession'
    <3>1. CASE FailSession
      BY <1>7, <3>1, FailTyped DEF Ready, OnlyWorker
    <3>2. CASE ~FailSession
      BY <1>7, <3>2, Zeros DEF TypeSession, Ready, OnlyWorker, ActiveStates
    <3> QED
      BY <3>1, <3>2
  <2>2. TypeWorker'
    BY <1>7, Zeros DEF Ready, Go, FailSession, OnlyWorker, TypeWorker, Pcs
  <2>3. TypeTasks' /\ TypeBoot' /\ TypeFlash'
    BY <1>7 DEF Ready, OnlyWorker, TypeTasks, TypeBoot, TypeFlash
  <2>4. GateHeld'
    BY <1>7 DEF Ready, Go, FailSession, OnlyWorker, TypeSession, TypeWorker, TypeBoot, GateHeld,
        Active, ActiveStates
  <2>5. LeftOver'
    BY <1>7 DEF Ready, Go, FailSession, OnlyWorker, TypeWorker, TypeBoot, TypeFlash, GateHeld,
        LeftOver, Active, ActiveStates
  <2>6. Silenced'
    BY <1>7 DEF Ready, Go, FailSession, OnlyWorker, TypeTasks, TypeSession, TypeWorker,
        TypeBoot, GateHeld, Silenced, Transferring, Active, ActiveStates
  <2> QED
    BY <2>1, <2>2, <2>3, <2>4, <2>5, <2>6
<1>8. CASE Open
  <2>1. TypeWorker'
    BY <1>8, Zeros, ZenonT(40) DEF Open, Go, OnlyWorker, TypeWorker, Pcs
  <2>2. TypeFlash'
    BY <1>8, EmptySpare DEF TypeFlash, Open, OnlyWorker
  <2>3. TypeTasks' /\ TypeSession' /\ TypeBoot'
    BY <1>8 DEF Open, OnlyWorker, TypeTasks, TypeSession, TypeBoot
  <2>4. GateHeld'
    BY <1>8 DEF Open, Go, OnlyWorker, TypeSession, TypeWorker, TypeBoot, GateHeld, Active,
        ActiveStates
  <2>5. LeftOver'
    BY <1>8 DEF Open, Go, OnlyWorker, TypeWorker, TypeBoot, TypeFlash, GateHeld, LeftOver,
        Active, ActiveStates
  <2>6. Silenced'
    BY <1>8, ZenonT(40) DEF Open, Go, OnlyWorker, TypeTasks, TypeSession, TypeWorker, TypeBoot,
        GateHeld, Silenced, Transferring, Active, ActiveStates
  <2> QED
    BY <2>1, <2>2, <2>3, <2>4, <2>5, <2>6
<1>9. CASE CheckWrite
  <2>1. TypeWorker'
    BY <1>9, Zeros DEF CheckWrite, Check, Go, OnlyWorker, TypeWorker, Pcs
  <2>2. TypeTasks' /\ TypeSession' /\ TypeBoot' /\ TypeFlash'
    BY <1>9 DEF CheckWrite, OnlyWorker, TypeTasks, TypeSession, TypeBoot, TypeFlash
  <2>3. GateHeld'
    BY <1>9 DEF CheckWrite, Check, Go, OnlyWorker, TypeSession, TypeWorker, TypeBoot, GateHeld,
        Active, ActiveStates
  <2>4. LeftOver'
    BY <1>9 DEF CheckWrite, Check, Go, OnlyWorker, TypeWorker, TypeBoot, TypeFlash, GateHeld,
        LeftOver, Active, ActiveStates
  <2>5. Silenced'
    BY <1>9 DEF CheckWrite, Check, Go, OnlyWorker, TypeTasks, TypeSession, TypeWorker, TypeBoot,
        GateHeld, Silenced, Transferring, Active, ActiveStates
  <2> QED
    BY <2>1, <2>2, <2>3, <2>4, <2>5
<1>10. CASE Write
  <2>1. TypeWorker'
    BY <1>10, Zeros, ZenonT(40) DEF Write, Go, OnlyWorker, TypeWorker, Pcs, TypeTasks
  <2>2. TypeFlash'
    <3>1. Append(flash.spare, buffer) \in Seq(Chunks)
      BY DEF TypeFlash
    <3> QED
      BY <1>10, <3>1 DEF TypeFlash, Write, OnlyWorker
  <2>3. TypeTasks' /\ TypeSession' /\ TypeBoot'
    BY <1>10 DEF Write, OnlyWorker, TypeTasks, TypeSession, TypeBoot
  <2>4. GateHeld'
    BY <1>10 DEF Write, Go, OnlyWorker, TypeSession, TypeWorker, TypeBoot, GateHeld, Active,
        ActiveStates
  <2>5. LeftOver'
    BY <1>10 DEF Write, Go, OnlyWorker, TypeWorker, TypeBoot, TypeFlash, GateHeld, LeftOver,
        Active, ActiveStates
  <2>6. Silenced'
    BY <1>10 DEF Write, Go, OnlyWorker, TypeTasks, TypeSession, TypeWorker, TypeBoot, GateHeld,
        Silenced, Transferring, Active, ActiveStates
  <2> QED
    BY <2>1, <2>2, <2>3, <2>4, <2>5, <2>6
<1>11. CASE Written
  <2>1. TypeSession'
    <3>1. UNCHANGED web
      BY <1>11 DEF Written, OnlyWorker
    <3>2. CASE UNCHANGED transfer
      BY <3>1, <3>2 DEF TypeSession
    <3>3. CASE ~UNCHANGED transfer
      <4>1. /\ transfer.received + buffer.bytes <= transfer.total
            /\ transfer.received + buffer.bytes \in Nat /\ transfer.total \in Nat
        BY <1>11, <3>3, Nats DEF Written, TypeSession
      <4>2. transfer' = [transfer EXCEPT !.state = "Receiving", !.received = @ + buffer.bytes,
                                         !.queued = 0, !.idle = 0]
        BY <1>11, <3>3 DEF Written
      <4>3. transfer'.received + transfer'.queued <= transfer'.total
        BY <4>1, <4>2 DEF TypeSession
      <4> QED
        BY <3>1, <4>1, <4>2, <4>3, Zeros DEF TypeSession, ActiveStates
    <3> QED
      BY <3>2, <3>3
  <2>2. TypeWorker'
    BY <1>11, Zeros DEF Written, Go, OnlyWorker, TypeWorker, Pcs
  <2>3. TypeTasks' /\ TypeBoot' /\ TypeFlash'
    BY <1>11 DEF Written, OnlyWorker, TypeTasks, TypeBoot, TypeFlash
  <2>4. GateHeld'
    BY <1>11 DEF Written, Go, OnlyWorker, TypeSession, TypeWorker, TypeBoot, GateHeld, Active,
        ActiveStates
  <2>5. LeftOver'
    BY <1>11 DEF Written, Go, OnlyWorker, TypeWorker, TypeBoot, TypeFlash, GateHeld, LeftOver,
        Active, ActiveStates
  <2>6. Silenced'
    BY <1>11 DEF Written, Go, OnlyWorker, TypeTasks, TypeSession, TypeWorker, TypeBoot,
        GateHeld, Silenced, Transferring, Active, ActiveStates
  <2> QED
    BY <2>1, <2>2, <2>3, <2>4, <2>5, <2>6
<1>12. CASE Recheck
  <2>1. TypeWorker'
    BY <1>12, Zeros DEF Recheck, Check, Go, OnlyWorker, TypeWorker, Pcs
  <2>2. TypeTasks' /\ TypeSession' /\ TypeBoot' /\ TypeFlash'
    BY <1>12 DEF Recheck, OnlyWorker, TypeTasks, TypeSession, TypeBoot, TypeFlash
  <2>3. GateHeld'
    BY <1>12 DEF Recheck, Check, Go, OnlyWorker, TypeSession, TypeWorker, TypeBoot, GateHeld,
        Active, ActiveStates
  <2>4. LeftOver'
    BY <1>12 DEF Recheck, Check, Go, OnlyWorker, TypeWorker, TypeBoot, TypeFlash, GateHeld,
        LeftOver, Active, ActiveStates
  <2>5. Silenced'
    BY <1>12 DEF Recheck, Check, Go, OnlyWorker, TypeTasks, TypeSession, TypeWorker, TypeBoot,
        GateHeld, Silenced, Transferring, Active, ActiveStates
  <2> QED
    BY <2>1, <2>2, <2>3, <2>4, <2>5
<1>13. CASE End
  <2>1. TypeWorker'
    BY <1>13, Zeros DEF End, OnlyWorker, TypeWorker, Pcs
  <2>2. TypeFlash'
    BY <1>13, FirmwareAssumption DEF End, OnlyWorker, TypeFlash
  <2>3. TypeTasks' /\ TypeSession' /\ TypeBoot'
    BY <1>13 DEF End, OnlyWorker, TypeTasks, TypeSession, TypeBoot
  <2>4. GateHeld'
    BY <1>13 DEF End, OnlyWorker, TypeSession, TypeWorker, TypeBoot, GateHeld, Active,
        ActiveStates
  <2>5. LeftOver'
    BY <1>13 DEF End, OnlyWorker, TypeWorker, TypeBoot, TypeFlash, GateHeld, LeftOver, Active,
        ActiveStates
  <2>6. Silenced'
    BY <1>13 DEF End, OnlyWorker, TypeTasks, TypeSession, TypeWorker, TypeBoot, GateHeld,
        Silenced, Transferring, Active, ActiveStates
  <2> QED
    BY <2>1, <2>2, <2>3, <2>4, <2>5, <2>6
<1>14. CASE CheckSelect
  <2>1. TypeWorker'
    BY <1>14, Zeros DEF CheckSelect, Check, Go, OnlyWorker, TypeWorker, Pcs
  <2>2. TypeTasks' /\ TypeSession' /\ TypeBoot' /\ TypeFlash'
    BY <1>14 DEF CheckSelect, OnlyWorker, TypeTasks, TypeSession, TypeBoot, TypeFlash
  <2>3. GateHeld'
    BY <1>14 DEF CheckSelect, Check, Go, OnlyWorker, TypeSession, TypeWorker, TypeBoot,
        GateHeld, Active, ActiveStates
  <2>4. LeftOver'
    BY <1>14 DEF CheckSelect, Check, Go, OnlyWorker, TypeWorker, TypeBoot, TypeFlash, GateHeld,
        LeftOver, Active, ActiveStates
  <2>5. Silenced'
    BY <1>14 DEF CheckSelect, Check, Go, OnlyWorker, TypeTasks, TypeSession, TypeWorker,
        TypeBoot, GateHeld, Silenced, Transferring, Active, ActiveStates
  <2> QED
    BY <2>1, <2>2, <2>3, <2>4, <2>5
<1>15. CASE Select
  <2>1. TypeWorker'
    BY <1>15, Zeros, ZenonT(40) DEF Select, Go, OnlyWorker, TypeWorker, Pcs, TypeTasks
  <2>2. TypeFlash'
    BY <1>15, FirmwareAssumption DEF Select, OnlyWorker, TypeFlash
  <2>3. TypeTasks' /\ TypeSession' /\ TypeBoot'
    BY <1>15 DEF Select, OnlyWorker, TypeTasks, TypeSession, TypeBoot
  <2>4. GateHeld'
    BY <1>15 DEF Select, Go, OnlyWorker, TypeSession, TypeWorker, TypeBoot, GateHeld, Active,
        ActiveStates
  <2>5. LeftOver'
    <3>1. /\ worker'.selected /\ worker'.pc \notin {"failed", "release"}
          /\ worker'.open = worker.open
      BY <1>15 DEF Select, TypeWorker
    <3>2. busy' /\ ~boot'.pending
      BY <1>15 DEF Select, GateHeld, OnlyWorker
    <3> QED
      BY <3>1, <3>2 DEF LeftOver
  <2>6. Silenced'
    BY <1>15, ZenonT(40) DEF Select, Go, OnlyWorker, TypeTasks, TypeSession, TypeWorker, TypeBoot,
        GateHeld, Silenced, Transferring, Active, ActiveStates
  <2> QED
    BY <2>1, <2>2, <2>3, <2>4, <2>5, <2>6
<1>16. CASE Verified
  <2>1. TypeSession'
    BY <1>16, Zeros DEF TypeSession, Verified, OnlyWorker, ActiveStates
  <2>2. TypeWorker'
    BY <1>16, Zeros DEF Verified, Go, OnlyWorker, TypeWorker, Pcs
  <2>3. TypeTasks' /\ TypeBoot' /\ TypeFlash'
    BY <1>16 DEF Verified, OnlyWorker, TypeTasks, TypeBoot, TypeFlash
  <2>4. GateHeld'
    BY <1>16 DEF Verified, Go, OnlyWorker, TypeSession, TypeWorker, TypeBoot, GateHeld, Active,
        ActiveStates
  <2>5. LeftOver'
    BY <1>16 DEF Verified, Go, OnlyWorker, TypeWorker, TypeBoot, TypeFlash, GateHeld, LeftOver,
        Active, ActiveStates
  <2>6. Silenced'
    BY <1>16 DEF Verified, Go, OnlyWorker, TypeTasks, TypeSession, TypeWorker, TypeBoot,
        GateHeld, Silenced, Transferring, Active, ActiveStates
  <2> QED
    BY <2>1, <2>2, <2>3, <2>4, <2>5, <2>6
<1>17. CASE Accept
  <2>1. TypeWorker'
    BY <1>17, Zeros, ZenonT(40) DEF Accept, Go, OnlyWorker, TypeWorker, Pcs
  <2>2. TypeTasks' /\ TypeSession' /\ TypeBoot' /\ TypeFlash'
    BY <1>17 DEF Accept, OnlyWorker, TypeTasks, TypeSession, TypeBoot, TypeFlash
  <2>3. GateHeld'
    BY <1>17 DEF Accept, Go, OnlyWorker, TypeSession, TypeWorker, TypeBoot, GateHeld, Active,
        ActiveStates
  <2>4. LeftOver'
    BY <1>17 DEF Accept, Go, OnlyWorker, TypeWorker, TypeBoot, TypeFlash, GateHeld, LeftOver,
        Active, ActiveStates
  <2>5. Silenced'
    BY <1>17, ZenonT(40) DEF Accept, Go, OnlyWorker, TypeTasks, TypeSession, TypeWorker, TypeBoot,
        GateHeld, Silenced, Transferring, Active, ActiveStates
  <2> QED
    BY <2>1, <2>2, <2>3, <2>4, <2>5
<1>18. CASE BeforeRestart
  <2>1. TypeWorker'
    BY <1>18, Zeros DEF BeforeRestart, LastCheck, Check, Go, OnlyWorker, TypeWorker, Pcs
  <2>2. TypeTasks' /\ TypeSession' /\ TypeBoot' /\ TypeFlash'
    BY <1>18 DEF BeforeRestart, OnlyWorker, TypeTasks, TypeSession, TypeBoot, TypeFlash
  <2>3. GateHeld'
    BY <1>18 DEF BeforeRestart, LastCheck, Check, Go, OnlyWorker, TypeSession, TypeWorker,
        TypeBoot, GateHeld, Active, ActiveStates
  <2>4. LeftOver'
    BY <1>18 DEF BeforeRestart, LastCheck, Check, Go, OnlyWorker, TypeWorker, TypeBoot,
        TypeFlash, GateHeld, LeftOver, Active, ActiveStates
  <2>5. Silenced'
    BY <1>18 DEF BeforeRestart, LastCheck, Check, Go, OnlyWorker, TypeTasks, TypeSession,
        TypeWorker, TypeBoot, GateHeld, Silenced, Transferring, Active, ActiveStates
  <2> QED
    BY <2>1, <2>2, <2>3, <2>4, <2>5
<1>19. CASE Restart
  BY <1>19, BootInv DEF Restart
<1>20. CASE Fail
  <2>1. TypeTasks'
    BY <1>20 DEF Fail, Cleanup, OnlyWorker, TypeTasks
  <2>2. TypeWorker'
    BY <1>20, Zeros DEF Fail, Cleanup, OnlyWorker, TypeWorker, Pcs
  <2>3. TypeFlash'
    BY <1>20, FirmwareAssumption DEF Fail, Cleanup, OnlyWorker, TypeFlash
  <2>4. TypeSession' /\ TypeBoot'
    BY <1>20 DEF Fail, OnlyWorker, TypeSession, TypeBoot
  <2>5. GateHeld'
    BY <1>20 DEF Fail, Cleanup, OnlyWorker, TypeSession, TypeWorker, TypeBoot, GateHeld, Active,
        ActiveStates
  <2>6. LeftOver'
    BY <1>20 DEF Fail, Cleanup, OnlyWorker, TypeWorker, TypeBoot, TypeFlash, GateHeld, LeftOver,
        Active, ActiveStates
  <2>7. Silenced'
    BY <1>20 DEF Fail, Cleanup, OnlyWorker, TypeTasks, TypeSession, TypeWorker, TypeBoot,
        GateHeld, Silenced, Transferring, Active, ActiveStates
  <2> QED
    BY <2>1, <2>2, <2>3, <2>4, <2>5, <2>6, <2>7
<1>21. CASE FailTransfer
  <2>1. TypeSession'
    BY <1>21, FailTyped DEF FailTransfer, OnlyWorker
  <2>2. TypeWorker'
    BY <1>21, Zeros DEF FailTransfer, Go, FailSession, OnlyWorker, TypeWorker, Pcs
  <2>3. TypeTasks' /\ TypeBoot' /\ TypeFlash'
    BY <1>21 DEF FailTransfer, OnlyWorker, TypeTasks, TypeBoot, TypeFlash
  <2>4. GateHeld'
    BY <1>21 DEF FailTransfer, Go, FailSession, OnlyWorker, TypeSession, TypeWorker, TypeBoot,
        GateHeld, Active, ActiveStates
  <2>5. LeftOver'
    BY <1>21 DEF FailTransfer, Go, FailSession, OnlyWorker, TypeWorker, TypeBoot, TypeFlash,
        GateHeld, LeftOver, Active, ActiveStates
  <2>6. Silenced'
    BY <1>21 DEF FailTransfer, Go, FailSession, OnlyWorker, TypeTasks, TypeSession, TypeWorker,
        TypeBoot, GateHeld, Silenced, Transferring, Active, ActiveStates
  <2> QED
    BY <2>1, <2>2, <2>3, <2>4, <2>5, <2>6
<1>22. CASE OpenGate
  <2>1. TypeTasks'
    BY <1>22 DEF OpenGate, OnlyWorker, TypeTasks
  <2>2. TypeWorker'
    BY <1>22, Zeros DEF OpenGate, Go, OnlyWorker, TypeWorker, Pcs
  <2>3. TypeSession' /\ TypeBoot' /\ TypeFlash'
    BY <1>22 DEF OpenGate, OnlyWorker, TypeSession, TypeBoot, TypeFlash
  <2>4. GateHeld'
    BY <1>22 DEF OpenGate, Go, OnlyWorker, TypeSession, TypeWorker, TypeBoot, GateHeld, Active,
        ActiveStates
  <2>5. LeftOver'
    BY <1>22 DEF OpenGate, Go, OnlyWorker, TypeWorker, TypeBoot, TypeFlash, GateHeld, LeftOver,
        Active, ActiveStates
  <2>6. Silenced'
    BY <1>22 DEF OpenGate, Go, OnlyWorker, TypeTasks, TypeSession, TypeWorker, TypeBoot,
        GateHeld, Silenced, Transferring, Active, ActiveStates
  <2> QED
    BY <2>1, <2>2, <2>3, <2>4, <2>5, <2>6
<1> QED
  BY <1>1, <1>2, <1>3, <1>4, <1>5, <1>6, <1>7, <1>8, <1>9, <1>10, <1>11, <1>12, <1>13, <1>14,
      <1>15, <1>16, <1>17, <1>18, <1>19, <1>20, <1>21, <1>22 DEF WorkerStep

\* Every step of the system keeps the invariant.
LEMMA StepInv ==
    ASSUME Inv, [Next]_vars
    PROVE  Inv'
<1>1. CASE Next
  BY <1>1, TasksInv, RequestsInv, WorkerInv, BootInv DEF Next, PowerLoss, Inv
<1>2. CASE UNCHANGED vars
  BY <1>2
  DEF vars, Inv, TypeOK, TypeTasks, TypeSession, TypeWorker, TypeBoot, TypeFlash, GateHeld,
      LeftOver, Silenced, Active, Transferring
<1> QED
  BY <1>1, <1>2

\* After the first boot nothing holds the gate, whether there is a second image or not.
LEMMA InitInv ==
    ASSUME Init
    PROVE  Inv
<1>1. TypeTasks
  <2>1. /\ control \in [gen : 1 .. MaxGen, inhibited : BOOLEAN, commanded : BOOLEAN,
                        timed : BOOLEAN, asked : BOOLEAN]
        /\ fleet \in {"idle", "due", "claimed", "request"}
    BY FirmwareAssumption DEF Init
  <2>2. /\ fault \in BOOLEAN /\ provisioning \in BOOLEAN /\ busy \in BOOLEAN
        /\ cancelled \in BOOLEAN
    BY Zenon DEF Init
  <2> QED
    BY <2>1, <2>2 DEF TypeTasks
<1>2. TypeSession
  BY FirmwareAssumption DEF Init, TypeSession, NoTransfer, NoRequest
<1>3. TypeWorker /\ TypeBoot
  BY FirmwareAssumption DEF Init, TypeWorker, TypeBoot, Pcs
<1>4. TypeFlash
  <2>1. buffer \in Chunks
    BY FirmwareAssumption DEF Init, NoChunk, Chunks
  <2> QED
    BY <2>1, EmptySpare DEF Init, TypeFlash
<1>5. GateHeld /\ LeftOver /\ Silenced
  BY DEF Init, GateHeld, LeftOver, Silenced, NoTransfer, NoRequest, Active, ActiveStates,
         Transferring
<1> QED
  BY <1>1, <1>2, <1>3, <1>4, <1>5 DEF Inv, TypeOK

\* The invariant of the update: who holds the gate, what the worker has to undo,
\* and which task has fallen silent (ota.cpp, tesla.cpp, app.cpp).
THEOREM Invariant == Spec => []Inv
<1> QED
  BY InitInv, StepInv, PTL DEF Spec

\* The data of all tasks keep their shape, and no chunk that is accepted reaches
\* beyond the end of the image (FirmwareUpdate::chunk), for all sizes and bounds.
THEOREM TypeCorrect == Spec => []TypeOK
<1>1. Inv => TypeOK
  BY DEF Inv
<1> QED
  BY <1>1, Invariant, PTL

\* From the first chunk to the restart, and during a self-test, the output is off,
\* no Fleet operation is under way and nobody provisions, however many tasks have
\* read firmware_busy before it was set (ota.cpp worker, tesla.cpp, app.cpp).
THEOREM Exclusive == Spec => []UpdateIsExclusive
<1>1. Inv => UpdateIsExclusive
  BY DEF Inv, Silenced, UpdateIsExclusive
<1> QED
  BY <1>1, Invariant, PTL

\* The gate opens only when no session, no open handle and, unless a fault reports
\* it, no selected image is left, whichever step failed (failed() in ota.cpp).
THEOREM GateClean == Spec => []GateOpensClean
<1>1. Inv => GateOpensClean
  BY DEF Inv, TypeOK, TypeFlash, GateHeld, LeftOver, GateOpensClean
<1> QED
  BY <1>1, Invariant, PTL

-----------------------------------------------------------------------------
(* What the slot holds, and what becomes of an interrupted session.        *)

\* The chunks follow one another from the start of the image, all of one upload,
\* and end at byte n: InOrder and Stored as one relation of constants.
Holds(chunks, id, n) ==
    /\ \A i \in 1 .. Len(chunks) :
          /\ chunks[i].id = id
          /\ chunks[i].offset = IF i = 1 THEN 0 ELSE chunks[i - 1].offset + chunks[i - 1].bytes
    /\ n = IF chunks = <<>> THEN 0 ELSE chunks[Len(chunks)].offset + chunks[Len(chunks)].bytes

\* Only the worker takes a session out of the states it works on.
Staged ==
    /\ worker.pc = "judge" /\ worker.saw # "Receiving" => transfer.state \in {worker.saw, "Failed"}
    /\ worker.pc \in {"prepare", "quiet", "ready"} => transfer.state \in {"Preparing", "Failed"}
    /\ worker.pc \in {"open", "check", "write", "written"} => transfer.state \in {"Writing", "Failed"}
    /\ worker.pc \in {"end", "choose", "select", "verified"} =>
           transfer.state \in {"Verifying", "Failed"}
    /\ worker.pc \in {"accept", "last", "restart"} => transfer.state \in {"Rebooting", "Failed"}

\* The counters of a session, its buffer and the handle belong together.
Counted ==
    /\ transfer.state = "Preparing" => ~worker.open /\ transfer.received = 0
    /\ transfer.state = "Writing" =>
           buffer = [id |-> transfer.id, offset |-> transfer.received, bytes |-> transfer.queued]
    /\ transfer.state \in {"Verifying", "Rebooting"} => transfer.received = transfer.total
    /\ transfer.state \in {"Receiving", "Writing"} /\ worker.pc # "failed" /\ ~worker.open =>
           transfer.received = 0
    /\ worker.pc = "open" => ~worker.open
    /\ worker.pc \in {"check", "write", "written"} => worker.open

\* What the slot holds at each step; a chunk is in it before it is counted.
Filled ==
    /\ \/ worker.open /\ transfer.state \in {"Receiving", "Verifying"}
       \/ worker.open /\ transfer.state = "Writing" /\ worker.pc \notin {"written", "fail"}
       => Holds(flash.spare, transfer.id, transfer.received)
    /\ worker.pc = "written" /\ transfer.state = "Writing" =>
           Holds(flash.spare, transfer.id, transfer.received + transfer.queued)
    /\ worker.pc = "choose" /\ transfer.state = "Verifying" =>
           Holds(flash.spare, transfer.id, transfer.total)
    /\ worker.pc = "select" \/ flash.boots = "spare" =>
           Holds(flash.spare, transfer.id, transfer.total)
    /\ worker.pc \in {"choose", "select"} \/ flash.boots = "spare" => flash.whole

\* An image once selected is not written to, and no session begins beside it.
Chosen ==
    flash.boots = "spare" =>
        /\ ~boot.pending /\ web.op # "begin"
        /\ transfer.state \in {"Verifying", "Rebooting", "Failed"}
        /\ worker.pc \in {"verified", "accept", "fail", "failed", "release", "last", "restart",
                          "top", "look", "sweep", "judge"}
        /\ worker.pc \in {"top", "look", "sweep", "judge"} => transfer.state # "Verifying"
        /\ worker.pc = "judge" => worker.saw = "Rebooting"

\* An interruption leaves its mark on the session until its end.
Marked ==
    /\ web.gen <= control.gen /\ transfer.gen <= control.gen
    /\ Active /\ cancelled => fault \/ transfer.gen < control.gen
    /\ worker.pc = "restart" => ~cancelled

Image == Staged /\ Counted /\ Filled /\ Chosen /\ Marked

LEMMA HoldsNothing == ASSUME NEW id PROVE Holds(<<>>, id, 0)
BY DEF Holds

\* The next chunk of an upload, written behind the others.
LEMMA HoldsMore ==
    ASSUME NEW s \in Seq(Chunks), NEW c \in Chunks, NEW id, NEW n, Holds(s, id, n),
           c.id = id, c.offset = n
    PROVE  Holds(Append(s, c), id, n + c.bytes)
<1> DEFINE t == Append(s, c)
<1>1. /\ t \in Seq(Chunks) /\ Len(t) = Len(s) + 1 /\ Len(s) \in Nat /\ t # <<>>
      /\ t[Len(s) + 1] = c /\ \A i \in 1 .. Len(s) : t[i] = s[i]
  OBVIOUS
<1>2. \A i \in 1 .. Len(t) :
          /\ t[i].id = id
          /\ t[i].offset = IF i = 1 THEN 0 ELSE t[i - 1].offset + t[i - 1].bytes
  <2> SUFFICES ASSUME NEW i \in 1 .. Len(t)
               PROVE  /\ t[i].id = id
                      /\ t[i].offset = IF i = 1 THEN 0 ELSE t[i - 1].offset + t[i - 1].bytes
    OBVIOUS
  <2> HIDE DEF t
  <2>1. CASE i \in 1 .. Len(s)
    <3>1. i # 1 => i - 1 \in 1 .. Len(s)
      BY <2>1, <1>1
    <3> QED
      BY <2>1, <3>1, <1>1 DEF Holds
  <2>2. CASE i = Len(s) + 1
    <3>1. CASE Len(s) = 0
      <4>1. s = <<>>
        BY <3>1
      <4> QED
        BY <2>2, <3>1, <4>1, <1>1 DEF Holds
    <3>2. CASE Len(s) # 0
      <4>1. s # <<>> /\ i # 1 /\ i - 1 = Len(s) /\ Len(s) \in 1 .. Len(s)
        BY <2>2, <3>2, <1>1
      <4> QED
        BY <2>2, <4>1, <1>1 DEF Holds
    <3> QED
      BY <3>1, <3>2
  <2> QED
    BY <2>1, <2>2, <1>1
<1>3. t[Len(t)].offset + t[Len(t)].bytes = n + c.bytes
  BY <1>1
<1> QED
  BY <1>1, <1>2, <1>3 DEF Holds

\* A restart ends whatever was going on (Start).
LEMMA StartImage ==
    ASSUME NEW p, NEW next, next.boots = "running", Start(p, next)
    PROVE  Image'
BY DEF Start, Image, Staged, Counted, Filled, Chosen, Marked, NoTransfer, NoRequest, Active,
       ActiveStates

LEMMA BootImage ==
    ASSUME TypeOK, Boot
    PROVE  Image'
BY StartImage DEF Boot, Swapped, TypeOK, TypeFlash

\* What happens beside the session does not touch it.
LEMMA Aside ==
    ASSUME Image,
           transfer'.state = transfer.state, transfer'.id = transfer.id,
           transfer'.total = transfer.total, transfer'.received = transfer.received,
           transfer'.queued = transfer.queued,
           worker'.pc = worker.pc, worker'.saw = worker.saw, worker'.open = worker.open,
           UNCHANGED <<buffer, flash>>, boot'.pending = boot.pending,
           flash.boots = "spare" /\ web'.op = "begin" => web.op = "begin"
    PROVE  Staged' /\ Counted' /\ Filled' /\ Chosen'
<1>1. Staged'
  BY DEF Image, Staged
<1>2. Counted'
  BY DEF Image, Counted
<1>3. Filled'
  BY DEF Image, Filled
<1>4. Chosen'
  BY DEF Image, Chosen
<1> QED
  BY <1>1, <1>2, <1>3, <1>4

\* The other tasks, which at most interrupt a session (Off, Provision, LocalFault).
LEMMA TasksImage ==
    ASSUME Inv, Image, Tasks
    PROVE  Image'
<1> USE DEF Inv, TypeOK
<1>1. /\ transfer'.state = transfer.state /\ transfer'.id = transfer.id
      /\ transfer'.total = transfer.total /\ transfer'.received = transfer.received
      /\ transfer'.queued = transfer.queued /\ transfer'.gen = transfer.gen
      /\ worker'.pc = worker.pc /\ worker'.saw = worker.saw /\ worker'.open = worker.open
      /\ UNCHANGED <<buffer, flash, web>> /\ boot'.pending = boot.pending
  <2>1. CASE Elapse
    BY <2>1 DEF Elapse, TypeSession, TypeWorker, TypeBoot
  <2>2. CASE SetupDone \/ LocalFault
    BY <2>2 DEF SetupDone, LocalFault, TypeBoot
  <2>3. CASE Off \/ Provision \/ TimedOn \/ Apply \/ Fleet
    BY <2>3 DEF Off, Provision, TimedOn, Apply, Fleet
  <2>4. CASE \E on, timed \in BOOLEAN : Command(on, timed)
    BY <2>4 DEF Command
  <2> QED
    BY <2>1, <2>2, <2>3, <2>4 DEF Tasks
<1>2. Staged' /\ Counted' /\ Filled' /\ Chosen'
  BY <1>1, Aside
<1>3. Marked'
  <2>1. web.gen \in Nat /\ transfer.gen \in Nat /\ control.gen \in Nat
    BY FirmwareAssumption DEF TypeTasks, TypeSession
  <2>2. \/ UNCHANGED <<control, cancelled, fault>>
        \/ control'.gen = control.gen + 1 /\ Interrupt /\ UNCHANGED fault
        \/ control'.gen = control.gen /\ UNCHANGED <<cancelled, fault>>
        \/ control'.gen = control.gen /\ fault' = TRUE /\ Interrupt
    <3>1. CASE Off \/ Provision
      BY <3>1 DEF Off, Provision, Inhibit, TypeTasks
    <3>2. CASE TimedOn \/ Apply \/ \E on, timed \in BOOLEAN : Command(on, timed)
      BY <3>2 DEF TimedOn, Apply, Command, TypeTasks
    <3>3. CASE Fleet \/ SetupDone \/ Elapse
      BY <3>3 DEF Fleet, SetupDone, Elapse
    <3>4. CASE LocalFault
      <4>1. UNCHANGED control /\ ((fault' = TRUE /\ Interrupt) \/ UNCHANGED <<cancelled, fault>>)
        BY <3>4 DEF LocalFault, Interrupt
      <4>2. control'.gen = control.gen
        BY <4>1
      <4> QED
        BY <4>1, <4>2
    <3> QED
      BY <3>1, <3>2, <3>3, <3>4 DEF Tasks
  <2>3. web'.gen <= control'.gen /\ transfer'.gen <= control'.gen
    BY <1>1, <2>1, <2>2 DEF Image, Marked
  <2>4. Active' /\ cancelled' => fault' \/ transfer'.gen < control'.gen
    <3>1. CASE UNCHANGED cancelled
      BY <1>1, <2>1, <2>2, <3>1 DEF Image, Marked, Active
    <3>2. CASE control'.gen = control.gen + 1 \/ fault'
      BY <1>1, <2>1, <3>2 DEF Image, Marked
    <3> QED
      BY <2>2, <3>1, <3>2
  <2>5. worker'.pc = "restart" => ~cancelled'
    BY <1>1, <2>2, Zenon DEF Image, Marked, Interrupt
  <2> QED
    BY <2>3, <2>4, <2>5 DEF Marked
<1> QED
  BY <1>2, <1>3 DEF Image

\* The handlers: a chunk is taken only where the last one ended, and only into a
\* free buffer, whatever is late or repeated (ota_begin, ota_chunk, ota_finish).
LEMMA RequestsImage ==
    ASSUME Inv, Image, Requests
    PROVE  Image'
<1> USE DEF Inv, TypeOK
<1>1. CASE Refuse \/ \E op \in {"begin", "request"} : Ask(op)
  <2>1. flash.boots = "spare" /\ web'.op = "begin" => web.op = "begin"
    BY <1>1 DEF Refuse, NoRequest, Ask, MayBegin, LeftOver, TypeWorker
  <2>2. /\ UNCHANGED <<transfer, worker, buffer, flash, boot, control, cancelled, fault>>
        /\ web'.gen \in {0, control.gen}
    BY <1>1 DEF Refuse, NoRequest, Ask
  <2>3. Staged' /\ Counted' /\ Filled' /\ Chosen'
    BY <2>1, <2>2, Aside
  <2>4. Marked'
    BY <2>2, FirmwareAssumption DEF Image, Marked, Active, TypeTasks
  <2> QED
    BY <2>3, <2>4 DEF Image
<1>2. ASSUME NEW total \in Sizes, Begin(total)
     PROVE  Image'
  <2>1. CASE Active
    <3>1. /\ UNCHANGED <<transfer, worker, buffer, flash, boot, control, cancelled, fault>>
          /\ web' = NoRequest
      BY <1>2, <2>1 DEF Begin
    <3>2. Staged' /\ Counted' /\ Filled' /\ Chosen'
      BY <3>1, Aside DEF NoRequest
    <3>3. Marked'
      BY <3>1, FirmwareAssumption DEF NoRequest, Image, Marked, Active, TypeTasks
    <3> QED
      BY <3>2, <3>3 DEF Image
  <2>2. CASE ~Active
    <3>1. /\ ~busy /\ ~worker.open /\ worker.pc \in {"top", "look", "sweep"}
          /\ flash.boots = "running"
      BY <1>2 DEF Begin, GateHeld, LeftOver, Image, Chosen, TypeFlash
    <3>2. /\ transfer'.state = "Preparing" /\ transfer'.received = 0
          /\ transfer'.gen = web.gen /\ ~cancelled' /\ web' = NoRequest
          /\ UNCHANGED <<worker, flash, control>>
      BY <1>2, <2>2 DEF Begin, Started, NoTransfer
    <3>3. Staged' /\ Counted'
      BY <3>1, <3>2 DEF Staged, Counted
    <3>4. Filled' /\ Chosen'
      BY <3>1, <3>2 DEF Filled, Chosen
    <3>5. Marked'
      BY <3>1, <3>2, FirmwareAssumption DEF Image, Marked, NoRequest, TypeTasks
    <3> QED
      BY <3>3, <3>4, <3>5 DEF Image
  <2> QED
    BY <2>1, <2>2
<1>3. ASSUME NEW total \in Sizes, NEW id \in 1 .. MaxUploads, NEW offset \in 0 .. total,
            NEW bytes \in 1 .. MaxChunk, Chunk(id, offset, bytes)
     PROVE  Image'
  <2>1. /\ transfer.state = "Receiving" /\ transfer'.state = "Writing"
        /\ transfer'.id = transfer.id /\ transfer'.received = transfer.received
        /\ transfer'.total = transfer.total /\ transfer'.gen = transfer.gen
        /\ buffer' = [id |-> transfer'.id, offset |-> transfer'.received,
                      bytes |-> transfer'.queued]
        /\ UNCHANGED <<worker, flash, control, fault, cancelled, boot>> /\ web' = NoRequest
    BY <1>3 DEF Chunk, Acceptable, TypeSession
  <2>2. Staged'
    BY <2>1 DEF Image, Staged
  <2>3. Counted'
    BY <2>1 DEF Image, Counted, Staged
  <2>4. Filled' /\ Chosen'
    BY <2>1 DEF Image, Filled, Chosen, Staged
  <2>5. Marked'
    BY <2>1, FirmwareAssumption DEF Image, Marked, NoRequest, TypeTasks, Active, ActiveStates
  <2> QED
    BY <2>2, <2>3, <2>4, <2>5 DEF Image
<1>4. ASSUME NEW id \in 1 .. MaxUploads, Finish(id)
     PROVE  Image'
  <2>1. /\ transfer.state = "Receiving" /\ transfer'.state = "Verifying"
        /\ transfer.received = transfer.total
        /\ transfer'.id = transfer.id /\ transfer'.received = transfer.received
        /\ transfer'.total = transfer.total /\ transfer'.gen = transfer.gen
        /\ UNCHANGED <<worker, flash, control, fault, cancelled, boot>> /\ web' = NoRequest
    BY <1>4 DEF Finish, Finishable, TypeSession
  <2>2. Staged'
    BY <2>1 DEF Image, Staged
  <2>3. Counted'
    BY <2>1 DEF Image, Counted, Staged
  <2>4. Filled' /\ Chosen'
    BY <2>1 DEF Image, Filled, Chosen, Staged
  <2>5. Marked'
    BY <2>1, FirmwareAssumption DEF Image, Marked, NoRequest, TypeTasks, Active, ActiveStates
  <2> QED
    BY <2>2, <2>3, <2>4, <2>5 DEF Image
<1>5. ASSUME NEW id \in 1 .. MaxUploads, Abort(id)
     PROVE  Image'
  <2>1. /\ transfer'.state = "Failed"
        /\ transfer'.id = transfer.id /\ transfer'.total = transfer.total
        /\ transfer'.gen = transfer.gen /\ Interrupt
        /\ UNCHANGED <<worker, flash, control, fault, boot, web>>
    BY <1>5 DEF Abort, FailSession, TypeSession
  <2>2. Staged' /\ Counted'
    BY <2>1 DEF Image, Staged, Counted
  <2>3. Filled' /\ Chosen'
    BY <2>1 DEF Image, Filled, Chosen
  <2>4. Marked'
    BY <2>1 DEF Image, Marked, Active, ActiveStates, Interrupt
  <2> QED
    BY <2>2, <2>3, <2>4 DEF Image
<1> QED
  BY <1>1, <1>2, <1>3, <1>4, <1>5 DEF Requests

\* The update worker.  It takes the chunk out of the buffer, writes it and counts it in
\* three steps, and each of them finds the session as the one before left it, or failed.
LEMMA WorkerImage ==
    ASSUME Inv, Image, WorkerStep
    PROVE  Image'
<1> USE DEF Inv, TypeOK
<1>1. CASE Look
  <2>1. /\ UNCHANGED <<transfer, buffer, flash, boot, web, control, cancelled, fault>>
        /\ worker.pc \in {"top", "look"} /\ worker'.open = worker.open
        /\ worker'.saw = transfer.state
        /\ worker'.pc \in {"judge", "sweep"} /\ (worker'.pc = "judge" => Active)
    BY <1>1 DEF Look, OnlyWorker, TypeWorker, Active
  <2>2. Staged'
    BY <2>1 DEF Image, Staged
  <2>3. Counted'
    BY <2>1 DEF Image, Counted, Staged
  <2>4. Filled'
    BY <2>1 DEF Image, Filled, Counted, Staged, Chosen
  <2>5. Chosen'
    BY <2>1 DEF Image, Chosen, Active, ActiveStates
  <2>6. Marked'
    BY <2>1 DEF Image, Marked, Active, ActiveStates, StillCurrent, Current
  <2> QED
    BY <2>2, <2>3, <2>4, <2>5, <2>6 DEF Image
<1>2. CASE Sweep
  <2>1. /\ UNCHANGED <<transfer, buffer, flash, boot, web, control, cancelled, fault>>
        /\ worker.pc = "sweep" /\ worker'.open = worker.open
        /\ worker'.pc \in {"top", "fail"}
    BY <1>2 DEF Sweep, SweepBusy, OnlyWorker, TypeWorker, Go
  <2>2. Staged'
    BY <2>1 DEF Image, Staged
  <2>3. Counted'
    BY <2>1 DEF Image, Counted, Staged
  <2>4. Filled'
    BY <2>1 DEF Image, Filled, Counted, Staged, Chosen
  <2>5. Chosen'
    BY <2>1 DEF Image, Chosen, Staged, GateHeld
  <2>6. Marked'
    BY <2>1 DEF Image, Marked, Active, ActiveStates, StillCurrent, Current
  <2> QED
    BY <2>2, <2>3, <2>4, <2>5, <2>6 DEF Image
<1>3. CASE Judge
  <2>1. /\ UNCHANGED <<transfer, buffer, flash, boot, web, control, cancelled, fault>>
        /\ worker.pc = "judge" /\ worker'.open = worker.open
        /\ \/ worker'.pc \in {"top", "fail"}
           \/ worker.saw = "Preparing" /\ worker'.pc = "prepare"
           \/ worker.saw = "Writing" /\ worker.open /\ worker'.pc = "check"
           \/ worker.saw = "Writing" /\ ~worker.open /\ worker'.pc = "open"
           \/ worker.saw = "Verifying" /\ worker'.pc = "end"
           \/ worker.saw = "Rebooting" /\ worker'.pc = "last"
    BY <1>3 DEF Judge, Check, Task, OnlyWorker, TypeWorker, Go
  <2>2. Staged'
    BY <2>1 DEF Image, Staged
  <2>3. Counted'
    BY <2>1 DEF Image, Counted, Staged
  <2>4. Filled'
    BY <2>1 DEF Image, Filled, Counted, Staged, Chosen
  <2>5. Chosen'
    BY <2>1 DEF Image, Chosen, Staged, GateHeld
  <2>6. Marked'
    BY <2>1 DEF Image, Marked, Active, ActiveStates, StillCurrent, Current
  <2> QED
    BY <2>2, <2>3, <2>4, <2>5, <2>6 DEF Image
<1>4. CASE Prepare
  <2>1. /\ UNCHANGED <<transfer, buffer, flash, boot, web, control, cancelled, fault>>
        /\ worker.pc = "prepare" /\ worker'.open = worker.open
        /\ worker'.pc \in {"top", "quiet"}
    BY <1>4 DEF Prepare, PrepareOff, OnlyWorker, TypeWorker, Go
  <2>2. Staged'
    BY <2>1 DEF Image, Staged
  <2>3. Counted'
    BY <2>1 DEF Image, Counted, Staged
  <2>4. Filled'
    BY <2>1 DEF Image, Filled, Counted, Staged, Chosen
  <2>5. Chosen'
    BY <2>1 DEF Image, Chosen, Staged, GateHeld
  <2>6. Marked'
    BY <2>1 DEF Image, Marked, Active, ActiveStates, StillCurrent, Current
  <2> QED
    BY <2>2, <2>3, <2>4, <2>5, <2>6 DEF Image
<1>5. CASE Quiet
  <2>1. /\ UNCHANGED <<transfer, buffer, flash, boot, web, control, cancelled, fault>>
        /\ worker.pc = "quiet" /\ worker'.open = worker.open
        /\ worker'.pc \in {"top", "ready"}
    BY <1>5 DEF Quiet, OnlyWorker, TypeWorker, Go
  <2>2. Staged'
    BY <2>1 DEF Image, Staged
  <2>3. Counted'
    BY <2>1 DEF Image, Counted, Staged
  <2>4. Filled'
    BY <2>1 DEF Image, Filled, Counted, Staged, Chosen
  <2>5. Chosen'
    BY <2>1 DEF Image, Chosen, Staged, GateHeld
  <2>6. Marked'
    BY <2>1 DEF Image, Marked, Active, ActiveStates, StillCurrent, Current
  <2> QED
    BY <2>2, <2>3, <2>4, <2>5, <2>6 DEF Image
<1>6. CASE CheckWrite
  <2>1. /\ UNCHANGED <<transfer, buffer, flash, boot, web, control, cancelled, fault>>
        /\ worker.pc = "check" /\ worker'.open = worker.open
        /\ worker'.pc \in {"write", "fail"}
    BY <1>6 DEF CheckWrite, Check, OnlyWorker, TypeWorker, Go
  <2>2. Staged'
    BY <2>1 DEF Image, Staged
  <2>3. Counted'
    BY <2>1 DEF Image, Counted, Staged
  <2>4. Filled'
    BY <2>1 DEF Image, Filled, Counted, Staged, Chosen
  <2>5. Chosen'
    BY <2>1 DEF Image, Chosen, Staged, GateHeld
  <2>6. Marked'
    BY <2>1 DEF Image, Marked, Active, ActiveStates, StillCurrent, Current
  <2> QED
    BY <2>2, <2>3, <2>4, <2>5, <2>6 DEF Image
<1>7. CASE Recheck
  <2>1. /\ UNCHANGED <<transfer, buffer, flash, boot, web, control, cancelled, fault>>
        /\ worker.pc = "recheck" /\ worker'.open = worker.open
        /\ worker'.pc \in {"top", "fail"}
    BY <1>7 DEF Recheck, Check, OnlyWorker, TypeWorker, Go
  <2>2. Staged'
    BY <2>1 DEF Image, Staged
  <2>3. Counted'
    BY <2>1 DEF Image, Counted, Staged
  <2>4. Filled'
    BY <2>1 DEF Image, Filled, Counted, Staged, Chosen
  <2>5. Chosen'
    BY <2>1 DEF Image, Chosen, Staged, GateHeld
  <2>6. Marked'
    BY <2>1 DEF Image, Marked, Active, ActiveStates, StillCurrent, Current
  <2> QED
    BY <2>2, <2>3, <2>4, <2>5, <2>6 DEF Image
<1>8. CASE CheckSelect
  <2>1. /\ UNCHANGED <<transfer, buffer, flash, boot, web, control, cancelled, fault>>
        /\ worker.pc = "choose" /\ worker'.open = worker.open
        /\ ((worker'.pc = "select" /\ transfer.state # "Failed") \/ worker'.pc = "fail")
    BY <1>8 DEF CheckSelect, Check, StillCurrent, Current, Active, ActiveStates, OnlyWorker, TypeWorker, Go
  <2>2. Staged'
    BY <2>1 DEF Image, Staged
  <2>3. Counted'
    BY <2>1 DEF Image, Counted, Staged
  <2>4. Filled'
    BY <2>1 DEF Image, Filled, Counted, Staged, Chosen
  <2>5. Chosen'
    BY <2>1 DEF Image, Chosen, Staged, GateHeld
  <2>6. Marked'
    BY <2>1 DEF Image, Marked, Active, ActiveStates, StillCurrent, Current
  <2> QED
    BY <2>2, <2>3, <2>4, <2>5, <2>6 DEF Image
<1>9. CASE Accept
  <2>1. /\ UNCHANGED <<transfer, buffer, flash, boot, web, control, cancelled, fault>>
        /\ worker.pc = "accept" /\ worker'.open = worker.open
        /\ worker'.pc \in {"top", "fail"}
    BY <1>9 DEF Accept, OnlyWorker, TypeWorker, Go
  <2>2. Staged'
    BY <2>1 DEF Image, Staged
  <2>3. Counted'
    BY <2>1 DEF Image, Counted, Staged
  <2>4. Filled'
    BY <2>1 DEF Image, Filled, Counted, Staged, Chosen
  <2>5. Chosen'
    BY <2>1 DEF Image, Chosen, Staged, GateHeld
  <2>6. Marked'
    BY <2>1 DEF Image, Marked, Active, ActiveStates, StillCurrent, Current
  <2> QED
    BY <2>2, <2>3, <2>4, <2>5, <2>6 DEF Image
<1>10. CASE BeforeRestart
  <2>1. /\ UNCHANGED <<transfer, buffer, flash, boot, web, control, cancelled, fault>>
        /\ worker.pc = "last" /\ worker'.open = worker.open
        /\ ((worker'.pc = "restart" /\ StillCurrent) \/ worker'.pc = "fail")
    BY <1>10 DEF BeforeRestart, LastCheck, Check, OnlyWorker, TypeWorker, Go
  <2>2. Staged'
    BY <2>1 DEF Image, Staged
  <2>3. Counted'
    BY <2>1 DEF Image, Counted, Staged
  <2>4. Filled'
    BY <2>1 DEF Image, Filled, Counted, Staged, Chosen
  <2>5. Chosen'
    BY <2>1 DEF Image, Chosen, Staged, GateHeld
  <2>6. Marked'
    <3>1. transfer.gen \in Nat /\ control.gen \in Nat
      BY FirmwareAssumption DEF TypeTasks, TypeSession
    <3>2. StillCurrent => ~cancelled
      BY <3>1 DEF Image, Marked, StillCurrent, Current
    <3> QED
      BY <2>1, <3>2 DEF Image, Marked, Active
  <2> QED
    BY <2>2, <2>3, <2>4, <2>5, <2>6 DEF Image
<1>11. CASE OpenGate
  <2>1. /\ UNCHANGED <<transfer, buffer, flash, boot, web, control, cancelled, fault>>
        /\ worker.pc = "release" /\ worker'.open = worker.open
        /\ worker'.pc = "top"
    BY <1>11 DEF OpenGate, OnlyWorker, TypeWorker, Go
  <2>2. Staged'
    BY <2>1 DEF Image, Staged
  <2>3. Counted'
    BY <2>1 DEF Image, Counted, Staged
  <2>4. Filled'
    BY <2>1 DEF Image, Filled, Counted, Staged, Chosen
  <2>5. Chosen'
    BY <2>1 DEF Image, Chosen, Staged, GateHeld
  <2>6. Marked'
    BY <2>1 DEF Image, Marked, Active, ActiveStates, StillCurrent, Current
  <2> QED
    BY <2>2, <2>3, <2>4, <2>5, <2>6 DEF Image
<1>12. CASE Fail
  <2>1. /\ UNCHANGED <<transfer, buffer, boot, web, control, cancelled>>
        /\ worker.pc = "fail" /\ worker'.pc = "failed" /\ ~worker'.open
        /\ flash'.spare = flash.spare /\ flash'.whole = flash.whole
        /\ flash'.boots \in {flash.boots, "running"} /\ (fault => fault')
    <3>1. /\ UNCHANGED <<transfer, buffer, boot, web, control, cancelled>>
          /\ worker.pc = "fail" /\ worker'.pc = "failed" /\ ~worker'.open
      BY <1>12 DEF Fail, Cleanup, OnlyWorker, TypeWorker
    <3>2. \/ UNCHANGED flash
          \/ flash' = [flash EXCEPT !.boots = "running", !.confirmed = FALSE]
      BY <1>12 DEF Fail, Cleanup
    <3>3. /\ flash'.spare = flash.spare /\ flash'.whole = flash.whole
          /\ flash'.boots \in {flash.boots, "running"}
      BY <3>2 DEF TypeFlash
    <3>4. fault => fault'
      BY <1>12 DEF Fail, Cleanup
    <3> QED
      BY <3>1, <3>3, <3>4
  <2>2. Staged'
    BY <2>1 DEF Image, Staged
  <2>3. Counted'
    BY <2>1 DEF Image, Counted, Staged
  <2>4. Filled'
    BY <2>1 DEF Image, Filled, Counted, Staged, Chosen
  <2>5. Chosen'
    BY <2>1 DEF Image, Chosen, Staged, GateHeld
  <2>6. Marked'
    BY <2>1 DEF Image, Marked, Active
  <2> QED
    BY <2>2, <2>3, <2>4, <2>5, <2>6 DEF Image
<1>13. CASE FailTransfer
  <2>1. /\ UNCHANGED <<buffer, flash, boot, web, control, cancelled, fault>>
        /\ worker.pc = "failed" /\ worker'.pc = "release" /\ worker'.open = worker.open
        /\ transfer'.state = "Failed" /\ transfer'.id = transfer.id
        /\ transfer'.total = transfer.total /\ transfer'.gen = transfer.gen
    BY <1>13 DEF FailTransfer, FailSession, TypeSession, OnlyWorker, TypeWorker, Go
  <2>2. Staged'
    BY <2>1 DEF Image, Staged
  <2>3. Counted'
    BY <2>1 DEF Image, Counted, Staged
  <2>4. Filled'
    BY <2>1 DEF Image, Filled, Counted, Staged, Chosen
  <2>5. Chosen'
    BY <2>1 DEF Image, Chosen, Staged, GateHeld
  <2>6. Marked'
    BY <2>1 DEF Image, Marked, Active, ActiveStates, StillCurrent, Current
  <2> QED
    BY <2>2, <2>3, <2>4, <2>5, <2>6 DEF Image
<1>14. CASE Ready
  <2>1. /\ UNCHANGED <<buffer, flash, boot, web, control, cancelled, fault>>
        /\ worker.pc = "ready" /\ worker'.pc = "top" /\ worker'.open = worker.open
        /\ transfer'.id = transfer.id /\ transfer'.total = transfer.total
        /\ transfer'.received = transfer.received /\ transfer'.gen = transfer.gen
        /\ \/ transfer'.state = "Failed"
           \/ transfer.state = "Preparing" /\ transfer'.state = "Receiving"
    BY <1>14 DEF Ready, FailSession, TypeSession, OnlyWorker, TypeWorker, Go
  <2>2. Staged'
    BY <2>1 DEF Image, Staged
  <2>3. Counted'
    BY <2>1 DEF Image, Counted, Staged
  <2>4. Filled'
    BY <2>1 DEF Image, Filled, Counted, Staged, Chosen
  <2>5. Chosen'
    BY <2>1 DEF Image, Chosen, Staged, GateHeld
  <2>6. Marked'
    BY <2>1 DEF Image, Marked, Active, ActiveStates, StillCurrent, Current
  <2> QED
    BY <2>2, <2>3, <2>4, <2>5, <2>6 DEF Image
<1>15. CASE End
  <2>1. /\ UNCHANGED <<transfer, buffer, boot, web, control, cancelled, fault>>
        /\ worker.pc = "end" /\ ~worker'.open
        /\ flash'.spare = flash.spare /\ flash'.boots = flash.boots
        /\ \/ worker'.pc = "fail"
           \/ worker.open /\ worker'.pc = "choose" /\ flash'.whole
    BY <1>15 DEF End, OnlyWorker, TypeWorker, TypeFlash
  <2>2. Staged'
    BY <2>1 DEF Image, Staged
  <2>3. Counted'
    BY <2>1 DEF Image, Counted, Staged
  <2>4. Filled'
    BY <2>1 DEF Image, Filled, Counted, Staged, Chosen
  <2>5. Chosen'
    BY <2>1 DEF Image, Chosen, Staged, GateHeld
  <2>6. Marked'
    BY <2>1 DEF Image, Marked, Active, ActiveStates, StillCurrent, Current
  <2> QED
    BY <2>2, <2>3, <2>4, <2>5, <2>6 DEF Image
<1>16. CASE Verified
  <2>1. /\ UNCHANGED <<buffer, flash, boot, web, control, cancelled, fault>>
        /\ worker.pc = "verified" /\ worker'.open = worker.open
        /\ transfer'.id = transfer.id /\ transfer'.total = transfer.total
        /\ transfer'.received = transfer.received /\ transfer'.gen = transfer.gen
        /\ \/ worker'.pc = "fail" /\ UNCHANGED transfer
           \/ /\ worker'.pc = "accept" /\ transfer.state = "Verifying"
              /\ transfer'.state = "Rebooting"
    BY <1>16 DEF Verified, TypeSession, OnlyWorker, TypeWorker, Go
  <2>2. Staged'
    BY <2>1 DEF Image, Staged
  <2>3. Counted'
    BY <2>1 DEF Image, Counted, Staged
  <2>4. Filled'
    BY <2>1 DEF Image, Filled, Counted, Staged, Chosen
  <2>5. Chosen'
    BY <2>1 DEF Image, Chosen, Staged, GateHeld
  <2>6. Marked'
    BY <2>1 DEF Image, Marked, Active, ActiveStates, StillCurrent, Current
  <2> QED
    BY <2>2, <2>3, <2>4, <2>5, <2>6 DEF Image
<1>17. CASE Select
  <2>1. /\ UNCHANGED <<transfer, buffer, boot, web, control, cancelled>>
        /\ worker.pc = "select" /\ worker'.open = worker.open /\ UNCHANGED fault
        /\ flash'.spare = flash.spare /\ flash'.whole = flash.whole
        /\ worker'.pc \in {"verified", "fail"} /\ ~boot.pending /\ web.op # "begin"
    BY <1>17 DEF Select, OnlyWorker, TypeWorker, TypeFlash, GateHeld
  <2>2. Staged'
    BY <2>1 DEF Image, Staged
  <2>3. Counted'
    BY <2>1 DEF Image, Counted, Staged
  <2>4. Filled'
    BY <2>1 DEF Image, Filled, Counted, Staged, Chosen
  <2>5. Chosen'
    BY <2>1 DEF Image, Chosen, Staged, GateHeld
  <2>6. Marked'
    BY <2>1 DEF Image, Marked, Active, ActiveStates, StillCurrent, Current
  <2> QED
    BY <2>2, <2>3, <2>4, <2>5, <2>6 DEF Image
<1>18. CASE Open
  <2>1. /\ UNCHANGED <<transfer, buffer, boot, web, control, cancelled, fault>>
        /\ worker.pc = "open" /\ flash'.boots = flash.boots
        /\ \/ worker'.pc = "fail" /\ worker'.open = worker.open /\ UNCHANGED flash
           \/ worker'.pc = "check" /\ worker'.open /\ flash'.spare = <<>>
    BY <1>18 DEF Open, TypeFlash, OnlyWorker, TypeWorker, Go
  <2>2. Staged'
    BY <2>1 DEF Image, Staged
  <2>3. Counted'
    BY <2>1 DEF Image, Counted, Staged
  <2>4. Filled'
    <3>1. CASE worker'.pc = "fail"
      BY <2>1, <3>1 DEF Image, Filled, Staged
    <3>2. CASE worker'.pc = "check"
      <4>1. transfer.state = "Writing" => transfer.received = 0
        BY <2>1 DEF Image, Counted
      <4>2. Holds(flash'.spare, transfer'.id, 0) /\ flash'.boots # "spare"
        BY <2>1, <3>2, HoldsNothing DEF Image, Chosen
      <4> QED
        BY <2>1, <3>2, <4>1, <4>2 DEF Image, Filled, Staged
    <3> QED
      BY <2>1, <3>1, <3>2
  <2>5. Chosen'
    BY <2>1 DEF Image, Chosen, Staged, GateHeld
  <2>6. Marked'
    BY <2>1 DEF Image, Marked, Active, ActiveStates, StillCurrent, Current
  <2> QED
    BY <2>2, <2>3, <2>4, <2>5, <2>6 DEF Image
<1>19. CASE Write
  <2>1. /\ UNCHANGED <<transfer, buffer, boot, web, control, cancelled, fault>>
        /\ worker.pc = "write" /\ worker'.open = worker.open /\ flash'.boots = flash.boots
        /\ \/ worker'.pc = "fail" /\ UNCHANGED flash
           \/ worker'.pc = "written" /\ flash'.spare = Append(flash.spare, buffer)
    BY <1>19 DEF Write, TypeFlash, OnlyWorker, TypeWorker, Go
  <2>2. Staged'
    BY <2>1 DEF Image, Staged
  <2>3. Counted'
    BY <2>1 DEF Image, Counted, Staged
  <2>4. Filled'
    <3>1. CASE worker'.pc = "fail"
      BY <2>1, <3>1 DEF Image, Filled, Staged
    <3>2. CASE worker'.pc = "written"
      <4>1. flash'.boots # "spare"
        BY <2>1 DEF Image, Chosen
      <4>2. CASE transfer.state = "Writing"
        <5>1. /\ Holds(flash.spare, transfer.id, transfer.received)
              /\ buffer.id = transfer.id /\ buffer.offset = transfer.received
              /\ buffer.bytes = transfer.queued
          BY <2>1, <4>2 DEF Image, Filled, Counted
        <5>2. flash.spare \in Seq(Chunks) /\ buffer \in Chunks
          BY DEF TypeFlash
        <5>3. Holds(flash'.spare, transfer'.id, transfer.received + transfer.queued)
          BY <2>1, <3>2, <5>1, <5>2, HoldsMore
        <5> QED
          BY <2>1, <3>2, <4>1, <4>2, <5>3 DEF Filled
      <4> QED
        BY <2>1, <3>2, <4>1, <4>2 DEF Filled, Image, Staged
    <3> QED
      BY <2>1, <3>1, <3>2
  <2>5. Chosen'
    BY <2>1 DEF Image, Chosen, Staged, GateHeld
  <2>6. Marked'
    BY <2>1 DEF Image, Marked, Active, ActiveStates, StillCurrent, Current
  <2> QED
    BY <2>2, <2>3, <2>4, <2>5, <2>6 DEF Image
<1>20. CASE Written
  <2>1. /\ UNCHANGED <<buffer, flash, boot, web, control, cancelled, fault>>
        /\ worker.pc = "written" /\ worker'.open = worker.open
        /\ transfer'.id = transfer.id /\ transfer'.total = transfer.total
        /\ transfer'.gen = transfer.gen
        /\ \/ worker'.pc = "fail" /\ UNCHANGED transfer
           \/ /\ worker'.pc = "recheck" /\ transfer.state = "Writing"
              /\ transfer'.state = "Receiving"
              /\ transfer'.received = transfer.received + buffer.bytes
    BY <1>20 DEF Written, TypeSession, OnlyWorker, TypeWorker, Go
  <2>2. Staged'
    BY <2>1 DEF Image, Staged
  <2>3. Counted'
    BY <2>1 DEF Image, Counted, Staged
  <2>4. Filled'
    BY <2>1 DEF Image, Filled, Counted, Staged, Chosen
  <2>5. Chosen'
    BY <2>1 DEF Image, Chosen, Staged, GateHeld
  <2>6. Marked'
    BY <2>1 DEF Image, Marked, Active, ActiveStates, StillCurrent, Current
  <2> QED
    BY <2>2, <2>3, <2>4, <2>5, <2>6 DEF Image
<1>21. CASE CheckBoot
  <2>1. CASE Doomed /\ flash.whole /\ Start(FALSE, Swapped(FALSE, TRUE))
    BY <2>1, StartImage DEF Swapped
  <2>2. CASE ~(Doomed /\ flash.whole /\ Start(FALSE, Swapped(FALSE, TRUE)))
    <3>1. /\ UNCHANGED <<control, transfer, buffer, web, cancelled>> /\ (fault => fault')
          /\ worker.pc = "top" /\ worker'.pc = "look" /\ worker'.open = worker.open
          /\ boot.pending
          /\ flash'.spare = flash.spare /\ flash'.whole = flash.whole
          /\ flash'.boots = flash.boots
      BY <1>21, <2>2 DEF CheckBoot, Rollback, Go, TypeWorker, TypeFlash
    <3>2. flash.boots # "spare"
      BY <3>1 DEF Image, Chosen
    <3>3. Staged' /\ Counted'
      BY <3>1 DEF Image, Staged, Counted
    <3>4. Filled' /\ Chosen'
      BY <3>1, <3>2 DEF Image, Filled, Chosen
    <3>5. Marked'
      BY <3>1 DEF Image, Marked, Active
    <3> QED
      BY <3>3, <3>4, <3>5 DEF Image
  <2> QED
    BY <2>1, <2>2
<1>22. CASE Restart
  BY <1>22, BootImage DEF Restart
<1> QED
  BY <1>1, <1>2, <1>3, <1>4, <1>5, <1>6, <1>7, <1>8, <1>9, <1>10, <1>11, <1>12, <1>13, <1>14, <1>15, <1>16, <1>17, <1>18, <1>19, <1>20, <1>21, <1>22 DEF WorkerStep

LEMMA StepImage ==
    ASSUME Inv, Image, [Next]_vars
    PROVE  Image'
<1>1. CASE Next
  BY <1>1, TasksImage, RequestsImage, WorkerImage, BootImage DEF Next, PowerLoss, Inv
<1>2. CASE UNCHANGED vars
  BY <1>2 DEF vars, Image, Staged, Counted, Filled, Chosen, Marked, Active
<1> QED
  BY <1>1, <1>2

LEMMA InitImage ==
    ASSUME Init
    PROVE  Image
BY DEF Init, Image, Staged, Counted, Filled, Chosen, Marked, NoTransfer, NoRequest, Active,
       ActiveStates

\* The invariant of the slot: each chunk goes from the request into the buffer, into
\* flash and into the count in this order and once, and nothing is written after the
\* image was checked (firmware_update.cpp, worker in ota.cpp).
THEOREM ImageInvariant == Spec => [](Inv /\ Image)
<1>1. Init => Inv /\ Image
  BY InitInv, InitImage
<1>2. Inv /\ Image /\ [Next]_vars => (Inv /\ Image)'
  BY StepInv, StepImage
<1> QED
  BY <1>1, <1>2, PTL DEF Spec

LEMMA HoldsInOrder ==
    ASSUME NEW n, Holds(flash.spare, transfer.id, n)
    PROVE  InOrder(flash.spare) /\ Stored(flash.spare) = n
BY DEF Holds, InOrder, Stored

\* The slot holds the accepted chunks of this upload, each once and in order, for
\* images and chunks of any size and any number of late, repeated or foreign
\* requests (FirmwareUpdate::chunk and written, esp_ota_write).
THEOREM UploadInSlot == Spec => []SlotIsTheUpload
<1>1. Inv /\ Image => SlotIsTheUpload
  BY HoldsInOrder DEF Image, Filled, SlotIsTheUpload
<1> QED
  BY <1>1, ImageInvariant, PTL

\* The image selected to boot is a complete upload that was verified, also when its
\* session was aborted right before the selection or ends with a failure after it
\* (worker and failed() in ota.cpp).
THEOREM WholeSelected == Spec => []SelectedIsWhole
<1>1. Inv /\ Image => SelectedIsWhole
  BY HoldsInOrder DEF Image, Filled, SelectedIsWhole
<1> QED
  BY <1>1, ImageInvariant, PTL

\* An OFF, a provisioning, an abort or a fault at any moment before the last check
\* keeps the image from being installed (current() of ota.cpp before esp_restart).
THEOREM NeverRestarts == Spec => []CancelledNeverRestarts
<1>1. Inv /\ Image => CancelledNeverRestarts
  BY DEF Image, Marked, CancelledNeverRestarts
<1> QED
  BY <1>1, ImageInvariant, PTL

\* No step of anybody, restarts included, writes to the image to fall back to while
\* the new one is in its self-test (check_boot, ota_boot_initialize).
THEOREM KeptFallback == Spec => FallbackKept
<1> DEFINE Kept == boot.pending /\ boot'.pending =>
                       flash'.spare = flash.spare /\ flash'.whole = flash.whole
<1>1. ASSUME Inv, Image, [Next]_vars
      PROVE  Kept
  <2> SUFFICES ASSUME boot.pending, boot'.pending
               PROVE  flash'.spare = flash.spare /\ flash'.whole = flash.whole
    OBVIOUS
  <2>1. /\ worker.pc \in {"top", "look", "sweep"} /\ flash.boots = "running"
        /\ flash \in Flash
    BY <1>1 DEF Inv, GateHeld, Image, Chosen, TypeOK, TypeFlash, Flash
  <2>2. CASE Tasks \/ Requests \/ UNCHANGED vars
    BY <2>2 DEF Tasks, Off, Provision, TimedOn, Apply, Fleet, SetupDone, LocalFault, Elapse,
        Command, Requests, Ask, Begin, Chunk, Finish, Refuse, Abort, vars
  <2>3. CASE Boot
    BY <2>1, <2>3 DEF Boot, Start, Swapped
  <2>4. CASE CheckBoot
    <3>1. UNCHANGED flash \/ flash' = [flash EXCEPT !.confirmed = TRUE]
      <4>1. CASE Doomed
        <5>1. Rollback
          BY <2>4, <4>1 DEF CheckBoot
        <5>2. ASSUME Start(FALSE, Swapped(FALSE, TRUE))
              PROVE  FALSE
          <6>1. boot' = [pending |-> FALSE, checked |-> ~FALSE, age |-> 0, accepted |-> -1,
                         setup |-> FALSE, late |-> FALSE]
            BY <5>2 DEF Start
          <6>2. boot'.pending = FALSE
            BY <6>1
          <6> QED
            BY <6>2
        <5> QED
          BY <5>1, <5>2 DEF Rollback
      <4>2. CASE ~Doomed
        BY <2>4, <4>2 DEF CheckBoot
      <4> QED
        BY <4>1, <4>2
    <3> QED
      BY <2>1, <3>1 DEF Flash
  <2>5. CASE WorkerStep /\ ~CheckBoot
    BY <2>1, <2>5 DEF WorkerStep, Look, Sweep, Judge, Prepare, Quiet, Ready, Open, CheckWrite,
        Write, Written, Recheck, End, CheckSelect, Select, Verified, Accept, BeforeRestart,
        Restart, Fail, FailTransfer, OpenGate
  <2> QED
    BY <1>1, <2>2, <2>3, <2>4, <2>5 DEF Next, PowerLoss
<1>2. Inv /\ Image /\ [Next]_vars => [Kept]_vars
  BY <1>1
<1> QED
  BY <1>2, ImageInvariant, PTL DEF FallbackKept, Spec

=============================================================================
