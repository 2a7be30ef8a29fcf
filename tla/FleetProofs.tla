---------------------------- MODULE FleetProofs ----------------------------
(***************************************************************************)
(* Proofs about module Fleet, for any intervals, back-off and Retry-After  *)
(* that a server may send.  Each part of the invariant depends on the      *)
(* types only, and each lemma has one case per action that disturbs it.    *)
(***************************************************************************)
EXTENDS Fleet, TLAPS

Steps  == {"top", "gate", "claimed", "poll", "refresh", "refreshing", "fetch", "fetching", "401",
           "done"}
Busy   == Steps \ {"top", "gate", "done"}
Errors == Latching \cup {"None", "Transient", "Budget", "Limited"}

Scheds == [next : Nat, embargo : Nat, manual : Nat, auth : Nat, failures : 0..MaxFailures,
           busy : BOOLEAN, reason : Latching \cup {"None"}, month : {"unset", "seen", "newer"},
           check : BOOLEAN]
Clients == [held : BOOLEAN, access : Nat, revoked : BOOLEAN]
Jobs == [pc : Steps, able : BOOLEAN, poll : BOOLEAN, endpoint : {"status", "location"},
         again : BOOLEAN, retry : 0..MaxRetry, error : Errors]
Controls == [auto : BOOLEAN, moved : BOOLEAN, gated : BOOLEAN, fault : BOOLEAN]
Nets == [wifi : BOOLEAN, synced : BOOLEAN, event : BOOLEAN, callback : {"none", "up", "down"},
         fresh : BOOLEAN, utc_ok : BOOLEAN]
Histories == [late : 0..2, hush : Nat, latched : BOOLEAN]

Types ==
    /\ sched \in Scheds /\ client \in Clients /\ job \in Jobs
    /\ control \in Controls /\ net \in Nets /\ history \in Histories

-----------------------------------------------------------------------------
(* The scheduler's arithmetic.                                             *)

LEMMA Constants ==
    /\ PollEvery \in Nat \ {0} /\ Base \in Nat \ {0} /\ Ceiling \in Nat \ {0}
    /\ ManualEvery \in Nat \ {0} /\ Life \in Nat \ {0} /\ MaxRetry \in Nat \ {0}
    /\ MaxFailures \in 1..7 /\ Jitter \in Nat /\ RetryAfters \subseteq 0..MaxRetry
BY FleetAssumption

\* The back-off never vanishes, and it grows no further than the ceiling.
LEMMA BackoffBounds ==
    ASSUME NEW f \in 1..MaxFailures
    PROVE  Backoff(f) \in 1..Ceiling
<1>1. f \in 1..7
  BY Constants
<1>2. 2 ^ f \in Nat \ {0}
  <2>1. CASE f = 1
    BY <2>1, SMT
  <2>2. CASE f = 2
    BY <2>2, SMT
  <2>3. CASE f = 3
    BY <2>3, SMT
  <2>4. CASE f = 4
    BY <2>4, SMT
  <2>5. CASE f = 5
    BY <2>5, SMT
  <2>6. CASE f = 6
    BY <2>6, SMT
  <2>7. CASE f = 7
    BY <2>7, SMT
  <2> QED
    BY <1>1, <2>1, <2>2, <2>3, <2>4, <2>5, <2>6, <2>7
<1>3. ASSUME NEW n \in Nat \ {0}
      PROVE  Smaller(Ceiling, Base * n) \in 1..Ceiling
  <2>1. Base * n \in Nat /\ Base * n >= 1
    BY Constants
  <2> QED
    BY <2>1, Constants DEF Smaller
<1> QED
  BY <1>2, <1>3 DEF Backoff

\* The wait after an error is not shorter than what the server asked for, unless
\* the error is one of our own budget.
LEMMA WaitLongEnough ==
    ASSUME NEW e, NEW f \in 1..MaxFailures, NEW retry \in 0..MaxRetry, NEW jitter \in 0..Jitter
    PROVE  /\ Wait(e, f, retry, jitter) \in Nat \ {0}
           /\ e # "Budget" => retry <= Wait(e, f, retry, jitter)
<1>1. Backoff(f) + jitter \in Nat \ {0}
  BY BackoffBounds, Constants
<1>2. Smaller(retry, MaxRetry) = retry
  BY Constants DEF Smaller
<1> QED
  BY <1>1, <1>2, Constants DEF Wait, Larger

\* What finish() makes of the scheduler.
LEMMA FinishedSched ==
    ASSUME Types, NEW e \in Errors, NEW retry \in 0..MaxRetry, NEW jitter \in 0..Jitter
    PROVE  /\ Finished(e, retry, jitter) \in Scheds
           /\ e # "None" => LET s == Finished(e, retry, jitter)
                            IN  /\ s.next > 0 /\ s.embargo = s.next /\ s.auth = s.next
                                /\ e # "Budget" => retry <= s.next
                                /\ s.reason = IF e \in Latching THEN e ELSE sched.reason
<1> DEFINE f == Smaller(sched.failures + 1, MaxFailures)
           w == Wait(e, f, retry, jitter)
<1>1. f \in 1..MaxFailures
  BY Constants DEF Smaller, Types, Scheds
<1>2. w \in Nat \ {0} /\ (e # "Budget" => retry <= w)
  BY <1>1, WaitLongEnough
<1>3. CASE e = "None"
  <2>1. Finished(e, retry, jitter) = [sched EXCEPT !.busy = FALSE, !.reason = "None",
            !.failures = 0, !.embargo = 0, !.next = PollEvery, !.auth = 0]
    BY <1>3 DEF Finished
  <2>2. PollEvery \in Nat /\ 0 \in 0..MaxFailures /\ 0 \in Nat
    BY Constants
  <2>3. Finished(e, retry, jitter) \in Scheds
    BY <2>1, <2>2, Zenon DEF Types, Scheds
  <2> QED
    BY <1>3, <2>3
<1>4. CASE e # "None"
  <2>1. Finished(e, retry, jitter) =
          [sched EXCEPT !.busy = FALSE, !.reason = IF e \in Latching THEN e ELSE @,
                        !.failures = f, !.embargo = w, !.next = w, !.auth = w]
    BY <1>4 DEF Finished
  <2>2. f \in 0..MaxFailures /\ w \in Nat
    BY <1>1, <1>2
  <2> HIDE DEF f, w
  <2>3. Finished(e, retry, jitter) \in Scheds
    BY <2>1, <2>2 DEF Types, Scheds
  <2> DEFINE s == Finished(e, retry, jitter)
  <2>4. /\ s.next = w /\ s.embargo = w /\ s.auth = w
        /\ s.reason = IF e \in Latching THEN e ELSE sched.reason
    BY <2>1 DEF Types, Scheds
  <2> HIDE DEF s
  <2>5. /\ s.next > 0 /\ s.embargo = s.next /\ s.auth = s.next
        /\ e # "Budget" => retry <= s.next
    BY <1>2, <2>4
  <2> QED
    BY <2>3, <2>4, <2>5 DEF s
<1> QED
  BY <1>3, <1>4

-----------------------------------------------------------------------------
(* Types.                                                                  *)

LEMMA JobTypes ==
    ASSUME Types
    PROVE  /\ \A pc \in Steps : Goto(pc) => job' \in Jobs
           /\ \A e \in Errors : End(e) => job' \in Jobs
BY DEF Types, Jobs, Goto, End, Steps

\* A month that has begun and a check that was asked for, on the way to the gate.
LEMMA Passed ==
    ASSUME Types, Pass
    PROVE  /\ sched' \in Scheds /\ ~sched'.check
           /\ sched'.embargo = sched.embargo /\ sched'.auth = sched.auth
           /\ \/ /\ sched'.next \in {sched.next, sched.embargo}
                 /\ sched'.reason = sched.reason \/ ~history'.latched
              \/ sched.check /\ sched.embargo = 0 /\ sched'.next = 0
<1> DEFINE m == IF Ready THEN CalendarMonth(sched) ELSE sched
           c == IF sched.check THEN CheckNow(m) ELSE m
<1>0. 0 \in 0..MaxFailures /\ ManualEvery \in Nat
  BY Constants
<1>1. /\ m \in Scheds
      /\ m.embargo = sched.embargo /\ m.auth = sched.auth
      /\ m.next \in {sched.next, sched.embargo}
  BY <1>0 DEF CalendarMonth, Types, Scheds
<1>2. history'.latched => m.reason = sched.reason
  BY DEF Pass, Types, Histories
<1>3. sched' = [c EXCEPT !.check = FALSE]
  BY DEF Pass
<1> HIDE DEF m
<1>4. /\ c \in Scheds
      /\ c.embargo = m.embargo /\ c.auth = m.auth
      /\ \/ c.next = m.next /\ c.reason = m.reason
         \/ sched.check /\ m.embargo = 0 /\ c.next = 0
  <2>1. \/ c = m
        \/ /\ sched.check /\ m.embargo = 0
           /\ c = [m EXCEPT !.manual = ManualEvery, !.reason = "None", !.next = 0]
    BY <1>1 DEF CheckNow, Scheds
  <2>2. CASE c = m
    BY <1>1, <2>2
  <2>3. CASE c # m
    <3>1. c \in Scheds
      BY <1>0, <1>1, <2>1, <2>3 DEF Scheds
    <3> QED
      BY <1>1, <2>1, <2>3, <3>1 DEF Scheds
  <2> QED
    BY <2>2, <2>3
<1> HIDE DEF c
<1>5. /\ sched' \in Scheds /\ sched'.check = FALSE
      /\ sched'.embargo = c.embargo /\ sched'.auth = c.auth
      /\ sched'.next = c.next /\ sched'.reason = c.reason
  BY <1>3, <1>4 DEF Scheds
<1> QED
  BY <1>1, <1>2, <1>4, <1>5

LEMMA WorkerTypes ==
    ASSUME Types, Worker
    PROVE  Types'
<1> USE DEF Types
<1>1. CASE Pass
  <2>1. job' \in Jobs /\ control' \in Controls
    BY <1>1 DEF Pass, Jobs, Controls, Steps
  <2>2. history' = [history EXCEPT !.latched = history'.latched] /\ history'.latched \in BOOLEAN
    BY <1>1 DEF Pass, Histories
  <2>3. history' \in Histories
    BY <2>2 DEF Histories
  <2> QED
    BY <1>1, <2>1, <2>3, Passed DEF Pass
<1>2. CASE Start
  <2>1. job' \in Jobs
    BY <1>2 DEF Start, Jobs, Steps, Due
  <2> QED
    BY <1>2, <2>1 DEF Start, Local, World
<1>3. CASE Claim
  <2>1. job' \in Jobs
    BY <1>3, JobTypes DEF Claim, Steps
  <2>2. sched' \in Scheds
    BY <1>3 DEF Claim, Scheds, Jobs
  <2> QED
    BY <1>3, <2>1, <2>2 DEF Claim, World
<1>4. CASE Poll \/ Unauthorized
  <2>1. job' \in Jobs
    BY <1>4, JobTypes DEF Poll, Unauthorized, Steps, Errors, Latching
  <2> QED
    BY <1>4, <2>1 DEF Poll, Unauthorized, Local, World
<1>5. CASE Refresh \/ Fetch
  <2>1. job' \in Jobs
    BY <1>5, JobTypes DEF Refresh, Fetch, Send, Steps, Errors, Latching
  <2>2. history' \in Histories
    BY <1>5 DEF Refresh, Fetch, Send, Smaller, Histories
  <2> QED
    BY <1>5, <2>1, <2>2 DEF Refresh, Fetch, World
<1>6. CASE RefreshReply \/ FetchReply
  <2>1. \A retry \in RetryAfters : Limited(retry) => job' \in Jobs /\ history' \in Histories
    <3>1. ASSUME NEW retry \in 0..MaxRetry, Limited(retry)
          PROVE  job' \in Jobs /\ history' \in Histories
      <4>1. /\ Larger(job.retry, retry) \in 0..MaxRetry
            /\ Larger(history.hush, retry) \in Nat
        BY Constants DEF Larger, Jobs, Histories
      <4>2. "Limited" \in Errors /\ "done" \in Steps
        BY DEF Errors, Steps
      <4>3. job' \in Jobs
        BY <3>1, <4>1, <4>2 DEF Limited, Jobs
      <4>4. history' \in Histories
        BY <3>1, <4>1 DEF Limited, Histories
      <4> QED
        BY <4>3, <4>4
    <3> QED
      BY <3>1, Constants
  <2>2. client' \in Clients
    BY <1>6, Constants DEF RefreshReply, FetchReply, Clients
  <2>3. job' \in Jobs /\ history' \in Histories
    <3>1. CASE \E retry \in RetryAfters : Limited(retry)
      BY <2>1, <3>1
    <3>2. CASE ~\E retry \in RetryAfters : Limited(retry)
      <4>1. UNCHANGED history
        BY <1>6, <3>2 DEF RefreshReply, FetchReply
      <4>2. \/ \E pc \in {"fetch"} : Goto(pc)
            \/ \E e \in Errors : End(e)
            \/ job' = [job EXCEPT !.pc = "401", !.again = TRUE]
            \/ job' = [job EXCEPT !.pc = "fetch", !.endpoint = "location", !.again = FALSE]
        BY <1>6, <3>2 DEF RefreshReply, FetchReply, Errors, Latching
      <4>3. job' \in Jobs
        BY <4>2, JobTypes DEF Jobs, Steps
      <4> QED
        BY <4>1, <4>3
    <3> QED
      BY <3>1, <3>2
  <2> QED
    BY <1>6, <2>2, <2>3 DEF RefreshReply, FetchReply, World
<1>7. CASE Finish
  <2>1. job' = [job EXCEPT !.pc = "top", !.endpoint = "status", !.again = FALSE,
                           !.retry = 0, !.error = "None"]
    BY <1>7 DEF Finish
  <2>2. job' \in Jobs
    <3>1. 0 \in 0..MaxRetry
      BY Constants
    <3> QED
      BY <2>1, <3>1 DEF Jobs, Steps, Errors
  <2>3. sched' \in Scheds
    BY <1>7, FinishedSched DEF Finish, Jobs
  <2>4. control' \in Controls /\ UNCHANGED <<client, net>>
    BY <1>7 DEF Finish, Controls, Jobs
  <2>5. history' \in Histories
    <3>1. history'.latched \in BOOLEAN /\ history' = [late |-> 0, hush |-> history.hush,
              latched |-> history.latched \/ job.error \in Latching]
      BY <1>7 DEF Finish
    <3> QED
      BY <3>1 DEF Histories
  <2> QED
    BY <2>2, <2>3, <2>4, <2>5
<1> QED
  BY <1>1, <1>2, <1>3, <1>4, <1>5, <1>6, <1>7 DEF Worker

LEMMA OtherTypes ==
    ASSUME Types, Commands \/ Network \/ NewMonth \/ Elapse \/ UNCHANGED vars
    PROVE  Types'
<1> USE DEF Types
<1>1. CASE Commands
  BY <1>1 DEF Commands, Inhibit, Apply, Ask, Toggle, Asleep, World, Controls, Scheds, Histories
<1>2. CASE Network
  <2>1. net' \in Nets
    BY <1>2 DEF Network, GotIp, Connect, Disconnect, SyncReads, SyncStores, Tick, OnNet,
       EvidenceClock, Nets
  <2> QED
    BY <1>2, <2>1 DEF Network, GotIp, Connect, Disconnect, SyncReads, SyncStores, Tick, OnNet,
       Asleep
<1>3. CASE NewMonth
  BY <1>3 DEF NewMonth, World, Scheds
<1>4. CASE Elapse
  <2>1. \A t \in Nat : Less(t) \in Nat
    BY DEF Less
  <2> QED
    BY <1>4, <2>1 DEF Elapse, World, Scheds, Clients, Histories
<1> QED
  BY <1>1, <1>2, <1>3, <1>4 DEF vars

LEMMA TypesStep == Types /\ [Next]_vars => Types'
BY WorkerTypes, OtherTypes DEF Next

LEMMA TypesInit == Init => Types
<1> SUFFICES ASSUME Init PROVE Types
  OBVIOUS
<1>1. 0 \in 0..MaxFailures /\ 0 \in 0..MaxRetry /\ 0 \in Nat /\ 0 \in 0..2
  BY Constants
<1> QED
  BY <1>1 DEF Init, Types, Scheds, Clients, Jobs, Controls, Nets, Histories, Steps, Errors

\* The worker's data keep their shape, with no failure count or Retry-After out of its range.
THEOREM TypesHold == Spec => []Types
BY TypesInit, TypesStep, PTL DEF Spec

-----------------------------------------------------------------------------
(* A poll whose command has gone.                                          *)

\* The late request is the refresh, and what follows it starts nothing more.
LateOnce ==
    history.late # 0 =>
        history.late = 1 /\ control.moved /\ job.pc \in {"refreshing", "fetch", "done"}

LEMMA LateStep ==
    ASSUME LateOnce, Types, [Next]_vars
    PROVE  LateOnce'
<1>1. CASE Pass \/ Start \/ Claim \/ Poll \/ Unauthorized
  <2>1. UNCHANGED history.late /\ job.pc \notin {"refreshing", "fetch", "done"}
    BY <1>1 DEF Pass, Start, Claim, Poll, Unauthorized, Local, Types, Histories
  <2> QED
    BY <2>1 DEF LateOnce
<1>2. CASE Refresh
  <2>1. history.late = 0
    BY <1>2 DEF Refresh, LateOnce
  <2>2. \/ UNCHANGED history
        \/ job'.pc = "refreshing" /\ history'.late = IF control.moved THEN 1 ELSE 0
    BY <1>2, <2>1 DEF Refresh, Send, Goto, Smaller, Types, Jobs, Histories
  <2> QED
    BY <1>2, <2>1, <2>2 DEF Refresh, World, LateOnce
<1>3. CASE Fetch
  <2>1. UNCHANGED <<history.late, control>>
    BY <1>3 DEF Fetch, Send, Current, World, Types, Histories, Controls
  <2>2. history.late # 0 => job'.pc = "done"
    BY <1>3 DEF Fetch, End, Current, LateOnce, Types, Jobs
  <2> QED
    BY <2>1, <2>2 DEF LateOnce
<1>4. CASE RefreshReply \/ FetchReply
  <2>1. UNCHANGED <<history.late, control>>
    BY <1>4 DEF RefreshReply, FetchReply, Limited, World, Types, Histories
  <2>2. job.pc = "refreshing" => job'.pc \in {"fetch", "done"}
    BY <1>4 DEF RefreshReply, FetchReply, Limited, Goto, End, Types, Jobs
  <2>3. job.pc \in {"refreshing", "fetching"}
    BY <1>4 DEF RefreshReply, FetchReply
  <2> QED
    BY <2>1, <2>2, <2>3 DEF LateOnce
<1>5. CASE Finish
  BY <1>5 DEF Finish, LateOnce
<1>6. CASE Commands \/ Network \/ NewMonth \/ Elapse \/ UNCHANGED vars
  <2>1. UNCHANGED <<history.late, job>>
    BY <1>6 DEF Commands, Inhibit, Apply, Ask, Toggle, Network, GotIp, Connect, Disconnect,
       SyncReads, SyncStores, Tick, OnNet, NewMonth, Elapse, Asleep, vars, Types, Histories
  <2>2. control.moved => control'.moved
    BY <1>6 DEF Commands, Inhibit, Apply, Ask, Toggle, Network, GotIp, Connect, Disconnect,
       SyncReads, SyncStores, Tick, OnNet, NewMonth, Elapse, Asleep, World, vars, Types, Controls
  <2> QED
    BY <2>1, <2>2 DEF LateOnce
<1> QED
  BY <1>1, <1>2, <1>3, <1>4, <1>5, <1>6 DEF Next, Worker

\* Once the command that a poll began under has gone, one more request starts at most:
\* the refresh that had been decided on. FleetClient compares the generation before
\* every vehicle request and before the refresh that follows a 401 (fleet.cpp).
THEOREM OneLate == Spec => []AtMostOneLate
<1>1. Init => LateOnce
  BY DEF Init, LateOnce
<1>2. LateOnce => AtMostOneLate
  BY DEF LateOnce, AtMostOneLate
<1> QED
  BY <1>1, <1>2, LateStep, TypesHold, PTL DEF Spec

-----------------------------------------------------------------------------
(* Retry-After and permanent errors.                                       *)

\* What is left of a Retry-After is covered by every way to a request.
Hushed ==
    /\ job.pc \in Busy => history.hush = 0
    /\ job.pc = "done" => /\ job.error # "Limited" => history.hush = 0
                          /\ history.hush <= job.retry
    /\ job.pc # "done" => /\ history.hush <= sched.next /\ history.hush <= sched.embargo
                          /\ history.hush <= sched.auth

\* A permanent error keeps the scheduler paused, also by a check that came before it.
Latched ==
    history.latched =>
        /\ job.pc \in {"top", "gate"} /\ sched.reason # "None"
        /\ sched.check => job.pc = "top" /\ sched.embargo > 0

LEMMA HushStep ==
    ASSUME Hushed, Types, [Next]_vars
    PROVE  Hushed'
<1>0. /\ \A t \in Nat : Less(t) = IF t > 0 THEN t - 1 ELSE 0
      /\ sched.next \in Nat /\ sched.embargo \in Nat /\ sched.auth \in Nat
      /\ history.hush \in Nat /\ job.retry \in 0..MaxRetry /\ MaxRetry \in Nat
  BY Constants DEF Less, Types, Scheds, Histories, Jobs
<1>1. CASE Pass
  <2>1. UNCHANGED history.hush /\ job.pc \in {"top", "gate"} /\ job'.pc = "gate"
    BY <1>1 DEF Pass, Types, Histories, Jobs
  <2> QED
    BY <1>0, <1>1, <2>1, Passed DEF Hushed, Busy
<1>2. CASE Start
  <2>1. /\ UNCHANGED <<sched, history>> /\ job.pc = "gate" /\ job'.pc = "claimed"
        /\ sched.next = 0 \/ sched.auth = 0
    BY <1>2 DEF Start, Local, Startable, Due, Types, Jobs
  <2> QED
    BY <1>0, <2>1 DEF Hushed
<1>3. CASE Claim \/ Poll \/ Refresh \/ Fetch \/ Unauthorized
  <2>1. /\ job.pc \in Busy
        /\ UNCHANGED <<sched.next, sched.embargo, sched.auth, history.hush, job.retry>>
    BY <1>3 DEF Claim, Poll, Refresh, Fetch, Unauthorized, Send, Local, Goto, End, Busy, Steps,
       Types, Histories, Scheds, Jobs
  <2> QED
    BY <1>0, <2>1 DEF Hushed
<1>4. CASE RefreshReply \/ FetchReply
  <2>1. job.pc \in Busy /\ UNCHANGED sched
    BY <1>4 DEF RefreshReply, FetchReply, Busy, Steps
  <2>2. CASE \E retry \in RetryAfters : Limited(retry)
    <3>1. PICK retry \in 0..MaxRetry : Limited(retry)
      BY <2>2, Constants
    <3>2. /\ job'.pc = "done" /\ job'.error = "Limited" /\ job'.retry = Larger(job.retry, retry)
          /\ history'.hush = Larger(history.hush, retry)
      BY <3>1 DEF Limited, Types, Jobs, Histories
    <3> QED
      BY <1>0, <2>1, <3>2 DEF Hushed, Larger, Busy
  <2>3. CASE ~\E retry \in RetryAfters : Limited(retry)
    <3>1. UNCHANGED <<history, job.retry>>
      BY <1>4, <2>3 DEF RefreshReply, FetchReply, Goto, End, Types, Jobs
    <3> QED
      BY <1>0, <2>1, <3>1 DEF Hushed
  <2> QED
    BY <2>2, <2>3
<1>5. CASE Finish
  <2>1. /\ job.pc = "done" /\ job'.pc = "top" /\ history'.hush = history.hush
        /\ job.error \in Errors
    BY <1>5 DEF Finish, Types, Jobs
  <2>2. CASE job.error = "None"
    <3>1. history'.hush = 0
      BY <2>1, <2>2 DEF Hushed
    <3>2. sched'.next \in Nat /\ sched'.embargo \in Nat /\ sched'.auth \in Nat
      BY TypesStep DEF Types, Scheds
    <3> QED
      BY <2>1, <3>1, <3>2 DEF Hushed, Busy
  <2>3. CASE job.error # "None"
    <3>1. PICK jitter \in 0..Jitter : sched' = Finished(job.error, job.retry, jitter)
      BY <1>5, <2>3 DEF Finish
    <3>2. /\ sched'.next > 0 /\ sched'.embargo = sched'.next /\ sched'.auth = sched'.next
          /\ job.error # "Budget" => job.retry <= sched'.next
      BY <1>0, <2>1, <2>3, <3>1, FinishedSched
    <3>3. sched'.next \in Nat
      BY TypesStep DEF Types, Scheds
    <3> QED
      BY <1>0, <2>1, <3>2, <3>3 DEF Hushed, Busy
  <2> QED
    BY <2>2, <2>3
<1>6. CASE Elapse
  <2>1. /\ UNCHANGED job /\ job.pc # "done"
        /\ sched'.next = Less(sched.next) /\ sched'.embargo = Less(sched.embargo)
        /\ sched'.auth = Less(sched.auth) /\ history'.hush = Less(history.hush)
    BY <1>6 DEF Elapse, Types, Scheds, Histories
  <2> QED
    BY <1>0, <2>1 DEF Hushed
<1>7. CASE Commands \/ Network \/ NewMonth \/ UNCHANGED vars
  <2>1. UNCHANGED <<sched.next, sched.embargo, sched.auth, history.hush, job>>
    BY <1>7 DEF Commands, Inhibit, Apply, Ask, Toggle, Network, GotIp, Connect, Disconnect,
       SyncReads, SyncStores, Tick, OnNet, NewMonth, Asleep, vars, Types, Histories, Scheds
  <2> QED
    BY <2>1 DEF Hushed
<1> QED
  BY <1>1, <1>2, <1>3, <1>4, <1>5, <1>6, <1>7 DEF Next, Worker

LEMMA LatchStep ==
    ASSUME Latched, Types, [Next]_vars
    PROVE  Latched'
<1>1. CASE Pass
  <2>1. /\ job'.pc = "gate" /\ (history'.latched => history.latched)
        /\ job.pc \in {"top", "gate"}
    BY <1>1 DEF Pass, Types, Histories, Jobs
  <2>2. history'.latched => sched'.reason = sched.reason
    BY <1>1, <2>1, Passed DEF Latched, Types, Scheds
  <2> QED
    BY <1>1, <2>1, <2>2, Passed DEF Latched
<1>2. CASE Start
  <2>1. UNCHANGED history /\ sched.reason = "None"
    BY <1>2 DEF Start, Local, Startable, Due
  <2> QED
    BY <2>1 DEF Latched
<1>3. CASE Claim \/ Poll \/ Refresh \/ Fetch \/ Unauthorized \/ RefreshReply \/ FetchReply
  <2>1. /\ UNCHANGED history.latched /\ job.pc \notin {"top", "gate"}
    BY <1>3 DEF Claim, Poll, Refresh, Fetch, Unauthorized, RefreshReply, FetchReply, Limited,
       Send, Local, Types, Histories
  <2> QED
    BY <2>1 DEF Latched
<1>4. CASE Finish
  <2>1. /\ job.pc = "done" /\ job'.pc = "top"
        /\ history'.latched = (history.latched \/ job.error \in Latching)
    BY <1>4 DEF Finish, Types, Jobs
  <2>2. CASE job.error \in Latching
    <3>1. PICK jitter \in 0..Jitter : sched' = Finished(job.error, job.retry, jitter)
      BY <1>4, <2>2 DEF Finish, Latching
    <3>2. sched'.embargo > 0 /\ sched'.reason # "None"
      <4>1. job.error \in Errors /\ job.error # "None" /\ job.retry \in 0..MaxRetry
        BY <2>2 DEF Types, Jobs, Latching
      <4>2. /\ sched'.next > 0 /\ sched'.embargo = sched'.next
            /\ sched'.reason = job.error
        BY <2>2, <3>1, <4>1, FinishedSched
      <4> QED
        BY <4>1, <4>2
    <3> QED
      BY <2>1, <3>2 DEF Latched
  <2>3. CASE job.error \notin Latching
    BY <2>1, <2>3 DEF Latched
  <2> QED
    BY <2>2, <2>3
<1>5. CASE Elapse
  <2>1. /\ UNCHANGED <<job, history.latched, sched.reason, sched.check>>
        /\ job.pc # "top"
    BY <1>5 DEF Elapse, Types, Scheds, Histories
  <2> QED
    BY <2>1 DEF Latched
<1>6. CASE Ask
  BY <1>6 DEF Ask, Latched, Types, Histories
<1>7. CASE Inhibit \/ Apply \/ Toggle \/ Network \/ NewMonth \/ UNCHANGED vars
  <2>1. UNCHANGED <<job, history, sched.reason, sched.check, sched.embargo>>
    BY <1>7 DEF Inhibit, Apply, Toggle, Network, GotIp, Connect, Disconnect,
       SyncReads, SyncStores, Tick, OnNet, NewMonth, Asleep, vars, Types, Scheds
  <2> QED
    BY <2>1 DEF Latched
<1> QED
  BY <1>1, <1>2, <1>3, <1>4, <1>5, <1>6, <1>7 DEF Next, Worker, Commands

\* No request starts before the last Retry-After is over, nor after a permanent error
\* until the owner asks again or a new month ends Billing, in whatever order the manual
\* checks, new months and refreshes come (reliability.cpp Scheduler, tesla.cpp loop).
THEOREM Waits == Spec => []RequestsWait
<1>1. Init => Hushed /\ Latched
  BY DEF Init, Hushed, Latched, Busy
<1>2. Hushed /\ Latched => RequestsWait
  BY DEF Hushed, Latched, RequestsWait, Asking, Busy, Steps
<1> QED
  BY <1>1, <1>2, HushStep, LatchStep, TypesHold, PTL DEF Spec

-----------------------------------------------------------------------------
(* The clock.                                                              *)

Fresh == net.synced \/ net.callback # "none" => net.fresh

LEMMA FreshStep ==
    ASSUME Fresh, Types, [Next]_vars
    PROVE  Fresh'
<1>1. CASE Network
  BY <1>1 DEF Network, GotIp, Connect, Disconnect, SyncReads, SyncStores, Tick, OnNet, Fresh,
     Types, Nets
<1>2. CASE ~Network
  <2>1. UNCHANGED net
    BY <1>2 DEF Next, Worker, Pass, Start, Claim, Poll, Refresh, Fetch, RefreshReply, FetchReply,
       Unauthorized, Finish, Local, World, Commands, Inhibit, Apply, Ask, Toggle, NewMonth,
       Elapse, vars
  <2> QED
    BY <2>1 DEF Fresh
<1> QED
  BY <1>1, <1>2

\* The clock that evidence is judged by was set by SNTP since Wi-Fi last connected,
\* however its callback and the events of Wi-Fi interleave (network.cpp).
THEOREM FreshClock == Spec => []ClockIsFresh
<1>1. Init => Fresh
  BY DEF Init, Fresh
<1>2. Fresh => ClockIsFresh
  BY DEF Fresh, ClockIsFresh, EvidenceClock
<1> QED
  BY <1>1, <1>2, FreshStep, TypesHold, PTL DEF Spec

=============================================================================
