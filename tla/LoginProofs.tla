---------------------------- MODULE LoginProofs ----------------------------
(* Login's two safety invariants for every bound and delay. Both follow     *)
(* from who holds the single slot: the task that checks, or the queue.      *)
EXTENDS Login, TLAPS

Steps == {"none", "verify", "migrate", "announce", "publish"}

\* Of a time only that it is a number counts: what is left may be any.
Shape ==
    /\ slot \in [busy : BOOLEAN, right : BOOLEAN, verified : BOOLEAN, fault : BOOLEAN]
    /\ check \in Steps /\ queued \in BOOLEAN /\ fault \in BOOLEAN
    /\ session \in [left : Int, failures : Nat, retry : Int]
    /\ record \in [flash : {1, 2}, memory : {1, 2}, mode : {1, 2}]

\* The slot is held once: by a check that runs, or by a result in the queue.
Held ==
    /\ check # "none" => slot.busy /\ ~queued /\ session.retry = 0
    /\ queued => slot.busy

\* Without a fault the three versions differ only between the write and the
\* announcement of a migration.
Versions ==
    /\ check = "announce" => record.memory = 2 /\ (~fault => record.flash = 2)
    /\ ~fault => record.flash = record.memory
    /\ ~fault /\ check # "announce" => record.mode = record.flash

Inv == Shape /\ Held /\ Versions

LEMMA Constants ==
  /\ EmptySlot \in [busy : BOOLEAN, right : BOOLEAN, verified : BOOLEAN, fault : BOOLEAN]
  /\ ~EmptySlot.busy
  /\ NoSession \in [left : Int, failures : Nat, retry : Int] /\ NoSession.retry = 0
  BY DEF EmptySlot, NoSession

LEMMA Initially == Init => Inv
<1> SUFFICES ASSUME Init PROVE Inv
  OBVIOUS
<1>1. PICK v \in {1, 2} : record = [flash |-> v, memory |-> v, mode |-> v]
  BY DEF Init
<1>2. Shape /\ Held
  BY <1>1, Constants DEF Init, Shape, Held, Steps
<1>3. QED
  BY <1>1, <1>2 DEF Inv, Versions, Init

\* A failed login leaves a session with a number for a delay.
LEMMA FailedSession ==
  ASSUME session \in [left : Int, failures : Nat, retry : Int], FailedLogin
  PROVE  session' \in [left : Int, failures : Nat, retry : Int]
<1>1. Capped(session.failures + 1, MaxFailures) \in Nat
  BY LoginAssumption DEF Capped
<1>2. Delay(Capped(session.failures + 1, MaxFailures)) \in Int
  BY <1>1, LoginAssumption DEF Delay, Capped
<1>3. QED
  BY <1>1, <1>2 DEF FailedLogin

LEMMA Preserved == Inv /\ [Next]_vars => Inv'
<1> SUFFICES ASSUME Inv, [Next]_vars PROVE Inv'
  OBVIOUS
<1> USE DEF Inv, Shape, Held, Versions, Steps
<1>1. CASE Refuse
  BY <1>1, FailedSession DEF Refuse, Admitted
<1>2. CASE Accept
  <2>1. PICK right \in BOOLEAN : slot' = [EmptySlot EXCEPT !.busy = TRUE, !.right = right]
    BY <1>2 DEF Accept
  <2>2. slot' = [busy |-> TRUE, right |-> right, verified |-> FALSE, fault |-> FALSE]
    BY <2>1 DEF EmptySlot
  <2>3. check = "none" /\ ~queued
    BY <1>2 DEF Accept, Admitted
  <2>4. check' = "verify" /\ session.retry = 0 /\ UNCHANGED <<queued, session, record, fault>>
    BY <1>2 DEF Accept, Admitted
  <2>5. QED
    BY <2>2, <2>3, <2>4
<1>3. CASE NoTask
  <2>1. check = "none" /\ ~queued
    BY <1>3 DEF NoTask, Admitted
  <2>2. slot' \in [busy : BOOLEAN, right : BOOLEAN, verified : BOOLEAN, fault : BOOLEAN]
    BY <1>3, Constants DEF NoTask
  <2>3. fault' \in {fault, TRUE} /\ UNCHANGED <<check, queued, session, record>>
    BY <1>3 DEF NoTask, MayFail
  <2>4. QED
    BY <2>1, <2>2, <2>3
<1>4. CASE Verify
  BY <1>4 DEF Verify
<1>5. CASE Migrate
  BY <1>5 DEF Migrate
<1>6. CASE Announce
  BY <1>6 DEF Announce
<1>7. CASE Publish
  BY <1>7 DEF Publish
<1>8. CASE Finish
  <2>1. session' \in [left : Int, failures : Nat, retry : Int]
    BY <1>8, FailedSession, Constants, LoginAssumption DEF Finish
  <2>2. check = "none" /\ check' = check
    BY <1>8 DEF Finish
  <2>3. slot' = [slot EXCEPT !.busy = FALSE] /\ queued' = FALSE
    BY <1>8 DEF Finish
  <2>4. fault' \in {fault, TRUE} /\ record' = record
    BY <1>8 DEF Finish, MayFail
  <2>5. QED
    BY <2>1, <2>2, <2>3, <2>4
<1>9. CASE Logout
  BY <1>9 DEF Logout
<1>10. CASE Elapse
  <2> DEFINE left == Less(session.left)
             retry == Less(session.retry)
  <2>1. session' \in [left : Int, failures : Nat, retry : Int]
    <3>1. left \in Int /\ retry \in Int
      BY DEF Less
    <3>2. session' = [session EXCEPT !.left = left, !.retry = retry]
      BY <1>10 DEF Elapse
    <3> HIDE DEF left, retry
    <3>3. QED
      BY <3>1, <3>2
  <2>2. session'.retry = Less(session.retry)
    BY <1>10 DEF Elapse
  <2>3. session.retry = 0 => session'.retry = 0
    BY <2>2 DEF Less
  <2>4. QED
    BY <1>10, <2>1, <2>3 DEF Elapse
<1>11. CASE Restart
  BY <1>11, Constants DEF Restart
<1>12. CASE UNCHANGED vars
  BY <1>12 DEF vars
<1>13. QED
  BY <1>1, <1>2, <1>3, <1>4, <1>5, <1>6, <1>7, <1>8, <1>9, <1>10, <1>11, <1>12
  DEF Next, Job

\* Inv holds in every reachable state, for every bound.
THEOREM Invariant == Spec => []Inv
  BY Initially, Preserved, PTL DEF Spec

\* Every password that is being judged came after the last delay was over: the
\* throttle of management.cpp:172 cannot be got round by overlapping requests.
THEOREM WaitingGuesses == Spec => []GuessesWait
<1>1. Inv => GuessesWait
  BY DEF Inv, Held, GuessesWait
<1>2. QED
  BY <1>1, Invariant, PTL

\* Without a fault the page asks for the kind of password that is in flash.
THEOREM FittingKind == Spec => []KindFits
<1>1. Inv => KindFits
  BY DEF Inv, Held, Versions, Shape, Steps, KindFits
<1>2. QED
  BY <1>1, Invariant, PTL
=============================================================================
