------------------------------- MODULE Login -------------------------------
(* Logging in to the local page. The HTTP task accepts one password at a    *)
(* time into the single slot login_job and starts a task that checks it; a  *)
(* version 1 record is migrated on the way; the result comes back through   *)
(* the HTTP server's queue and only there becomes a session or a failed     *)
(* login. Passwords come at any moment, every call of the server or of      *)
(* flash may fail, and the device may restart. A time is what is left of it. *)
EXTENDS Integers

CONSTANTS
    MaxFailures, \* 8 failures count
    Longest,     \* 300 s, the longest delay after a failure
    Lifetime     \* 900 s of a session

ASSUME LoginAssumption == {MaxFailures, Longest, Lifetime} \subseteq Nat \ {0}

VARIABLES
    slot,     \* login_busy and login_job: is the password right, what is known of it
    check,    \* the step of the task that checks the password
    queued,   \* is finish_login in the server's queue?
    session,  \* Session: time left, failures, delay
    record,   \* version of the password record: in flash, in memory, auth_mode
    fault     \* critical_fault

vars == <<slot, check, queued, session, record, fault>>

Less(t)   == IF t > 0 THEN t - 1 ELSE 0
Capped(n, m) == IF n < m THEN n ELSE m
Delay(n)  == Capped(2 ^ n, Longest)

EmptySlot == [busy |-> FALSE, right |-> FALSE, verified |-> FALSE, fault |-> FALSE]
NoSession == [left |-> 0, failures |-> 0, retry |-> 0]
MayFail   == fault' \in {fault, TRUE}

FailedLogin ==
    LET n == Capped(session.failures + 1, MaxFailures)
    IN session' = [session EXCEPT !.failures = n, !.retry = Delay(n)]

-----------------------------------------------------------------------------
(* The HTTP task.                                                          *)

AdmittedBusy == session.retry = 0   \* mutant: the delay is the only throttle

\* The slot is free, and the delay after the last failure is over.
Admitted == ~slot.busy /\ session.retry = 0

\* A body without a password of the kind that auth_mode asks for.
Refuse == Admitted /\ FailedLogin /\ UNCHANGED <<slot, check, queued, record, fault>>

\* A password is taken and its check begun ...
Accept ==
    /\ Admitted
    /\ \E right \in BOOLEAN : slot' = [EmptySlot EXCEPT !.busy = TRUE, !.right = right]
    /\ check' = "verify"
    /\ UNCHANGED <<queued, session, record, fault>>

\* ... unless no task can be created: the client is told, the slot given back.
NoTask ==
    /\ Admitted
    /\ slot' = EmptySlot /\ MayFail
    /\ UNCHANGED <<check, queued, session, record>>

\* finish_login: only here, in the HTTP task, does a session begin, and it is
\* cleared when its cookie cannot be sent.
Finish ==
    /\ queued /\ queued' = FALSE
    /\ \/ slot.fault /\ UNCHANGED session
       \/ ~slot.fault /\ ~slot.verified /\ FailedLogin
       \/ /\ ~slot.fault /\ slot.verified
          /\ session' \in {[NoSession EXCEPT !.left = Lifetime], NoSession}
    /\ slot' = [slot EXCEPT !.busy = FALSE] /\ MayFail
    /\ UNCHANGED <<check, record>>

Logout ==
    /\ session.left > 0
    /\ session' = [session EXCEPT !.left = 0]
    /\ UNCHANGED <<slot, check, queued, record, fault>>

-----------------------------------------------------------------------------
(* The task that checks one password.                                      *)

Verify ==
    /\ check = "verify"
    /\ slot' = [slot EXCEPT !.verified = slot.right]
    /\ check' = IF slot.right /\ record.memory = 1 THEN "migrate" ELSE "publish"
    /\ UNCHANGED <<queued, session, record, fault>>

\* migrate_password: a record that is not the version 1 record in memory, the
\* mutex or a write may be in its way; a failed write may have taken effect.
Migrate ==
    /\ check = "migrate"
    /\ \/ /\ record.flash = 1 /\ check' = "announce"
          /\ record' = [record EXCEPT !.flash = 2, !.memory = 2]
          /\ UNCHANGED <<slot, fault>>
       \/ /\ record' \in {record, [record EXCEPT !.flash = 2]} /\ check' = "publish"
          /\ slot' = [slot EXCEPT !.fault = TRUE, !.verified = FALSE]
          /\ fault' = TRUE
    /\ UNCHANGED <<queued, session>>

AnnounceNothing ==   \* mutant: auth_mode is left as it was
    /\ check = "announce" /\ check' = "publish"
    /\ UNCHANGED <<slot, queued, session, record, fault>>

\* auth_mode follows, so that the page asks for the new kind.
Announce ==
    /\ check = "announce" /\ check' = "publish"
    /\ record' = [record EXCEPT !.mode = 2]
    /\ UNCHANGED <<slot, queued, session, fault>>

PublishOnly ==   \* mutant: a result that cannot be queued keeps the slot
    /\ check = "publish" /\ check' = "none"
    /\ \/ queued' = TRUE /\ UNCHANGED fault
       \/ UNCHANGED queued /\ fault' = TRUE
    /\ UNCHANGED <<slot, session, record>>

\* The result is queued for the HTTP task, or the slot is given back here.
Publish ==
    /\ check = "publish" /\ check' = "none"
    /\ \/ queued' = TRUE /\ UNCHANGED <<slot, fault>>
       \/ UNCHANGED queued /\ slot' = [slot EXCEPT !.busy = FALSE] /\ fault' = TRUE
    /\ UNCHANGED <<session, record>>

-----------------------------------------------------------------------------

Elapse ==
    /\ session' = [session EXCEPT !.left = Less(@), !.retry = Less(@)]
    /\ UNCHANGED <<slot, check, queued, record, fault>>

\* start_management takes the version that was loaded from flash.
Restart ==
    /\ slot' = EmptySlot /\ check' = "none" /\ queued' = FALSE /\ session' = NoSession
    /\ record' = [record EXCEPT !.memory = record.flash, !.mode = record.flash]
    /\ fault' = FALSE

Init ==
    /\ slot = EmptySlot /\ check = "none" /\ queued = FALSE /\ session = NoSession
    /\ \E v \in {1, 2} : record = [flash |-> v, memory |-> v, mode |-> v]
    /\ fault = FALSE

Job  == Verify \/ Migrate \/ Announce \/ Publish
Next == Refuse \/ NoTask \/ Accept \/ Job \/ Finish \/ Logout \/ Elapse \/ Restart

Spec == Init /\ [][Next]_vars

\* The check ends (its waits do) and the HTTP task serves its queue.
FairSpec == Spec /\ WF_vars(Job) /\ WF_vars(Finish)

-----------------------------------------------------------------------------
(* Properties.                                                             *)

\* A password is judged only when the delay after the failures before it is
\* over: neither a check that still runs nor a result on its way through the
\* server's queue lets a second guess in.
GuessesWait == check = "verify" => session.retry = 0

\* Short of a fault, the page asks for passwords of the kind that the record in
\* flash can be checked with after a restart: a migration locks nobody out.
KindFits == (~slot.busy /\ ~fault) => record.mode = record.flash

\* Every login ends and leaves the slot to the next one, whichever call fails.
SlotReturns == slot.busy ~> ~slot.busy
=============================================================================
