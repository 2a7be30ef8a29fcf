------------------------------- MODULE Fleet -------------------------------
(* When the Tesla worker asks the Fleet API, and when it must not: the loop *)
(* of tesla.cpp with its scheduler (back-off, Retry-After, pauses), the     *)
(* sequence of requests that FleetClient::poll makes with its generation    *)
(* checks, and the Wi-Fi and SNTP callbacks behind its clock. Commands,     *)
(* updates, months and the network move at any step. Times are what is left *)
(* of them, so that no clock needs a bound. The refresh itself is Tokens,   *)
(* the accounting Budget: here they are their outcomes.                     *)
EXTENDS Integers

CONSTANTS
    PollEvery,    \* poll_s
    Base,         \* 30 s, doubled by every failure up to ...
    Ceiling,      \* ... 3600 s
    MaxFailures,  \* 7, or less in a small instance
    Jitter,       \* 30 s
    ManualEvery,  \* 600 s between two checks that the owner asks for
    Life,         \* of an access token, less its margin
    RetryAfters,  \* what a server may send
    MaxRetry      \* 86400 s: a longer Retry-After is cut to it

ASSUME FleetAssumption ==
    /\ {PollEvery, Base, Ceiling, ManualEvery, Life, MaxRetry} \subseteq Nat \ {0}
    /\ MaxFailures \in 1..7 /\ Jitter \in Nat /\ RetryAfters \subseteq 0..MaxRetry

\* Errors that pause the scheduler; only Billing ends by itself. The others
\* are Limited (429, 5xx), Budget, and Transient for those in between.
Latching == {"Billing", "Denied", "Reauthorize", "Storage"}

VARIABLES
    sched,    \* Scheduler, auth_retry_after, check_requested, month
    client,   \* FleetClient: life of the access token, revoked?
    job,      \* the worker: step, what it carries out, the error
    control,  \* what commands change: AUTO in force? moved since the snapshot?
    net,      \* atomics of network.cpp and its two callbacks, Snapshot.utc_ok
    history   \* of the requests, for the properties

vars == <<sched, client, job, control, net, history>>

Larger(a, b)  == IF a > b THEN a ELSE b
Smaller(a, b) == IF a < b THEN a ELSE b
Less(t)       == IF t > 0 THEN t - 1 ELSE 0

-----------------------------------------------------------------------------
(* Scheduler.                                                              *)

Due        == ~sched.busy /\ sched.reason = "None" /\ sched.next = 0
RefreshDue == client.held /\ client.access = 0

\* Called at a time when the UTC month is known.
CalendarMonth(s) ==
    IF s.month = "newer" /\ s.reason = "Billing"
    THEN [s EXCEPT !.month = "seen", !.reason = "None", !.failures = 0, !.next = s.embargo]
    ELSE [s EXCEPT !.month = "seen"]

CheckNowAnyway(s) ==   \* mutant: the embargo is not looked at
    IF s.busy \/ s.manual > 0 THEN s
    ELSE [s EXCEPT !.manual = ManualEvery, !.reason = "None", !.next = 0]

CheckNow(s) ==
    IF s.busy \/ s.manual > 0 \/ s.embargo > 0 THEN s
    ELSE [s EXCEPT !.manual = ManualEvery, !.reason = "None", !.next = 0]

Backoff(failures) == Smaller(Ceiling, Base * 2 ^ failures)

Wait(e, failures, retry, jitter) ==
    IF e = "Budget" THEN Ceiling
    ELSE Larger(Backoff(failures) + jitter, Smaller(retry, MaxRetry))

Finished(e, retry, jitter) ==
    LET failures == Smaller(sched.failures + 1, MaxFailures)
        wait     == Wait(e, failures, retry, jitter)
    IN IF e = "None"
       THEN [sched EXCEPT !.busy = FALSE, !.reason = "None", !.failures = 0,
                          !.embargo = 0, !.next = PollEvery, !.auth = 0]
       ELSE [sched EXCEPT !.busy = FALSE, !.reason = IF e \in Latching THEN e ELSE @,
                          !.failures = failures, !.embargo = wait, !.next = wait, !.auth = wait]

-----------------------------------------------------------------------------
(* The worker's loop.                                                      *)

Ready   == net.utc_ok /\ net.wifi
Current == control.auto /\ ~control.moved /\ ~control.gated

Goto(pc)  == job' = [job EXCEPT !.pc = pc]
End(e)    == job' = [job EXCEPT !.pc = "done", !.error = e]
World     == UNCHANGED <<control, net>>
Local     == UNCHANGED <<sched, client, history>> /\ World

\* A poll is due, or a refresh between two polls, and nothing keeps it off.
Startable ==
    /\ ~control.gated /\ ~control.fault /\ job.able
    /\ Due \/ (RefreshDue /\ sched.reason = "None" /\ sched.auth = 0 /\ Ready)

\* The snapshot, a new month, and a check that was asked for.
Pass ==
    /\ job.pc = "top" \/ (job.pc = "gate" /\ ~Startable)
    /\ LET monthly == IF Ready THEN CalendarMonth(sched) ELSE sched
       IN /\ sched' = [IF sched.check THEN CheckNow(monthly) ELSE monthly EXCEPT !.check = FALSE]
          /\ history' = [history EXCEPT !.latched = @ /\ monthly.reason = sched.reason]
    /\ job' = [job EXCEPT !.pc = "gate", !.able = control.auto]
    /\ control' = [control EXCEPT !.moved = FALSE]
    /\ UNCHANGED <<client, net>>

\* network_busy is set ...
Start ==
    /\ job.pc = "gate" /\ Startable
    /\ job' = [job EXCEPT !.pc = "claimed", !.poll = Due]
    /\ Local

\* ... and the gates of provisioning and update are looked at once more.
Claim ==
    /\ job.pc = "claimed"
    /\ IF control.gated THEN Goto("top") /\ UNCHANGED sched
       ELSE /\ Goto(IF job.poll THEN "poll" ELSE "refresh")
            /\ sched' = [sched EXCEPT !.busy = job.poll]
    /\ UNCHANGED <<client, history>> /\ World

FinishKeepingBusy ==   \* mutant: an operation that was superseded is not finished
    /\ job.pc = "done"
    /\ job' = [job EXCEPT !.pc = "top", !.endpoint = "status", !.again = FALSE, !.retry = 0, !.error = "None"]
    /\ sched' = IF job.error = "Transient" THEN sched ELSE Finished(job.error, job.retry, 0)
    /\ history' = [history EXCEPT !.late = 0]
    /\ UNCHANGED client /\ World

\* The outcome is reported; a refresh that succeeded leaves the poll time alone.
Finish ==
    /\ job.pc = "done"
    /\ \E jitter \in 0..Jitter :
        sched' = IF job.poll \/ job.error # "None" THEN Finished(job.error, job.retry, jitter)
                                                   ELSE sched
    /\ control' = [control EXCEPT !.fault = @ \/ job.error = "Storage"]
    /\ job' = [job EXCEPT !.pc = "top", !.endpoint = "status", !.again = FALSE,
                          !.retry = 0, !.error = "None"]
    /\ history' = [late |-> 0, hush |-> history.hush,
                   latched |-> history.latched \/ job.error \in Latching]
    /\ UNCHANGED <<client, net>>

-----------------------------------------------------------------------------
(* FleetClient: one poll, or a refresh between two polls.                  *)

Poll ==
    /\ job.pc = "poll"
    /\ IF client.revoked THEN End("Reauthorize")
       ELSE IF ~Ready \/ ~Current THEN End("Transient")
       ELSE End("Budget") \/ Goto(IF client.access = 0 THEN "refresh" ELSE "fetch")
    /\ Local

\* account() and journal begin() may refuse; the request starts otherwise.
Send(pc) ==
    \/ ~Ready /\ End("Transient") /\ UNCHANGED history
    \/ Ready /\ (End("Budget") \/ End("Storage")) /\ UNCHANGED history
    \/ /\ Ready /\ Goto(pc)
       /\ history' = [history EXCEPT !.late = IF control.moved THEN Smaller(@ + 1, 2) ELSE @]

Refresh ==
    /\ job.pc = "refresh"
    /\ IF client.revoked /\ Ready
       THEN (End("Budget") \/ End("Reauthorize")) /\ UNCHANGED history
       ELSE Send("refreshing")
    /\ UNCHANGED <<sched, client>> /\ World

FetchUnchecked ==   \* mutant: fetch() does not ask whether the command still holds
    /\ job.pc = "fetch" /\ Send("fetching")
    /\ UNCHANGED <<sched, client>> /\ World

\* One vehicle request; it does not start once the command has gone.
Fetch ==
    /\ job.pc = "fetch"
    /\ IF Current THEN Send("fetching") ELSE End("Transient") /\ UNCHANGED history
    /\ UNCHANGED <<sched, client>> /\ World

\* 429 and 5xx come with a Retry-After that nobody may forget.
Limited(retry) ==
    /\ job' = [job EXCEPT !.pc = "done", !.error = "Limited", !.retry = Larger(@, retry)]
    /\ history' = [history EXCEPT !.hush = Larger(@, retry)]

\* The token endpoint answers, or nothing is known of its answer.
RefreshReply ==
    /\ job.pc = "refreshing"
    /\ \/ /\ client' = [client EXCEPT !.held = TRUE, !.access = Life]
          /\ IF job.poll THEN Goto("fetch") ELSE End("None")
          /\ UNCHANGED history
       \/ End("Reauthorize") /\ client' = [client EXCEPT !.revoked = TRUE] /\ UNCHANGED history
       \/ \E e \in {"Transient", "Billing", "Denied", "Storage"} :
            End(e) /\ UNCHANGED <<client, history>>
       \/ \E retry \in RetryAfters : Limited(retry) /\ UNCHANGED client
    /\ UNCHANGED sched /\ World

\* A reply to a command that has gone is discarded; the first 401 leads to a
\* refresh, and a vehicle that is online from its status to its location.
FetchReply ==
    /\ job.pc = "fetching"
    /\ IF ~Current THEN End("Transient") /\ UNCHANGED history
       ELSE \/ \E e \in {"Transient", "Billing", "Denied", "None"} : End(e) /\ UNCHANGED history
            \/ \E retry \in RetryAfters : Limited(retry)
            \/ ~job.again /\ job' = [job EXCEPT !.pc = "401", !.again = TRUE] /\ UNCHANGED history
            \/ /\ job.endpoint = "status" /\ UNCHANGED history
               /\ job' = [job EXCEPT !.pc = "fetch", !.endpoint = "location", !.again = FALSE]
    /\ UNCHANGED <<sched, client>> /\ World

\* get(): the refresh starts only for a command that still holds.
Unauthorized ==
    /\ job.pc = "401"
    /\ IF Current THEN Goto("refresh") ELSE End("Transient")
    /\ Local

Worker ==
    \/ Pass \/ Start \/ Claim \/ Poll \/ Refresh \/ Fetch
    \/ RefreshReply \/ FetchReply \/ Unauthorized \/ Finish

-----------------------------------------------------------------------------
(* Commands and gates.                                                     *)

Asleep == UNCHANGED <<sched, client, job, history>>

\* OFF, or the inhibition with which every other command begins.
Inhibit ==
    /\ control' = [control EXCEPT !.auto = FALSE, !.moved = TRUE]
    /\ UNCHANGED net /\ Asleep

\* The configuration of a command was persisted and is applied.
Apply ==
    /\ ~control.auto
    /\ control' = [control EXCEPT !.auto = TRUE]
    /\ UNCHANGED net /\ Asleep

\* check_requested, by an AUTO command once it has changed the configuration,
\* before or after it is applied, or by a check_now: at any moment.
Ask ==
    /\ sched' = [sched EXCEPT !.check = TRUE]
    /\ history' = [history EXCEPT !.latched = FALSE]
    /\ UNCHANGED <<client, job>> /\ World

\* An upload or a provisioning begins or ends.
Toggle == control' = [control EXCEPT !.gated = ~@] /\ UNCHANGED net /\ Asleep

NewMonth ==
    /\ sched.month = "seen"
    /\ sched' = [sched EXCEPT !.month = "newer"]
    /\ UNCHANGED <<client, job, history>> /\ World

\* The worker passes every 100 ms and a request takes up to 20 s.
Elapse ==
    /\ job.pc \in {"gate", "refreshing", "fetching"}
    /\ sched' = [sched EXCEPT !.next = Less(@), !.embargo = Less(@), !.manual = Less(@), !.auth = Less(@)]
    /\ client' = [client EXCEPT !.access = Less(@)]
    /\ history' = [history EXCEPT !.hush = Less(@)]
    /\ UNCHANGED job /\ World

-----------------------------------------------------------------------------
(* Wi-Fi events, SNTP callback, and the control task that reads them.      *)

OnNet(new) == net' = new /\ UNCHANGED control /\ Asleep

GotIpKeeping ==   \* mutant: utc_synced is left to the disconnection
    /\ net.callback = "none" /\ ~net.event
    /\ OnNet([net EXCEPT !.event = TRUE, !.fresh = FALSE])

\* GOT_IP clears utc_synced before it sets wifi_connected. An address comes
\* seconds after an SNTP callback that was running has returned.
GotIp ==
    /\ net.callback = "none" /\ ~net.event
    /\ OnNet([net EXCEPT !.event = TRUE, !.synced = FALSE, !.fresh = FALSE])

Connect == net.event /\ OnNet([net EXCEPT !.event = FALSE, !.wifi = TRUE])

\* DISCONNECTED or LOST_IP.
Disconnect == ~net.event /\ OnNet([net EXCEPT !.wifi = FALSE, !.synced = FALSE])

\* sync_callback reads wifi_connected ...
SyncReads ==
    /\ net.callback = "none"
    /\ OnNet([net EXCEPT !.callback = IF net.wifi THEN "up" ELSE "down", !.fresh = TRUE])

\* ... and stores it in utc_synced.
SyncStores ==
    /\ net.callback # "none"
    /\ OnNet([net EXCEPT !.callback = "none", !.synced = (net.callback = "up")])

\* What the control task takes for a clock that evidence may be judged by.
EvidenceClock == net.wifi /\ net.synced

Tick == OnNet([net EXCEPT !.utc_ok = EvidenceClock])

-----------------------------------------------------------------------------

Init ==
    /\ sched = [next |-> 0, embargo |-> 0, manual |-> 0, auth |-> 0, failures |-> 0,
                busy |-> FALSE, reason |-> "None", month |-> "unset", check |-> FALSE]
    /\ \E revoked \in BOOLEAN : client = [held |-> FALSE, access |-> 0, revoked |-> revoked]
    /\ job = [pc |-> "top", able |-> FALSE, poll |-> FALSE, endpoint |-> "status",
              again |-> FALSE, retry |-> 0, error |-> "None"]
    /\ control = [auto |-> FALSE, moved |-> FALSE, gated |-> FALSE, fault |-> FALSE]
    /\ net = [wifi |-> FALSE, synced |-> FALSE, event |-> FALSE, callback |-> "none",
              fresh |-> FALSE, utc_ok |-> FALSE]
    /\ history = [late |-> 0, hush |-> 0, latched |-> FALSE]

Commands == Inhibit \/ Apply \/ Ask \/ Toggle
Network  == GotIp \/ Connect \/ Disconnect \/ SyncReads \/ SyncStores \/ Tick

Next == Worker \/ Commands \/ Network \/ NewMonth \/ Elapse

Spec == Init /\ [][Next]_vars

\* The worker's task runs and its requests end (20 s); time passes.
FairSpec == Spec /\ WF_vars(Worker) /\ WF_vars(Elapse)

-----------------------------------------------------------------------------
(* Properties.                                                             *)

\* Of a poll whose command has gone (OFF, new settings, an upload's or a
\* provisioning's inhibition), at most one more request starts, whichever of
\* its steps it was at: status, 401, refresh, status again, location.
AtMostOneLate == history.late <= 1

Asking == job.pc \in {"refreshing", "fetching"}

\* No request starts before the Retry-After of the last 429 or 5xx that the
\* client took is over, nor after a permanent error until the owner asks again
\* or, for Billing, a new month begins: a manual check, an AUTO command, a new
\* month and the refresh of the access token may come in any order, and a check
\* that was asked for before the error does not count.
RequestsWait == Asking => history.hush = 0 /\ ~history.latched

\* A clock that evidence is judged by was set since Wi-Fi last connected.
ClockIsFresh == EvidenceClock => net.fresh

Undisturbed ==
    /\ control.auto /\ ~control.gated /\ ~control.fault /\ Ready
    /\ sched.reason = "None" /\ ~client.revoked

\* If nothing stands against it any more, the worker keeps polling: no error,
\* discarded reply or command in between leaves the scheduler stuck.
Resumes == <>[]Undisturbed => []<>(job.pc = "poll")
=============================================================================
