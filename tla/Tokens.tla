------------------------------- MODULE Tokens -------------------------------
(***************************************************************************)
(* The refresh-token journal: TokenJournal of reliability.cpp, driven by   *)
(* FleetClient::refresh of client.cpp, with the resets, failed writes and  *)
(* lost replies that it exists for.  A token is a number; the wall clock   *)
(* may be set to any time.  The authorization server is external: it       *)
(* accepts the newest token, and for a while the one that was exchanged    *)
(* for it.  A definition marked "mutant" is a plausible bug.               *)
(***************************************************************************)
EXTENDS Integers

CONSTANTS
    Attempts,     \* kRefreshRecoveryAttempts, 32
    Window,       \* 86400 s, the ceiling of one uncertainty
    Epochs,       \* wall-clock times that begin() accepts as set
    MaxToken      \* bound of the model

ASSUME TokensAssumption ==
    /\ Attempts \in Nat \ {0} /\ Window \in Nat \ {0}
    /\ Epochs \subseteq Nat \ {0} /\ MaxToken \in Nat \ {0}

VARIABLES
    flash,      \* the TokenRecord in flash (previous is never sent)
    record,     \* record_, its copy in RAM
    prior,      \* prior_*: what cancel_unsent() would restore
    halted,     \* a storage error stopped the worker for this boot
    step,       \* where refresh() is; busy_ is TRUE while it is not idle
    utc,        \* the time that the latest begin() was called with
    issued,     \* the server: the newest token ...
    accepted,   \* ... and the tokens it exchanges
    reply,      \* the token in the reply that refresh() is about to store
    \* History: requests that may have been sent and never brought a replacement
    \* to flash, and when the first of them began.
    sent, firstSent

intent  == <<record, prior>>
server  == <<issued, accepted, reply>>
history == <<sent, firstSent>>
vars    == <<flash, intent, halted, step, utc, server, history>>

\* load() takes a record with more attempts for a corrupted one.
Record == [current : Nat, since : Nat, attempts : 0 .. Attempts, pending : BOOLEAN,
           reauthorize : BOOLEAN]
Prior  == [since : Nat, attempts : 0 .. Attempts, pending : BOOLEAN]

Fresh(t) == [current |-> t, since |-> 0, attempts |-> 0, pending |-> FALSE,
             reauthorize |-> FALSE]
NoPrior  == [since |-> 0, attempts |-> 0, pending |-> FALSE]

-----------------------------------------------------------------------------

\* save(): RAM follows flash, and only when the commit succeeded.  A write that
\* reports a failure may have taken effect all the same.
Save(r, ok) ==
    /\ flash' \in (IF ok THEN {r} ELSE {flash, r})
    /\ record' = IF ok THEN r ELSE record
    /\ halted' = ~ok

Revoked == [record EXCEPT !.reauthorize = TRUE]

ExhaustedByCount(u) ==   \* mutant: the ceiling restarts with every attempt
    record.pending /\ record.attempts >= Attempts

\* The bounds of one uncertainty: attempts, and time since it began.
Exhausted(u) ==
    record.pending /\ (\/ record.attempts >= Attempts
                       \/ u < record.since \/ u - record.since >= Window)

\* The journaled intent of one more attempt.
Intended(u) ==
    [record EXCEPT !.since = IF record.pending THEN @ ELSE u,
                   !.attempts = (IF record.pending THEN @ ELSE 0) + 1,
                   !.pending = TRUE]

\* begin(), the start of refresh(): the intent is stored before anything is sent.
Begin(u, ok) ==
    /\ step = "idle" /\ ~halted /\ ~record.reauthorize
    /\ utc' = u
    /\ IF Exhausted(u)
       THEN Save(Revoked, ok) /\ UNCHANGED <<prior, step>>
       ELSE /\ Save(Intended(u), ok)
            /\ prior' = [since |-> record.since, attempts |-> record.attempts,
                         pending |-> record.pending]
            /\ step' = IF ok THEN "request" ELSE "idle"
    /\ UNCHANGED <<server, history>>

\* The server replaces the token.
Exchange ==
    /\ record.current \in accepted /\ issued < MaxToken
    /\ issued' = issued + 1 /\ accepted' = {record.current, issued'}

Tried == sent' = sent + 1 /\ firstSent' = IF sent = 0 THEN utc ELSE firstSent

\* request(): nothing was written to the connection.
NotSent ==
    /\ step = "request" /\ step' = "cancel"
    /\ UNCHANGED <<flash, intent, halted, utc, server, history>>

\* The request was written, perhaps in part; no usable reply arrived.
Lost ==
    /\ step = "request" /\ step' = "idle" /\ Tried
    /\ Exchange \/ UNCHANGED <<issued, accepted>>
    /\ UNCHANGED <<flash, intent, halted, utc, reply>>

\* The server exchanged the token and its reply arrived.
Replied ==
    /\ step = "request" /\ step' = "finish" /\ Tried
    /\ Exchange /\ reply' = issued'
    /\ UNCHANGED <<flash, intent, halted, utc>>

\* login_required, invalid_grant, 401 or a permission error: revoke().
Refused(ok) ==
    /\ step = "request" /\ step' = "idle" /\ Tried
    /\ Save(Revoked, ok)
    /\ UNCHANGED <<prior, utc, server>>

CancelForgetting(ok) ==   \* mutant: an earlier uncertainty is forgotten with the intent
    /\ step = "cancel" /\ step' = "idle"
    /\ Save([record EXCEPT !.since = 0, !.attempts = 0, !.pending = FALSE], ok)
    /\ UNCHANGED <<prior, utc, server, history>>

\* cancel_unsent(): the intent is undone, an earlier uncertainty stays.
CancelUnsent(ok) ==
    /\ step = "cancel" /\ step' = "idle"
    /\ Save([record EXCEPT !.since = prior.since, !.attempts = prior.attempts,
                           !.pending = prior.pending], ok)
    /\ UNCHANGED <<prior, utc, server, history>>

\* finish(): the replacement is stored, and ends the uncertainty.
Finish(ok) ==
    /\ step = "finish" /\ step' = "idle"
    /\ Save([Fresh(reply) EXCEPT !.reauthorize = record.reauthorize], ok)
    /\ IF flash' = flash THEN UNCHANGED history ELSE sent' = 0 /\ firstSent' = 0
    /\ UNCHANGED <<prior, utc, server>>

\* A reset at any moment; load() reads what is in flash.
PowerLoss ==
    /\ record' = flash /\ prior' = NoPrior /\ halted' = FALSE /\ step' = "idle"
    /\ UNCHANGED <<flash, utc, server, history>>

Consent ==
    /\ issued < MaxToken
    /\ issued' = issued + 1 /\ accepted' = {issued'} /\ flash' = Fresh(issued')
    /\ sent' = 0 /\ firstSent' = 0
    /\ UNCHANGED <<intent, halted, utc, reply>>

ProvisionUndrained ==   \* mutant: the end of the worker's refresh is not awaited
    Consent /\ UNCHANGED step

\* provision_profile(): consent gave a token of a new chain, stored while the worker
\* is drained (stop_network); nothing is refreshed before the device restarts.
Provision == step = "idle" /\ Consent /\ step' = "drained"

\* The owner or the vendor ends the chain.
Withdraw ==
    /\ accepted # {} /\ accepted' = {}
    /\ UNCHANGED <<flash, intent, halted, step, utc, issued, reply, history>>

Init ==
    /\ flash = Fresh(1) /\ record = flash /\ prior = NoPrior
    /\ halted = FALSE /\ step = "idle" /\ utc = 0
    /\ issued = 1 /\ accepted = {1} /\ reply = 0 /\ sent = 0 /\ firstSent = 0

Next ==
    \/ \E ok \in BOOLEAN :
        \/ \E u \in Epochs : Begin(u, ok)
        \/ Refused(ok) \/ CancelUnsent(ok) \/ Finish(ok)
    \/ NotSent \/ Lost \/ Replied
    \/ PowerLoss \/ Provision \/ Withdraw

Spec == Init /\ [][Next]_vars

-----------------------------------------------------------------------------
(* Properties.                                                             *)

Steps == {"idle", "request", "cancel", "finish", "drained"}

\* Every variable has its type; for the record in flash that is what load() accepts.
TypeOK ==
    /\ flash \in Record /\ record \in Record /\ prior \in Prior
    /\ halted \in BOOLEAN
    /\ step \in Steps /\ utc \in Nat
    /\ issued \in Nat /\ accepted \subseteq Nat /\ reply \in Nat
    /\ sent \in Nat /\ firstSent \in Nat

\* What may have been sent is in flash: a request whose outcome is not known is
\* counted by a pending intent that began no later, whatever was cancelled, lost
\* or reset since ("journal the attempted refresh before sending it").
SentIsJournaled ==
    sent > 0 /\ ~flash.reauthorize =>
        flash.pending /\ flash.attempts >= sent /\ flash.since <= firstSent

\* One ambiguous exchange is retried at most Attempts times, counting across
\* resets, however many attempts were cancelled in between.
AttemptsBounded == sent <= Attempts

\* ... and no retry begins after the window that the first request opened, by the
\* wall clock that both were begun under.
RetriesInWindow ==
    [][ sent > 0 /\ sent' > sent => utc < firstSent + Window ]_vars

\* Unless the chain was ended elsewhere, flash holds a token that the server
\* still exchanges: no lost reply, failed write, reset or provisioning in the middle
\* of a refresh locks the device out.
TokenUsable == accepted # {} => flash.current \in accepted
=============================================================================
