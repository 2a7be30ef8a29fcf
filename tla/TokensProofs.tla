---------------------------- MODULE TokensProofs ----------------------------
(***************************************************************************)
(* Proofs about the refresh-token journal, for every bound on attempts,    *)
(* every window and every clock.  Journaled(r) says of a record that it    *)
(* accounts for the requests that may have been sent; the invariant says   *)
(* it of the record in flash and of the one that cancel_unsent() restores. *)
(***************************************************************************)
EXTENDS Tokens, TLAPS

\* The journal is in RAM as it is in flash, until a write fails or the record is
\* provisioned; both end the refreshing of this boot.
Mirror ==
    /\ ~halted /\ step # "drained" => record = flash
    /\ halted => step \in {"idle", "drained"}

Journaled(pending, attempts, since) ==
    sent > 0 => pending /\ attempts >= sent /\ since <= firstSent

Bounded == sent <= Attempts

\* From the intent to the request, the journal has room for one more request.
Intent ==
    step \in {"request", "cancel"} =>
        /\ flash.pending /\ ~flash.reauthorize
        /\ flash.attempts >= sent + 1
        /\ flash.since <= utc /\ utc - flash.since < Window
        /\ sent > 0 => flash.since <= firstSent
        /\ Journaled(prior.pending, prior.attempts, prior.since)

Usable ==
    /\ accepted # {} => flash.current \in accepted
    /\ step = "finish" /\ accepted # {} => reply \in accepted

IInv == TypeOK /\ Mirror /\ SentIsJournaled /\ Bounded /\ Intent /\ Usable

-----------------------------------------------------------------------------
(* What a save leaves in flash.                                            *)

\* A write leaves the old record or the new one, and only a successful one is
\* followed in RAM.
LEMMA SaveResult ==
    ASSUME TypeOK, NEW r \in Record, NEW ok \in BOOLEAN, Save(r, ok)
    PROVE  /\ flash' \in Record /\ record' \in Record /\ halted' \in BOOLEAN
           /\ flash' = flash \/ flash' = r
           /\ ~halted' => flash' = r /\ record' = r
           /\ halted' = ~ok
  BY DEF Save, TypeOK

\* What each method stores is a record that load() accepts: above all, begin() counts no
\* further than Attempts.
LEMMA RecordTypes ==
    ASSUME TypeOK, TokensAssumption
    PROVE  /\ Revoked \in Record
           /\ \A u \in Epochs : ~Exhausted(u) => Intended(u) \in Record
           /\ [record EXCEPT !.since = prior.since, !.attempts = prior.attempts,
                             !.pending = prior.pending] \in Record
           /\ \A b \in BOOLEAN, t \in Nat : [Fresh(t) EXCEPT !.reauthorize = b] \in Record
           /\ \A t \in Nat : Fresh(t) \in Record
  <1>1. record \in Record /\ prior \in Prior
    BY DEF TypeOK
  <1>2. Revoked \in Record
    BY <1>1 DEF Record, Revoked
  <1>3. ASSUME NEW u \in Epochs, ~Exhausted(u) PROVE Intended(u) \in Record
    <2>1. u \in Nat BY TokensAssumption DEF TokensAssumption
    <2>2. (IF record.pending THEN record.since ELSE u) \in Nat
      BY <1>1, <2>1 DEF Record
    <2>3. (IF record.pending THEN record.attempts ELSE 0) + 1 \in 0 .. Attempts
      BY <1>1, <1>3, TokensAssumption DEF Record, Exhausted, TokensAssumption
    <2> QED BY <1>1, <2>2, <2>3 DEF Intended, Record
  <1>4. [record EXCEPT !.since = prior.since, !.attempts = prior.attempts,
                       !.pending = prior.pending] \in Record
    BY <1>1 DEF Record, Prior
  <1>5. \A t \in Nat : Fresh(t) \in Record
    BY TokensAssumption DEF Fresh, Record, TokensAssumption
  <1>6. \A b \in BOOLEAN, t \in Nat : [Fresh(t) EXCEPT !.reauthorize = b] \in Record
    BY <1>5 DEF Record
  <1> QED BY <1>2, <1>3, <1>4, <1>5, <1>6

-----------------------------------------------------------------------------
(* The invariant.                                                          *)

\* A freshly provisioned device satisfies the invariant.
LEMMA Initially == TokensAssumption /\ Init => IInv
  <1> SUFFICES ASSUME TokensAssumption, Init PROVE IInv
    OBVIOUS
  <1>1. Fresh(1) \in Record /\ NoPrior \in Prior /\ Fresh(1).current = 1
    BY DEF TokensAssumption, Fresh, Record, NoPrior, Prior
  <1>2. TypeOK
    <2>1. flash \in Record /\ record \in Record /\ prior \in Prior
      BY <1>1, Zenon DEF Init
    <2>2. halted \in BOOLEAN /\ step \in Steps
      BY Zenon DEF Init, Steps
    <2>3. /\ utc = 0 /\ issued = 1 /\ accepted = {1} /\ reply = 0 /\ sent = 0
          /\ firstSent = 0
      BY Zenon DEF Init
    <2>4. /\ utc \in Nat /\ issued \in Nat /\ accepted \subseteq Nat /\ reply \in Nat
          /\ sent \in Nat /\ firstSent \in Nat
      BY <2>3
    <2> QED BY <2>1, <2>2, <2>4 DEF TypeOK
  <1>3. /\ flash.current = 1 /\ record = flash /\ halted = FALSE /\ step = "idle"
        /\ accepted = {1} /\ sent = 0
    BY <1>1 DEF Init
  <1>4. Mirror /\ SentIsJournaled /\ Bounded /\ Intent /\ Usable
    BY <1>3 DEF TokensAssumption, Mirror, SentIsJournaled, Bounded, Intent, Usable
  <1> QED BY <1>2, <1>4 DEF IInv

\* begin() counts the attempt before it is made, or ends the chain of an exhausted one.
LEMMA BeginKeeps ==
    ASSUME IInv, TokensAssumption, NEW u \in Epochs, NEW ok \in BOOLEAN, Begin(u, ok)
    PROVE  IInv'
  <1> USE DEF IInv
  <1>1. /\ record \in Record /\ prior \in Prior /\ u \in Nat /\ sent \in Nat
        /\ firstSent \in Nat /\ Attempts \in Nat \ {0} /\ Window \in Nat \ {0}
        /\ record = flash /\ step = "idle" /\ ~flash.reauthorize
    BY DEF TypeOK, TokensAssumption, Begin, Mirror
  <1>2. UNCHANGED <<issued, accepted, reply, sent, firstSent>> /\ utc' = u
    BY DEF Begin, server, history
  <1>3. CASE Exhausted(u)
    <2>1. Save(Revoked, ok) /\ UNCHANGED <<prior, step>>
      BY <1>3 DEF Begin
    <2>2. /\ flash' \in Record /\ record' \in Record /\ halted' \in BOOLEAN
          /\ flash' = flash \/ flash' = Revoked
          /\ ~halted' => flash' = Revoked /\ record' = Revoked
      BY <2>1, RecordTypes, SaveResult
    <2>3. Revoked.reauthorize /\ Revoked.current = flash.current
      BY <1>1 DEF Revoked, Record
    <2>4. TypeOK'
      BY <1>1, <1>2, <2>1, <2>2 DEF TypeOK
    <2>5. Mirror' /\ SentIsJournaled' /\ Bounded' /\ Intent' /\ Usable'
      BY <1>1, <1>2, <2>1, <2>2, <2>3
      DEF Mirror, SentIsJournaled, Bounded, Intent, Usable
    <2> QED BY <2>4, <2>5
  <1>4. CASE ~Exhausted(u)
    <2> DEFINE r == Intended(u)
    <2>1. /\ Save(r, ok) /\ step' = (IF ok THEN "request" ELSE "idle")
          /\ prior' = [since |-> record.since, attempts |-> record.attempts,
                       pending |-> record.pending]
      BY <1>4 DEF Begin
    <2>2. r \in Record
      BY <1>4, RecordTypes
    <2>3. /\ flash' \in Record /\ record' \in Record /\ halted' = ~ok
          /\ flash' = flash \/ flash' = r
          /\ ~halted' => flash' = r /\ record' = r
      BY <2>1, <2>2, SaveResult
    <2>4. /\ r.current = flash.current /\ r.pending /\ ~r.reauthorize
          /\ r.since = (IF record.pending THEN record.since ELSE u)
          /\ r.attempts = (IF record.pending THEN record.attempts ELSE 0) + 1
      BY <1>1 DEF Intended, Record
    <2>5. record.pending => record.since <= u /\ u - record.since < Window
      BY <1>1, <1>4 DEF Exhausted, Record
    <2>6. /\ r.since <= u /\ u - r.since < Window /\ r.attempts >= sent + 1
          /\ sent > 0 => r.since <= firstSent
      BY <1>1, <2>4, <2>5 DEF SentIsJournaled, Record
    <2>7. prior' \in Prior
      BY <1>1, <2>1 DEF Record, Prior
    <2>8. Journaled(prior.pending, prior.attempts, prior.since)'
      BY <1>1, <1>2, <2>1 DEF Journaled, SentIsJournaled
    <2>9. step' \in Steps
      BY <2>1 DEF Steps
    <2>10. TypeOK'
      BY <1>1, <1>2, <2>3, <2>7, <2>9 DEF TypeOK
    <2>11. Mirror' /\ Bounded' /\ Usable'
      BY <1>1, <1>2, <2>1, <2>3, <2>4 DEF Mirror, Bounded, Usable
    <2>12. SentIsJournaled'
      BY <1>1, <1>2, <2>3, <2>4, <2>6, <2>2 DEF SentIsJournaled, Record
    <2>13. Intent'
      BY <1>1, <1>2, <2>1, <2>3, <2>4, <2>6, <2>8 DEF Intent
    <2> QED BY <2>10, <2>11, <2>12, <2>13
  <1> QED BY <1>3, <1>4

\* Whatever becomes of a request, it was one of those that the journal has room for,
\* and it began inside the window of the first one.
LEMMA TriedKeeps ==
    ASSUME IInv, TokensAssumption, step = "request", Tried, UNCHANGED utc
    PROVE  /\ sent' \in Nat /\ firstSent' \in Nat /\ Bounded'
           /\ flash.pending /\ flash.attempts >= sent' /\ flash.since <= firstSent'
           /\ sent > 0 => utc < firstSent + Window
  BY DEF IInv, TokensAssumption, Tried, TypeOK, Intent, Bounded, Record

\* Whether the request was not sent, got lost or was answered, it has been counted.
LEMMA RequestKeeps ==
    ASSUME IInv, TokensAssumption, NotSent \/ Lost \/ Replied
    PROVE  IInv'
  <1> USE DEF IInv
  <1>1. UNCHANGED <<flash, record, prior, halted, utc>> /\ step = "request"
    BY DEF NotSent, Lost, Replied, intent
  <1>2. record = flash
    BY <1>1 DEF Mirror
  <1>3. CASE NotSent
    BY <1>1, <1>3 DEF NotSent, server, history, TypeOK, Steps, Mirror, SentIsJournaled,
                      Bounded, Intent, Journaled, Usable
  <1>4. CASE Lost \/ Replied
    <2>1. Tried /\ step' \in {"idle", "finish"}
      BY <1>4 DEF Lost, Replied
    <2>2. \/ UNCHANGED <<issued, accepted, reply>> /\ step' = "idle"
          \/ /\ issued' = issued + 1 /\ accepted' = {record.current, issued'}
             /\ reply' = (IF step' = "finish" THEN issued' ELSE reply)
      BY <1>4 DEF Lost, Replied, Exchange
    <2>3. issued' \in Nat /\ accepted' \subseteq Nat /\ reply' \in Nat
      <3>1. record.current \in Nat
        BY DEF TypeOK, Record
      <3>2. issued \in Nat /\ accepted \subseteq Nat /\ reply \in Nat
        BY DEF TypeOK
      <3>3. CASE UNCHANGED <<issued, accepted, reply>>
        BY <3>2, <3>3
      <3>4. CASE issued' = issued + 1 /\ accepted' = {record.current, issued'}
                 /\ reply' = (IF step' = "finish" THEN issued' ELSE reply)
        BY <3>1, <3>2, <3>4
      <3> QED BY <2>2, <3>3, <3>4
    <2>4. TypeOK'
      BY <1>1, <2>1, <2>3, TriedKeeps DEF TypeOK, Steps
    <2>5. SentIsJournaled' /\ Bounded'
      BY <1>1, <2>1, TriedKeeps DEF SentIsJournaled
    <2>6. Usable'
      BY <1>1, <1>2, <2>1, <2>2 DEF Usable
    <2>7. Mirror' /\ Intent'
      BY <1>1, <1>2, <2>1 DEF Mirror, Intent
    <2> QED BY <2>4, <2>5, <2>6, <2>7
  <1> QED BY <1>3, <1>4

\* A refusal ends the chain, and the uncertainty with it.
LEMMA RefusedKeeps ==
    ASSUME IInv, TokensAssumption, NEW ok \in BOOLEAN, Refused(ok)
    PROVE  IInv'
  <1> USE DEF IInv
  <1>1. /\ step = "request" /\ step' = "idle" /\ Tried /\ Save(Revoked, ok)
        /\ UNCHANGED <<prior, utc, issued, accepted, reply>>
    BY DEF Refused, server
  <1>2. record = flash /\ record \in Record
    BY <1>1 DEF Mirror, TypeOK
  <1>3. /\ flash' \in Record /\ record' \in Record /\ halted' \in BOOLEAN
        /\ flash' = flash \/ flash' = Revoked
        /\ ~halted' => flash' = Revoked /\ record' = Revoked
    BY <1>1, RecordTypes, SaveResult
  <1>4. Revoked.reauthorize /\ Revoked.current = flash.current
    BY <1>2 DEF Revoked, Record
  <1>5. TypeOK'
    BY <1>1, <1>3, TriedKeeps DEF TypeOK, Steps
  <1>6. SentIsJournaled' /\ Bounded'
    BY <1>1, <1>3, <1>4, TriedKeeps DEF SentIsJournaled
  <1>7. Mirror' /\ Intent' /\ Usable'
    BY <1>1, <1>3, <1>4 DEF Mirror, Intent, Usable
  <1> QED BY <1>5, <1>6, <1>7

\* cancel_unsent() restores the intent of an earlier request, if one may have been sent.
LEMMA CancelKeeps ==
    ASSUME IInv, TokensAssumption, NEW ok \in BOOLEAN, CancelUnsent(ok)
    PROVE  IInv'
  <1> USE DEF IInv
  <1> DEFINE r == [record EXCEPT !.since = prior.since, !.attempts = prior.attempts,
                                 !.pending = prior.pending]
  <1>1. /\ step = "cancel" /\ step' = "idle" /\ Save(r, ok)
        /\ UNCHANGED <<prior, utc, issued, accepted, reply, sent, firstSent>>
    BY DEF CancelUnsent, server, history
  <1>2. record = flash /\ record \in Record /\ prior \in Prior
    BY <1>1 DEF Mirror, TypeOK
  <1>3. r \in Record
    BY RecordTypes
  <1>4. /\ r.current = flash.current /\ r.since = prior.since
        /\ r.attempts = prior.attempts /\ r.pending = prior.pending
    BY <1>2 DEF Record
  <1> HIDE DEF r
  <1>5. /\ flash' \in Record /\ record' \in Record /\ halted' \in BOOLEAN
        /\ flash' = flash \/ flash' = r
        /\ ~halted' => flash' = r /\ record' = r
    BY <1>1, <1>3, SaveResult
  <1>6. TypeOK'
    BY <1>1, <1>5 DEF TypeOK, Steps
  <1>7. SentIsJournaled'
    BY <1>1, <1>4, <1>5 DEF SentIsJournaled, Intent, Journaled
  <1>8. Mirror' /\ Bounded' /\ Intent' /\ Usable'
    BY <1>1, <1>4, <1>5 DEF Mirror, Bounded, Intent, Usable
  <1> QED BY <1>6, <1>7, <1>8

\* A replacement in flash ends the uncertainty; one that failed to be stored does not.
LEMMA FinishKeeps ==
    ASSUME IInv, TokensAssumption, NEW ok \in BOOLEAN, Finish(ok)
    PROVE  IInv'
  <1> USE DEF IInv
  <1> DEFINE r == [Fresh(reply) EXCEPT !.reauthorize = record.reauthorize]
  <1>1. /\ step = "finish" /\ step' = "idle" /\ Save(r, ok)
        /\ UNCHANGED <<prior, utc, issued, accepted, reply>>
        /\ IF flash' = flash THEN UNCHANGED <<sent, firstSent>>
           ELSE sent' = 0 /\ firstSent' = 0
    BY DEF Finish, server, history
  <1>2. record = flash /\ record \in Record /\ reply \in Nat /\ sent \in Nat
        /\ firstSent \in Nat
    BY <1>1 DEF Mirror, TypeOK
  <1>3. record.reauthorize \in BOOLEAN
    BY <1>2 DEF Record
  <1>4. r \in Record
    BY <1>2, <1>3, RecordTypes
  <1>5. r.current = reply
    BY DEF Fresh
  <1> HIDE DEF r
  <1>6. /\ flash' \in Record /\ record' \in Record /\ halted' \in BOOLEAN
        /\ flash' = flash \/ flash' = r
        /\ ~halted' => flash' = r /\ record' = r
    BY <1>1, <1>4, SaveResult
  <1>7. sent' \in Nat /\ firstSent' \in Nat /\ (sent' = 0 \/ UNCHANGED <<flash, sent, firstSent>>)
    BY <1>1, <1>2
  <1>8. TypeOK'
    BY <1>1, <1>6, <1>7 DEF TypeOK, Steps
  <1>9. SentIsJournaled' /\ Bounded'
    BY <1>7, TokensAssumption DEF SentIsJournaled, Bounded, TokensAssumption
  <1>10. Mirror' /\ Intent' /\ Usable'
    BY <1>1, <1>5, <1>6 DEF Mirror, Intent, Usable
  <1> QED BY <1>8, <1>9, <1>10

\* Resets, provisioning and the end of the chain keep what flash says of the requests.
LEMMA ResetKeeps ==
    ASSUME IInv, TokensAssumption, PowerLoss \/ Provision \/ Withdraw
    PROVE  IInv'
  <1> USE DEF IInv
  <1>1. CASE PowerLoss
    <2>1. NoPrior \in Prior
      BY TokensAssumption DEF NoPrior, Prior, TokensAssumption
    <2>2. TypeOK'
      BY <1>1, <2>1 DEF PowerLoss, server, history, TypeOK, Steps
    <2>3. Mirror' /\ SentIsJournaled' /\ Bounded' /\ Intent' /\ Usable'
      BY <1>1 DEF PowerLoss, server, history, Mirror, SentIsJournaled, Bounded, Intent, Usable
    <2> QED BY <2>2, <2>3
  <1>2. CASE Provision
    <2>1. /\ UNCHANGED <<record, prior, halted, utc, reply>> /\ step' = "drained"
          /\ issued' = issued + 1 /\ accepted' = {issued'} /\ flash' = Fresh(issued')
          /\ sent' = 0 /\ firstSent' = 0
      BY <1>2 DEF Provision, Consent, intent
    <2>2. issued' \in Nat
      BY <2>1 DEF TypeOK
    <2>3. flash' \in Record /\ flash'.current = issued'
      BY <2>1, <2>2, RecordTypes DEF Fresh
    <2>4. TypeOK'
      BY <2>1, <2>2, <2>3 DEF TypeOK, Steps
    <2>5. Mirror' /\ SentIsJournaled' /\ Bounded' /\ Intent' /\ Usable'
      BY <2>1, <2>3, TokensAssumption
      DEF Mirror, SentIsJournaled, Bounded, Intent, Usable, TokensAssumption
    <2> QED BY <2>4, <2>5
  <1>3. CASE Withdraw
    BY <1>3 DEF Withdraw, intent, history, TypeOK, Mirror, SentIsJournaled, Bounded, Intent,
                Journaled, Usable
  <1> QED BY <1>1, <1>2, <1>3

\* In every reachable state the journal in flash accounts for what may have been sent.
THEOREM Invariant == Spec => []IInv
  <1> USE TokensAssumption
  <1>1. Init => IInv
    BY Initially
  <1>2. IInv /\ [Next]_vars => IInv'
    <2> SUFFICES ASSUME IInv, [Next]_vars PROVE IInv'
      OBVIOUS
    <2>1. CASE Next
      BY <2>1, BeginKeeps, RequestKeeps, RefusedKeeps, CancelKeeps, FinishKeeps, ResetKeeps
      DEF Next
    <2>2. CASE UNCHANGED vars
      BY <2>2 DEF vars, intent, server, history, IInv, TypeOK, Mirror, SentIsJournaled,
                  Bounded, Intent, Journaled, Usable
    <2> QED BY <2>1, <2>2
  <1> QED BY <1>1, <1>2, PTL DEF Spec

-----------------------------------------------------------------------------
(* The results.                                                            *)

\* Every variable has its type: no sequence of attempts and cancellations writes a
\* record that load() would take for a corrupted one.
THEOREM TypeCorrect == Spec => []TypeOK
  <1>1. IInv => TypeOK
    BY DEF IInv
  <1> QED BY <1>1, Invariant, PTL

\* A request that may have been sent is accounted for in flash before it is sent and
\* until a replacement is stored.
THEOREM JournaledBeforeSent == Spec => []SentIsJournaled
  <1>1. IInv => SentIsJournaled
    BY DEF IInv
  <1> QED BY <1>1, Invariant, PTL

\* No more than Attempts requests are made of one ambiguous exchange.
THEOREM BoundedAttempts == Spec => []AttemptsBounded
  <1>1. IInv => AttemptsBounded
    BY DEF IInv, Bounded, AttemptsBounded
  <1> QED BY <1>1, Invariant, PTL

\* Unless the chain was ended elsewhere, the token in flash can still be exchanged.
THEOREM UsableToken == Spec => []TokenUsable
  <1>1. IInv => TokenUsable
    BY DEF IInv, Usable, TokenUsable
  <1> QED BY <1>1, Invariant, PTL

\* A retry begins within Window of the first request that may have been sent.
THEOREM WindowedRetries == Spec => RetriesInWindow
  <1>1. IInv /\ [Next]_vars =>
            [sent > 0 /\ sent' > sent => utc < firstSent + Window]_vars
    <2> SUFFICES ASSUME IInv, Next, sent > 0, sent' > sent
                 PROVE  utc < firstSent + Window
      BY DEF vars, history
    <2>1. sent \in Nat
      BY DEF IInv, TypeOK
    <2>2. CASE Lost \/ Replied \/ \E ok \in BOOLEAN : Refused(ok)
      BY <2>2, TokensAssumption, TriedKeeps DEF Lost, Replied, Refused
    <2>3. CASE ~(Lost \/ Replied \/ \E ok \in BOOLEAN : Refused(ok))
      <3>1. sent' = sent \/ sent' = 0
        BY <2>3 DEF Next, Begin, CancelUnsent, Finish, NotSent, PowerLoss, Provision,
                    Consent, Withdraw, history
      <3> QED BY <2>1, <3>1
    <2> QED BY <2>2, <2>3
  <1> QED BY <1>1, Invariant, PTL DEF Spec, RetriesInWindow
=============================================================================
