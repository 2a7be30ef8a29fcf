------------------------------- MODULE Budget -------------------------------
(***************************************************************************)
(* The request budget: class Budget of reliability.cpp, which reserves the *)
(* requests of a day and a month in flash before FleetClient sends them,   *)
(* up to four at a time; the ones reserved and not yet used are a credit   *)
(* in RAM.  The UTC date is whatever the clock says at the request, later  *)
(* or earlier than the last one.  A definition marked "mutant" is a        *)
(* plausible bug.                                                          *)
(***************************************************************************)
EXTENDS Integers

CONSTANTS
    Days,         \* UTC days, utc / 86400
    MonthOf,      \* the month of each day
    Caps,         \* the daily and monthly caps that a configuration may have
    MonthlyData,  \* kMonthlyDataRequestCap, 5000
    Chunk         \* reservations per write, 4

Endpoints == {"Status", "Location", "Refresh"}

ASSUME BudgetAssumption ==
    /\ Days \subseteq Nat \ {0} /\ MonthOf \in [Days -> Nat \ {0}]
    /\ \A d, e \in Days : d <= e => MonthOf[d] <= MonthOf[e]
    /\ Caps \subseteq [daily : Nat, monthly : Nat] /\ Caps # {}
    /\ MonthlyData \in Nat /\ Chunk \in Nat \ {0}

VARIABLES
    flash,    \* the BudgetRecord in flash
    record,   \* record_, its copy in RAM
    credit,   \* credit_: reserved, not yet used
    caps,     \* daily_cap and monthly_cap of the configuration
    halted,   \* a storage error stopped the worker for this boot
    calls     \* history: the requests of the latest day and month with any

vars == <<flash, record, credit, caps, halted, calls>>

Counts == [Endpoints -> Nat]
Record == [day : Nat, month : Nat, daily : Counts, monthly : Counts]

None  == [e \in Endpoints |-> 0]
Empty == [day |-> 0, month |-> 0, daily |-> None, monthly |-> None]

Total(counts) == counts["Status"] + counts["Location"] + counts["Refresh"]

-----------------------------------------------------------------------------

\* take() refuses a date before the one of its record.
Dated(d) == d >= record.day /\ MonthOf[d] >= record.month

SameDate(r, d) == d = r.day /\ MonthOf[d] = r.month

\* The record r with the counters of another day or month cleared.
Rolled(r, d) ==
    [day |-> d, month |-> MonthOf[d],
     daily   |-> IF d = r.day THEN r.daily ELSE None,
     monthly |-> IF MonthOf[d] = r.month THEN r.monthly ELSE None]

KeptCredit(d) == credit   \* mutant: the credit of yesterday is used today

Credit(d) == IF SameDate(record, d) THEN credit ELSE None

\* A cap that was lowered stops everything, the credit too.
Over(d) ==
    LET r == Rolled(record, d)
    IN  \/ Total(r.daily) > caps.daily \/ Total(r.monthly) > caps.monthly
        \/ r.monthly["Location"] > MonthlyData

AtCap(e, d) ==
    LET r == Rolled(record, d)
    IN  \/ Total(r.daily) = caps.daily \/ Total(r.monthly) = caps.monthly
        \/ e = "Location" /\ r.monthly[e] = MonthlyData

Least(m, n) == IF m < n THEN m ELSE n

\* As many as fit under every cap, at most Chunk.
Room(e, d) ==
    LET r == Rolled(record, d)
        data == IF e = "Location" THEN MonthlyData - r.monthly[e] ELSE Chunk
    IN  Least(Least(Chunk, data),
              Least(caps.daily - Total(r.daily), caps.monthly - Total(r.monthly)))

\* The record r with n more requests to endpoint e.
Counted(r, e, n) ==
    [day |-> r.day, month |-> r.month,
     daily |-> [r.daily EXCEPT ![e] = @ + n], monthly |-> [r.monthly EXCEPT ![e] = @ + n]]

\* The request that the caller makes of a granted take().
Called(e, d) == calls' = Counted(Rolled(calls, d), e, 1)

UseCreditFirst(e, d) ==   \* mutant: a lowered cap does not stop the credit
    /\ ~halted /\ Dated(d) /\ Credit(d)[e] > 0
    /\ credit' = [Credit(d) EXCEPT ![e] = @ - 1]
    /\ Called(e, d)
    /\ UNCHANGED <<flash, record, caps, halted>>

UseCredit(e, d) ==
    /\ ~halted /\ Dated(d) /\ ~Over(d) /\ Credit(d)[e] > 0
    /\ credit' = [Credit(d) EXCEPT ![e] = @ - 1]
    /\ Called(e, d)
    /\ UNCHANGED <<flash, record, caps, halted>>

\* Credit after a reservation of n, one of which is used at once.
Granted(e, d, n) == [Credit(d) EXCEPT ![e] = n - 1]

\* A write that reports a failure may have taken effect all the same.
Reserve(e, d, ok) ==
    LET n == Room(e, d)
        r == Counted(Rolled(record, d), e, n)
    IN  /\ ~halted /\ Dated(d) /\ ~Over(d) /\ Credit(d)[e] = 0 /\ ~AtCap(e, d)
        /\ IF ok
           THEN /\ flash' = r /\ record' = r /\ Called(e, d)
                /\ credit' = Granted(e, d, n)
           ELSE flash' \in {flash, r} /\ credit' = Credit(d) /\ UNCHANGED <<record, calls>>
        /\ halted' = ~ok
        /\ UNCHANGED caps

\* A refused request forgets the credit of another date.
Refuse(e, d) ==
    /\ ~halted /\ Dated(d) /\ (Over(d) \/ (Credit(d)[e] = 0 /\ AtCap(e, d)))
    /\ credit' = Credit(d)
    /\ UNCHANGED <<flash, record, caps, halted, calls>>

\* The caps are part of the settings.
ChangeCaps ==
    /\ caps' \in Caps
    /\ UNCHANGED <<flash, record, credit, halted, calls>>

PowerLoss ==
    /\ record' = flash /\ credit' = None /\ halted' = FALSE
    /\ UNCHANGED <<flash, caps, calls>>

Init ==
    /\ flash = Empty /\ record = Empty /\ credit = None /\ halted = FALSE
    /\ caps \in Caps /\ calls = Empty

Next ==
    \/ \E e \in Endpoints, d \in Days :
        UseCredit(e, d) \/ Refuse(e, d) \/ \E ok \in BOOLEAN : Reserve(e, d, ok)
    \/ ChangeCaps \/ PowerLoss

Spec == Init /\ [][Next]_vars

-----------------------------------------------------------------------------
(* Properties.                                                             *)

\* Every variable has its type; a credit is what is left of one reservation.
TypeOK ==
    /\ flash \in Record /\ record \in Record /\ calls \in Record
    /\ credit \in [Endpoints -> 0 .. Chunk - 1]
    /\ caps \in Caps /\ halted \in BOOLEAN

\* Every request was reserved in flash before it was sent, on the date it was sent:
\* no reset, failed write, date change or clock correction lets one pass uncounted.
CallsReserved ==
    /\ calls.day <= flash.day /\ calls.month <= flash.month
    /\ calls.day = flash.day => \A e \in Endpoints : calls.daily[e] <= flash.daily[e]
    /\ calls.month = flash.month => \A e \in Endpoints : calls.monthly[e] <= flash.monthly[e]

\* When a request is granted, those made on its day and in its month, across all
\* resets and changes of settings, are within the caps in force.
WithinCaps ==
    [][ calls' # calls =>
            /\ Total(calls'.daily) <= caps.daily /\ Total(calls'.monthly) <= caps.monthly
            /\ calls'.monthly["Location"] <= MonthlyData ]_vars
=============================================================================
