---------------------------- MODULE BudgetProofs ----------------------------
(***************************************************************************)
(* Proofs about the request budget, for every cap, chunk and calendar.     *)
(* While the worker runs, the requests made on the date of the record and  *)
(* the credit together are within what is reserved (Backed).               *)
(***************************************************************************)
EXTENDS Budget, TLAPS

Mirror == ~halted => record = flash

\* Requests c and credit k are within the reservations r, of the same date.
Within(c, k, r) ==
    \A e \in Endpoints : /\ c.daily[e] + k[e] <= r.daily[e]
                         /\ c.monthly[e] + k[e] <= r.monthly[e]

\* The requests that count for the date of the record.
Made(r) ==
    [day |-> r.day, month |-> r.month,
     daily   |-> IF calls.day = r.day THEN calls.daily ELSE None,
     monthly |-> IF calls.month = r.month THEN calls.monthly ELSE None]

Backed == ~halted => Within(Made(record), credit, record)

IInv == TypeOK /\ Mirror /\ CallsReserved /\ Backed

-----------------------------------------------------------------------------
(* Counting.                                                               *)

\* No requests: a count like any other, of total 0.
LEMMA NoneIsCount == /\ None \in Counts /\ \A e \in Endpoints : None[e] = 0
                     /\ Total(None) = 0
  BY DEF None, Counts, Total, Endpoints

\* A total grows with its parts, and with each part by as much.
LEMMA TotalMonotone ==
    ASSUME NEW f \in Counts, NEW g \in Counts, \A e \in Endpoints : f[e] <= g[e]
    PROVE  Total(f) \in Nat /\ Total(g) \in Nat /\ Total(f) <= Total(g)
  BY DEF Counts, Total, Endpoints

\* A total of counts is a number.
LEMMA TotalType == ASSUME NEW f \in Counts PROVE Total(f) \in Nat
  BY DEF Counts, Total, Endpoints

\* One count that grows by n makes the total grow by n, and leaves the others alone.
LEMMA TotalGrows ==
    ASSUME NEW f \in Counts, NEW e \in Endpoints, NEW n \in Nat
    PROVE  /\ [f EXCEPT ![e] = @ + n] \in Counts
           /\ [f EXCEPT ![e] = @ + n][e] = f[e] + n
           /\ \A x \in Endpoints \ {e} : [f EXCEPT ![e] = @ + n][x] = f[x]
           /\ Total([f EXCEPT ![e] = @ + n]) = Total(f) + n
  BY DEF Counts, Total, Endpoints

\* Counting requests keeps the shape and the date of a record.
LEMMA CountedType ==
    ASSUME NEW r \in Record, NEW e \in Endpoints, NEW n \in Nat
    PROVE  /\ Counted(r, e, n) \in Record
           /\ Counted(r, e, n).day = r.day /\ Counted(r, e, n).month = r.month
  BY TotalGrows DEF Counted, Record

\* Counting n requests to one endpoint adds n there and to both totals.
LEMMA CountedCounts ==
    ASSUME NEW r \in Record, NEW e \in Endpoints, NEW n \in Nat
    PROVE  /\ \A x \in Endpoints :
                /\ Counted(r, e, n).daily[x] = r.daily[x] + (IF x = e THEN n ELSE 0)
                /\ Counted(r, e, n).monthly[x] = r.monthly[x] + (IF x = e THEN n ELSE 0)
           /\ Total(Counted(r, e, n).daily) = Total(r.daily) + n
           /\ Total(Counted(r, e, n).monthly) = Total(r.monthly) + n
  <1>1. r.daily \in Counts /\ r.monthly \in Counts
    BY DEF Record
  <1>2. /\ Counted(r, e, n).daily = [r.daily EXCEPT ![e] = @ + n]
        /\ Counted(r, e, n).monthly = [r.monthly EXCEPT ![e] = @ + n]
    BY DEF Counted
  <1>3. /\ Total(Counted(r, e, n).daily) = Total(r.daily) + n
        /\ Total(Counted(r, e, n).monthly) = Total(r.monthly) + n
    BY <1>1, <1>2, TotalGrows
  <1>4. ASSUME NEW x \in Endpoints
        PROVE  /\ Counted(r, e, n).daily[x] = r.daily[x] + (IF x = e THEN n ELSE 0)
               /\ Counted(r, e, n).monthly[x] = r.monthly[x] + (IF x = e THEN n ELSE 0)
    BY <1>1, <1>2 DEF Counts
  <1> QED BY <1>3, <1>4

\* take() moves a record to the date of the request: counts of another date are cleared.
LEMMA RolledType ==
    ASSUME BudgetAssumption, NEW r \in Record, NEW d \in Days
    PROVE  /\ Rolled(r, d) \in Record
           /\ Rolled(r, d).day = d /\ Rolled(r, d).month = MonthOf[d]
           /\ Rolled(r, d).daily = (IF d = r.day THEN r.daily ELSE None)
           /\ Rolled(r, d).monthly = (IF MonthOf[d] = r.month THEN r.monthly ELSE None)
  BY NoneIsCount DEF BudgetAssumption, Rolled, Record

Credits == [Endpoints -> 0 .. Chunk - 1]

\* The credit of another date is none; it is never more than a reservation leaves.
LEMMA CreditType ==
    ASSUME BudgetAssumption, TypeOK, NEW d \in Days
    PROVE  None \in Credits /\ Credit(d) \in Credits
  BY DEF BudgetAssumption, TypeOK, Credits, Credit, None

\* On a later date than the record's nothing has been requested, and no credit is left.
LEMMA RolledWithin ==
    ASSUME BudgetAssumption, IInv, ~halted, NEW d \in Days, Dated(d)
    PROVE  Within(Rolled(calls, d), Credit(d), Rolled(record, d))
  <1>1. /\ record \in Record /\ calls \in Record /\ credit \in Credits
        /\ d \in Nat /\ MonthOf[d] \in Nat
    BY DEF IInv, TypeOK, Credits, BudgetAssumption
  <1>2. calls.day <= record.day /\ calls.month <= record.month
    BY DEF IInv, Mirror, CallsReserved
  <1>3. SUFFICES ASSUME NEW e \in Endpoints
                 PROVE  /\ Rolled(calls, d).daily[e] + Credit(d)[e] <= Rolled(record, d).daily[e]
                        /\ Rolled(calls, d).monthly[e] + Credit(d)[e] <= Rolled(record, d).monthly[e]
    BY DEF Within
  <1>4. /\ record.day \in Nat /\ record.month \in Nat /\ calls.day \in Nat /\ calls.month \in Nat
        /\ calls.daily[e] \in Nat /\ calls.monthly[e] \in Nat
        /\ record.daily[e] \in Nat /\ record.monthly[e] \in Nat
        /\ None[e] = 0 /\ credit[e] \in Nat
    BY <1>1, NoneIsCount, BudgetAssumption DEF Record, Counts, Credits, BudgetAssumption
  <1>5. /\ (IF calls.day = record.day THEN calls.daily[e] ELSE 0) + credit[e] <= record.daily[e]
        /\ (IF calls.month = record.month THEN calls.monthly[e] ELSE 0) + credit[e]
             <= record.monthly[e]
    BY <1>4 DEF IInv, Backed, Within, Made
  <1>6. /\ Rolled(calls, d).daily[e] = (IF d = calls.day THEN calls.daily[e] ELSE 0)
        /\ Rolled(calls, d).monthly[e] = (IF MonthOf[d] = calls.month THEN calls.monthly[e] ELSE 0)
        /\ Rolled(record, d).daily[e] = (IF d = record.day THEN record.daily[e] ELSE 0)
        /\ Rolled(record, d).monthly[e] = (IF MonthOf[d] = record.month THEN record.monthly[e] ELSE 0)
    BY <1>1, <1>4, RolledType
  <1>7. Credit(d)[e] = (IF d = record.day /\ MonthOf[d] = record.month THEN credit[e] ELSE 0)
    BY <1>4 DEF Credit, SameDate
  <1>8. d >= record.day /\ MonthOf[d] >= record.month
    BY DEF Dated
  <1> QED BY <1>1, <1>2, <1>4, <1>5, <1>6, <1>7, <1>8

-----------------------------------------------------------------------------
(* A granted request, made of the record R that its date leaves.           *)

\* A reservation that take() makes is not empty and fits under every cap.
LEMMA ReservedRoom ==
    ASSUME BudgetAssumption, TypeOK, NEW e \in Endpoints, NEW d \in Days,
           ~Over(d), ~AtCap(e, d)
    PROVE  /\ Room(e, d) \in 1 .. Chunk
           /\ Total(Rolled(record, d).daily) + Room(e, d) <= caps.daily
           /\ Total(Rolled(record, d).monthly) + Room(e, d) <= caps.monthly
           /\ e = "Location" => Rolled(record, d).monthly[e] + Room(e, d) <= MonthlyData
  <1> DEFINE R == Rolled(record, d)
  <1>1. R \in Record
    BY RolledType DEF TypeOK
  <1>2. /\ R.daily \in Counts /\ R.monthly \in Counts /\ R.monthly[e] \in Nat
    BY <1>1 DEF Record, Counts
  <1>3. Total(R.daily) \in Nat /\ Total(R.monthly) \in Nat
    BY <1>2, TotalType
  <1>4. caps.daily \in Nat /\ caps.monthly \in Nat /\ MonthlyData \in Nat /\ Chunk \in Nat \ {0}
    BY DEF TypeOK, BudgetAssumption
  <1>5. /\ Total(R.daily) <= caps.daily /\ Total(R.monthly) <= caps.monthly
        /\ R.monthly["Location"] <= MonthlyData
    BY <1>1, <1>3, <1>4 DEF Over, Record, Counts, Endpoints
  <1>6. /\ Total(R.daily) # caps.daily /\ Total(R.monthly) # caps.monthly
        /\ e = "Location" => R.monthly[e] # MonthlyData
    BY DEF AtCap
  <1>7. Room(e, d) = Least(Least(Chunk, IF e = "Location" THEN MonthlyData - R.monthly[e] ELSE Chunk),
                           Least(caps.daily - Total(R.daily), caps.monthly - Total(R.monthly)))
    BY DEF Room
  <1> HIDE DEF R
  <1>8. /\ Room(e, d) \in 1 .. Chunk
        /\ Total(R.daily) + Room(e, d) <= caps.daily
        /\ Total(R.monthly) + Room(e, d) <= caps.monthly
        /\ e = "Location" => R.monthly[e] + Room(e, d) <= MonthlyData
    BY <1>2, <1>3, <1>4, <1>5, <1>6, <1>7 DEF Least
  <1> QED BY <1>8 DEF R

\* A date that is not over the caps leaves reservations within them.
LEMMA UnderCaps ==
    ASSUME BudgetAssumption, TypeOK, NEW d \in Days, ~Over(d)
    PROVE  /\ Total(Rolled(record, d).daily) + 0 <= caps.daily
           /\ Total(Rolled(record, d).monthly) + 0 <= caps.monthly
           /\ Rolled(record, d).monthly["Location"] <= MonthlyData
  <1> DEFINE R == Rolled(record, d)
  <1>1. R \in Record
    BY RolledType DEF TypeOK
  <1>2. R.daily \in Counts /\ R.monthly \in Counts /\ R.monthly["Location"] \in Nat
    BY <1>1 DEF Record, Counts, Endpoints
  <1>3. Total(R.daily) \in Nat /\ Total(R.monthly) \in Nat
    BY <1>2, TotalType
  <1>4. caps.daily \in Nat /\ caps.monthly \in Nat /\ MonthlyData \in Nat
    BY DEF TypeOK, BudgetAssumption
  <1>5. ~(\/ Total(R.daily) > caps.daily \/ Total(R.monthly) > caps.monthly
          \/ R.monthly["Location"] > MonthlyData)
    BY DEF Over
  <1> HIDE DEF R
  <1>6. /\ Total(R.daily) + 0 <= caps.daily /\ Total(R.monthly) + 0 <= caps.monthly
        /\ R.monthly["Location"] <= MonthlyData
    BY <1>2, <1>3, <1>4, <1>5
  <1> QED BY <1>6 DEF R

\* Without credit, what is reserved in flash backs the requests.
LEMMA IdleWithin ==
    ASSUME BudgetAssumption, TypeOK, CallsReserved
    PROVE  Within(Made(flash), None, flash)
  <1>1. SUFFICES ASSUME NEW e \in Endpoints
                 PROVE  /\ Made(flash).daily[e] + None[e] <= flash.daily[e]
                        /\ Made(flash).monthly[e] + None[e] <= flash.monthly[e]
    BY DEF Within
  <1>2. /\ calls.daily[e] \in Nat /\ calls.monthly[e] \in Nat
        /\ flash.daily[e] \in Nat /\ flash.monthly[e] \in Nat /\ None[e] = 0
    BY NoneIsCount DEF TypeOK, Record, Counts
  <1>3. /\ Made(flash).daily[e] = (IF calls.day = flash.day THEN calls.daily[e] ELSE 0)
        /\ Made(flash).monthly[e] = (IF calls.month = flash.month THEN calls.monthly[e] ELSE 0)
    BY <1>2 DEF Made
  <1> QED BY <1>2, <1>3 DEF CallsReserved

\* The caps hold for the requests because they hold for the reservations.
LEMMA CapsHold ==
    ASSUME NEW c \in Record, NEW r \in Record,
           \A e \in Endpoints : c.daily[e] <= r.daily[e] /\ c.monthly[e] <= r.monthly[e],
           caps.daily \in Nat, caps.monthly \in Nat, MonthlyData \in Nat,
           Total(r.daily) <= caps.daily, Total(r.monthly) <= caps.monthly,
           r.monthly["Location"] <= MonthlyData
    PROVE  /\ Total(c.daily) <= caps.daily /\ Total(c.monthly) <= caps.monthly
           /\ c.monthly["Location"] <= MonthlyData
  <1>1. c.daily \in Counts /\ c.monthly \in Counts /\ r.daily \in Counts /\ r.monthly \in Counts
    BY DEF Record
  <1>2. /\ Total(c.daily) \in Nat /\ Total(r.daily) \in Nat /\ Total(c.daily) <= Total(r.daily)
        /\ Total(c.monthly) \in Nat /\ Total(r.monthly) \in Nat
        /\ Total(c.monthly) <= Total(r.monthly)
    BY <1>1, TotalMonotone
  <1>3. /\ "Location" \in Endpoints
        /\ c.monthly["Location"] \in Nat /\ r.monthly["Location"] \in Nat
    BY <1>1 DEF Counts, Endpoints
  <1> QED BY <1>2, <1>3

\* m more reservations for e, of which (with the credit) one is used at once.
LEMMA RequestWithin ==
    ASSUME BudgetAssumption, NEW c \in Record, NEW r \in Record, NEW k \in Credits,
           NEW k2 \in Credits, NEW e \in Endpoints, NEW m \in Nat, Within(c, k, r),
           k2 = [k EXCEPT ![e] = k[e] + m - 1]
    PROVE  /\ Within(Counted(c, e, 1), k2, Counted(r, e, m))
           /\ \A x \in Endpoints :
                /\ Counted(c, e, 1).daily[x] <= Counted(r, e, m).daily[x]
                /\ Counted(c, e, 1).monthly[x] <= Counted(r, e, m).monthly[x]
  <1> DEFINE c2 == Counted(c, e, 1)
             r2 == Counted(r, e, m)
  <1>1. /\ c2 \in Record /\ r2 \in Record
        /\ \A x \in Endpoints :
            /\ c2.daily[x] = c.daily[x] + (IF x = e THEN 1 ELSE 0)
            /\ c2.monthly[x] = c.monthly[x] + (IF x = e THEN 1 ELSE 0)
            /\ r2.daily[x] = r.daily[x] + (IF x = e THEN m ELSE 0)
            /\ r2.monthly[x] = r.monthly[x] + (IF x = e THEN m ELSE 0)
    <2>1. 1 \in Nat
      OBVIOUS
    <2>2. /\ c2 \in Record
          /\ \A x \in Endpoints :
                /\ c2.daily[x] = c.daily[x] + (IF x = e THEN 1 ELSE 0)
                /\ c2.monthly[x] = c.monthly[x] + (IF x = e THEN 1 ELSE 0)
      BY <2>1, CountedType, CountedCounts, ZenonT(40)
    <2>3. /\ r2 \in Record
          /\ \A x \in Endpoints :
                /\ r2.daily[x] = r.daily[x] + (IF x = e THEN m ELSE 0)
                /\ r2.monthly[x] = r.monthly[x] + (IF x = e THEN m ELSE 0)
      BY CountedType, CountedCounts, Zenon
    <2> QED BY <2>2, <2>3
  <1> HIDE DEF c2, r2
  <1>2. ASSUME NEW x \in Endpoints
        PROVE  /\ c2.daily[x] + k2[x] <= r2.daily[x] /\ c2.monthly[x] + k2[x] <= r2.monthly[x]
               /\ c2.daily[x] <= r2.daily[x] /\ c2.monthly[x] <= r2.monthly[x]
    <2>1. /\ c.daily[x] \in Nat /\ c.monthly[x] \in Nat /\ r.daily[x] \in Nat /\ r.monthly[x] \in Nat
          /\ k[x] \in Nat /\ k2[x] \in Nat
      BY BudgetAssumption DEF Record, Counts, Credits, BudgetAssumption
    <2>2. c.daily[x] + k[x] <= r.daily[x] /\ c.monthly[x] + k[x] <= r.monthly[x]
      BY DEF Within
    <2>3. k2[x] = k[x] + (IF x = e THEN m - 1 ELSE 0)
      BY <2>1 DEF Credits
    <2> QED BY <1>1, <2>1, <2>2, <2>3
  <1>3. Within(c2, k2, r2)
    BY <1>2 DEF Within
  <1> QED BY <1>2, <1>3 DEF c2, r2

-----------------------------------------------------------------------------
(* The invariant.                                                          *)

WithinCapsStep ==
    /\ Total(calls'.daily) <= caps.daily /\ Total(calls'.monthly) <= caps.monthly
    /\ calls'.monthly["Location"] <= MonthlyData

\* What UseCredit (m = 0) and a successful Reserve do alike keeps the invariant.
LEMMA RequestKeeps ==
    ASSUME BudgetAssumption, IInv, ~halted, NEW e \in Endpoints, NEW d \in Days, Dated(d),
           NEW m \in Nat, Called(e, d),
           credit' = [Credit(d) EXCEPT ![e] = Credit(d)[e] + m - 1], credit' \in Credits,
           record' = Counted(Rolled(record, d), e, m), flash' = record',
           UNCHANGED <<caps, halted>>,
           Total(Rolled(record, d).daily) + m <= caps.daily,
           Total(Rolled(record, d).monthly) + m <= caps.monthly,
           record'.monthly["Location"] <= MonthlyData
    PROVE  IInv' /\ WithinCapsStep
  <1> DEFINE C == Rolled(calls, d)
             R == Rolled(record, d)
  <1>1. /\ C \in Record /\ C.day = d /\ C.month = MonthOf[d]
        /\ R \in Record /\ R.day = d /\ R.month = MonthOf[d] /\ d \in Nat /\ MonthOf[d] \in Nat
    BY RolledType DEF IInv, TypeOK, BudgetAssumption
  <1>2. Within(C, Credit(d), R) /\ Credit(d) \in Credits
    BY RolledWithin, CreditType DEF IInv
  <1>3. calls' = Counted(C, e, 1) /\ record' = Counted(R, e, m)
    BY DEF Called
  <1>4. /\ Total(R.daily) + m <= caps.daily /\ Total(R.monthly) + m <= caps.monthly
        /\ credit' = [Credit(d) EXCEPT ![e] = Credit(d)[e] + m - 1]
    OBVIOUS
  <1> HIDE DEF C, R
  <1>5. /\ calls' \in Record /\ calls'.day = d /\ calls'.month = MonthOf[d]
        /\ record' \in Record /\ record'.day = d /\ record'.month = MonthOf[d]
    <2>1. 1 \in Nat
      OBVIOUS
    <2>2. /\ Counted(C, e, 1) \in Record /\ Counted(C, e, 1).day = C.day
          /\ Counted(C, e, 1).month = C.month
      BY <1>1, <2>1, CountedType, Zenon
    <2>3. /\ Counted(R, e, m) \in Record /\ Counted(R, e, m).day = R.day
          /\ Counted(R, e, m).month = R.month
      BY <1>1, CountedType, Zenon
    <2> QED BY <1>1, <1>3, <2>2, <2>3
  <1>6. /\ Within(calls', credit', record')
        /\ \A x \in Endpoints : /\ calls'.daily[x] <= record'.daily[x]
                                /\ calls'.monthly[x] <= record'.monthly[x]
    <2> DEFINE k2 == [Credit(d) EXCEPT ![e] = Credit(d)[e] + m - 1]
    <2>1. k2 \in Credits /\ k2 = credit'
      BY <1>4
    <2>2. /\ Within(Counted(C, e, 1), k2, Counted(R, e, m))
          /\ \A x \in Endpoints :
                /\ Counted(C, e, 1).daily[x] <= Counted(R, e, m).daily[x]
                /\ Counted(C, e, 1).monthly[x] <= Counted(R, e, m).monthly[x]
      BY <1>1, <1>2, <2>1, RequestWithin
    <2> QED BY <1>3, <2>1, <2>2
  <1>7. TypeOK'
    BY <1>5 DEF IInv, TypeOK, Credits
  <1>8. Mirror' /\ CallsReserved'
    BY <1>1, <1>5, <1>6 DEF Mirror, CallsReserved
  <1>9. Backed'
    BY <1>5, <1>6 DEF Backed, Within, Made
  <1>10. WithinCapsStep
    <2>1. caps.daily \in Nat /\ caps.monthly \in Nat /\ MonthlyData \in Nat
      BY BudgetAssumption DEF IInv, TypeOK, BudgetAssumption
    <2>2. /\ Total(record'.daily) = Total(R.daily) + m
          /\ Total(record'.monthly) = Total(R.monthly) + m
      BY <1>1, <1>3, CountedCounts
    <2> QED BY <1>4, <1>5, <1>6, <2>1, <2>2, CapsHold DEF WithinCapsStep
  <1> QED BY <1>7, <1>8, <1>9, <1>10 DEF IInv

\* A request out of the credit keeps the invariant and the caps: it was counted already.
LEMMA UseCreditKeeps ==
    ASSUME BudgetAssumption, IInv, NEW e \in Endpoints, NEW d \in Days, UseCredit(e, d)
    PROVE  IInv' /\ WithinCapsStep
  <1> DEFINE R == Rolled(record, d)
  <1>1. /\ record \in Record /\ ~halted /\ record = flash /\ Dated(d)
        /\ UNCHANGED <<flash, record, caps, halted>> /\ Called(e, d)
        /\ Credit(d) \in Credits /\ Credit(d)[e] > 0 /\ 0 \in Nat
    BY CreditType DEF IInv, TypeOK, UseCredit, Mirror
  <1>2. R = record /\ Counted(R, e, 0) = record
    <2>1. d = record.day /\ MonthOf[d] = record.month
      BY <1>1, NoneIsCount DEF Credit, SameDate
    <2>2. R = record
      BY <1>1, <2>1 DEF Rolled, Record
    <2>3. [record.daily EXCEPT ![e] = @ + 0] = record.daily
          /\ [record.monthly EXCEPT ![e] = @ + 0] = record.monthly
      BY <1>1 DEF Record, Counts
    <2>4. Counted(record, e, 0) = record
      BY <1>1, <2>3 DEF Counted, Record
    <2> QED BY <2>2, <2>4
  <1>3. /\ credit' = [Credit(d) EXCEPT ![e] = Credit(d)[e] + 0 - 1] /\ credit' \in Credits
    <2>1. Credit(d)[e] \in 1 .. Chunk - 1 /\ Credit(d)[e] + 0 - 1 = Credit(d)[e] - 1
      BY <1>1, BudgetAssumption DEF Credits, BudgetAssumption
    <2>2. credit' = [Credit(d) EXCEPT ![e] = Credit(d)[e] - 1]
      BY DEF UseCredit
    <2>3. Credit(d)[e] - 1 \in 0 .. Chunk - 1
      BY <2>1, BudgetAssumption DEF BudgetAssumption
    <2> QED BY <1>1, <2>1, <2>2, <2>3 DEF Credits
  <1>4. /\ Total(R.daily) + 0 <= caps.daily /\ Total(R.monthly) + 0 <= caps.monthly
        /\ R.monthly["Location"] <= MonthlyData
    BY UnderCaps DEF UseCredit, IInv
  <1>5. record' = Counted(Rolled(record, d), e, 0) /\ flash' = record'
        /\ record'.monthly["Location"] <= MonthlyData /\ UNCHANGED <<caps, halted>>
    BY <1>1, <1>2, <1>4
  <1> QED BY <1>1, <1>3, <1>4, <1>5, RequestKeeps

\* So does a reservation, whether its write succeeds, fails, or fails after taking effect.
LEMMA ReserveKeeps ==
    ASSUME BudgetAssumption, IInv, NEW e \in Endpoints, NEW d \in Days, NEW ok \in BOOLEAN,
           Reserve(e, d, ok)
    PROVE  IInv' /\ (calls' # calls => WithinCapsStep)
  <1> DEFINE R == Rolled(record, d)
             n == Room(e, d)
             r == Counted(R, e, n)
  <1>1. /\ record \in Record /\ ~halted /\ record = flash /\ Dated(d) /\ UNCHANGED caps
        /\ Credit(d) \in Credits /\ Credit(d)[e] = 0 /\ halted' = ~ok /\ TypeOK
    <2>1. ~halted /\ Dated(d) /\ UNCHANGED caps /\ Credit(d)[e] = 0 /\ halted' = ~ok
      BY Zenon DEF Reserve
    <2>2. TypeOK /\ Mirror
      BY DEF IInv
    <2>3. record \in Record /\ record = flash
      BY <2>1, <2>2 DEF TypeOK, Mirror
    <2> QED BY <2>1, <2>2, <2>3, CreditType
  <1>2. /\ n \in 1 .. Chunk
        /\ Total(R.daily) + n <= caps.daily /\ Total(R.monthly) + n <= caps.monthly
        /\ e = "Location" => R.monthly[e] + n <= MonthlyData
    <2>1. ~Over(d) /\ ~AtCap(e, d)
      BY Zenon DEF Reserve
    <2> QED BY <1>1, <2>1, ReservedRoom
  <1>3. n \in Nat /\ R \in Record /\ R.day = d /\ R.month = MonthOf[d] /\ Chunk \in Nat
    <2>1. n \in 1 .. Chunk /\ Chunk \in Nat
      BY <1>2, BudgetAssumption DEF BudgetAssumption
    <2>2. n \in Nat
      BY <2>1
    <2>3. R \in Record /\ R.day = d /\ R.month = MonthOf[d]
      BY <1>1, RolledType
    <2> QED BY <2>1, <2>2, <2>3
  <1>4. /\ ok  => /\ flash' = r /\ record' = r /\ Called(e, d)
                  /\ credit' = [Credit(d) EXCEPT ![e] = n - 1]
        /\ ~ok => flash' \in {flash, r} /\ credit' = Credit(d) /\ UNCHANGED <<record, calls>>
    BY DEF Reserve, Granted
  <1> HIDE DEF R, n
  <1>5. r \in Record /\ r.day = d /\ r.month = MonthOf[d]
    <2>1. r \in Record /\ r.day = R.day /\ r.month = R.month
      BY <1>3, CountedType, Zenon
    <2> QED BY <1>3, <2>1
  <1>6. \A x \in Endpoints : /\ r.daily[x] = R.daily[x] + (IF x = e THEN n ELSE 0)
                             /\ r.monthly[x] = R.monthly[x] + (IF x = e THEN n ELSE 0)
    <2>1. n \in Nat /\ R \in Record
      BY <1>3
    <2> QED BY <2>1, CountedCounts, ZenonT(40)
  <1> HIDE DEF r
  <1>7. CASE ok
    <2>1. credit' = [Credit(d) EXCEPT ![e] = Credit(d)[e] + n - 1] /\ credit' \in Credits
      <3>1. Credit(d)[e] + n - 1 = n - 1 /\ n - 1 \in 0 .. Chunk - 1
        BY <1>1, <1>2, <1>3
      <3>2. credit' = [Credit(d) EXCEPT ![e] = n - 1]
        BY <1>4, <1>7
      <3> QED BY <1>1, <3>1, <3>2 DEF Credits
    <2>2. r.monthly["Location"] <= MonthlyData
      <3>1. R.monthly["Location"] <= MonthlyData /\ R.monthly["Location"] \in Nat
            /\ "Location" \in Endpoints /\ MonthlyData \in Nat
        BY <1>1, <1>3, UnderCaps, BudgetAssumption
        DEF Reserve, R, Record, Counts, Endpoints, BudgetAssumption
      <3> QED BY <1>2, <1>3, <1>6, <3>1
    <2>3. /\ record' = Counted(Rolled(record, d), e, n) /\ flash' = record'
          /\ record'.monthly["Location"] <= MonthlyData /\ Called(e, d)
      BY <1>4, <1>7, <2>2 DEF r, R
    <2>4. halted' = halted /\ caps' = caps
      <3>1. halted \in BOOLEAN
        BY <1>1 DEF TypeOK
      <3> QED BY <1>1, <1>7, <3>1, Zenon
    <2>5. Total(Rolled(record, d).daily) + n <= caps.daily
          /\ Total(Rolled(record, d).monthly) + n <= caps.monthly
      BY <1>2 DEF R
    <2> QED BY <1>1, <1>3, <2>1, <2>3, <2>4, <2>5, RequestKeeps
  <1>8. CASE ~ok
    <2>1. TypeOK'
      BY <1>1, <1>4, <1>5, <1>8 DEF IInv, TypeOK, Credits
    <2>2. CallsReserved'
      <3>1. Within(Rolled(calls, d), Credit(d), R)
        BY <1>1, RolledWithin DEF R
      <3>2. CASE flash' = flash
        BY <1>4, <1>8, <3>2 DEF IInv, CallsReserved
      <3>3. CASE flash' = r
        <4>1. /\ calls.day <= r.day /\ calls.month <= r.month /\ calls \in Record
          BY <1>1, <1>3, <1>5, BudgetAssumption
          DEF IInv, TypeOK, CallsReserved, Dated, Record, BudgetAssumption
        <4>2. ASSUME NEW x \in Endpoints
              PROVE  /\ calls.day = r.day => calls.daily[x] <= r.daily[x]
                     /\ calls.month = r.month => calls.monthly[x] <= r.monthly[x]
          <5>1. /\ calls.daily[x] \in Nat /\ calls.monthly[x] \in Nat
                /\ R.daily[x] \in Nat /\ R.monthly[x] \in Nat /\ Credit(d)[x] \in Nat
            BY <1>1, <1>3, <4>1, BudgetAssumption DEF Record, Counts, Credits, BudgetAssumption
          <5>2. /\ calls.day = r.day => Rolled(calls, d).daily[x] = calls.daily[x]
                /\ calls.month = r.month => Rolled(calls, d).monthly[x] = calls.monthly[x]
            BY <1>5, <4>1, RolledType
          <5>3. /\ Rolled(calls, d).daily[x] + Credit(d)[x] <= R.daily[x]
                /\ Rolled(calls, d).monthly[x] + Credit(d)[x] <= R.monthly[x]
            BY <3>1 DEF Within
          <5> QED BY <1>3, <1>6, <5>1, <5>2, <5>3
        <4> QED BY <1>4, <1>8, <3>3, <4>1, <4>2 DEF CallsReserved
      <3> QED BY <1>4, <1>8, <3>2, <3>3
    <2>3. Mirror' /\ Backed' /\ calls' = calls
      BY <1>1, <1>4, <1>8 DEF Mirror, Backed
    <2> QED BY <2>1, <2>2, <2>3 DEF IInv
  <1> QED BY <1>7, <1>8

\* Nothing is requested: a refusal forgets credit, a reset all of it.
LEMMA OthersKeep ==
    ASSUME BudgetAssumption, IInv,
           \/ \E e \in Endpoints, d \in Days : Refuse(e, d)
           \/ ChangeCaps \/ PowerLoss
    PROVE  IInv' /\ UNCHANGED calls
  <1>1. CASE \E e \in Endpoints, d \in Days : Refuse(e, d)
    <2>1. PICK e \in Endpoints, d \in Days : Refuse(e, d)
      BY <1>1
    <2>2. UNCHANGED <<flash, record, caps, halted, calls>> /\ ~halted /\ credit' = Credit(d)
          /\ credit' \in Credits
      BY <2>1, CreditType DEF Refuse, IInv
    <2>3. TypeOK' /\ Mirror' /\ CallsReserved'
      BY <2>2 DEF IInv, TypeOK, Mirror, CallsReserved, Credits
    <2>4. credit' = credit \/ credit' = None
      BY <2>2 DEF Credit
    <2>5. Backed'
      <3>1. CASE credit' = credit
        BY <2>2, <3>1 DEF IInv, Backed, Within, Made
      <3>2. CASE credit' = None
        <4>1. record = flash
          BY <2>2 DEF IInv, Mirror
        <4> QED BY <2>2, <3>2, <4>1, IdleWithin DEF IInv, Backed, Within, Made
      <3> QED BY <2>4, <3>1, <3>2
    <2> QED BY <2>2, <2>3, <2>5 DEF IInv
  <1>2. CASE ChangeCaps
    BY <1>2 DEF ChangeCaps, IInv, TypeOK, Mirror, CallsReserved, Backed, Within, Made
  <1>3. CASE PowerLoss
    <2>1. /\ record' = flash /\ flash' = flash /\ credit' = None /\ UNCHANGED <<caps, calls>>
          /\ halted' = FALSE /\ None \in Credits
      BY <1>3, NoneIsCount, BudgetAssumption DEF PowerLoss, Credits, None, BudgetAssumption
    <2>2. TypeOK' /\ Mirror' /\ CallsReserved'
      BY <2>1 DEF IInv, TypeOK, Mirror, CallsReserved, Credits
    <2>3. Backed'
      BY <2>1, IdleWithin DEF IInv, Backed, Within, Made
    <2> QED BY <2>1, <2>2, <2>3 DEF IInv
  <1> QED BY <1>1, <1>2, <1>3

\* In every reachable state the counters in flash cover the requests made and the credit.
THEOREM Invariant == Spec => []IInv
  <1> USE BudgetAssumption
  <1>1. Init => IInv
    <2> SUFFICES ASSUME Init PROVE IInv
      OBVIOUS
    <2>1. /\ flash = Empty /\ record = Empty /\ calls = Empty /\ credit = None /\ caps \in Caps
          /\ halted = FALSE
      BY DEF Init
    <2>2. Empty \in Record /\ None \in Credits
      BY NoneIsCount DEF Empty, Record, Credits, None, BudgetAssumption
    <2>3. TypeOK
      BY <2>1, <2>2 DEF TypeOK, Credits
    <2>4. CallsReserved
      <3>1. /\ Empty.day = 0 /\ Empty.month = 0 /\ Empty.daily = None /\ Empty.monthly = None
        BY DEF Empty
      <3> QED BY <2>1, <3>1, NoneIsCount DEF CallsReserved
    <2>5. Mirror /\ Backed
      BY <2>1, <2>3, <2>4, IdleWithin DEF Mirror, Backed
    <2> QED BY <2>3, <2>4, <2>5 DEF IInv
  <1>2. IInv /\ [Next]_vars => IInv'
    <2> SUFFICES ASSUME IInv, [Next]_vars PROVE IInv'
      OBVIOUS
    <2>1. CASE Next
      BY <2>1, UseCreditKeeps, ReserveKeeps, OthersKeep DEF Next
    <2>2. CASE UNCHANGED vars
      BY <2>2 DEF vars, IInv, TypeOK, Mirror, CallsReserved, Backed, Within, Made
    <2> QED BY <2>1, <2>2
  <1> QED BY <1>1, <1>2, PTL DEF Spec

-----------------------------------------------------------------------------
(* The results.                                                            *)

\* Every variable has its type, for every cap, chunk and calendar.
THEOREM TypeCorrect == Spec => []TypeOK
  <1>1. IInv => TypeOK
    BY DEF IInv
  <1> QED BY <1>1, Invariant, PTL

\* Every request is counted in flash on its date before it is made.
THEOREM ReservedCalls == Spec => []CallsReserved
  <1>1. IInv => CallsReserved
    BY DEF IInv
  <1> QED BY <1>1, Invariant, PTL

\* The requests of a day and a month stay within the caps in force at each of them.
THEOREM CapsRespected == Spec => WithinCaps
  <1>1. IInv /\ [Next]_vars => [calls' # calls => WithinCapsStep]_vars
    <2> SUFFICES ASSUME IInv, Next, calls' # calls PROVE WithinCapsStep
      BY DEF vars
    <2> QED BY BudgetAssumption, UseCreditKeeps, ReserveKeeps, OthersKeep DEF Next
  <1>2. [][calls' # calls => WithinCapsStep]_vars => WithinCaps
    BY PTL DEF WithinCaps, WithinCapsStep
  <1> QED BY <1>1, <1>2, Invariant, PTL DEF Spec
=============================================================================
