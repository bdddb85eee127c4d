-------------------------- MODULE LeaveProcess_proofs --------------------------
(***************************************************************************)
(* Proofs about the leave engine and about leave for events; and the types *)
(* of the whole, sick leave with them.                                     *)
(*                                                                         *)
(* The engine: each turn of its loops is a Step, which keeps the ledger's  *)
(* figures whole numbers, leaves the openings alone and what is owed as it *)
(* was, and which has nothing left to do in whatever steps come after it.  *)
(* Loops over dates are recursive functions; what holds at their end is    *)
(* shown by the least turn at which it would not. What an allowance holds  *)
(* has an invariant of its own, AllowInv; so has leave that is earned,     *)
(* AccruInv: the ledger is a book from which the clerk's balance of every  *)
(* evening can be read.                                                    *)
(***************************************************************************)
EXTENDS MCLeaveProcess, SickLeave_proofs

Ints(L) == IsFiniteSet(L) /\ \A e \in L : e.units \in Int /\ e.on \in Int
Paid(L) == {e \in L : e.type = "PAYOUT" /\ ~(e.key[1] = "TERM" /\ e.key[2] < EngineStartedOn)}
Sound(s) == s = [ledger |-> s.ledger, additions |-> s.additions] /\ Ints(s.ledger) /\ s.additions \in Int
Owes(s) == s.additions + UnitSum(Paid(s.ledger))
\* Payroll has no day that was not taken, and all of them if there was a rate.
Agrees(s) == Owes(s) <= 0 /\ (RatedSoFar => Owes(s) = 0)
Step(s, t) ==
  /\ Sound(t) /\ s.ledger \subseteq t.ledger
  /\ LiveOpenings(t.ledger) = LiveOpenings(s.ledger)
  /\ Agrees(s) => Agrees(t)

EngineTypes ==
  /\ today \in Nat /\ start \in Int /\ leftOn \in Int
  /\ versions \in Seq([from : Int, policy : Policies]) /\ Len(versions) >= 1
  /\ batches \in Seq([status : {"DRAFT", "POSTED", "REVERSED"}, cut : Int, figure : Int])
  /\ Ints(ledger) /\ additions \in Int

LEMMA Numbers ==
  /\ MonthDays \in Nat \ {0} /\ YearMonths \in Nat \ {0} /\ YearDays \in Nat \ {0} /\ CycleDays \in Nat \ {0}
  /\ \A p \in Policies : /\ p.perDay \in Nat /\ p.maxBalance \in Nat /\ p.carryForwardMax \in Nat
                         /\ p.firstGrantAfterMonths \in Nat /\ p.minServiceMonths \in Nat
  /\ EngineStartedOn \in Int
  <1>1. MonthDays \in Nat \ {0} /\ YearMonths \in Nat \ {0} BY CalendarAssumption
  <1>2. \A a, b \in Nat \ {0} : a * b \in Nat \ {0} OBVIOUS
  <1>3. YearDays \in Nat \ {0} BY <1>1, <1>2 DEF YearDays
  <1>4. QED BY <1>1, <1>3, PolicyAssumption, DateAssumption DEF CycleDays

\* A set of numbers up to n has a least.
LEMMA Least == ASSUME NEW n \in Nat, NEW B \in SUBSET (0 .. n), B # {} PROVE \E d \in B : \A c \in B : d <= c
  <1> DEFINE N == {k \in (- n) .. 0 : - k \in B}
  <1>1. IsFiniteSet((- n) .. 0) BY FS_Interval
  <1>2. IsFiniteSet(N) /\ N \subseteq Int BY <1>1, FS_Subset
  <1>3. \A c \in B : - c \in N OBVIOUS
  <1>4. N # {} BY <1>3
  <1>5. \A k \in N : - k \in B /\ k \in Int OBVIOUS
  <1> HIDE DEF N
  <1>6. PICK k \in N : \A c \in N : c <= k BY <1>2, <1>4, Greatest
  <1>7. \A c \in B : - c <= k BY <1>3, <1>6
  <1>8. \A c \in B : - k <= c BY <1>5, <1>6, <1>7
  <1>9. QED BY <1>5, <1>6, <1>8

LEMMA SubSums ==
  ASSUME NEW L, Ints(L), NEW M \in SUBSET L
  PROVE  IsFiniteSet(M) /\ Total(M) = UnitSum(M) /\ Total(M) \in Int /\ UnitSum(M) \in Int
  <1>1. IsFiniteSet(M) /\ \A e \in M : e.units \in Int BY FS_Subset DEF Ints
  <1>2. UnitSum(M) \in Int BY <1>1, UnitSumType
  <1>3. Total(M) = UnitSum(M) BY DEF Total, UnitSum
  <1>4. QED BY <1>1, <1>2, <1>3

LEMMA LedgerFigures ==
  ASSUME NEW L, Ints(L)
  PROVE  Total(L) \in Int /\ \A d : Balance(L, d) \in Int /\ Remaining(L, d) \in Int
  <1>1. Total(L) \in Int BY SubSums
  <1>2. ASSUME NEW d PROVE Total({e \in L : e.on <= d}) \in Int /\ Total({e \in L : e.cycle = d}) \in Int
    BY SubSums
  <1>3. QED BY <1>1, <1>2 DEF Balance, Remaining

LEMMA MaxIn == ASSUME NEW S, S \subseteq Int, IsFiniteSet(S), S # {} PROVE Max(S) \in S
  <1>1. \E d \in S : \A c \in S : c <= d BY Greatest
  <1>2. \E d \in S : \A c \in S : d >= c BY <1>1
  <1>3. QED BY <1>2 DEF Max

LEMMA VersionTypes ==
  ASSUME EngineTypes, NEW d \in Int
  PROVE  Policy(d) \in Policies /\ VersionOn(d).from \in Int /\ versions[1].policy \in Policies
  <1> DEFINE inForce == {i \in DOMAIN versions : versions[i].from <= d}
  <1>1. Len(versions) \in Nat /\ DOMAIN versions = 1 .. Len(versions) /\ Len(versions) >= 1
        /\ \A i \in DOMAIN versions : versions[i].from \in Int /\ versions[i].policy \in Policies
    <2> DEFINE R == [from : Int, policy : Policies]
    <2>1. versions \in Seq(R) /\ Len(versions) >= 1 BY DEF EngineTypes
    <2> HIDE DEF R
    <2>2. \A i \in 1 .. Len(versions) : versions[i] \in R BY <2>1
    <2>3. Len(versions) \in Nat /\ DOMAIN versions = 1 .. Len(versions) BY <2>1
    <2>4. \A v \in R : v.from \in Int /\ v.policy \in Policies BY DEF R
    <2>5. QED BY <2>1, <2>2, <2>3, <2>4
  <1>2. IsFiniteSet(inForce) /\ inForce \subseteq Int
    <2>1. IsFiniteSet(1 .. Len(versions)) BY <1>1, FS_Interval
    <2>2. QED BY <1>1, <2>1, FS_Subset
  <1>3. inForce # {} => Max(inForce) \in DOMAIN versions
    <2>1. inForce # {} => Max(inForce) \in inForce
      <3> HIDE DEF inForce
      <3>1. QED BY <1>2, MaxIn
    <2>2. QED BY <2>1
  <1>4. QED BY <1>1, <1>3 DEF Policy, VersionOn

LEMMA DateTypes ==
  ASSUME EngineTypes
  PROVE  /\ EmpLastDay \in Int /\ EndLimit \in Int
         /\ \A d \in Int : CycleKey(d) \in Int /\ MonthStart(d) \in Int /\ CycleEnd(d) \in Int
         /\ \A L : Ints(L) => AccrualFloor(L) \in Int
  <1>1. today \in Int /\ start \in Int /\ leftOn \in Int BY DEF EngineTypes
  <1>2. MonthDays \in Nat \ {0} /\ YearDays \in Nat \ {0} /\ CycleDays \in Nat \ {0} BY Numbers
  <1>3. EmpLastDay \in Int /\ EndLimit \in Int BY <1>1 DEF EmpLastDay, EndLimit, Smaller
  <1>4. ASSUME NEW d \in Int PROVE CycleKey(d) \in Int /\ MonthStart(d) \in Int /\ CycleEnd(d) \in Int
    <2>1. d % MonthDays \in Int /\ d % YearDays \in Int /\ (d - start) \div YearDays \in Int BY <1>1, <1>2
    <2>2. \A a \in Int : a * YearDays \in Int BY <1>2
    <2>3. QED BY <1>1, <1>2, <2>1, <2>2 DEF CycleKey, MonthStart, YearStart, CycleEnd
  <1>5. ASSUME NEW L, Ints(L) PROVE AccrualFloor(L) \in Int
    <2> DEFINE S == {e.on : e \in LiveOpenings(L)}
    <2>1. CASE LiveOpenings(L) = {} BY <1>1, <2>1 DEF AccrualFloor
    <2>2. CASE LiveOpenings(L) # {}
      <3>1. IsFiniteSet(LiveOpenings(L)) BY <1>5, FS_Subset DEF LiveOpenings, Ints
      <3>2. S \subseteq Int /\ S # {} BY <1>5, <2>2 DEF LiveOpenings, Ints
      <3>3. IsFiniteSet(S)
        <4> DEFINE f == [e \in LiveOpenings(L) |-> e.on]
        <4>1. f \in Surjection(LiveOpenings(L), S) BY DEF Surjection
        <4> HIDE DEF f, S
        <4>2. QED BY <3>1, <4>1, FS_Surjection
      <3>4. Max(S) \in Int
        <4> HIDE DEF S
        <4>1. QED BY <3>2, <3>3, MaxIn
      <3>5. QED BY <1>1, <2>2, <3>4 DEF AccrualFloor, Larger
    <2>3. QED BY <2>1, <2>2
  <1>6. QED BY <1>3, <1>4, <1>5

LEMMA EveryIs ==
  ASSUME NEW step \in Nat \ {0}, NEW first \in Int, NEW last \in Int
  PROVE  /\ Every(step, first, last) \in Seq(Int) /\ Len(Every(step, first, last)) \in Nat
         /\ \A i \in 1 .. Len(Every(step, first, last)) : Every(step, first, last)[i] = first + (i - 1) * step
  <1> DEFINE n == IF last < first THEN 0 ELSE (last - first) \div step + 1
  <1>1. n \in Nat
    <2>1. \A a \in Nat, b \in Nat \ {0} : a \div b \in Nat OBVIOUS
    <2>2. last >= first => last - first \in Nat OBVIOUS
    <2>3. last >= first => (last - first) \div step \in Nat BY <2>1, <2>2
    <2>4. QED BY <2>3
  <1>2. \A i \in 1 .. n : first + (i - 1) * step \in Int BY <1>1
  <1> DEFINE e == [i \in 1 .. n |-> first + (i - 1) * step]
  <1>3. Every(step, first, last) = e BY DEF Every
  <1> HIDE DEF n
  <1>4. e \in Seq(Int) /\ Len(e) = n BY <1>1, <1>2
  <1>5. QED BY <1>1, <1>3, <1>4

-----------------------------------------------------------------------------
LEMMA StepStays == ASSUME NEW s, Sound(s) PROVE Step(s, s)
  BY DEF Step
LEMMA StepOn == ASSUME NEW s, NEW t, NEW u, Step(s, t), Step(t, u) PROVE Step(s, u)
  BY DEF Step

\* What a posting does to the tables.
LEMMA PostedIs ==
  ASSUME NEW s, Sound(s), NEW e, e.units \in Int, e.on \in Int
  PROVE  /\ Sound(Posted(s, e)) /\ s.ledger \subseteq Posted(s, e).ledger
         /\ e.key \in Keys(Posted(s, e).ledger)
         /\ Posted(s, e).additions = s.additions
         /\ e.key \in Keys(s.ledger) => Posted(s, e) = s
         /\ e.key \notin Keys(s.ledger) => Posted(s, e).ledger = s.ledger \cup {e} /\ e \notin s.ledger
  <1>1. s = [ledger |-> s.ledger, additions |-> s.additions] /\ Ints(s.ledger) BY DEF Sound
  <1>2. Posted(s, e) = [ledger |-> Post(s.ledger, e), additions |-> s.additions]
    <2>1. Posted(s, e) = [s EXCEPT !.ledger = Post(s.ledger, e)] BY DEF Posted
    <2> DEFINE L == Post(s.ledger, e)
    <2> HIDE DEF L
    <2>2. [s EXCEPT !.ledger = L] = [ledger |-> L, additions |-> s.additions] BY <1>1
    <2>3. QED BY <2>1, <2>2 DEF L
  <1>3. CASE e.key \in Keys(s.ledger)
    <2>1. Post(s.ledger, e) = s.ledger BY <1>3 DEF Post
    <2>2. Posted(s, e) = s BY <1>1, <1>2, <2>1
    <2>3. QED BY <1>3, <2>2
  <1>4. CASE e.key \notin Keys(s.ledger)
    <2>1. Post(s.ledger, e) = s.ledger \cup {e} /\ e \notin s.ledger BY <1>4 DEF Post, Keys
    <2>2. Ints(s.ledger \cup {e}) BY <1>1, FS_AddElement DEF Ints
    <2>3. e.key \in Keys(s.ledger \cup {e}) BY DEF Keys
    <2>4. QED BY <1>2, <1>4, <2>1, <2>2, <2>3 DEF Sound
  <1>5. QED BY <1>3, <1>4

\* An entry that is no payout leaves what is owed alone.
LEMMA PostOwes ==
  ASSUME NEW s, Sound(s), NEW e, e.units \in Int, e.on \in Int, e.type # "PAYOUT"
  PROVE  Owes(Posted(s, e)) = Owes(s)
  <1>1. CASE e.key \in Keys(s.ledger)
    <2>1. Posted(s, e) = s BY <1>1, PostedIs
    <2>2. QED BY <2>1
  <1>2. CASE e.key \notin Keys(s.ledger)
    <2>1. Posted(s, e).ledger = s.ledger \cup {e} /\ Posted(s, e).additions = s.additions BY <1>2, PostedIs
    <2>2. Paid(s.ledger \cup {e}) = Paid(s.ledger) BY DEF Paid
    <2>3. QED BY <2>1, <2>2 DEF Owes
  <1>3. QED BY <1>1, <1>2

\* Nor does an entry of the engine's touch the openings.
LEMMA PostStep ==
  ASSUME NEW s, Sound(s), NEW e, e.units \in Int, e.on \in Int,
         e.type \notin {"PAYOUT", "OPENING_BALANCE"}, \A b : e.key # <<"REV", b>>
  PROVE  Step(s, Posted(s, e))
  <1>1. Owes(Posted(s, e)) = Owes(s) BY PostOwes
  <1>2. LiveOpenings(Posted(s, e).ledger) = LiveOpenings(s.ledger)
    <2>1. CASE e.key \in Keys(s.ledger)
      <3>1. Posted(s, e) = s BY <2>1, PostedIs
      <3>2. QED BY <3>1
    <2>2. CASE e.key \notin Keys(s.ledger)
      <3>1. Posted(s, e).ledger = s.ledger \cup {e} BY <2>2, PostedIs
      <3>2. \A b : <<"REV", b>> \in Keys(s.ledger \cup {e}) <=> <<"REV", b>> \in Keys(s.ledger) BY DEF Keys
      <3>3. LiveOpenings(s.ledger \cup {e}) = LiveOpenings(s.ledger) BY <3>2 DEF LiveOpenings
      <3>4. QED BY <3>1, <3>3
    <2>3. QED BY <2>1, <2>2
  <1>3. QED BY <1>1, <1>2, PostedIs DEF Step, Agrees

LEMMA RatedToday == ASSUME EngineTypes, RatedSoFar PROVE HasRate
  BY DEF EngineTypes, RatedSoFar, HasRate

\* The addition of a payout, if there is a rate.
LEMMA Created ==
  ASSUME NEW s, Sound(s), NEW units \in Int
  PROVE  LET c == CreatePayout(s, units)
         IN /\ c.ledger = s.ledger /\ Sound(c)
            /\ c.additions = s.additions + (IF HasRate THEN units ELSE 0)
  <1>1. s = [ledger |-> s.ledger, additions |-> s.additions] /\ Ints(s.ledger) /\ s.additions \in Int BY DEF Sound
  <1>2. CASE HasRate
    <2>1. CreatePayout(s, units) = [ledger |-> s.ledger, additions |-> s.additions + units]
      BY <1>1, <1>2 DEF CreatePayout
    <2>2. QED BY <1>1, <1>2, <2>1 DEF Sound
  <1>3. CASE ~HasRate
    <2>1. CreatePayout(s, units) = s BY <1>3 DEF CreatePayout
    <2>2. QED BY <1>1, <1>3, <2>1
  <1>4. QED BY <1>2, <1>3

\* A payout is posted with its addition, if there is a rate.
LEMMA PayStep ==
  ASSUME EngineTypes, NEW s, Sound(s), NEW units \in Int, units > 0, NEW e, e.units = - units, e.on \in Int,
         e.type = "PAYOUT", \A b : e.key # <<"REV", b>>, e.key \notin Keys(s.ledger),
         ~(e.key[1] = "TERM" /\ e.key[2] < EngineStartedOn)
  PROVE  Step(s, Posted(CreatePayout(s, units), e)) /\ e.key \in Keys(Posted(CreatePayout(s, units), e).ledger)
  <1> DEFINE c == CreatePayout(s, units)
             x == IF HasRate THEN units ELSE 0
  <1>1. c.ledger = s.ledger /\ c.additions = s.additions + x /\ Sound(c) BY Created
  <1>2. e.units \in Int OBVIOUS
  <1>x. x \in Int /\ x <= units /\ (RatedSoFar => x = units) BY RatedToday
  <1> HIDE DEF c, x
  <1>3. /\ Posted(c, e).ledger = s.ledger \cup {e} /\ e \notin s.ledger /\ Posted(c, e).additions = s.additions + x
        /\ Sound(Posted(c, e)) /\ e.key \in Keys(Posted(c, e).ledger)
    BY <1>1, <1>2, PostedIs
  <1>4. Owes(s) \in Int /\ Owes(Posted(c, e)) = Owes(s) + x - units
    <2>1. Paid(s.ledger \cup {e}) = Paid(s.ledger) \cup {e} /\ e \notin Paid(s.ledger) BY <1>3 DEF Paid
    <2>2. IsFiniteSet(Paid(s.ledger)) /\ UnitSum(Paid(s.ledger)) \in Int BY SubSums DEF Sound, Paid
    <2>3. \A y \in Paid(s.ledger) \cup {e} : y.units \in Int BY <1>2 DEF Paid, Sound, Ints
    <2>4. UnitSum(Paid(s.ledger) \cup {e}) = UnitSum(Paid(s.ledger)) + e.units BY <2>1, <2>2, <2>3, UnitSumAdd
    <2>5. s.additions \in Int BY DEF Sound
    <2>6. UnitSum(Paid(Posted(c, e).ledger)) = UnitSum(Paid(s.ledger)) - units BY <1>3, <2>1, <2>2, <2>4
    <2>7. QED BY <1>3, <1>x, <2>2, <2>5, <2>6 DEF Owes
  <1>5. LiveOpenings(s.ledger \cup {e}) = LiveOpenings(s.ledger)
    <2>1. \A b : <<"REV", b>> \in Keys(s.ledger \cup {e}) <=> <<"REV", b>> \in Keys(s.ledger) BY DEF Keys
    <2>2. QED BY <2>1 DEF LiveOpenings
  <1>6. Agrees(s) => Agrees(Posted(c, e)) BY <1>4, <1>x DEF Agrees
  <1>7. QED BY <1>3, <1>5, <1>6 DEF Step, c

-----------------------------------------------------------------------------
\* One turn of each loop: what it does to the tables, and that it has nothing
\* left to do in whatever comes of them.

LEMMA AccrueTurn ==
  ASSUME EngineTypes, NEW s, Sound(s), NEW m \in Int, NEW floor \in Int
  PROVE  /\ Step(s, Accrue(s, m, floor))
         /\ \A t : Step(Accrue(s, m, floor), t) => Accrue(t, m, floor) = t
  <1> DEFINE from == Larger(m, floor)
             monthEnd == m + MonthDays - 1
             to == IF Left /\ EmpLastDay < monthEnd THEN EmpLastDay ELSE monthEnd
             p == Policy(to)
             earned == p.perDay * (IF p.prorate THEN to - from + 1 ELSE MonthDays)
             given(t) == UpToMax(p, earned, Balance(t.ledger, to))
             e(t) == Entry(<<"ACC", m>>, "ACCRUAL", given(t), to, CycleKey(to))
             due == from <= to /\ to <= today /\ p.frequency = "MONTHLY" /\ p.perDay > 0
  <1>1. \A t : Accrue(t, m, floor) = IF due THEN Posted(t, e(t)) ELSE t BY DEF Accrue
  <1>2. from \in Int /\ to \in Int BY Numbers, DateTypes DEF Larger
  <1>3. p \in Policies BY <1>2, VersionTypes
  <1>4. earned \in Int
    <2>1. p.perDay \in Nat /\ MonthDays \in Nat BY <1>3, Numbers
    <2> HIDE DEF p, from, to
    <2>2. QED BY <1>2, <2>1
  <1>5. \A t : Sound(t) => /\ e(t).units \in Int /\ e(t).on \in Int /\ e(t).type = "ACCRUAL"
                           /\ e(t).key = <<"ACC", m>>
    <2>1. TAKE t
    <2>2. HAVE Sound(t)
    <2>3. Balance(t.ledger, to) \in Int BY <2>2, LedgerFigures DEF Sound
    <2>4. p.maxBalance \in Int BY <1>3, Numbers
    <2> HIDE DEF p, to, earned
    <2>5. given(t) \in Int BY <1>4, <2>3, <2>4 DEF UpToMax, Larger, Smaller
    <2> HIDE DEF given
    <2>6. QED BY <1>2, <2>5 DEF Entry
  <1> HIDE DEF e, due
  <1>6. CASE due
    <2>1. Accrue(s, m, floor) = Posted(s, e(s)) BY <1>1, <1>6
    <2>2. Step(s, Posted(s, e(s))) BY <1>5, PostStep
    <2>3. <<"ACC", m>> \in Keys(Posted(s, e(s)).ledger)
      <3>1. e(s).key = <<"ACC", m>> /\ e(s).units \in Int /\ e(s).on \in Int BY <1>5
      <3>2. e(s).key \in Keys(Posted(s, e(s)).ledger) BY <3>1, PostedIs
      <3>3. QED BY <3>1, <3>2
    <2>4. ASSUME NEW t, Step(Posted(s, e(s)), t) PROVE Accrue(t, m, floor) = t
      <3>1. <<"ACC", m>> \in Keys(t.ledger) /\ Sound(t) BY <2>3, <2>4 DEF Step, Keys
      <3>2. Posted(t, e(t)) = t
        <4>1. e(t).key = <<"ACC", m>> /\ e(t).units \in Int /\ e(t).on \in Int BY <1>5, <3>1
        <4>2. e(t).key \in Keys(t.ledger) BY <3>1, <4>1
        <4>3. QED BY <3>1, <4>1, <4>2, PostedIs
      <3>3. QED BY <1>1, <1>6, <3>2
    <2>5. QED BY <2>1, <2>2, <2>4
  <1>7. CASE ~due BY <1>1, <1>7, StepStays
  <1>8. QED BY <1>6, <1>7

LEMMA GrantTurn ==
  ASSUME EngineTypes, NEW s, Sound(s), NEW a \in Int, NEW floor \in Int
  PROVE  /\ Step(s, Grant(s, a, floor))
         /\ \A t : Step(Grant(s, a, floor), t) => Grant(t, a, floor) = t
  <1> DEFINE p == Policy(a)
             given(t) == UpToMax(p, p.perDay * YearDays, Balance(t.ledger, a - 1))
             e(t) == Entry(<<"ACCUP", a>>, "ALLOTMENT", given(t), a, a)
             due == p.frequency = "UPFRONT" /\ a >= floor
  <1>1. \A t : Grant(t, a, floor) = IF due THEN Posted(t, e(t)) ELSE t BY DEF Grant
  <1>2. p \in Policies BY VersionTypes
  <1>3. p.perDay * YearDays \in Int
    <2>1. p.perDay \in Nat /\ YearDays \in Nat BY <1>2, Numbers
    <2> HIDE DEF p
    <2>2. QED BY <2>1
  <1>4. \A t : Sound(t) => /\ e(t).units \in Int /\ e(t).on \in Int /\ e(t).type = "ALLOTMENT"
                           /\ e(t).key = <<"ACCUP", a>>
    <2>1. TAKE t
    <2>2. HAVE Sound(t)
    <2>3. Balance(t.ledger, a - 1) \in Int BY <2>2, LedgerFigures DEF Sound
    <2>4. p.maxBalance \in Int BY <1>2, Numbers
    <2>5. given(t) \in Int BY <1>3, <2>3, <2>4 DEF UpToMax, Larger, Smaller
    <2> HIDE DEF given
    <2>6. QED BY <2>5 DEF Entry
  <1> HIDE DEF e, due
  <1>5. CASE due
    <2>1. Grant(s, a, floor) = Posted(s, e(s)) BY <1>1, <1>5
    <2>2. Step(s, Posted(s, e(s))) BY <1>4, PostStep
    <2>3. <<"ACCUP", a>> \in Keys(Posted(s, e(s)).ledger)
      <3>1. e(s).key = <<"ACCUP", a>> /\ e(s).units \in Int /\ e(s).on \in Int BY <1>4
      <3>2. e(s).key \in Keys(Posted(s, e(s)).ledger) BY <3>1, PostedIs
      <3>3. QED BY <3>1, <3>2
    <2>4. ASSUME NEW t, Step(Posted(s, e(s)), t) PROVE Grant(t, a, floor) = t
      <3>1. <<"ACCUP", a>> \in Keys(t.ledger) /\ Sound(t) BY <2>3, <2>4 DEF Step, Keys
      <3>2. Posted(t, e(t)) = t
        <4>1. e(t).key = <<"ACCUP", a>> /\ e(t).units \in Int /\ e(t).on \in Int BY <1>4, <3>1
        <4>2. e(t).key \in Keys(t.ledger) BY <3>1, <4>1
        <4>3. QED BY <3>1, <4>1, <4>2, PostedIs
      <3>3. QED BY <1>1, <1>5, <3>2
    <2>5. QED BY <2>1, <2>2, <2>4
  <1>6. CASE ~due BY <1>1, <1>6, StepStays
  <1>7. QED BY <1>5, <1>6

LEMMA EndTurn ==
  ASSUME EngineTypes, NEW s, Sound(s), NEW a \in Int
  PROVE  /\ Step(s, EndCycle(s, a))
         /\ \A t : Step(EndCycle(s, a), t) => EndCycle(t, a) = t
  <1> DEFINE p == Policy(a)
             excess == Balance(s.ledger, a - 1) - p.carryForwardMax
             payout == p.excessAction = "PAYOUT" \/ ~p.belowStatutoryOk
             entry(type, units) == Entry(<<"CYC", a>>, type, units, a - 1, CycleKey(a - 1))
             never == p.carryForwardMax = NoLimit \/ p.excessAction = "CARRY_ALL" \/ a < VersionOn(a).from
             before == <<"CYC", a>> \in Keys(s.ledger)
  <1>1. \A t : never \/ <<"CYC", a>> \in Keys(t.ledger) => EndCycle(t, a) = t BY DEF EndCycle
  <1>2. excess \in Int
    <2>1. p \in Policies BY VersionTypes
    <2>2. p.carryForwardMax \in Int BY <2>1, Numbers
    <2>3. Balance(s.ledger, a - 1) \in Int BY LedgerFigures DEF Sound
    <2>4. QED BY <2>2, <2>3
  <1>3. ~never /\ ~before => /\ excess <= 0 => EndCycle(s, a) = Posted(s, entry("CARRY_FORWARD", 0))
                             /\ excess > 0 /\ payout =>
                                  EndCycle(s, a) = Posted(CreatePayout(s, excess), entry("PAYOUT", - excess))
                             /\ excess > 0 /\ ~payout => EndCycle(s, a) = Posted(s, entry("FORFEIT", - excess))
    BY <1>2 DEF EndCycle
  <1>4. \A type, units : LET e == entry(type, units)
                         IN e.key = <<"CYC", a>> /\ e.type = type /\ e.units = units /\ e.on = a - 1
    BY DEF Entry
  <1>5. a - 1 \in Int /\ - excess \in Int BY <1>2
  <1> HIDE DEF excess, payout, entry, never
  <1>6. ASSUME ~never, ~before PROVE Step(s, EndCycle(s, a)) /\ <<"CYC", a>> \in Keys(EndCycle(s, a).ledger)
    <2>1. CASE excess <= 0
      <3> DEFINE e == entry("CARRY_FORWARD", 0)
      <3>1. e.key = <<"CYC", a>> /\ e.type = "CARRY_FORWARD" /\ e.units \in Int /\ e.on \in Int BY <1>4, <1>5
      <3>2. EndCycle(s, a) = Posted(s, e) BY <1>3, <1>6, <2>1
      <3> HIDE DEF e
      <3>3. Step(s, Posted(s, e)) /\ <<"CYC", a>> \in Keys(Posted(s, e).ledger) BY <3>1, PostStep, PostedIs
      <3>4. QED BY <3>2, <3>3
    <2>2. CASE excess > 0 /\ ~payout
      <3> DEFINE e == entry("FORFEIT", - excess)
      <3>1. e.key = <<"CYC", a>> /\ e.type = "FORFEIT" /\ e.units \in Int /\ e.on \in Int BY <1>4, <1>5
      <3>2. EndCycle(s, a) = Posted(s, e) BY <1>3, <1>6, <2>2
      <3> HIDE DEF e
      <3>3. Step(s, Posted(s, e)) /\ <<"CYC", a>> \in Keys(Posted(s, e).ledger) BY <3>1, PostStep, PostedIs
      <3>4. QED BY <3>2, <3>3
    <2>3. CASE excess > 0 /\ payout
      <3> DEFINE e == entry("PAYOUT", - excess)
      <3>1. e.key = <<"CYC", a>> /\ e.type = "PAYOUT" /\ e.units = - excess /\ e.on \in Int BY <1>4, <1>5
      <3>2. EndCycle(s, a) = Posted(CreatePayout(s, excess), e) BY <1>3, <1>6, <2>3
      <3> HIDE DEF e
      <3>3. e.key \notin Keys(s.ledger) /\ \A b : e.key # <<"REV", b>> BY <1>6, <3>1
      <3>4. ~(e.key[1] = "TERM" /\ e.key[2] < EngineStartedOn) BY <3>1
      <3>5. QED BY <1>2, <2>3, <3>1, <3>2, <3>3, <3>4, PayStep
    <2>4. QED BY <1>2, <2>1, <2>2, <2>3
  <1>7. CASE never BY <1>1, <1>7, StepStays
  <1>8. CASE ~never
    <2>1. Step(s, EndCycle(s, a)) /\ <<"CYC", a>> \in Keys(EndCycle(s, a).ledger)
      <3>1. CASE before BY <1>1, <3>1, StepStays
      <3>2. QED BY <1>6, <1>8, <3>1
    <2>2. ASSUME NEW t, Step(EndCycle(s, a), t) PROVE EndCycle(t, a) = t
      <3>1. <<"CYC", a>> \in Keys(t.ledger) BY <2>1, <2>2 DEF Step, Keys
      <3>2. QED BY <1>1, <3>1
    <2>3. QED BY <2>1, <2>2
  <1>9. QED BY <1>7, <1>8

LEMMA PayOutTurn ==
  ASSUME EngineTypes, NEW s, Sound(s)
  PROVE  Step(s, PayOut(s)) /\ PayOut(PayOut(s)) = PayOut(s)
  <1> DEFINE units == Total(s.ledger)
             e == Entry(<<"TERM", leftOn>>, "PAYOUT", - units, EmpLastDay, CycleKey(EmpLastDay))
             owed(t) == /\ Left /\ Policy(today).payoutOnTermination /\ <<"TERM", leftOn>> \notin Keys(t.ledger)
                        /\ Total(t.ledger) > 0
  <1>1. /\ owed(s) /\ leftOn < EngineStartedOn => PayOut(s) = Posted(s, e)
        /\ owed(s) /\ ~(leftOn < EngineStartedOn) => PayOut(s) = Posted(CreatePayout(s, units), e)
        /\ \A t : ~owed(t) => PayOut(t) = t
    BY DEF PayOut
  <1>2. units \in Int BY LedgerFigures DEF Sound
  <1>3. EmpLastDay \in Int BY DateTypes
  <1>4. e.key = <<"TERM", leftOn>> /\ e.type = "PAYOUT" /\ e.units = - units /\ e.on \in Int BY <1>3 DEF Entry
  <1> HIDE DEF units, e
  <1>5. \A t : <<"TERM", leftOn>> \in Keys(t.ledger) => ~owed(t) OBVIOUS
  <1>6. CASE ~owed(s) BY <1>1, <1>6, StepStays
  <1>7. CASE owed(s)
    <2>0. <<"TERM", leftOn>> \notin Keys(s.ledger) /\ units > 0 BY <1>7 DEF units
    <2> HIDE DEF owed
    <2>1. Step(s, PayOut(s)) /\ <<"TERM", leftOn>> \in Keys(PayOut(s).ledger)
      <3>1. CASE leftOn < EngineStartedOn
        <4>1. PayOut(s) = Posted(s, e) BY <1>1, <1>7, <3>1
        <4>2. /\ Sound(Posted(s, e)) /\ <<"TERM", leftOn>> \in Keys(Posted(s, e).ledger)
              /\ Posted(s, e).additions = s.additions /\ Posted(s, e).ledger = s.ledger \cup {e}
          BY <1>2, <1>4, <2>0, PostedIs
        <4>3. Paid(s.ledger \cup {e}) = Paid(s.ledger) BY <1>4, <3>1 DEF Paid
        <4>4. LiveOpenings(s.ledger \cup {e}) = LiveOpenings(s.ledger)
          <5>1. \A b : <<"REV", b>> \in Keys(s.ledger \cup {e}) <=> <<"REV", b>> \in Keys(s.ledger) BY <1>4 DEF Keys
          <5>2. QED BY <1>4, <5>1 DEF LiveOpenings
        <4>5. QED BY <4>1, <4>2, <4>3, <4>4 DEF Step, Owes, Agrees
      <3>2. CASE ~(leftOn < EngineStartedOn)
        <4>1. PayOut(s) = Posted(CreatePayout(s, units), e) BY <1>1, <1>7, <3>2
        <4>2. \A b : e.key # <<"REV", b>> BY <1>4
        <4>3. e.key \notin Keys(s.ledger) /\ ~(e.key[1] = "TERM" /\ e.key[2] < EngineStartedOn) BY <1>4, <2>0, <3>2
        <4>4. QED BY <1>2, <1>4, <2>0, <4>1, <4>2, <4>3, PayStep
      <3>3. QED BY <3>1, <3>2
    <2>2. PayOut(PayOut(s)) = PayOut(s) BY <1>1, <1>5, <2>1
    <2>3. QED BY <2>1, <2>2
  <1>8. QED BY <1>6, <1>7

\* An allowance is posted in its cycle only, and done once that cycle is.
InCycle(L, c) == {e \in L : e.cycle = c}

LEMMA PostInCycle ==
  ASSUME NEW s, Sound(s), NEW e, e.units \in Int, e.on \in Int, NEW c, e.cycle # c
  PROVE  InCycle(Posted(s, e).ledger, c) = InCycle(s.ledger, c)
  <1>1. CASE e.key \in Keys(s.ledger)
    <2>1. Posted(s, e) = s BY <1>1, PostedIs
    <2>2. QED BY <2>1
  <1>2. CASE e.key \notin Keys(s.ledger)
    <2>1. Posted(s, e).ledger = s.ledger \cup {e} BY <1>2, PostedIs
    <2>2. QED BY <2>1 DEF InCycle
  <1>3. QED BY <1>1, <1>2

LEMMA AllotTurn ==
  ASSUME EngineTypes, NEW s, Sound(s), NEW c \in Int, NEW x \in Int
  PROVE  /\ Step(s, Allot(s, c, x))
         /\ \A d : d # c => InCycle(Allot(s, c, x).ledger, d) = InCycle(s.ledger, d)
         /\ \A t : Step(Allot(s, c, x), t) /\ InCycle(t.ledger, c) = InCycle(Allot(s, c, x).ledger, c) =>
              Allot(t, c, x) = t
  <1> DEFINE p == Policy(c)
             on == Larger(c, x)
             units == p.perDay * (IF p.prorate THEN CycleEnd(c) - on + 1 ELSE CycleEnd(c) - c + 1)
             a == Entry(<<"ALLOT", c>>, "ALLOTMENT", units, on, c)
             given(t) == IF p.perDay > 0 THEN Posted(t, a) ELSE t
             left(t) == Remaining(given(t).ledger, c)
             z(t) == Entry(<<"EXP", c>>, "EXPIRY", - left(t), CycleEnd(c), c)
             out == on > EndLimit \/ on > CycleEnd(c)
             over(t) == CycleEnd(c) < today /\ left(t) > 0
  <1>1. \A t : Allot(t, c, x) = IF out THEN t ELSE IF over(t) THEN Posted(given(t), z(t)) ELSE given(t)
    BY DEF Allot
  <1>2. on \in Int /\ CycleEnd(c) \in Int BY DateTypes DEF Larger
  <1>3. units \in Int
    <2>1. p \in Policies BY VersionTypes
    <2>2. p.perDay \in Nat BY <2>1, Numbers
    <2> HIDE DEF p, on
    <2>3. QED BY <1>2, <2>2
  <1>4. a.key = <<"ALLOT", c>> /\ a.type = "ALLOTMENT" /\ a.units \in Int /\ a.on \in Int /\ a.cycle = c
    BY <1>2, <1>3 DEF Entry
  <1> HIDE DEF on, units, a, out
  <1>5. ASSUME NEW t, Sound(t)
        PROVE  /\ Step(t, given(t)) /\ \A d : d # c => InCycle(given(t).ledger, d) = InCycle(t.ledger, d)
               /\ p.perDay > 0 => a.key \in Keys(given(t).ledger)
               /\ (p.perDay > 0 => a.key \in Keys(t.ledger)) => given(t) = t
    <2>1. CASE p.perDay > 0
      <3>1. given(t) = Posted(t, a) BY <2>1
      <3>2. Step(t, Posted(t, a)) BY <1>4, <1>5, PostStep
      <3>3. \A d : d # c => InCycle(Posted(t, a).ledger, d) = InCycle(t.ledger, d) BY <1>4, <1>5, PostInCycle
      <3>4. a.key \in Keys(Posted(t, a).ledger) /\ (a.key \in Keys(t.ledger) => Posted(t, a) = t)
        BY <1>4, <1>5, PostedIs
      <3>5. QED BY <2>1, <3>1, <3>2, <3>3, <3>4
    <2>2. CASE ~(p.perDay > 0)
      <3>1. given(t) = t BY <2>2
      <3>2. QED BY <1>5, <2>2, <3>1, StepStays
    <2>3. QED BY <2>1, <2>2
  <1> HIDE DEF given
  <1>6. Sound(given(s)) BY <1>5 DEF Step
  <1>7. \A t : Sound(given(t)) => left(t) \in Int BY LedgerFigures DEF Sound
  <1>8. \A t : z(t).key = <<"EXP", c>> /\ z(t).type = "EXPIRY" /\ z(t).units = - left(t)
               /\ z(t).on = CycleEnd(c) /\ z(t).cycle = c
    BY DEF Entry
  <1>9. CASE out BY <1>1, <1>9, StepStays
  <1>10. CASE ~out /\ over(s)
    <2> DEFINE e == z(s)
    <2>1. e.key = <<"EXP", c>> /\ e.type = "EXPIRY" /\ e.units \in Int /\ e.on \in Int /\ e.cycle = c
      BY <1>2, <1>6, <1>7, <1>8
    <2>2. Allot(s, c, x) = Posted(given(s), e) BY <1>1, <1>10
    <2> HIDE DEF e
    <2>3. Step(given(s), Posted(given(s), e)) /\ e.key \in Keys(Posted(given(s), e).ledger)
      BY <1>6, <2>1, PostStep, PostedIs
    <2>4. \A d : d # c => InCycle(Posted(given(s), e).ledger, d) = InCycle(given(s).ledger, d)
      BY <1>6, <2>1, PostInCycle
    <2>5. Step(s, given(s)) /\ \A d : d # c => InCycle(given(s).ledger, d) = InCycle(s.ledger, d) BY <1>5
    <2>6. Step(s, Allot(s, c, x)) BY <2>2, <2>3, <2>5, StepOn
    <2>7. ASSUME NEW t, Step(Allot(s, c, x), t) PROVE Allot(t, c, x) = t
      <3>1. Sound(t) /\ Step(given(s), t) BY <2>2, <2>3, <2>7, StepOn DEF Step
      <3>2. p.perDay > 0 => a.key \in Keys(given(s).ledger) BY <1>5
      <3>3. p.perDay > 0 => a.key \in Keys(t.ledger) BY <3>1, <3>2 DEF Step, Keys
      <3>4. given(t) = t BY <1>5, <3>1, <3>3
      <3>5. e.key \in Keys(t.ledger) BY <2>2, <2>3, <2>7 DEF Step, Keys
      <3>6. Posted(t, z(t)) = t
        <4> DEFINE f == z(t)
        <4>1. f.key = e.key /\ f.units \in Int /\ f.on \in Int BY <1>2, <1>7, <1>8, <2>1, <3>1, <3>4
        <4> HIDE DEF f
        <4>2. f.key \in Keys(t.ledger) BY <3>5, <4>1
        <4>3. Posted(t, f) = t BY <3>1, <4>1, <4>2, PostedIs
        <4>4. QED BY <4>3 DEF f
      <3> HIDE DEF z, over
      <3>7. QED BY <1>1, <3>4, <3>6
    <2>8. QED BY <2>2, <2>4, <2>5, <2>6, <2>7
  <1>11. CASE ~out /\ ~over(s)
    <2>1. Allot(s, c, x) = given(s) BY <1>1, <1>11
    <2>2. Step(s, given(s)) /\ \A d : d # c => InCycle(given(s).ledger, d) = InCycle(s.ledger, d) BY <1>5
    <2>3. ASSUME NEW t, Step(given(s), t), InCycle(t.ledger, c) = InCycle(given(s).ledger, c) PROVE Allot(t, c, x) = t
      <3>1. Sound(t) BY <2>3 DEF Step
      <3>2. p.perDay > 0 => a.key \in Keys(given(s).ledger) BY <1>5
      <3>3. p.perDay > 0 => a.key \in Keys(t.ledger) BY <2>3, <3>2 DEF Step, Keys
      <3>4. given(t) = t BY <1>5, <3>1, <3>3
      <3>5. left(t) = left(s) BY <2>3, <3>4 DEF Remaining, InCycle
      <3>6. ~over(t) BY <1>11, <3>5
      <3> HIDE DEF over
      <3>7. QED BY <1>1, <1>11, <3>4, <3>6
    <2>4. QED BY <2>1, <2>2, <2>3
  <1>12. QED BY <1>9, <1>10, <1>11

-----------------------------------------------------------------------------
(* The loops over dates *)

Turn(k, x, t, d) ==
  IF k = "accrue" THEN Accrue(t, d, x)
  ELSE IF k = "grant" THEN Grant(t, d, x)
  ELSE IF k = "end" THEN EndCycle(t, d)
  ELSE Allot(t, d, x)
Run(k, x, s, dates, g) ==
  g = [i \in 0 .. Len(dates) |-> IF i = 0 THEN s ELSE Turn(k, x, g[i - 1], dates[i])]

Accrued(s, x, dates) == InTurn(LAMBDA t, m : Accrue(t, m, x), s, dates)
Granted(s, x, dates) == InTurn(LAMBDA t, a : Grant(t, a, x), s, dates)
Ended(s, dates) == InTurn(EndCycle, s, dates)
AllotEach(s, x, dates) == InTurn(LAMBDA t, c : Allot(t, c, x), s, dates)

\* There is such a function for every number of dates: a first number without
\* one would get it from the number before.
LEMMA RunExists == ASSUME NEW k, NEW x, NEW s, NEW dates, Len(dates) \in Nat PROVE \E g : Run(k, x, s, dates, g)
  <1> DEFINE N == Len(dates)
             R(n, g) == g = [i \in 0 .. n |-> IF i = 0 THEN s ELSE Turn(k, x, g[i - 1], dates[i])]
             B == {n \in 0 .. N : ~\E g : R(n, g)}
  <1>1. ASSUME B # {} PROVE FALSE
    <2>0. B \in SUBSET (0 .. N) OBVIOUS
    <2>1. \E n \in B : \A b \in B : n <= b
      <3> HIDE DEF B
      <3>1. QED BY <1>1, <2>0, Least
    <2>2. PICK n \in B : \A b \in B : n <= b BY <2>1
    <2>3. CASE n = 0
      <3> DEFINE g == [i \in 0 .. 0 |-> s]
      <3>1. R(0, g) OBVIOUS
      <3>2. QED BY <2>2, <2>3, <3>1
    <2>4. CASE n # 0
      <3>1. n \in 1 .. N /\ n - 1 \in 0 .. N /\ n - 1 \notin B BY <2>2, <2>4
      <3>2. PICK g : R(n - 1, g) BY <3>1
      <3> DEFINE h == [i \in 0 .. n |-> IF i = n THEN Turn(k, x, g[n - 1], dates[n]) ELSE g[i]]
                 l == [i \in 0 .. n |-> IF i = 0 THEN s ELSE Turn(k, x, h[i - 1], dates[i])]
      <3>3. ASSUME NEW i \in 0 .. n PROVE h[i] = l[i]
        <4>1. CASE i = n BY <3>1, <4>1
        <4>2. CASE i # n
          <5>1. i \in 0 .. n - 1 /\ h[i] = g[i] BY <3>1, <4>2
          <5>2. i # 0 => i - 1 \in 0 .. n /\ i - 1 # n BY <3>1
          <5>3. QED BY <3>2, <5>1, <5>2
        <4>3. QED BY <4>1, <4>2
      <3>4. h = [i \in 0 .. n |-> h[i]] /\ l = [i \in 0 .. n |-> l[i]] OBVIOUS
      <3>5. h = l
        <4> HIDE DEF h, l
        <4>1. QED BY <3>3, <3>4
      <3>6. R(n, h) BY <3>5
      <3>7. QED BY <2>2, <3>6
    <2>5. QED BY <2>3, <2>4
  <1>2. N \in 0 .. N OBVIOUS
  <1>3. \E g : R(N, g) BY <1>1, <1>2
  <1>4. QED BY <1>3 DEF Run

\* The loops of the engine are such runs.
LEMMA EndLoops ==
  ASSUME NEW s, NEW dates, Len(dates) \in Nat
  PROVE  \A x : \E g : Run("end", x, s, dates, g) /\ Ended(s, dates) = g[Len(dates)]
  <1>1. TAKE x
  <1>2. QED
    <2> DEFINE G(g) == [i \in 0 .. Len(dates) |-> IF i = 0 THEN s ELSE EndCycle(g[i - 1], dates[i])]
               h == CHOOSE g : g = G(g)
    <2>1. Ended(s, dates) = h[Len(dates)] BY DEF Ended, InTurn
    <2>2. \A g : Run("end", x, s, dates, g) <=> g = G(g) BY DEF Run, Turn
    <2> HIDE DEF G
    <2>3. \E g : g = G(g) BY <2>2, RunExists
    <2>4. h = G(h) BY <2>3, Zenon
    <2>5. QED BY <2>1, <2>2, <2>4

LEMMA Loops ==
  ASSUME NEW x, NEW s, NEW dates, Len(dates) \in Nat
  PROVE  /\ \E g : Run("accrue", x, s, dates, g) /\ Accrued(s, x, dates) = g[Len(dates)]
         /\ \E g : Run("grant", x, s, dates, g) /\ Granted(s, x, dates) = g[Len(dates)]
         /\ \E g : Run("end", x, s, dates, g) /\ Ended(s, dates) = g[Len(dates)]
         /\ \E g : Run("allot", x, s, dates, g) /\ AllotEach(s, x, dates) = g[Len(dates)]
  <1>1. \E g : Run("accrue", x, s, dates, g) /\ Accrued(s, x, dates) = g[Len(dates)]
    <2> DEFINE G(g) == [i \in 0 .. Len(dates) |-> IF i = 0 THEN s ELSE Accrue(g[i - 1], dates[i], x)]
               h == CHOOSE g : g = G(g)
    <2>1. Accrued(s, x, dates) = h[Len(dates)] BY DEF Accrued, InTurn
    <2>2. \A g : Run("accrue", x, s, dates, g) <=> g = G(g) BY DEF Run, Turn
    <2> HIDE DEF G
    <2>3. \E g : g = G(g) BY <2>2, RunExists
    <2>4. h = G(h) BY <2>3, Zenon
    <2>5. QED BY <2>1, <2>2, <2>4
  <1>2. \E g : Run("grant", x, s, dates, g) /\ Granted(s, x, dates) = g[Len(dates)]
    <2> DEFINE G(g) == [i \in 0 .. Len(dates) |-> IF i = 0 THEN s ELSE Grant(g[i - 1], dates[i], x)]
               h == CHOOSE g : g = G(g)
    <2>1. Granted(s, x, dates) = h[Len(dates)] BY DEF Granted, InTurn
    <2>2. \A g : Run("grant", x, s, dates, g) <=> g = G(g) BY DEF Run, Turn
    <2> HIDE DEF G
    <2>3. \E g : g = G(g) BY <2>2, RunExists
    <2>4. h = G(h) BY <2>3, Zenon
    <2>5. QED BY <2>1, <2>2, <2>4
  <1>3. \E g : Run("end", x, s, dates, g) /\ Ended(s, dates) = g[Len(dates)] BY EndLoops
  <1>4. \E g : Run("allot", x, s, dates, g) /\ AllotEach(s, x, dates) = g[Len(dates)]
    <2> DEFINE G(g) == [i \in 0 .. Len(dates) |-> IF i = 0 THEN s ELSE Allot(g[i - 1], dates[i], x)]
               h == CHOOSE g : g = G(g)
    <2>1. AllotEach(s, x, dates) = h[Len(dates)] BY DEF AllotEach, InTurn
    <2>2. \A g : Run("allot", x, s, dates, g) <=> g = G(g) BY DEF Run, Turn
    <2> HIDE DEF G
    <2>3. \E g : g = G(g) BY <2>2, RunExists
    <2>4. h = G(h) BY <2>3, Zenon
    <2>5. QED BY <2>1, <2>2, <2>4
  <1>5. QED BY <1>1, <1>2, <1>3, <1>4

LEMMA TurnStep ==
  ASSUME EngineTypes, NEW s, Sound(s), NEW x \in Int, NEW d \in Int, NEW k
  PROVE  /\ Step(s, Turn(k, x, s, d))
         /\ k \in {"accrue", "grant", "end"} => \A t : Step(Turn(k, x, s, d), t) => Turn(k, x, t, d) = t
  <1>1. CASE k = "accrue" BY <1>1, AccrueTurn DEF Turn
  <1>2. CASE k = "grant" BY <1>2, GrantTurn DEF Turn
  <1>3. CASE k = "end" BY <1>3, EndTurn DEF Turn
  <1>4. CASE k \notin {"accrue", "grant", "end"} BY <1>4, AllotTurn DEF Turn
  <1>5. QED BY <1>1, <1>2, <1>3, <1>4

\* Each state of a run comes of the ones before it.
LEMMA RunSteps ==
  ASSUME EngineTypes, NEW s, Sound(s), NEW x \in Int, NEW dates \in Seq(Int), NEW k, NEW g, Run(k, x, s, dates, g)
  PROVE  /\ g[0] = s
         /\ \A i \in 1 .. Len(dates) : g[i] = Turn(k, x, g[i - 1], dates[i]) /\ dates[i] \in Int
         /\ \A i \in 0 .. Len(dates), j \in 0 .. Len(dates) : j <= i => Step(g[j], g[i])
  <1> DEFINE N == Len(dates)
             B == {i \in 0 .. N : ~\A j \in 0 .. N : j <= i => Step(g[j], g[i])}
  <1>1. N \in Nat OBVIOUS
  <1>2. g[0] = s /\ \A i \in 1 .. N : g[i] = Turn(k, x, g[i - 1], dates[i]) /\ dates[i] \in Int
    BY <1>1 DEF Run
  <1>3. ASSUME B # {} PROVE FALSE
    <2>0. B \in SUBSET (0 .. N) OBVIOUS
    <2>1. \E i \in B : \A b \in B : i <= b
      <3> HIDE DEF B, N
      <3>1. QED BY <1>1, <1>3, <2>0, Least
    <2>2. PICK i \in B : \A b \in B : i <= b BY <2>1
    <2>3. CASE i = 0
      <3>1. \A j \in 0 .. N : j <= 0 => Step(g[j], g[0]) BY <1>2, StepStays
      <3>2. QED BY <2>2, <2>3, <3>1
    <2>4. CASE i # 0
      <3>1. i \in 1 .. N /\ i - 1 \in 0 .. N /\ i - 1 \notin B BY <2>2, <2>4
      <3>2. \A j \in 0 .. N : j <= i - 1 => Step(g[j], g[i - 1]) BY <3>1
      <3>3. Sound(g[i - 1]) BY <3>1, <3>2 DEF Step
      <3>4. Step(g[i - 1], g[i])
        <4>1. g[i] = Turn(k, x, g[i - 1], dates[i]) /\ dates[i] \in Int BY <1>2, <3>1
        <4>2. QED BY <3>3, <4>1, TurnStep
      <3>5. \A j \in 0 .. N : j <= i => Step(g[j], g[i])
        <4>1. TAKE j \in 0 .. N
        <4>2. CASE j <= i - 1 BY <3>2, <3>4, <4>2, StepOn
        <4>3. CASE j = i
          <5>1. Sound(g[i]) BY <3>4 DEF Step
          <5>2. QED BY <4>3, <5>1, StepStays
        <4>4. j <= i => j <= i - 1 \/ j = i BY <3>1
        <4>5. QED BY <4>2, <4>3, <4>4
      <3>6. QED BY <2>2, <3>5
    <2>5. QED BY <2>3, <2>4
  <1>4. QED BY <1>2, <1>3

\* A run in which no turn has anything to do changes nothing.
LEMMA RunStill ==
  ASSUME NEW s, NEW x, NEW dates \in Seq(Int), NEW k, NEW g, Run(k, x, s, dates, g),
         \A i \in 1 .. Len(dates) : Turn(k, x, s, dates[i]) = s
  PROVE  g[Len(dates)] = s
  <1> DEFINE N == Len(dates)
             B == {i \in 0 .. N : g[i] # s}
  <1>1. N \in Nat OBVIOUS
  <1>2. g[0] = s /\ \A i \in 1 .. N : g[i] = Turn(k, x, g[i - 1], dates[i]) BY <1>1 DEF Run
  <1>3. ASSUME B # {} PROVE FALSE
    <2>0. B \in SUBSET (0 .. N) OBVIOUS
    <2>1. \E i \in B : \A b \in B : i <= b
      <3> HIDE DEF B, N
      <3>1. QED BY <1>1, <1>3, <2>0, Least
    <2>2. PICK i \in B : \A b \in B : i <= b BY <2>1
    <2>3. i # 0 BY <1>2, <2>2
    <2>4. i \in 1 .. N /\ i - 1 \in 0 .. N /\ i - 1 \notin B BY <2>2, <2>3
    <2>5. g[i - 1] = s BY <2>4
    <2>6. QED BY <1>2, <2>2, <2>4, <2>5
  <1>4. N \in 0 .. N BY <1>1
  <1>5. QED BY <1>3, <1>4

\* What a loop did it need not do again.
LEMMA LoopOnce ==
  ASSUME EngineTypes, NEW s, Sound(s), NEW x \in Int, NEW dates \in Seq(Int), NEW k \in {"accrue", "grant", "end"},
         NEW g, Run(k, x, s, dates, g)
  PROVE  /\ Step(s, g[Len(dates)])
         /\ \A t, h : Step(g[Len(dates)], t) /\ Run(k, x, t, dates, h) => h[Len(dates)] = t
  <1> DEFINE N == Len(dates)
  <1>1. N \in Nat OBVIOUS
  <1>2. Step(s, g[N]) BY <1>1, RunSteps
  <1>3. ASSUME NEW t, NEW h, Step(g[N], t), Run(k, x, t, dates, h) PROVE h[N] = t
    <2>1. ASSUME NEW i \in 1 .. N PROVE Turn(k, x, t, dates[i]) = t
      <3>1. g[i] = Turn(k, x, g[i - 1], dates[i]) /\ dates[i] \in Int BY RunSteps
      <3>2. Step(g[i], g[N]) /\ Step(g[i - 1], g[i - 1]) BY <1>1, RunSteps
      <3>3. Step(g[i], t) BY <1>3, <3>2, StepOn
      <3>4. Sound(g[i - 1]) BY <3>2 DEF Step
      <3>5. QED BY <3>1, <3>3, <3>4, TurnStep
    <2>2. QED BY <1>3, <2>1, RunStill
  <1>4. QED BY <1>2, <1>3

LEMMA Apart == ASSUME NEW step \in Nat \ {0}, NEW a \in Int, NEW b \in Int, a # b PROVE a * step # b * step
  <1>1. ASSUME NEW c \in Int, NEW d \in Int, c < d PROVE c * step < d * step
    <2>1. PICK k \in Nat \ {0} : d = c + k BY <1>1
    <2>2. d * step = c * step + k * step BY <2>1
    <2>3. k * step > 0 BY <2>1
    <2>4. c * step \in Int /\ k * step \in Int BY <2>1
    <2>5. QED BY <2>2, <2>3, <2>4
  <1>2. a < b \/ b < a OBVIOUS
  <1>3. a * step \in Int /\ b * step \in Int OBVIOUS
  <1>4. QED BY <1>1, <1>2, <1>3

LEMMA AllotLoop ==
  ASSUME EngineTypes, NEW s, Sound(s), NEW x \in Int, NEW step \in Nat \ {0}, NEW first \in Int, NEW last \in Int,
         NEW dates, dates = Every(step, first, last), NEW u, u = AllotEach(s, x, dates)
  PROVE  Step(s, u) /\ AllotEach(u, x, dates) = u
  <1> DEFINE N == Len(dates)
  <1>1. dates \in Seq(Int) /\ N \in Nat /\ \A i \in 1 .. N : dates[i] = first + (i - 1) * step BY EveryIs
  <1>2. \A i, j \in 1 .. N : i # j => dates[i] # dates[j]
    <2>1. TAKE i, j \in 1 .. N
    <2>2. HAVE i # j
    <2>3. i - 1 \in Int /\ j - 1 \in Int /\ i - 1 # j - 1 BY <2>2
    <2>4. (i - 1) * step # (j - 1) * step BY <2>3, Apart
    <2>5. (i - 1) * step \in Int /\ (j - 1) * step \in Int OBVIOUS
    <2> DEFINE a == (i - 1) * step
               b == (j - 1) * step
    <2>6. dates[i] = first + a /\ dates[j] = first + b BY <1>1
    <2> HIDE DEF a, b
    <2>7. a # b /\ a \in Int /\ b \in Int BY <2>4, <2>5 DEF a, b
    <2>8. QED BY <2>6, <2>7
  <1>3. PICK g : Run("allot", x, s, dates, g) /\ u = g[N] BY <1>1, Loops
  <1>4. /\ g[0] = s
        /\ \A i \in 1 .. N : g[i] = Turn("allot", x, g[i - 1], dates[i]) /\ dates[i] \in Int
        /\ \A i \in 0 .. N, j \in 0 .. N : j <= i => Step(g[j], g[i])
    BY <1>1, <1>3, RunSteps
  <1>5. ASSUME NEW i \in 1 .. N PROVE InCycle(g[N].ledger, dates[i]) = InCycle(g[i].ledger, dates[i])
    <2> DEFINE B == {j \in 0 .. N : j >= i /\ InCycle(g[j].ledger, dates[i]) # InCycle(g[i].ledger, dates[i])}
    <2>1. ASSUME B # {} PROVE FALSE
      <3>0. B \in SUBSET (0 .. N) OBVIOUS
      <3>1. \E j \in B : \A b \in B : j <= b
        <4> HIDE DEF B, N
        <4>1. QED BY <1>1, <2>1, <3>0, Least
      <3>2. PICK j \in B : \A b \in B : j <= b BY <3>1
      <3>3. j # i BY <3>2
      <3>4. j \in 1 .. N /\ j - 1 \in 0 .. N /\ j - 1 >= i /\ j - 1 \notin B BY <3>2, <3>3
      <3>5. InCycle(g[j - 1].ledger, dates[i]) = InCycle(g[i].ledger, dates[i]) BY <3>4
      <3>6. g[j] = Allot(g[j - 1], dates[j], x) /\ dates[j] \in Int /\ dates[i] # dates[j]
        BY <1>2, <1>4, <3>3, <3>4 DEF Turn
      <3>7. Sound(g[j - 1])
        <4>1. Step(g[j - 1], g[j - 1]) BY <1>4, <3>4
        <4>2. QED BY <4>1 DEF Step
      <3>8. InCycle(g[j].ledger, dates[i]) = InCycle(g[j - 1].ledger, dates[i]) 
        <4> DEFINE v == g[j - 1]
                   c == dates[j]
        <4>1. Sound(v) /\ c \in Int /\ dates[i] # c /\ g[j] = Allot(v, c, x) BY <3>6, <3>7
        <4> HIDE DEF v, c
        <4>2. \A d : d # c => InCycle(Allot(v, c, x).ledger, d) = InCycle(v.ledger, d) BY <4>1, AllotTurn
        <4>3. InCycle(Allot(v, c, x).ledger, dates[i]) = InCycle(v.ledger, dates[i]) BY <4>1, <4>2
        <4>4. QED BY <4>1, <4>3 DEF v
      <3>9. QED BY <3>2, <3>5, <3>8
    <2>2. N \in 0 .. N /\ N >= i BY <1>1
    <2>3. QED BY <2>1, <2>2
  <1>6. ASSUME NEW i \in 1 .. N PROVE Turn("allot", x, u, dates[i]) = u
    <2>1. g[i] = Allot(g[i - 1], dates[i], x) /\ dates[i] \in Int BY <1>4 DEF Turn
    <2>2. Step(g[i - 1], g[i - 1]) /\ Step(g[i], g[N])
      <3>1. i - 1 \in 0 .. N /\ i \in 0 .. N /\ N \in 0 .. N /\ i <= N BY <1>1
      <3>2. i - 1 <= i - 1 OBVIOUS
      <3> HIDE DEF N
      <3>3. QED BY <1>4, <3>1, <3>2
    <2>3. Sound(g[i - 1]) BY <2>2 DEF Step
    <2>4. InCycle(u.ledger, dates[i]) = InCycle(g[i].ledger, dates[i]) /\ Step(g[i], u) BY <1>3, <1>5, <2>2
    <2>5. Allot(u, dates[i], x) = u BY <2>1, <2>3, <2>4, AllotTurn
    <2>6. QED BY <2>5 DEF Turn
  <1>7. Step(s, u) BY <1>1, <1>3, <1>4
  <1>8. PICK h : Run("allot", x, u, dates, h) /\ AllotEach(u, x, dates) = h[N] BY <1>1, Loops
  <1>9. AllotEach(u, x, dates) = u BY <1>1, <1>6, <1>8, RunStill
  <1>10. QED BY <1>7, <1>9

\* Processing keeps the tables in order, and processing again does nothing.
LEMMA ProcessStep ==
  ASSUME EngineTypes, NEW s, Sound(s)
  PROVE  Step(s, ProcessEmployee(s)) /\ ProcessEmployee(ProcessEmployee(s)) = ProcessEmployee(s)
  <1>t. today \in Int /\ start \in Int BY DEF EngineTypes
  <1>p. Policy(today).firstGrantAfterMonths \in Nat /\ Policy(today).minServiceMonths \in Nat
    BY <1>t, VersionTypes, Numbers
  <1>m. MonthDays \in Nat \ {0} /\ YearDays \in Nat \ {0} /\ CycleDays \in Nat \ {0} BY Numbers
  <1>e. EndLimit \in Int BY DateTypes
  <1>1. CASE Kind = "ACCRUING"
    <2> DEFINE firstGrant == start + Policy(today).firstGrantAfterMonths * MonthDays
               D1(f) == Every(MonthDays, MonthStart(f), EndLimit)
               D2 == Every(YearDays, firstGrant, EndLimit)
               D3 == Every(YearDays, start + YearDays, EndLimit)
               F(t) == AccrualFloor(t.ledger)
    <2>1. \A t : ProcessEmployee(t) = PayOut(Ended(Granted(Accrued(t, F(t), D1(F(t))), F(t), D2), D3))
      BY <1>1 DEF ProcessEmployee, ProcessAccruing, Accrued, Granted, Ended, InTurn
    <2>2. firstGrant \in Int
      <3> DEFINE n == Policy(today).firstGrantAfterMonths
      <3>1. n \in Nat BY <1>p
      <3> HIDE DEF n
      <3>2. n * MonthDays \in Int BY <1>m, <3>1
      <3>3. QED BY <1>t, <3>2 DEF n
    <2>3. D2 \in Seq(Int) /\ D3 \in Seq(Int) /\ Len(D2) \in Nat /\ Len(D3) \in Nat
      <3>1. start + YearDays \in Int BY <1>t, <1>m
      <3> HIDE DEF firstGrant
      <3>2. QED BY <1>e, <1>m, <2>2, <3>1, EveryIs
    <2>4. F(s) \in Int /\ D1(F(s)) \in Seq(Int) /\ Len(D1(F(s))) \in Nat
      <3>1. F(s) \in Int BY DateTypes DEF Sound
      <3>2. MonthStart(F(s)) \in Int BY <3>1, DateTypes
      <3> HIDE DEF F
      <3>3. QED BY <1>e, <1>m, <3>1, <3>2, EveryIs
    <2>5. \A t : Step(s, t) => F(t) = F(s) BY DEF Step, AccrualFloor
    <2> DEFINE f == F(s)
               d1 == D1(f)
               A == Accrued(s, f, d1)
               G == Granted(A, f, D2)
               E == Ended(G, D3)
               P == PayOut(E)
    <2> HIDE DEF F, D1, D2, D3
    <2>6. f \in Int /\ d1 \in Seq(Int) /\ Len(d1) \in Nat BY <2>4
    <2> HIDE DEF f, d1
    <2>7. Step(s, A) /\ \A t : Step(A, t) => Accrued(t, f, d1) = t
      <3>1. PICK g : Run("accrue", f, s, d1, g) /\ A = g[Len(d1)] BY <2>6, Loops
      <3>2. Step(s, A) BY <2>6, <3>1, LoopOnce
      <3> HIDE DEF A
      <3>3. ASSUME NEW t, Step(A, t) PROVE Accrued(t, f, d1) = t
        <4>1. PICK h : Run("accrue", f, t, d1, h) /\ Accrued(t, f, d1) = h[Len(d1)] BY <2>6, Loops
        <4>2. Step(g[Len(d1)], t) BY <3>1, <3>3
        <4>3. h[Len(d1)] = t BY <2>6, <3>1, <4>1, <4>2, LoopOnce
        <4>4. QED BY <4>1, <4>3
      <3>4. QED BY <3>2, <3>3
    <2>8. Sound(A) BY <2>7 DEF Step
    <2> HIDE DEF A
    <2>9. Step(A, G) /\ \A t : Step(G, t) => Granted(t, f, D2) = t
      <3>1. PICK g : Run("grant", f, A, D2, g) /\ G = g[Len(D2)] BY <2>3, Loops
      <3>2. Step(A, G) BY <2>3, <2>6, <2>8, <3>1, LoopOnce
      <3> HIDE DEF G
      <3>3. ASSUME NEW t, Step(G, t) PROVE Granted(t, f, D2) = t
        <4>1. PICK h : Run("grant", f, t, D2, h) /\ Granted(t, f, D2) = h[Len(D2)] BY <2>3, Loops
        <4>2. Step(g[Len(D2)], t) BY <3>1, <3>3
        <4>3. h[Len(D2)] = t BY <2>3, <2>6, <2>8, <3>1, <4>1, <4>2, LoopOnce
        <4>4. QED BY <4>1, <4>3
      <3>4. QED BY <3>2, <3>3
    <2>10. Sound(G) BY <2>9 DEF Step
    <2> HIDE DEF G
    <2>11. Step(G, E) /\ \A t : Step(E, t) => Ended(t, D3) = t
      <3>1. PICK g : Run("end", f, G, D3, g) /\ E = g[Len(D3)]
        <4>1. \A y : \E g : Run("end", y, G, D3, g) /\ Ended(G, D3) = g[Len(D3)] BY <2>3, EndLoops
        <4>2. QED BY <4>1
      <3>2. Step(G, E) BY <2>3, <2>6, <2>10, <3>1, LoopOnce
      <3> HIDE DEF E
      <3>3. ASSUME NEW t, Step(E, t) PROVE Ended(t, D3) = t
        <4>1. PICK h : Run("end", f, t, D3, h) /\ Ended(t, D3) = h[Len(D3)]
          <5>1. \A y : \E h : Run("end", y, t, D3, h) /\ Ended(t, D3) = h[Len(D3)] BY <2>3, EndLoops
          <5>2. QED BY <5>1
        <4>2. Step(g[Len(D3)], t) BY <3>1, <3>3
        <4>3. h[Len(D3)] = t BY <2>3, <2>6, <2>10, <3>1, <4>1, <4>2, LoopOnce
        <4>4. QED BY <4>1, <4>3
      <3>4. QED BY <3>2, <3>3
    <2>12. Sound(E) BY <2>11 DEF Step
    <2> HIDE DEF E
    <2>13. Step(E, P) /\ PayOut(P) = P BY <2>12, PayOutTurn
    <2> HIDE DEF P
    <2>14. Step(G, P) BY <2>11, <2>13, StepOn
    <2>15. Step(A, P) BY <2>9, <2>14, StepOn
    <2>16. Step(s, P) BY <2>7, <2>15, StepOn
    <2>17. ProcessEmployee(s) = P BY <2>1 DEF P, E, G, A, d1, f
    <2>18. F(P) = f BY <2>5, <2>16 DEF f
    <2>19. ProcessEmployee(P) = PayOut(Ended(Granted(Accrued(P, f, d1), f, D2), D3)) BY <2>1, <2>18 DEF d1
    <2>20. Accrued(P, f, d1) = P /\ Granted(P, f, D2) = P /\ Ended(P, D3) = P BY <2>7, <2>9, <2>11, <2>13, <2>14, <2>15
    <2>21. ProcessEmployee(P) = P BY <2>13, <2>19, <2>20
    <2>22. QED BY <2>16, <2>17, <2>21
  <1>2. CASE Kind # "ACCRUING"
    <2> DEFINE x == start + Policy(today).minServiceMonths * MonthDays
               from == Larger(x, YearStart(today) - YearDays)
               first == CycleKey(from)
    <2>1. \A t : ProcessEmployee(t) = AllotEach(t, x, Every(CycleDays, first, EndLimit))
      BY <1>2 DEF ProcessEmployee, ProcessAllowance, AllotEach, InTurn
    <2>2. x \in Int
      <3> DEFINE n == Policy(today).minServiceMonths
      <3>1. n \in Nat BY <1>p
      <3> HIDE DEF n
      <3>2. n * MonthDays \in Int BY <1>m, <3>1
      <3>3. QED BY <1>t, <3>2 DEF n
    <2>3. first \in Int
      <3>1. YearStart(today) \in Int BY <1>t, <1>m DEF YearStart
      <3> HIDE DEF x
      <3>2. from \in Int BY <1>m, <2>2, <3>1 DEF Larger
      <3>3. QED BY <3>2, DateTypes
    <2> HIDE DEF x, first
    <2> DEFINE dates == Every(CycleDays, first, EndLimit)
               u == AllotEach(s, x, dates)
    <2>4. dates = Every(CycleDays, first, EndLimit) /\ u = AllotEach(s, x, dates) OBVIOUS
    <2>5. \A t : ProcessEmployee(t) = AllotEach(t, x, dates) BY <2>1
    <2> HIDE DEF dates, u
    <2>6. Step(s, u) /\ AllotEach(u, x, dates) = u BY <1>e, <1>m, <2>2, <2>3, <2>4, AllotLoop
    <2>7. QED BY <2>4, <2>5, <2>6
  <1>3. QED BY <1>1, <1>2

-----------------------------------------------------------------------------
(* The state machine *)

PayInv == EngineTypes /\ Agrees(Now)

\* What a transaction leaves, when it commits a sound pair of tables.
LEMMA Committed ==
  ASSUME PayInv, NEW s, Sound(s), Agrees(s), Commit(s), today' = today
  PROVE  Ints(ledger)' /\ (additions \in Int)' /\ Agrees(Now)'
  <1>1. s = [ledger |-> s.ledger, additions |-> s.additions] /\ Ints(s.ledger) /\ s.additions \in Int BY DEF Sound
  <1>2. ledger' = s.ledger /\ additions' = s.additions BY DEF Commit
  <1>3. Now' = s BY <1>1, <1>2 DEF Now
  <1>4. Owes(Now)' = Owes(Now') BY DEF Owes, UnitSum, MapThenSumSet, MapThenFoldSet, Paid
  <1>5. Agrees(Now)' BY <1>3, <1>4 DEF Agrees, RatedSoFar
  <1>6. QED BY <1>1, <1>2, <1>5 DEF Ints

LEMMA NowSound ==
  ASSUME PayInv
  PROVE  /\ Sound(Now) /\ Agrees(Now) /\ Sound(Settled) /\ Agrees(Settled)
         /\ Now.ledger = ledger /\ Ints(ledger) /\ Ints(Settled.ledger)
  <1>1. Sound(Now) BY DEF Sound, Now, PayInv, EngineTypes
  <1>2. Step(Now, Settled) BY <1>1, ProcessStep DEF Settled, PayInv
  <1>3. QED BY <1>1, <1>2 DEF Step, PayInv, Sound, Now, EngineTypes

\* An entry that is no payout, posted to sound tables and committed.
LEMMA PostCommitted ==
  ASSUME PayInv, NEW s, Sound(s), Agrees(s), NEW e, e.units \in Int, e.on \in Int, e.type # "PAYOUT",
         Commit(Posted(s, e)), today' = today
  PROVE  Ints(ledger)' /\ (additions \in Int)' /\ Agrees(Now)'
  <1>1. Sound(Posted(s, e)) /\ Agrees(Posted(s, e)) BY PostedIs, PostOwes DEF Agrees
  <1>2. QED BY <1>1, Committed

\* What is committed leaves the rest as it was.
LEMMA RestSame ==
  ASSUME PayInv, UNCHANGED <<today, start, leftOn, versions>>, batches' \in Seq([status : {"DRAFT", "POSTED", "REVERSED"}, cut : Int, figure : Int]),
         Ints(ledger)', (additions \in Int)', Agrees(Now)'
  PROVE  PayInv'
  BY DEF PayInv, EngineTypes

LEMMA LedgerSame ==
  ASSUME PayInv, UNCHANGED <<ledger, additions>>, today' \in Nat, today' >= today
  PROVE  Ints(ledger)' /\ (additions \in Int)' /\ Agrees(Now)'
  <1>1. Ints(ledger) /\ additions \in Int /\ Agrees(Now) /\ today \in Nat BY DEF PayInv, EngineTypes
  <1>2. Now' = Now BY DEF Now
  <1>3. Owes(Now)' = Owes(Now') BY DEF Owes, UnitSum, MapThenSumSet, MapThenFoldSet, Paid
  <1>4. RatedSoFar' => RatedSoFar BY <1>1 DEF RatedSoFar
  <1>5. Agrees(Now)' BY <1>1, <1>2, <1>3, <1>4 DEF Agrees
  <1>6. QED BY <1>1, <1>5 DEF Ints

LEMMA InitPay == Init => PayInv
  <1>1. SUFFICES ASSUME Init PROVE PayInv OBVIOUS
  <1>2. EngineTypes
    <2>1. today \in Nat /\ leftOn \in Int /\ additions \in Int BY <1>1 DEF Init, NoDate
    <2>2. start \in Int BY <1>1, DateAssumption DEF Init
    <2>3. Ints(ledger) BY <1>1, FS_EmptySet DEF Init, Ints
    <2>4. PICK p \in Policies : versions = <<[from |-> 0, policy |-> p]>> BY <1>1 DEF Init
    <2>5. versions \in Seq([from : Int, policy : Policies]) /\ Len(versions) >= 1
      <3> DEFINE v == [from |-> 0, policy |-> p]
                 R == [from : Int, policy : Policies]
      <3>1. v \in R OBVIOUS
      <3> HIDE DEF v, R
      <3>2. <<v>> \in Seq(R) /\ Len(<<v>>) >= 1 BY <3>1
      <3>3. QED BY <2>4, <3>2 DEF v, R
    <2>6. batches \in Seq([status : {"DRAFT", "POSTED", "REVERSED"}, cut : Int, figure : Int]) BY <1>1 DEF Init
    <2>7. QED BY <2>1, <2>2, <2>3, <2>5, <2>6 DEF EngineTypes
  <1>3. Owes(Now) = 0
    <2>1. Now.ledger = {} /\ Now.additions = 0 BY <1>1 DEF Now, Init
    <2>2. Paid({}) = {} BY DEF Paid
    <2>3. QED BY <2>1, <2>2, UnitSumEmpty DEF Owes
  <1>4. QED BY <1>2, <1>3 DEF PayInv, Agrees

LEMMA StepPay == PayInv /\ [Next]_vars => PayInv'
  <1>1. SUFFICES ASSUME PayInv, [Next]_vars PROVE PayInv' OBVIOUS
  <1> DEFINE B == [status : {"DRAFT", "POSTED", "REVERSED"}, cut : Int, figure : Int]
             V == [from : Int, policy : Policies]
  <1>t. /\ today \in Nat /\ start \in Int /\ leftOn \in Int /\ versions \in Seq(V) /\ Len(versions) >= 1
        /\ batches \in Seq(B) /\ Ints(ledger) /\ additions \in Int /\ EngineTypes
    BY <1>1 DEF PayInv, EngineTypes
  <1>b. \A b \in DOMAIN batches : batches[b].cut \in Int /\ batches[b].figure \in Int
    <2>1. \A b \in DOMAIN batches : batches[b] \in B
      <3> HIDE DEF B
      <3>1. QED BY <1>t
    <2>2. QED BY <2>1
  <1>d. \A d \in Dates \cup Cutovers \cup Figures : d \in Int BY DateAssumption
  <1>n. /\ Sound(Now) /\ Agrees(Now) /\ Sound(Settled) /\ Agrees(Settled)
        /\ Ints(ledger) /\ Ints(Settled.ledger)
    BY <1>1, NowSound
  <1>e. \A k, ty, u, on, c : LET e == Entry(k, ty, u, on, c) IN e.type = ty /\ e.units = u /\ e.on = on BY DEF Entry
  <1>s. ASSUME UNCHANGED <<today, start, leftOn, versions>>, batches' \in Seq(B),
               Ints(ledger)', (additions \in Int)', Agrees(Now)'
        PROVE  PayInv'
    BY <1>1, <1>s, RestSame
  <1>c. ASSUME UNCHANGED <<today, start, leftOn, versions>>, batches' \in Seq(B),
               NEW s, Sound(s), Agrees(s), NEW k, NEW ty, NEW u \in Int, NEW on \in Int, NEW c,
               ty # "PAYOUT", Commit(Posted(s, Entry(k, ty, u, on, c)))
        PROVE  PayInv'
    <2> DEFINE e == Entry(k, ty, u, on, c)
    <2>1. e.type # "PAYOUT" /\ e.units \in Int /\ e.on \in Int /\ Commit(Posted(s, e)) BY <1>c, <1>e
    <2> HIDE DEF e
    <2>2. Ints(ledger)' /\ (additions \in Int)' /\ Agrees(Now)' BY <1>1, <1>c, <2>1, PostCommitted
    <2>3. QED BY <1>s, <1>c, <2>2
  <1> HIDE DEF B, V
  <1>2. CASE UNCHANGED vars
    <2>1. UNCHANGED <<today, start, leftOn, versions>> /\ UNCHANGED <<ledger, additions>> /\ batches' = batches
      BY <1>2 DEF vars
    <2>2. QED BY <1>1, <1>s, <1>t, <2>1, LedgerSame
  <1>3. CASE Process
    <2>1. Commit(Settled) /\ UNCHANGED <<today, start, leftOn, versions>> /\ batches' = batches BY <1>3 DEF Process
    <2>2. Ints(ledger)' /\ (additions \in Int)' /\ Agrees(Now)' BY <1>1, <1>n, <2>1, Committed
    <2>3. QED BY <1>s, <1>t, <2>1, <2>2
  <1>4. ASSUME NEW r, NEW d \in Dates, Book(r, d) PROVE PayInv'
    <2>1. Commit(Posted(Settled, Entry(<<"USE", r>>, "USAGE", -1, d, CycleKey(d)))) BY <1>4 DEF Book
    <2>2. UNCHANGED <<today, start, leftOn, versions>> /\ batches' = batches BY <1>4 DEF Book
    <2>3. -1 \in Int /\ d \in Int BY <1>d
    <2>4. QED BY <1>c, <1>n, <1>t, <2>1, <2>2, <2>3
  <1>5. ASSUME NEW r, Cancel(r) PROVE PayInv'
    <2>1. PICK e \in ledger : Commit(Posted(Now, Entry(<<"RET", r>>, "USAGE_REVERSAL", - e.units, e.on, e.cycle)))
      BY <1>5 DEF Cancel
    <2>2. UNCHANGED <<today, start, leftOn, versions>> /\ batches' = batches BY <1>5 DEF Cancel
    <2>3. - e.units \in Int /\ e.on \in Int BY <1>t DEF Ints
    <2>4. QED BY <1>c, <1>n, <1>t, <2>1, <2>2, <2>3
  <1>6. ASSUME NEW cut \in Cutovers, NEW figure \in Figures, CreateBatch(cut, figure) PROVE PayInv'
    <2> DEFINE b == [status |-> "DRAFT", cut |-> cut, figure |-> figure]
    <2>1. b \in B BY <1>d DEF B
    <2>2. batches' = Append(batches, b) /\ UNCHANGED <<today, start, leftOn, versions>> /\ UNCHANGED <<ledger, additions>>
      BY <1>6 DEF CreateBatch
    <2> HIDE DEF b
    <2>3. batches' \in Seq(B) BY <1>t, <2>1, <2>2
    <2>4. QED BY <1>1, <1>s, <1>t, <2>2, <2>3, LedgerSame
  <1>x. ASSUME NEW b \in DOMAIN batches, NEW st \in {"DRAFT", "POSTED", "REVERSED"} PROVE [batches EXCEPT ![b].status = st] \in Seq(B)
    <2> DEFINE x == [batches[b] EXCEPT !.status = st]
    <2>1. batches[b] \in B BY <1>t
    <2>2. x \in B BY <2>1 DEF B
    <2>3. [batches EXCEPT ![b].status = st] = [batches EXCEPT ![b] = x] OBVIOUS
    <2> HIDE DEF x
    <2>4. batches \in Seq(B) /\ b \in DOMAIN batches BY <1>t
    <2>5. [batches EXCEPT ![b] = x] \in Seq(B) BY <2>2, <2>4
    <2>6. QED BY <2>3, <2>5
  <1>7. ASSUME NEW b \in DOMAIN batches, PostBatch(b) PROVE PayInv'
    <2> DEFINE cut == batches[b].cut
               figure == batches[b].figure
    <2>1. cut \in Int /\ figure \in Int BY <1>b
    <2>2. /\ UNCHANGED <<today, start, leftOn, versions>> /\ batches' = [batches EXCEPT ![b].status = "POSTED"]
          /\ Commit(IF Kind = "ACCRUING" THEN SetBalance(b, cut, figure) ELSE SetUsed(b, cut, figure))
      BY <1>7 DEF PostBatch
    <2>3. batches' \in Seq(B) BY <1>x, <2>2
    <2> HIDE DEF cut, figure
    <2>4. CASE Kind = "ACCRUING"
      <3> DEFINE u == figure - Balance(ledger, cut)
      <3>1. u \in Int BY <1>n, <2>1, LedgerFigures
      <3>2. Commit(Posted(Now, Entry(<<"OPEN", b>>, "OPENING_BALANCE", u, cut, CycleKey(cut))))
        BY <2>2, <2>4 DEF SetBalance
      <3> HIDE DEF u
      <3>3. QED BY <1>c, <1>n, <2>1, <2>2, <2>3, <3>1, <3>2
    <2>5. CASE Kind # "ACCRUING"
      <3> DEFINE rows == {e \in Settled.ledger : e.cycle = CycleKey(cut) /\ e.on <= cut}
                 given == {e \in rows : e.type = "ALLOTMENT"}
                 u == Total(given) - figure - Total(rows)
      <3>1. u \in Int
        <4>1. rows \in SUBSET Settled.ledger /\ given \in SUBSET Settled.ledger OBVIOUS
        <4> HIDE DEF rows, given
        <4>2. Total(rows) \in Int /\ Total(given) \in Int BY <1>n, <4>1, SubSums
        <4>3. QED BY <2>1, <4>2
      <3>2. Commit(Posted(Settled, Entry(<<"OPEN", b>>, "OPENING_USAGE", u, cut, CycleKey(cut))))
        BY <2>2, <2>5 DEF SetUsed
      <3> HIDE DEF u
      <3>3. QED BY <1>c, <1>n, <2>1, <2>2, <2>3, <3>1, <3>2
    <2>6. QED BY <2>4, <2>5
  <1>8. ASSUME NEW b \in DOMAIN batches, ReverseBatch(b) PROVE PayInv'
    <2> DEFINE ty(e) == IF e.type = "OPENING_USAGE" THEN "USAGE_REVERSAL" ELSE "ADJUSTMENT_REVERSAL"
    <2>1. PICK e \in ledger : Commit(Posted(Now, Entry(<<"REV", b>>, ty(e), - e.units, e.on, e.cycle)))
      BY <1>8 DEF ReverseBatch
    <2>2. UNCHANGED <<today, start, leftOn, versions>> /\ batches' = [batches EXCEPT ![b].status = "REVERSED"]
      BY <1>8 DEF ReverseBatch
    <2>3. batches' \in Seq(B) BY <1>x, <2>2
    <2>4. - e.units \in Int /\ e.on \in Int /\ ty(e) # "PAYOUT" BY <1>t DEF Ints
    <2> HIDE DEF ty
    <2>5. QED BY <1>c, <1>n, <2>1, <2>2, <2>3, <2>4
  <1>9. ASSUME NEW b \in DOMAIN batches, DeleteBatch(b) PROVE PayInv'
    <2>1. /\ b = Len(batches) /\ batches' = SubSeq(batches, 1, b - 1)
          /\ UNCHANGED <<today, start, leftOn, versions>> /\ UNCHANGED <<ledger, additions>>
      BY <1>9 DEF DeleteBatch
    <2>2. batches' \in Seq(B) BY <1>t, <2>1
    <2>3. QED BY <1>1, <1>s, <1>t, <2>1, <2>2, LedgerSame
  <1>10. ASSUME NEW p \in Policies, NEW d \in Dates, UpdatePolicy(p, d) PROVE PayInv'
    <2>1. versions' \in Seq(V) /\ Len(versions') >= 1
      <3>1. CASE versions' = [versions EXCEPT ![Len(versions)].policy = p]
        <4> DEFINE n == Len(versions)
                   v == [versions[n] EXCEPT !.policy = p]
        <4>1. versions[n] \in V BY <1>t
        <4>2. v \in V BY <4>1 DEF V
        <4>3. versions' = [versions EXCEPT ![n] = v] BY <3>1
        <4> HIDE DEF v
        <4>4. QED BY <1>t, <4>2, <4>3
      <3>2. CASE versions' = Append(versions, [from |-> d, policy |-> p])
        <4> DEFINE v == [from |-> d, policy |-> p]
        <4>1. v \in V BY <1>d DEF V
        <4> HIDE DEF v
        <4>2. versions' = Append(versions, v) BY <3>2 DEF v
        <4>3. QED BY <1>t, <4>1, <4>2
      <3>3. QED BY <1>10, <3>1, <3>2 DEF UpdatePolicy
    <2>2. UNCHANGED <<today, start, leftOn, batches>> /\ UNCHANGED <<ledger, additions>> BY <1>10 DEF UpdatePolicy
    <2>3. Ints(ledger)' /\ (additions \in Int)' /\ Agrees(Now)' BY <1>1, <1>t, <2>2, LedgerSame
    <2>4. QED BY <1>t, <2>1, <2>2, <2>3 DEF PayInv, EngineTypes, B, V
  <1>11. ASSUME NEW d \in Dates, Leave(d) PROVE PayInv'
    <2>1. leftOn' = d /\ UNCHANGED <<today, start, versions, batches>> /\ UNCHANGED <<ledger, additions>>
      BY <1>11 DEF Leave
    <2>2. Ints(ledger)' /\ (additions \in Int)' /\ Agrees(Now)' BY <1>1, <1>t, <2>1, LedgerSame
    <2>3. QED BY <1>d, <1>t, <2>1, <2>2 DEF PayInv, EngineTypes, B, V
  <1>12. CASE NextDay
    <2>1. today' = today + 1 /\ UNCHANGED <<start, leftOn, versions, batches>> /\ UNCHANGED <<ledger, additions>>
      BY <1>12 DEF NextDay
    <2>2. Ints(ledger)' /\ (additions \in Int)' /\ Agrees(Now)' BY <1>1, <1>t, <2>1, LedgerSame
    <2>3. QED BY <1>t, <2>1, <2>2 DEF PayInv, EngineTypes, B, V
  <1>13. QED BY <1>1, <1>2, <1>3, <1>4, <1>5, <1>6, <1>7, <1>8, <1>9, <1>10, <1>11, <1>12
             DEF Next, LeaveUsed, TakeOn, Settings

LEMMA PayAlways == Spec => []PayInv
  <1>1. QED BY InitPay, StepPay, PTL DEF Spec

\* Whatever the policies, dates, bookings and batches, and however rarely the
\* scheduler runs: payroll gets no day of leave that no payout took, and each
\* of those that were taken if the employee always had a rate of pay.
THEOREM PayoutsAreOnLedger == Spec => []PayoutsOnLedger
  <1>1. PayInv => PayoutsOnLedger
    <2>1. SUFFICES ASSUME PayInv PROVE PayoutsOnLedger OBVIOUS
    <2>2. Now.ledger = ledger /\ Now.additions = additions BY DEF Now
    <2> DEFINE owed == additions + UnitSum(Paid(ledger))
    <2>3. owed <= 0 /\ (RatedSoFar => owed = 0) BY <2>1, <2>2 DEF PayInv, Agrees, Owes
    <2>4. Paid(ledger) \in SUBSET ledger /\ Ints(ledger) /\ additions \in Int BY <2>1 DEF PayInv, EngineTypes, Paid
    <2>5. Total(Paid(ledger)) = UnitSum(Paid(ledger)) /\ UnitSum(Paid(ledger)) \in Int BY <2>4, SubSums
    <2>6. PaidOutDays = - UnitSum(Paid(ledger)) BY <2>5 DEF PaidOutDays, Paid
    <2>7. QED BY <2>3, <2>4, <2>5, <2>6 DEF PayoutsOnLedger
  <1>2. QED BY <1>1, PayAlways, PTL

\* Processing an employee who was just processed changes nothing, in every
\* state the ledger, the policies and the employee can get into.
THEOREM ProcessingIsIdempotent == Spec => []Idempotent
  <1>1. PayInv => Idempotent
    <2>1. SUFFICES ASSUME PayInv PROVE Idempotent OBVIOUS
    <2>2. Sound(Now) BY <2>1, NowSound
    <2>3. QED BY <2>1, <2>2, ProcessStep DEF Idempotent, Settled, PayInv
  <1>2. QED BY <1>1, PayAlways, PTL

-----------------------------------------------------------------------------
(***************************************************************************)
(* Allowances. Every posting of the ledger is the only one with its key;   *)
(* an allotment is what the policy of its cycle gives, an expiry is of a   *)
(* cycle that is over and, as long as no batch is posted, leaves nothing.  *)
(* For an up-to-date ledger every turn of the loop over the cycles has     *)
(* nothing to do, so each cycle has its allotment and, if it is over and   *)
(* anything is left, its expiry.                                           *)
(***************************************************************************)

Base == IF versions[1].policy.cycle \in {"CALENDAR_YEAR", "CALENDAR_MONTH"} THEN 0 ELSE start
Uniform ==
  /\ versions[1].from = 0
  /\ \A i \in DOMAIN versions : versions[i].policy.cycle = versions[1].policy.cycle
KeyOf(base, n, d) == base + ((d - base) \div n) * n
Wait == start + versions[1].policy.minServiceMonths * MonthDays
Gives(c) ==
  LET p == Policy(c)
  IN p.perDay * (CycleEnd(c) - (IF p.prorate THEN Larger(c, Wait) ELSE c) + 1)

AllotmentAt(e, c) ==
  /\ e.type = "ALLOTMENT" /\ e.cycle = c /\ c <= today /\ Policy(c).perDay > 0
  /\ WaitKept => e.units = Gives(c)
ExpiryAt(e, c) == e.type = "EXPIRY" /\ e.cycle = c /\ CycleEnd(c) < today
Regular(e) ==
  /\ e.type = "ALLOTMENT" => \E c \in Int : e.key = <<"ALLOT", c>>
  /\ e.type = "EXPIRY" => \E c \in Int : e.key = <<"EXP", c>>
  /\ \A c \in Int : e.key = <<"ALLOT", c>> => AllotmentAt(e, c)
  /\ \A c \in Int : e.key = <<"EXP", c>> => ExpiryAt(e, c)
  /\ \A r : e.key = <<"USE", r>> => e.cycle = KeyOf(Base, CycleDays, e.on)
Listed(L) ==
  /\ \A e, f \in L : e.key = f.key => e = f
  /\ \A e \in L : Regular(e)
\* What has lapsed stays lapsed.
Lapsed(L) ==
  \A e \in L : e.type = "EXPIRY" =>
    /\ Remaining(L, e.cycle) <= 0
    /\ Policy(e.cycle).perDay > 0 => <<"ALLOT", e.cycle>> \in Keys(L)

AllowInv ==
  /\ PayInv /\ today \in Nat /\ Uniform
  /\ Kind # "ACCRUING" => Listed(ledger) /\ (NoBatchPosted => Lapsed(ledger))

\* The cycle of a date contains it.
LEMMA CycleHolds ==
  ASSUME EngineTypes, Uniform, NEW d \in Int
  PROVE  /\ CycleKey(d) = KeyOf(Base, CycleDays, d)
         /\ CycleKey(d) \in Int /\ CycleKey(d) <= d /\ d <= CycleEnd(CycleKey(d))
  <1>1. MonthDays \in Nat \ {0} /\ YearDays \in Nat \ {0} /\ CycleDays \in Nat \ {0} BY Numbers
  <1>2. start \in Int BY DEF EngineTypes
  <1>3. Policy(d).cycle = versions[1].policy.cycle
    <2> DEFINE inForce == {i \in DOMAIN versions : versions[i].from <= d}
    <2>1. Len(versions) \in Nat /\ DOMAIN versions = 1 .. Len(versions) /\ Len(versions) >= 1
          /\ \A i \in DOMAIN versions : versions[i].from \in Int
      <3> DEFINE R == [from : Int, policy : Policies]
      <3>1. versions \in Seq(R) /\ Len(versions) >= 1 BY DEF EngineTypes
      <3> HIDE DEF R
      <3>2. \A i \in 1 .. Len(versions) : versions[i] \in R BY <3>1
      <3>3. Len(versions) \in Nat /\ DOMAIN versions = 1 .. Len(versions) BY <3>1
      <3>4. \A v \in R : v.from \in Int BY DEF R
      <3>5. QED BY <3>1, <3>2, <3>3, <3>4
    <2>2. IsFiniteSet(inForce) /\ inForce \subseteq Int
      <3>1. IsFiniteSet(1 .. Len(versions)) BY <2>1, FS_Interval
      <3>2. QED BY <2>1, <3>1, FS_Subset
    <2>3. inForce # {} => Max(inForce) \in DOMAIN versions
      <3>1. inForce # {} => Max(inForce) \in inForce
        <4> HIDE DEF inForce
        <4>1. QED BY <2>2, MaxIn
      <3>2. QED BY <3>1
    <2>4. QED BY <2>1, <2>3 DEF Policy, VersionOn, Uniform
  <1>4. \A n \in Nat \ {0}, x \in Int : /\ x \div n \in Int /\ x % n \in Int
                                       /\ x = (x \div n) * n + (x % n) /\ 0 <= x % n /\ x % n < n
    OBVIOUS
  <1>5. \A a \in Int : a * YearDays \in Int /\ a * MonthDays \in Int /\ a * CycleDays \in Int BY <1>1
  <1>6. CycleKey(d) = Base + ((d - Base) \div CycleDays) * CycleDays
    <2>1. d % YearDays = d - (d \div YearDays) * YearDays /\ d % MonthDays = d - (d \div MonthDays) * MonthDays
      <3> DEFINE y == (d \div YearDays) * YearDays
                 m == (d \div MonthDays) * MonthDays
      <3>1. d = y + (d % YearDays) /\ d % YearDays \in Int /\ y \in Int BY <1>1, <1>4, <1>5
      <3>2. d = m + (d % MonthDays) /\ d % MonthDays \in Int /\ m \in Int BY <1>1, <1>4, <1>5
      <3> HIDE DEF y, m
      <3>3. d % YearDays = d - y /\ d % MonthDays = d - m BY <3>1, <3>2
      <3>4. QED BY <3>3 DEF y, m
    <2>2. (d \div YearDays) * YearDays \in Int /\ (d \div MonthDays) * MonthDays \in Int BY <1>1, <1>4, <1>5
    <2>3. CASE versions[1].policy.cycle = "CALENDAR_YEAR"
      <3>1. CycleDays = YearDays /\ Base = 0 BY <2>3 DEF CycleDays, Base
      <3>2. CycleKey(d) = d - (d % YearDays) BY <1>3, <2>3 DEF CycleKey, YearStart
      <3>3. d - 0 = d OBVIOUS
      <3> DEFINE y == (d \div YearDays) * YearDays
      <3>4. y \in Int /\ CycleKey(d) = d - (d - y) BY <2>1, <2>2, <3>2
      <3>5. Base + ((d - Base) \div CycleDays) * CycleDays = 0 + y BY <3>1, <3>3
      <3> HIDE DEF y
      <3>6. QED BY <3>4, <3>5
    <2>4. CASE versions[1].policy.cycle = "CALENDAR_MONTH"
      <3>1. CycleDays = MonthDays /\ Base = 0 BY <2>4 DEF CycleDays, Base
      <3>2. CycleKey(d) = d - (d % MonthDays) BY <1>3, <2>4 DEF CycleKey, MonthStart
      <3>3. d - 0 = d OBVIOUS
      <3> DEFINE y == (d \div MonthDays) * MonthDays
      <3>4. y \in Int /\ CycleKey(d) = d - (d - y) BY <2>1, <2>2, <3>2
      <3>5. Base + ((d - Base) \div CycleDays) * CycleDays = 0 + y BY <3>1, <3>3
      <3> HIDE DEF y
      <3>6. QED BY <3>4, <3>5
    <2>5. CASE versions[1].policy.cycle \notin {"CALENDAR_YEAR", "CALENDAR_MONTH"}
      <3>1. CycleDays = YearDays /\ Base = start BY <2>5 DEF CycleDays, Base
      <3>2. CycleKey(d) = start + ((d - start) \div YearDays) * YearDays BY <1>3, <2>5 DEF CycleKey
      <3>3. QED BY <3>1, <3>2
    <2>6. QED BY <2>3, <2>4, <2>5
  <1>7. Base \in Int BY <1>2 DEF Base
  <1> DEFINE x == d - Base
             k == (x \div CycleDays) * CycleDays
             r == x % CycleDays
  <1>8. x \in Int /\ x = k + r /\ 0 <= r /\ r < CycleDays /\ k \in Int /\ r \in Int BY <1>1, <1>4, <1>5, <1>7
  <1>9. CycleKey(d) = Base + k BY <1>6
  <1>10. d = Base + x BY <1>7
  <1> HIDE DEF x, k, r
  <1>11. CycleKey(d) \in Int /\ CycleKey(d) <= d /\ d <= CycleEnd(CycleKey(d))
    BY <1>1, <1>7, <1>8, <1>9, <1>10 DEF CycleEnd
  <1>12. QED BY <1>6, <1>11 DEF KeyOf

\* What an entry does to these.
LEMMA PostListed ==
  ASSUME NEW s, Sound(s), Listed(s.ledger), NEW e, e.units \in Int, e.on \in Int, Regular(e)
  PROVE  Listed(Posted(s, e).ledger)
  <1>1. CASE e.key \in Keys(s.ledger)
    <2>1. Posted(s, e) = s BY <1>1, PostedIs
    <2>2. QED BY <2>1
  <1>2. CASE e.key \notin Keys(s.ledger)
    <2>1. Posted(s, e).ledger = s.ledger \cup {e} BY <1>2, PostedIs
    <2>2. \A f \in s.ledger : f.key # e.key BY <1>2 DEF Keys
    <2>3. QED BY <2>1, <2>2 DEF Listed
  <1>3. QED BY <1>1, <1>2

LEMMA RemainingIs == \A L, c : Remaining(L, c) = Total(InCycle(L, c))
  BY DEF Remaining, InCycle

LEMMA PostLapsed ==
  ASSUME NEW s, Sound(s), Lapsed(s.ledger), NEW e, e.units \in Int, e.on \in Int, e.type # "EXPIRY",
         e.key \in Keys(s.ledger) \/ \A f \in s.ledger : f.type = "EXPIRY" => f.cycle # e.cycle
  PROVE  Lapsed(Posted(s, e).ledger)
  <1>1. CASE e.key \in Keys(s.ledger)
    <2>1. Posted(s, e) = s BY <1>1, PostedIs
    <2>2. QED BY <2>1
  <1>2. CASE e.key \notin Keys(s.ledger)
    <2>1. Posted(s, e).ledger = s.ledger \cup {e} BY <1>2, PostedIs
    <2>2. SUFFICES ASSUME NEW f \in s.ledger \cup {e}, f.type = "EXPIRY"
                   PROVE  /\ Remaining(Posted(s, e).ledger, f.cycle) <= 0
                          /\ Policy(f.cycle).perDay > 0 => <<"ALLOT", f.cycle>> \in Keys(Posted(s, e).ledger)
      BY <2>1 DEF Lapsed
    <2>3. f \in s.ledger /\ f.cycle # e.cycle BY <1>2, <2>2
    <2>4. InCycle(Posted(s, e).ledger, f.cycle) = InCycle(s.ledger, f.cycle) BY <2>3, PostInCycle
    <2>5. Remaining(s.ledger, f.cycle) <= 0 /\ (Policy(f.cycle).perDay > 0 => <<"ALLOT", f.cycle>> \in Keys(s.ledger))
      BY <2>2, <2>3 DEF Lapsed
    <2>6. QED BY <2>1, <2>4, <2>5, RemainingIs DEF Keys
  <1>3. QED BY <1>1, <1>2

\* A turn of the loop over the cycles keeps both; it pays nothing.
LEMMA AllotKeeps ==
  ASSUME EngineTypes, NEW s, Sound(s), Listed(s.ledger), NEW c \in Int, NEW x \in Int, WaitKept => x = Wait
  PROVE  /\ Sound(Allot(s, c, x)) /\ Listed(Allot(s, c, x).ledger)
         /\ Lapsed(s.ledger) => Lapsed(Allot(s, c, x).ledger)
         /\ Allot(s, c, x).additions = s.additions
  <1> DEFINE p == Policy(c)
             on == Larger(c, x)
             units == p.perDay * (IF p.prorate THEN CycleEnd(c) - on + 1 ELSE CycleEnd(c) - c + 1)
             a == Entry(<<"ALLOT", c>>, "ALLOTMENT", units, on, c)
             given == IF p.perDay > 0 THEN Posted(s, a) ELSE s
             left == Remaining(given.ledger, c)
             z == Entry(<<"EXP", c>>, "EXPIRY", - left, CycleEnd(c), c)
             out == on > EndLimit \/ on > CycleEnd(c)
             over == CycleEnd(c) < today /\ left > 0
  <1>1. Allot(s, c, x) = IF out THEN s ELSE IF over THEN Posted(given, z) ELSE given
    BY DEF Allot
  <1>2. on \in Int /\ CycleEnd(c) \in Int /\ EndLimit \in Int /\ today \in Int /\ c <= on /\ EndLimit <= today
    <2>1. today \in Int /\ EmpLastDay \in Int /\ EndLimit \in Int /\ CycleEnd(c) \in Int BY DateTypes DEF EngineTypes
    <2>2. EndLimit <= today BY <2>1 DEF EndLimit, Smaller
    <2>3. on \in Int /\ c <= on BY DEF Larger
    <2>4. QED BY <2>1, <2>2, <2>3
  <1>3. p.perDay \in Nat /\ units \in Int
    <2>1. p \in Policies BY VersionTypes
    <2>2. p.perDay \in Nat BY <2>1, Numbers
    <2> HIDE DEF p, on
    <2>3. QED BY <1>2, <2>2
  <1>4. a.key = <<"ALLOT", c>> /\ a.type = "ALLOTMENT" /\ a.units = units /\ a.on = on /\ a.cycle = c
    BY DEF Entry
  <1>5. WaitKept => units = Gives(c)
    <2>1. SUFFICES ASSUME WaitKept PROVE units = Gives(c) OBVIOUS
    <2>2. x = Wait BY <2>1
    <2> HIDE DEF Wait
    <2>3. CycleEnd(c) - Larger(c, Wait) + 1 = (CycleEnd(c) - Larger(c, Wait)) + 1 OBVIOUS
    <2>4. QED BY <2>2 DEF Gives
  <1> HIDE DEF out, over, left, units, on
  <1>6. ASSUME ~out, p.perDay > 0 PROVE Regular(a)
    <2>1. c <= today BY <1>2, <1>6 DEF out
    <2>2. AllotmentAt(a, c) BY <1>4, <1>5, <1>6, <2>1 DEF AllotmentAt
    <2>3. \A b : a.key = <<"ALLOT", b>> => b = c BY <1>4
    <2>4. \A b : a.key # <<"EXP", b>> /\ a.key # <<"USE", b>> BY <1>4
    <2> HIDE DEF a
    <2>5. QED BY <1>4, <2>2, <2>3, <2>4 DEF Regular
  <1>7. ASSUME ~out
        PROVE  /\ Sound(given) /\ Listed(given.ledger) /\ (Lapsed(s.ledger) => Lapsed(given.ledger))
               /\ given.additions = s.additions
               /\ p.perDay > 0 => <<"ALLOT", c>> \in Keys(given.ledger)
    <2>1. CASE p.perDay > 0
      <3>1. given = Posted(s, a) BY <2>1
      <3>2. a.units \in Int /\ a.on \in Int /\ Regular(a) BY <1>2, <1>3, <1>4, <1>6, <1>7, <2>1
      <3>3. ASSUME Lapsed(s.ledger)
            PROVE  a.key \in Keys(s.ledger) \/ \A f \in s.ledger : f.type = "EXPIRY" => f.cycle # a.cycle
        <4>1. ASSUME NEW f \in s.ledger, f.type = "EXPIRY", f.cycle = c PROVE <<"ALLOT", c>> \in Keys(s.ledger)
          BY <2>1, <3>3, <4>1 DEF Lapsed
        <4>2. QED BY <1>4, <4>1
      <3>4. a.type # "EXPIRY" BY <1>4
      <3> HIDE DEF a, given
      <3>5. Sound(given) /\ given.additions = s.additions /\ a.key \in Keys(given.ledger) BY <3>1, <3>2, PostedIs
      <3>6. Listed(given.ledger) BY <3>1, <3>2, PostListed
      <3>7. Lapsed(s.ledger) => Lapsed(given.ledger) BY <3>1, <3>2, <3>3, <3>4, PostLapsed
      <3>8. QED BY <1>4, <3>5, <3>6, <3>7
    <2>2. CASE ~(p.perDay > 0)
      <3>1. given = s BY <2>2
      <3>2. QED BY <2>2, <3>1
    <2>3. QED BY <2>1, <2>2
  <1>8. z.key = <<"EXP", c>> /\ z.type = "EXPIRY" /\ z.units = - left /\ z.on = CycleEnd(c) /\ z.cycle = c
    BY DEF Entry
  <1> HIDE DEF a, given, z
  <1>9. CASE out BY <1>1, <1>9
  <1>10. CASE ~out /\ ~over BY <1>1, <1>7, <1>10
  <1>11. CASE ~out /\ over
    <2>1. /\ Sound(given) /\ Listed(given.ledger) /\ (Lapsed(s.ledger) => Lapsed(given.ledger))
          /\ given.additions = s.additions
          /\ p.perDay > 0 => <<"ALLOT", c>> \in Keys(given.ledger)
      BY <1>7, <1>11
    <2>2. left \in Int BY <2>1, LedgerFigures DEF Sound, left
    <2>3. z.units \in Int /\ z.on \in Int BY <1>2, <1>8, <2>2
    <2>4. Regular(z)
      <3>1. ExpiryAt(z, c) BY <1>8, <1>11 DEF ExpiryAt, over
      <3>2. \A b : z.key = <<"EXP", b>> => b = c BY <1>8
      <3>3. \A b : z.key # <<"ALLOT", b>> /\ z.key # <<"USE", b>> BY <1>8
      <3>4. QED BY <1>8, <3>1, <3>2, <3>3 DEF Regular
    <2>5. Sound(Posted(given, z)) /\ Posted(given, z).additions = given.additions BY <2>1, <2>3, PostedIs
    <2>6. Listed(Posted(given, z).ledger) BY <2>1, <2>3, <2>4, PostListed
    <2>7. ASSUME Lapsed(s.ledger) PROVE Lapsed(Posted(given, z).ledger)
      <3>1. CASE z.key \in Keys(given.ledger)
        <4>1. Posted(given, z) = given BY <2>1, <2>3, <3>1, PostedIs
        <4>2. QED BY <2>1, <2>7, <4>1
      <3>2. CASE z.key \notin Keys(given.ledger)
        <4>1. Posted(given, z).ledger = given.ledger \cup {z} /\ z \notin given.ledger BY <2>1, <2>3, <3>2, PostedIs
        <4>2. ASSUME NEW f \in given.ledger, f.type = "EXPIRY" PROVE f.cycle # c
          <5>1. PICK b \in Int : f.key = <<"EXP", b>> BY <2>1, <4>2 DEF Listed, Regular
          <5>2. f.cycle = b BY <2>1, <5>1 DEF Listed, Regular, ExpiryAt
          <5>3. f.key # <<"EXP", c>> BY <1>8, <3>2 DEF Keys
          <5>4. QED BY <5>1, <5>2, <5>3
        <4>3. Remaining(given.ledger \cup {z}, c) = 0
          <5> DEFINE M == InCycle(given.ledger, c)
          <5>1. InCycle(given.ledger \cup {z}, c) = M \cup {z} /\ z \notin M /\ M \subseteq given.ledger
            BY <1>8, <4>1 DEF InCycle
          <5>2. Ints(given.ledger) /\ Ints(given.ledger \cup {z}) BY <2>1, <2>5, <4>1 DEF Sound
          <5>3. IsFiniteSet(M) /\ Total(M) = UnitSum(M) /\ UnitSum(M) \in Int BY <5>1, <5>2, SubSums
          <5>4. Total(M \cup {z}) = UnitSum(M \cup {z})
            <6>1. M \cup {z} \in SUBSET (given.ledger \cup {z}) BY <5>1
            <6>2. QED BY <5>2, <6>1, SubSums
          <5>5. \A y \in M \cup {z} : y.units \in Int BY <2>3, <5>1, <5>2 DEF Ints
          <5>6. left = UnitSum(M) BY <5>3, RemainingIs DEF left
          <5> HIDE DEF M
          <5>7. UnitSum(M \cup {z}) = UnitSum(M) + z.units BY <5>1, <5>3, <5>5, UnitSumAdd
          <5>8. UnitSum(M \cup {z}) = 0 BY <1>8, <5>3, <5>6, <5>7
          <5>9. QED BY <5>1, <5>4, <5>8, RemainingIs
        <4>4. ASSUME NEW f \in given.ledger \cup {z}, f.type = "EXPIRY"
              PROVE  /\ Remaining(given.ledger \cup {z}, f.cycle) <= 0
                     /\ Policy(f.cycle).perDay > 0 => <<"ALLOT", f.cycle>> \in Keys(given.ledger \cup {z})
          <5>1. CASE f = z BY <1>8, <2>1, <4>3, <5>1 DEF Keys
          <5>2. CASE f \in given.ledger
            <6>1. f.cycle # c BY <4>2, <4>4, <5>2
            <6>2. InCycle(Posted(given, z).ledger, f.cycle) = InCycle(given.ledger, f.cycle)
              BY <1>8, <2>1, <2>3, <6>1, PostInCycle
            <6>3. Remaining(given.ledger, f.cycle) <= 0
                  /\ (Policy(f.cycle).perDay > 0 => <<"ALLOT", f.cycle>> \in Keys(given.ledger))
              BY <2>1, <2>7, <4>4, <5>2 DEF Lapsed
            <6>4. QED BY <4>1, <6>2, <6>3, RemainingIs DEF Keys
          <5>3. QED BY <4>4, <5>1, <5>2
        <4>5. QED BY <4>1, <4>4 DEF Lapsed
      <3>3. QED BY <3>1, <3>2
    <2>8. Allot(s, c, x) = Posted(given, z) BY <1>1, <1>11
    <2>9. QED BY <2>1, <2>5, <2>6, <2>7, <2>8
  <1>12. QED BY <1>9, <1>10, <1>11

LEMMA LoopKeeps ==
  ASSUME EngineTypes, NEW s, Sound(s), Listed(s.ledger), NEW x \in Int, WaitKept => x = Wait,
         NEW dates \in Seq(Int), NEW g, Run("allot", x, s, dates, g)
  PROVE  \A i \in 0 .. Len(dates) : /\ Sound(g[i]) /\ Listed(g[i].ledger)
                                    /\ Lapsed(s.ledger) => Lapsed(g[i].ledger)
                                    /\ g[i].additions = s.additions
  <1> DEFINE N == Len(dates)
             Kept(t) == Sound(t) /\ Listed(t.ledger) /\ (Lapsed(s.ledger) => Lapsed(t.ledger)) /\ t.additions = s.additions
             B == {i \in 0 .. N : ~Kept(g[i])}
  <1>1. N \in Nat OBVIOUS
  <1>2. g[0] = s /\ \A i \in 1 .. N : g[i] = Allot(g[i - 1], dates[i], x) /\ dates[i] \in Int
    BY RunSteps DEF Turn
  <1>3. ASSUME B # {} PROVE FALSE
    <2>0. B \in SUBSET (0 .. N) OBVIOUS
    <2>1. \E i \in B : \A b \in B : i <= b
      <3> HIDE DEF B, N
      <3>1. QED BY <1>1, <1>3, <2>0, Least
    <2>2. PICK i \in B : \A b \in B : i <= b BY <2>1
    <2>3. i # 0 BY <1>2, <2>2
    <2>4. i \in 1 .. N /\ i - 1 \in 0 .. N /\ i - 1 \notin B BY <2>2, <2>3
    <2>5. Kept(g[i - 1]) BY <2>4
    <2> DEFINE t == g[i - 1]
               c == dates[i]
    <2>6. c \in Int /\ g[i] = Allot(t, c, x) BY <1>2, <2>4
    <2>7. Sound(t) /\ Listed(t.ledger) /\ (Lapsed(s.ledger) => Lapsed(t.ledger)) /\ t.additions = s.additions BY <2>5
    <2> HIDE DEF t, c, B, N
    <2>8. Kept(Allot(t, c, x)) BY <2>6, <2>7, AllotKeeps
    <2>9. ~Kept(g[i]) BY <2>2 DEF B
    <2> HIDE DEF Kept
    <2>10. QED BY <2>6, <2>8, <2>9
  <1>4. QED BY <1>3

\* The loop over the cycles, and its turns.
EligibleFrom == start + Policy(today).minServiceMonths * MonthDays
LoopFrom == Larger(EligibleFrom, YearStart(today) - YearDays)
Cycles == Every(CycleDays, CycleKey(LoopFrom), EndLimit)

LEMMA WaitIs ==
  ASSUME EngineTypes, WaitKept PROVE EligibleFrom = Wait
  <1> DEFINE inForce == {i \in DOMAIN versions : versions[i].from <= today}
  <1>1. Len(versions) \in Nat /\ DOMAIN versions = 1 .. Len(versions) BY DEF EngineTypes
  <1>2. IsFiniteSet(inForce) /\ inForce \subseteq Int
    <2>1. IsFiniteSet(1 .. Len(versions)) BY <1>1, FS_Interval
    <2>2. QED BY <1>1, <2>1, FS_Subset
  <1>3. inForce # {} => Max(inForce) \in inForce
    <2> HIDE DEF inForce
    <2>1. QED BY <1>2, MaxIn
  <1>4. Policy(today).minServiceMonths = versions[1].policy.minServiceMonths
    BY <1>3 DEF Policy, VersionOn, WaitKept
  <1>5. QED BY <1>4 DEF EligibleFrom, Wait

LEMMA AllowanceLoop ==
  ASSUME EngineTypes, Kind # "ACCRUING"
  PROVE  /\ EligibleFrom \in Int /\ LoopFrom \in Int /\ Cycles \in Seq(Int) /\ Len(Cycles) \in Nat
         /\ \A t : ProcessEmployee(t) = AllotEach(t, EligibleFrom, Cycles)
  <1>1. today \in Int /\ start \in Int BY DEF EngineTypes
  <1>2. MonthDays \in Nat \ {0} /\ YearDays \in Nat \ {0} /\ CycleDays \in Nat \ {0} BY Numbers
  <1>3. EligibleFrom \in Int
    <2> DEFINE n == Policy(today).minServiceMonths
    <2>1. n \in Nat BY <1>1, VersionTypes, Numbers
    <2> HIDE DEF n
    <2>2. n * MonthDays \in Int BY <1>2, <2>1
    <2>3. QED BY <1>1, <2>2 DEF n, EligibleFrom
  <1>4. YearStart(today) \in Int BY <1>1, <1>2 DEF YearStart
  <1>5. LoopFrom \in Int BY <1>2, <1>3, <1>4 DEF Larger, LoopFrom
  <1>6. CycleKey(LoopFrom) \in Int /\ EndLimit \in Int BY <1>5, DateTypes
  <1>7. Cycles \in Seq(Int) /\ Len(Cycles) \in Nat BY <1>2, <1>6, EveryIs DEF Cycles
  <1>8. \A t : ProcessEmployee(t) = AllotEach(t, EligibleFrom, Cycles)
    BY DEF ProcessEmployee, ProcessAllowance, AllotEach, InTurn, EligibleFrom, LoopFrom, Cycles
  <1>9. QED BY <1>3, <1>5, <1>7, <1>8

LEMMA SettledKeeps ==
  ASSUME PayInv, Kind # "ACCRUING", Listed(ledger)
  PROVE  /\ Sound(Settled) /\ Listed(Settled.ledger) /\ (Lapsed(ledger) => Lapsed(Settled.ledger))
         /\ Settled.additions = additions
  <1>1. Sound(Now) /\ Now.ledger = ledger /\ Now.additions = additions /\ EngineTypes BY NowSound DEF PayInv, Now
  <1>2. EligibleFrom \in Int /\ Cycles \in Seq(Int) /\ Len(Cycles) \in Nat
        /\ Settled = AllotEach(Now, EligibleFrom, Cycles)
    BY <1>1, AllowanceLoop DEF Settled
  <1>3. PICK g : Run("allot", EligibleFrom, Now, Cycles, g) /\ Settled = g[Len(Cycles)] BY <1>2, Loops
  <1>4. WaitKept => EligibleFrom = Wait BY <1>1, WaitIs
  <1>5. Len(Cycles) \in 0 .. Len(Cycles) BY <1>2
  <1>6. QED BY <1>1, <1>2, <1>3, <1>4, <1>5, LoopKeeps

-----------------------------------------------------------------------------
\* What the postings were judged by stays as it was.
Undisturbed ==
  /\ today \in Int /\ today' \in Int /\ today <= today'
  /\ Base' = Base /\ CycleDays' = CycleDays /\ Wait' = Wait
  /\ WaitKept' => WaitKept
  /\ \A c \in Int : c <= today => Policy(c)' = Policy(c)

LEMMA BookKept ==
  ASSUME NEW L, Listed(L), ledger' = L, Undisturbed
  PROVE  Listed(ledger)' /\ (Lapsed(L) => Lapsed(ledger)')
  <1>1. CycleDays \in Nat \ {0} BY Numbers
  <1>2. \A c \in Int : CycleEnd(c)' = CycleEnd(c) /\ CycleEnd(c) \in Int /\ c <= CycleEnd(c)
    BY <1>1 DEF CycleEnd, Undisturbed
  <1>3. \A c \in Int : c <= today => Gives(c)' = Gives(c)
    BY <1>2 DEF Gives, Undisturbed, Larger
  <1>4. \A d : KeyOf(Base, CycleDays, d)' = KeyOf(Base, CycleDays, d) BY DEF KeyOf, Undisturbed
  <1>5. ASSUME NEW e \in L PROVE Regular(e)'
    <2>1. Regular(e) BY DEF Listed
    <2>2. ASSUME NEW c \in Int, e.key = <<"ALLOT", c>> PROVE AllotmentAt(e, c)'
      <3>1. AllotmentAt(e, c) BY <2>1, <2>2 DEF Regular
      <3>2. QED BY <1>3, <3>1 DEF AllotmentAt, Undisturbed
    <2>3. ASSUME NEW c \in Int, e.key = <<"EXP", c>> PROVE ExpiryAt(e, c)'
      <3>1. ExpiryAt(e, c) BY <2>1, <2>3 DEF Regular
      <3>2. QED BY <1>2, <3>1 DEF ExpiryAt, Undisturbed
    <2>4. QED BY <1>4, <2>1, <2>2, <2>3 DEF Regular
  <1>6. Listed(ledger)' BY <1>5 DEF Listed
  <1>7. ASSUME Lapsed(L) PROVE Lapsed(ledger)'
    <2>1. SUFFICES ASSUME NEW e \in L, e.type = "EXPIRY"
                   PROVE  /\ Remaining(ledger, e.cycle)' <= 0
                          /\ Policy(e.cycle)'.perDay > 0 => <<"ALLOT", e.cycle>> \in Keys(L)
      BY DEF Lapsed, Keys
    <2>2. PICK c \in Int : e.key = <<"EXP", c>> BY <2>1 DEF Listed, Regular
    <2>3. ExpiryAt(e, c) BY <2>1, <2>2 DEF Listed, Regular
    <2>4. e.cycle = c /\ c <= today BY <1>2, <2>3 DEF ExpiryAt, Undisturbed
    <2>5. Remaining(L, c) <= 0 /\ (Policy(c).perDay > 0 => <<"ALLOT", c>> \in Keys(L))
      BY <1>7, <2>1, <2>4 DEF Lapsed
    <2>6. Policy(c)' = Policy(c) BY <2>4 DEF Undisturbed
    <2>7. Remaining(ledger, c)' = Remaining(L, c) BY DEF Remaining, Total, MapThenSumSet, MapThenFoldSet
    <2>8. QED BY <2>4, <2>5, <2>6, <2>7
  <1>8. QED BY <1>6, <1>7

LEMMA VersionIndex ==
  ASSUME EngineTypes, NEW d \in Int
  PROVE  LET inForce == {i \in DOMAIN versions : versions[i].from <= d}
         IN inForce # {} => Max(inForce) \in inForce
  <1> DEFINE inForce == {i \in DOMAIN versions : versions[i].from <= d}
  <1>1. Len(versions) \in Nat /\ DOMAIN versions = 1 .. Len(versions) BY DEF EngineTypes
  <1>2. IsFiniteSet(inForce) /\ inForce \subseteq Int
    <2>1. IsFiniteSet(1 .. Len(versions)) BY <1>1, FS_Interval
    <2>2. QED BY <1>1, <2>1, FS_Subset
  <1> HIDE DEF inForce
  <1>3. inForce # {} => Max(inForce) \in inForce BY <1>2, MaxIn
  <1>4. QED BY <1>3 DEF inForce

\* A version that begins later says nothing of what was.
LEMMA VersionsKept ==
  ASSUME AllowInv, NEW p \in Policies, NEW d \in Int, UpdatePolicy(p, d)
  PROVE  Undisturbed /\ Uniform' /\ Kind' = Kind
  <1> DEFINE n == Len(versions)
             S(c) == {i \in DOMAIN versions : versions[i].from <= c}
             R == [from : Int, policy : Policies]
  <1>t. EngineTypes /\ Uniform /\ today \in Nat BY DEF AllowInv, PayInv
  <1>v. versions \in Seq(R) /\ n \in Nat /\ n >= 1 /\ DOMAIN versions = 1 .. n /\ versions[n] \in R
    <2>1. versions \in Seq(R) /\ n >= 1 BY <1>t DEF EngineTypes
    <2> HIDE DEF R
    <2>2. n \in Nat /\ DOMAIN versions = 1 .. n BY <2>1
    <2>3. QED BY <2>1, <2>2
  <1>1. /\ d > today /\ d >= versions[n].from /\ p.cycle = versions[n].policy.cycle
        /\ versions' = IF d = versions[n].from THEN [versions EXCEPT ![n].policy = p]
                                               ELSE Append(versions, [from |-> d, policy |-> p])
        /\ UNCHANGED <<today, start>>
    BY DEF UpdatePolicy, Last
  <1>2. /\ \A i \in 1 .. n : i # n \/ d # versions[n].from => versions'[i] = versions[i]
        /\ 1 .. n \subseteq DOMAIN versions'
        /\ \A i \in DOMAIN versions' : i \in 1 .. n \/ i = n + 1
        /\ d = versions[n].from => /\ DOMAIN versions' = 1 .. n /\ n # 1
                                   /\ versions'[n].from = d /\ versions'[n].policy = p
        /\ d # versions[n].from => /\ DOMAIN versions' = 1 .. n + 1
                                   /\ versions'[n + 1].from = d /\ versions'[n + 1].policy = p
    <2>1. CASE d = versions[n].from
      <3> DEFINE w == [versions[n] EXCEPT !.policy = p]
      <3>1. w.from = d /\ w.policy = p /\ w \in R BY <1>v, <2>1
      <3>2. versions' = [versions EXCEPT ![n] = w] BY <1>1, <2>1
      <3>3. n # 1 BY <1>t, <1>1, <2>1 DEF Uniform
      <3> HIDE DEF w, R
      <3>4. DOMAIN versions' = 1 .. n /\ versions'[n] = w /\ \A i \in 1 .. n : i # n => versions'[i] = versions[i]
        <4>1. n \in DOMAIN versions /\ DOMAIN versions = 1 .. n BY <1>v
        <4> HIDE DEF n, S
        <4>2. QED BY <3>2, <4>1
      <3>5. QED BY <1>v, <2>1, <3>1, <3>3, <3>4
    <2>2. CASE d # versions[n].from
      <3> DEFINE w == [from |-> d, policy |-> p]
      <3>1. w.from = d /\ w.policy = p /\ w \in R OBVIOUS
      <3>2. versions' = Append(versions, w) BY <1>1, <2>2
      <3> HIDE DEF w, R
      <3>3. DOMAIN versions' = 1 .. n + 1 /\ versions'[n + 1] = w /\ \A i \in 1 .. n : versions'[i] = versions[i]
        BY <1>v, <3>1, <3>2
      <3>4. 1 .. n \subseteq 1 .. n + 1 /\ \A i \in 1 .. n + 1 : i \in 1 .. n \/ i = n + 1 BY <1>v
      <3>5. QED BY <2>2, <3>1, <3>3, <3>4
    <2>3. QED BY <2>1, <2>2
  <1>3. versions'[1] = versions[1]
    <2>1. 1 \in 1 .. n BY <1>v
    <2> HIDE DEF n, S, R
    <2>2. d = versions[n].from => n # 1 BY <1>2
    <2>3. \A i \in 1 .. n : i # n \/ d # versions[n].from => versions'[i] = versions[i] BY <1>2
    <2>4. QED BY <2>1, <2>2, <2>3
  <1>4. ASSUME NEW i \in DOMAIN versions' PROVE versions'[i].policy.cycle = versions[1].policy.cycle
    <2>1. \A j \in 1 .. n : versions[j].policy.cycle = versions[1].policy.cycle BY <1>t, <1>v DEF Uniform
    <2>2. p.cycle = versions[1].policy.cycle BY <1>1, <1>v, <2>1
    <2>3. CASE d = versions[n].from BY <1>2, <1>4, <2>1, <2>2, <2>3
    <2>4. CASE d # versions[n].from BY <1>2, <1>4, <2>1, <2>2, <2>4
    <2>5. QED BY <2>3, <2>4
  <1>5. Uniform' BY <1>t, <1>3, <1>4 DEF Uniform
  <1>6. Kind' = Kind /\ Base' = Base /\ CycleDays' = CycleDays /\ Wait' = Wait
    BY <1>1, <1>3 DEF Kind, Base, CycleDays, Wait
  <1>7. ASSUME NEW i \in DOMAIN versions, versions[i].from <= today
        PROVE  i \in DOMAIN versions' /\ versions'[i] = versions[i]
    <2>1. i \in 1 .. n /\ (d = versions[n].from => i # n) BY <1>t, <1>v, <1>1, <1>7
    <2>2. QED BY <1>2, <2>1
  <1>8. WaitKept' => WaitKept
    <2>1. SUFFICES ASSUME WaitKept', NEW i \in DOMAIN versions, versions[i].from <= today
                   PROVE  versions[i].policy.minServiceMonths = versions[1].policy.minServiceMonths
      BY DEF WaitKept
    <2>2. i \in DOMAIN versions' /\ versions'[i] = versions[i] BY <1>7, <2>1
    <2>3. today' = today BY <1>1
    <2>4. QED BY <1>3, <2>1, <2>2, <2>3 DEF WaitKept
  <1>9. ASSUME NEW c \in Int, c <= today PROVE Policy(c)' = Policy(c)
    <2> DEFINE T == {i \in DOMAIN versions' : versions'[i].from <= c}
    <2>1. \A i \in DOMAIN versions' : versions'[i].from <= c => i \in DOMAIN versions /\ versions'[i] = versions[i]
      <3>1. TAKE i \in DOMAIN versions'
      <3>2. HAVE versions'[i].from <= c
      <3>3. d > c BY <1>t, <1>1, <1>9
      <3>4. CASE d = versions[n].from
        <4>1. i \in 1 .. n /\ i # n BY <1>2, <3>1, <3>2, <3>3, <3>4
        <4>2. QED BY <1>2, <1>v, <4>1
      <3>5. CASE d # versions[n].from
        <4>1. i \in 1 .. n BY <1>2, <3>1, <3>2, <3>3, <3>5
        <4>2. QED BY <1>2, <1>v, <3>5, <4>1
      <3>6. QED BY <3>4, <3>5
    <2>2. \A i \in DOMAIN versions : versions[i].from <= c => i \in DOMAIN versions' /\ versions'[i] = versions[i]
      <3>1. TAKE i \in DOMAIN versions
      <3>2. HAVE versions[i].from <= c
      <3>3. versions[i].from \in Int
        <4>1. versions[i] \in R
          <5> HIDE DEF R
          <5>1. QED BY <1>v
        <4>2. QED BY <4>1
      <3>4. versions[i].from <= today BY <1>t, <1>9, <3>2, <3>3
      <3>5. QED BY <1>7, <3>4
    <2>3. T = S(c) BY <2>1, <2>2
    <2>4. S(c) # {} => Max(S(c)) \in S(c) BY <1>t, VersionIndex
    <2>5. S(c) # {} => versions'[Max(S(c))] = versions[Max(S(c))] BY <2>2, <2>4
    <2>6. Policy(c) = versions[IF S(c) = {} THEN 1 ELSE Max(S(c))].policy BY DEF Policy, VersionOn
    <2>7. Policy(c)' = versions'[IF T = {} THEN 1 ELSE Max(T)].policy BY DEF Policy, VersionOn
    <2> HIDE DEF T, S
    <2>8. QED BY <1>3, <2>3, <2>5, <2>6, <2>7
  <1>10. today \in Int /\ today' \in Int /\ today <= today' BY <1>t, <1>1
  <1>11. QED BY <1>5, <1>6, <1>8, <1>9, <1>10 DEF Undisturbed

LEMMA QuietKept ==
  ASSUME AllowInv, UNCHANGED <<start, versions>>, today' \in Int, today <= today'
  PROVE  Undisturbed /\ Uniform' /\ Kind' = Kind
  <1>1. today \in Int BY DEF AllowInv
  <1>2. Uniform' /\ Kind' = Kind /\ Base' = Base /\ CycleDays' = CycleDays /\ Wait' = Wait
    BY DEF AllowInv, Uniform, Kind, Base, CycleDays, Wait
  <1>3. ASSUME WaitKept' PROVE WaitKept
    <2>1. \A i \in DOMAIN versions : versions[i].from \in Int
      <3> DEFINE R == [from : Int, policy : Policies]
      <3>1. versions \in Seq(R) BY DEF AllowInv, PayInv, EngineTypes
      <3> HIDE DEF R
      <3>2. \A i \in DOMAIN versions : versions[i] \in R BY <3>1
      <3>3. QED BY <3>2 DEF R
    <2>2. QED BY <1>1, <1>3, <2>1 DEF WaitKept
  <1>4. \A c : Policy(c)' = Policy(c) BY DEF Policy, VersionOn
  <1>5. QED BY <1>1, <1>2, <1>3, <1>4 DEF Undisturbed

LEMMA InitAllow == Init => AllowInv
  <1>1. SUFFICES ASSUME Init PROVE AllowInv OBVIOUS
  <1>2. PayInv BY <1>1, InitPay
  <1>3. today \in Nat BY <1>1 DEF Init
  <1>4. PICK p \in Policies : versions = <<[from |-> 0, policy |-> p]>> BY <1>1 DEF Init
  <1>5. Uniform BY <1>4 DEF Uniform
  <1>6. Listed(ledger) /\ Lapsed(ledger) BY <1>1 DEF Init, Listed, Lapsed
  <1>7. QED BY <1>2, <1>3, <1>5, <1>6 DEF AllowInv

\* An entry of somebody's leave or of a batch says nothing of allotments.
LEMMA OtherEntry ==
  ASSUME NEW k, NEW r, NEW ty, NEW u, NEW on, NEW c, ty \notin {"ALLOTMENT", "EXPIRY"},
         k \in {"USE", "RET", "OPEN", "REV"}, k = "USE" => c = KeyOf(Base, CycleDays, on)
  PROVE  Regular(Entry(<<k, r>>, ty, u, on, c))
  <1> DEFINE e == Entry(<<k, r>>, ty, u, on, c)
  <1>1. e.key = <<k, r>> /\ e.type = ty /\ e.on = on /\ e.cycle = c BY DEF Entry
  <1>2. \A b : e.key # <<"ALLOT", b>> /\ e.key # <<"EXP", b>> BY <1>1
  <1>3. \A b : e.key = <<"USE", b>> => k = "USE" BY <1>1
  <1> HIDE DEF e
  <1>4. QED BY <1>1, <1>2, <1>3 DEF Regular, e

LEMMA StepAllow == AllowInv /\ [Next]_vars => AllowInv'
  <1>1. SUFFICES ASSUME AllowInv, [Next]_vars PROVE AllowInv' OBVIOUS
  <1>t. PayInv /\ EngineTypes /\ today \in Nat /\ Uniform /\ Ints(ledger) BY <1>1 DEF AllowInv, PayInv, EngineTypes
  <1>p. PayInv' BY <1>1, <1>t, StepPay
  <1>d. \A d \in Dates \cup Cutovers : d \in Int BY DateAssumption
  <1>e. \A k, ty, u, on, c : LET e == Entry(k, ty, u, on, c)
                             IN e.key = k /\ e.type = ty /\ e.units = u /\ e.on = on /\ e.cycle = c
    BY DEF Entry
  <1>n. Sound(Now) /\ Now.ledger = ledger /\ Sound(Settled) /\ Ints(Settled.ledger) BY <1>t, NowSound
  <1>k. Kind # "ACCRUING" => /\ Listed(ledger) /\ Listed(Settled.ledger)
                             /\ Lapsed(ledger) => Lapsed(Settled.ledger)
    BY <1>1, <1>t, SettledKeeps DEF AllowInv
  \* Steps that leave the versions and the date alone, and those that leave the ledger alone.
  <1>q. ASSUME Undisturbed, Uniform', Kind' = Kind, today' \in Nat, ledger' = ledger, NoBatchPosted' => NoBatchPosted
        PROVE  AllowInv'
    <2>1. Kind # "ACCRUING" => Listed(ledger)' /\ (Lapsed(ledger) => Lapsed(ledger)')
      BY <1>k, <1>q, BookKept
    <2>2. QED BY <1>1, <1>p, <1>q, <2>1 DEF AllowInv
  <1>w. ASSUME UNCHANGED <<today, start, versions>>, NEW s, Sound(s), Commit(s),
               Kind # "ACCRUING" => Listed(s.ledger) /\ (NoBatchPosted' => Lapsed(s.ledger))
        PROVE  AllowInv'
    <2>1. today' \in Nat /\ today' \in Int /\ today <= today' BY <1>t, <1>w
    <2>2. Undisturbed /\ Uniform' /\ Kind' = Kind BY <1>1, <1>w, <2>1, QuietKept
    <2>3. ledger' = s.ledger BY <1>w DEF Commit
    <2>4. Kind # "ACCRUING" => Listed(ledger)' /\ (Lapsed(s.ledger) => Lapsed(ledger)')
      BY <1>w, <2>2, <2>3, BookKept
    <2>5. QED BY <1>p, <1>w, <2>1, <2>2, <2>4 DEF AllowInv
  <1>2. CASE UNCHANGED vars
    <2>1. UNCHANGED <<today, start, versions>> /\ ledger' = ledger /\ batches' = batches BY <1>2 DEF vars
    <2>2. today' \in Nat /\ today' \in Int /\ today <= today' BY <1>t, <2>1
    <2>3. Undisturbed /\ Uniform' /\ Kind' = Kind BY <1>1, <2>1, <2>2, QuietKept
    <2>4. QED BY <1>q, <2>1, <2>2, <2>3 DEF NoBatchPosted
  <1>3. CASE Process
    <2>1. Commit(Settled) /\ UNCHANGED <<today, start, versions>> /\ batches' = batches BY <1>3 DEF Process
    <2>2. Kind # "ACCRUING" => (NoBatchPosted' => Lapsed(Settled.ledger))
      BY <1>1, <1>k, <2>1 DEF AllowInv, NoBatchPosted
    <2>3. QED BY <1>k, <1>n, <1>w, <2>1, <2>2
  <1>4. ASSUME NEW r, NEW d \in Dates, Book(r, d) PROVE AllowInv'
    <2> DEFINE e == Entry(<<"USE", r>>, "USAGE", -1, d, CycleKey(d))
    <2>1. /\ d > today /\ Commit(Posted(Settled, e))
          /\ UNCHANGED <<today, start, versions>> /\ batches' = batches
      BY <1>4 DEF Book
    <2>2. d \in Int /\ -1 \in Int BY <1>d
    <2>3. e.units \in Int /\ e.on \in Int /\ e.type # "EXPIRY" /\ e.cycle = CycleKey(d) BY <1>e, <2>2
    <2>4. CycleKey(d) = KeyOf(Base, CycleDays, d) /\ d <= CycleEnd(CycleKey(d)) /\ CycleEnd(CycleKey(d)) \in Int
      BY <1>t, <2>2, CycleHolds, DateTypes
    <2>5. Regular(e) BY <2>4, OtherEntry
    <2> HIDE DEF e
    <2>6. Sound(Posted(Settled, e)) BY <1>n, <2>3, PostedIs
    <2>7. ASSUME Kind # "ACCRUING" PROVE Listed(Posted(Settled, e).ledger) /\ (NoBatchPosted' => Lapsed(Posted(Settled, e).ledger))
      <3>1. Listed(Posted(Settled, e).ledger) BY <1>k, <1>n, <2>3, <2>5, <2>7, PostListed
      <3>2. ASSUME NoBatchPosted' PROVE Lapsed(Settled.ledger)
        BY <1>1, <1>k, <2>1, <2>7, <3>2 DEF AllowInv, NoBatchPosted
      <3>3. ASSUME NEW f \in Settled.ledger, f.type = "EXPIRY" PROVE f.cycle # e.cycle
        <4>1. PICK b \in Int : f.key = <<"EXP", b>> BY <1>k, <2>7, <3>3 DEF Listed, Regular
        <4>2. f.cycle = b /\ CycleEnd(b) < today BY <1>k, <2>7, <3>3, <4>1 DEF Listed, Regular, ExpiryAt
        <4>3. CycleEnd(b) \in Int BY <1>t, DateTypes
        <4>4. CycleEnd(b) # CycleEnd(CycleKey(d)) BY <1>t, <2>1, <2>2, <2>4, <4>2, <4>3
        <4>5. QED BY <2>3, <4>2, <4>4
      <3>4. QED BY <1>n, <2>3, <3>1, <3>2, <3>3, PostLapsed
    <2>8. QED BY <1>w, <2>1, <2>6, <2>7
  <1>5. ASSUME NEW r, Cancel(r) PROVE AllowInv'
    <2>1. PICK e \in ledger : /\ e.key = <<"USE", r>> /\ e.on > today
                              /\ Commit(Posted(Now, Entry(<<"RET", r>>, "USAGE_REVERSAL", - e.units, e.on, e.cycle)))
      BY <1>5 DEF Cancel
    <2>2. UNCHANGED <<today, start, versions>> /\ batches' = batches BY <1>5 DEF Cancel
    <2> DEFINE x == Entry(<<"RET", r>>, "USAGE_REVERSAL", - e.units, e.on, e.cycle)
    <2>3. - e.units \in Int /\ e.on \in Int BY <1>t DEF Ints
    <2>4. x.units \in Int /\ x.on \in Int /\ x.type # "EXPIRY" /\ x.cycle = e.cycle BY <1>e, <2>3
    <2>5. Regular(x) BY OtherEntry
    <2>6. Commit(Posted(Now, x)) BY <2>1
    <2> HIDE DEF x
    <2>7. Sound(Posted(Now, x)) BY <1>n, <2>4, PostedIs
    <2>8. ASSUME Kind # "ACCRUING" PROVE Listed(Posted(Now, x).ledger) /\ (NoBatchPosted' => Lapsed(Posted(Now, x).ledger))
      <3>1. Listed(Posted(Now, x).ledger) BY <1>k, <1>n, <2>4, <2>5, <2>8, PostListed
      <3>2. ASSUME NoBatchPosted' PROVE Lapsed(ledger)
        BY <1>1, <2>2, <2>8, <3>2 DEF AllowInv, NoBatchPosted
      <3>3. e.cycle = CycleKey(e.on) /\ e.on <= CycleEnd(CycleKey(e.on)) /\ CycleEnd(CycleKey(e.on)) \in Int
        <4>1. e.cycle = KeyOf(Base, CycleDays, e.on) BY <1>k, <2>1, <2>8 DEF Listed, Regular
        <4>2. QED BY <1>t, <2>3, <4>1, CycleHolds, DateTypes
      <3>4. ASSUME NEW f \in ledger, f.type = "EXPIRY" PROVE f.cycle # x.cycle
        <4>1. PICK b \in Int : f.key = <<"EXP", b>> BY <1>k, <2>8, <3>4 DEF Listed, Regular
        <4>2. f.cycle = b /\ CycleEnd(b) < today BY <1>k, <2>8, <3>4, <4>1 DEF Listed, Regular, ExpiryAt
        <4>3. CycleEnd(b) \in Int BY <1>t, DateTypes
        <4>4. CycleEnd(b) # CycleEnd(e.cycle) BY <1>t, <2>1, <2>3, <3>3, <4>2, <4>3
        <4>5. QED BY <2>4, <4>2, <4>4
      <3>5. QED BY <1>n, <2>4, <3>1, <3>2, <3>4, PostLapsed
    <2>9. QED BY <1>w, <2>2, <2>6, <2>7, <2>8
  <1>6. ASSUME NEW cut \in Cutovers, NEW figure \in Figures, CreateBatch(cut, figure) PROVE AllowInv'
    <2>1. /\ UNCHANGED <<today, start, versions>> /\ ledger' = ledger
          /\ batches' = Append(batches, [status |-> "DRAFT", cut |-> cut, figure |-> figure])
      BY <1>6 DEF CreateBatch
    <2>2. today' \in Nat /\ today' \in Int /\ today <= today' BY <1>t, <2>1
    <2>3. Undisturbed /\ Uniform' /\ Kind' = Kind BY <1>1, <2>1, <2>2, QuietKept
    <2>4. NoBatchPosted' => NoBatchPosted
      <3> DEFINE B == [status : {"DRAFT", "POSTED", "REVERSED"}, cut : Int, figure : Int]
                 b == [status |-> "DRAFT", cut |-> cut, figure |-> figure]
      <3>1. batches \in Seq(B) BY <1>t DEF EngineTypes
      <3>2. batches' = Append(batches, b) BY <2>1
      <3> HIDE DEF B, b
      <3>3. \A i \in DOMAIN batches : i \in DOMAIN batches' /\ batches'[i] = batches[i] BY <3>1, <3>2
      <3>4. QED BY <3>3 DEF NoBatchPosted
    <2>5. QED BY <1>q, <2>1, <2>2, <2>3, <2>4
  <1>b. ASSUME NEW b \in DOMAIN batches, NEW st \in {"POSTED", "REVERSED"}, batches' = [batches EXCEPT ![b].status = st]
        PROVE  ~NoBatchPosted'
    <2> DEFINE B == [status : {"DRAFT", "POSTED", "REVERSED"}, cut : Int, figure : Int]
               x == [batches[b] EXCEPT !.status = st]
    <2>1. batches[b] \in B
      <3>1. batches \in Seq(B) BY <1>t DEF EngineTypes
      <3> HIDE DEF B
      <3>2. QED BY <3>1
    <2>2. x.status = st BY <2>1
    <2>3. batches' = [batches EXCEPT ![b] = x] BY <1>b
    <2> HIDE DEF x
    <2>4. b \in DOMAIN batches' /\ batches'[b] = x BY <2>3
    <2>5. QED BY <2>2, <2>4 DEF NoBatchPosted
  <1>7. ASSUME NEW b \in DOMAIN batches, PostBatch(b) PROVE AllowInv'
    <2> DEFINE cut == batches[b].cut
               figure == batches[b].figure
    <2>1. cut \in Int /\ figure \in Int
      <3> DEFINE B == [status : {"DRAFT", "POSTED", "REVERSED"}, cut : Int, figure : Int]
      <3>1. batches \in Seq(B) BY <1>t DEF EngineTypes
      <3> HIDE DEF B
      <3>2. batches[b] \in B BY <3>1
      <3>3. QED BY <3>2 DEF B
    <2>2. /\ UNCHANGED <<today, start, versions>> /\ batches' = [batches EXCEPT ![b].status = "POSTED"]
          /\ Commit(IF Kind = "ACCRUING" THEN SetBalance(b, cut, figure) ELSE SetUsed(b, cut, figure))
      BY <1>7 DEF PostBatch
    <2>3. ~NoBatchPosted' BY <1>b, <2>2
    <2> HIDE DEF cut, figure
    <2>4. CASE Kind = "ACCRUING"
      <3>1. today' \in Nat /\ today' \in Int /\ today <= today' BY <1>t, <2>2
      <3>2. Uniform' /\ Kind' = Kind BY <1>1, <2>2, <3>1, QuietKept
      <3>3. QED BY <1>p, <2>4, <3>1, <3>2 DEF AllowInv
    <2>5. CASE Kind # "ACCRUING"
      <3> DEFINE rows == {e \in Settled.ledger : e.cycle = CycleKey(cut) /\ e.on <= cut}
                 given == {e \in rows : e.type = "ALLOTMENT"}
                 u == Total(given) - figure - Total(rows)
                 e == Entry(<<"OPEN", b>>, "OPENING_USAGE", u, cut, CycleKey(cut))
      <3>1. u \in Int
        <4>1. rows \in SUBSET Settled.ledger /\ given \in SUBSET Settled.ledger OBVIOUS
        <4> HIDE DEF rows, given
        <4>2. Total(rows) \in Int /\ Total(given) \in Int BY <1>n, <4>1, SubSums
        <4>3. QED BY <2>1, <4>2
      <3>2. Commit(Posted(Settled, e)) BY <2>2, <2>5 DEF SetUsed
      <3> HIDE DEF u
      <3>3. e.units \in Int /\ e.on \in Int BY <1>e, <2>1, <3>1
      <3>4. Regular(e) BY OtherEntry
      <3> HIDE DEF e
      <3>5. Sound(Posted(Settled, e)) BY <1>n, <3>3, PostedIs
      <3>6. Listed(Posted(Settled, e).ledger) BY <1>k, <1>n, <2>5, <3>3, <3>4, PostListed
      <3>7. QED BY <1>w, <2>2, <2>3, <3>2, <3>5, <3>6
    <2>6. QED BY <2>4, <2>5
  <1>8. ASSUME NEW b \in DOMAIN batches, ReverseBatch(b) PROVE AllowInv'
    <2> DEFINE ty(e) == IF e.type = "OPENING_USAGE" THEN "USAGE_REVERSAL" ELSE "ADJUSTMENT_REVERSAL"
    <2>1. PICK e \in ledger : Commit(Posted(Now, Entry(<<"REV", b>>, ty(e), - e.units, e.on, e.cycle)))
      BY <1>8 DEF ReverseBatch
    <2>2. UNCHANGED <<today, start, versions>> /\ batches' = [batches EXCEPT ![b].status = "REVERSED"]
      BY <1>8 DEF ReverseBatch
    <2>3. ~NoBatchPosted' BY <1>b, <2>2
    <2>4. - e.units \in Int /\ e.on \in Int /\ ty(e) \notin {"ALLOTMENT", "EXPIRY"} BY <1>t DEF Ints
    <2> HIDE DEF ty
    <2> DEFINE x == Entry(<<"REV", b>>, ty(e), - e.units, e.on, e.cycle)
    <2>5. x.units \in Int /\ x.on \in Int BY <1>e, <2>4
    <2>6. Regular(x) BY <2>4, OtherEntry
    <2>7. Commit(Posted(Now, x)) BY <2>1
    <2> HIDE DEF x
    <2>8. Sound(Posted(Now, x)) BY <1>n, <2>5, PostedIs
    <2>9. Kind # "ACCRUING" => Listed(Posted(Now, x).ledger) BY <1>k, <1>n, <2>5, <2>6, PostListed
    <2>10. QED BY <1>w, <2>2, <2>3, <2>7, <2>8, <2>9
  <1>9. ASSUME NEW b \in DOMAIN batches, DeleteBatch(b) PROVE AllowInv'
    <2>1. /\ UNCHANGED <<today, start, versions>> /\ ledger' = ledger
          /\ b = Len(batches) /\ batches[b].status = "DRAFT" /\ batches' = SubSeq(batches, 1, b - 1)
      BY <1>9 DEF DeleteBatch
    <2>2. today' \in Nat /\ today' \in Int /\ today <= today' BY <1>t, <2>1
    <2>3. Undisturbed /\ Uniform' /\ Kind' = Kind BY <1>1, <2>1, <2>2, QuietKept
    <2>4. NoBatchPosted' => NoBatchPosted
      <3> DEFINE B == [status : {"DRAFT", "POSTED", "REVERSED"}, cut : Int, figure : Int]
      <3>1. batches \in Seq(B) BY <1>t DEF EngineTypes
      <3> HIDE DEF B
      <3>2. \A i \in DOMAIN batches : i = b \/ (i \in DOMAIN batches' /\ batches'[i] = batches[i]) BY <2>1, <3>1
      <3>3. QED BY <2>1, <3>2 DEF NoBatchPosted
    <2>5. QED BY <1>q, <2>1, <2>2, <2>3, <2>4
  <1>10. ASSUME NEW p \in Policies, NEW d \in Dates, UpdatePolicy(p, d) PROVE AllowInv'
    <2>1. today' = today /\ ledger' = ledger /\ batches' = batches BY <1>10 DEF UpdatePolicy
    <2>2. Undisturbed /\ Uniform' /\ Kind' = Kind BY <1>1, <1>10, <1>d, VersionsKept
    <2>3. QED BY <1>q, <1>t, <2>1, <2>2 DEF NoBatchPosted
  <1>11. ASSUME NEW d \in Dates, Leave(d) PROVE AllowInv'
    <2>1. UNCHANGED <<today, start, versions>> /\ ledger' = ledger /\ batches' = batches BY <1>11 DEF Leave
    <2>2. today' \in Nat /\ today' \in Int /\ today <= today' BY <1>t, <2>1
    <2>3. Undisturbed /\ Uniform' /\ Kind' = Kind BY <1>1, <2>1, <2>2, QuietKept
    <2>4. QED BY <1>q, <2>1, <2>2, <2>3 DEF NoBatchPosted
  <1>12. CASE NextDay
    <2>1. today' = today + 1 /\ UNCHANGED <<start, versions>> /\ ledger' = ledger /\ batches' = batches BY <1>12 DEF NextDay
    <2>2. today' \in Nat /\ today' \in Int /\ today <= today' BY <1>t, <2>1
    <2>3. Undisturbed /\ Uniform' /\ Kind' = Kind BY <1>1, <2>1, <2>2, QuietKept
    <2>4. QED BY <1>q, <2>1, <2>2, <2>3 DEF NoBatchPosted
  <1>13. QED BY <1>1, <1>2, <1>3, <1>4, <1>5, <1>6, <1>7, <1>8, <1>9, <1>10, <1>11, <1>12
             DEF Next, LeaveUsed, TakeOn, Settings

-----------------------------------------------------------------------------
\* A greater number has no smaller quotient.
LEMMA Quotients ==
  ASSUME NEW n \in Nat \ {0}, NEW x \in Int, NEW y \in Int, x <= y
  PROVE  x \div n \in Int /\ y \div n \in Int /\ x \div n <= y \div n
  <1> DEFINE a == x \div n
             b == y \div n
  <1>1. /\ a \in Int /\ b \in Int /\ a * n \in Int /\ b * n \in Int
        /\ a * n <= x /\ x < a * n + n /\ b * n <= y /\ y < b * n + n
    <2>1. \A z \in Int : /\ z \div n \in Int /\ z % n \in Int /\ (z \div n) * n \in Int
                         /\ z = (z \div n) * n + (z % n) /\ 0 <= z % n /\ z % n < n
      OBVIOUS
    <2>2. \A z \in Int : (z \div n) * n <= z /\ z < (z \div n) * n + n BY <2>1
    <2>3. QED BY <2>1, <2>2
  <1> HIDE DEF a, b
  <1>2. ASSUME b < a PROVE FALSE
    <2>1. PICK k \in Nat : a = b + 1 + k BY <1>1, <1>2
    <2>2. a * n = b * n + n + k * n /\ k * n \in Nat BY <1>1, <2>1
    <2>3. QED BY <1>1, <2>2
  <1>3. a <= b BY <1>1, <1>2
  <1>4. QED BY <1>1, <1>3 DEF a, b

\* The loop comes to every cycle with a day it looks at.
LEMMA CycleVisited ==
  ASSUME EngineTypes, Uniform, Kind # "ACCRUING", NEW d \in Int, LoopFrom <= d, d <= EndLimit
  PROVE  \E i \in 1 .. Len(Cycles) : Cycles[i] = CycleKey(d)
  <1> DEFINE n == CycleDays
             first == CycleKey(LoopFrom)
             a == (LoopFrom - Base) \div n
             b == (d - Base) \div n
             k == b - a
  <1>1. n \in Nat \ {0} /\ LoopFrom \in Int /\ EndLimit \in Int /\ Base \in Int
    <2>1. n \in Nat \ {0} BY Numbers
    <2>2. LoopFrom \in Int BY AllowanceLoop
    <2>3. EndLimit \in Int /\ Base \in Int BY DateTypes DEF EngineTypes, Base
    <2>4. QED BY <2>1, <2>2, <2>3
  <1>2. a \in Int /\ b \in Int /\ a <= b BY <1>1, Quotients
  <1>3. first = Base + a * n /\ first \in Int /\ first <= LoopFrom BY <1>1, CycleHolds DEF KeyOf
  <1>4. CycleKey(d) = Base + b * n /\ CycleKey(d) \in Int /\ CycleKey(d) <= d BY CycleHolds DEF KeyOf
  <1> HIDE DEF first, a, b, n
  <1>5. k \in Nat /\ k * n \in Int /\ CycleKey(d) = first + k * n
    <2>1. k \in Nat BY <1>2
    <2>2. b * n = a * n + k * n BY <1>1, <1>2
    <2>3. a * n \in Int /\ k * n \in Int BY <1>1, <1>2
    <2>4. QED BY <1>1, <1>3, <1>4, <2>1, <2>2, <2>3
  <1> HIDE DEF k
  <1>6. EndLimit >= first /\ EndLimit - first \in Int /\ k * n <= EndLimit - first BY <1>1, <1>3, <1>4, <1>5
  <1>7. k <= (EndLimit - first) \div n /\ (EndLimit - first) \div n \in Int
    <2>1. (k * n) \div n = k BY <1>1, <1>5
    <2>2. QED BY <1>1, <1>5, <1>6, <2>1, Quotients
  <1> DEFINE m == (EndLimit - first) \div n + 1
  <1>8. Cycles = [i \in 1 .. m |-> first + (i - 1) * n] /\ m \in Nat
    <2>1. ~(EndLimit < first) BY <1>1, <1>3, <1>6
    <2>2. Cycles = Every(n, first, EndLimit) BY DEF Cycles, first, n
    <2>3. m \in Nat BY <1>5, <1>7
    <2>4. QED BY <2>1, <2>2, <2>3 DEF Every
  <1>9. k + 1 \in 1 .. m /\ (k + 1) - 1 = k BY <1>5, <1>7
  <1> HIDE DEF m
  <1>10. Len(Cycles) = m BY <1>8
  <1>11. Cycles[k + 1] = first + k * n BY <1>8, <1>9
  <1>12. QED BY <1>5, <1>9, <1>10, <1>11

\* In an up-to-date ledger no turn of the loop has anything to do.
LEMMA NothingDue ==
  ASSUME AllowInv, Kind # "ACCRUING", UpToDate, NEW i \in 1 .. Len(Cycles)
  PROVE  Allot(Now, Cycles[i], EligibleFrom) = Now
  <1> DEFINE N == Len(Cycles)
  <1>1. EngineTypes /\ PayInv /\ Listed(ledger) BY DEF AllowInv, PayInv
  <1>2. Sound(Now) /\ Now.ledger = ledger BY <1>1, NowSound
  <1>3. EligibleFrom \in Int /\ Cycles \in Seq(Int) /\ N \in Nat
        /\ AllotEach(Now, EligibleFrom, Cycles) = Now
    BY <1>1, AllowanceLoop DEF UpToDate, Settled
  <1>4. PICK g : Run("allot", EligibleFrom, Now, Cycles, g) /\ g[N] = Now BY <1>3, Loops
  <1>5. WaitKept => EligibleFrom = Wait BY <1>1, WaitIs
  <1>6. \A j \in 0 .. N : Sound(g[j]) /\ g[j].additions = Now.additions
    <2>1. EngineTypes /\ Sound(Now) /\ Listed(Now.ledger) BY <1>1, <1>2
    <2>2. EligibleFrom \in Int /\ Cycles \in Seq(Int) /\ Run("allot", EligibleFrom, Now, Cycles, g) BY <1>3, <1>4
    <2>3. \A j \in 0 .. Len(Cycles) : /\ Sound(g[j]) /\ Listed(g[j].ledger)
                                      /\ Lapsed(Now.ledger) => Lapsed(g[j].ledger)
                                      /\ g[j].additions = Now.additions
      BY <1>5, <2>1, <2>2, LoopKeeps
    <2>4. QED BY <2>3
  <1>7. /\ g[0] = Now
        /\ \A j \in 1 .. N : g[j] = Allot(g[j - 1], Cycles[j], EligibleFrom)
        /\ \A j \in 0 .. N, h \in 0 .. N : h <= j => Step(g[h], g[j])
    BY <1>1, <1>2, <1>3, <1>4, RunSteps DEF Turn
  <1>8. ASSUME NEW j \in 0 .. N PROVE g[j] = Now
    <2>1. 0 \in 0 .. N /\ N \in 0 .. N /\ 0 <= j /\ j <= N BY <1>3
    <2> HIDE DEF N
    <2>2. Step(g[0], g[j]) /\ Step(g[j], g[N]) BY <1>7, <2>1
    <2>3. Now.ledger \subseteq g[j].ledger /\ g[j].ledger \subseteq Now.ledger BY <1>4, <1>7, <2>2 DEF Step
    <2>4. g[j].ledger = Now.ledger /\ g[j].additions = Now.additions BY <1>6, <2>3
    <2>5. g[j] = [ledger |-> g[j].ledger, additions |-> g[j].additions]
          /\ Now = [ledger |-> Now.ledger, additions |-> Now.additions]
      BY <1>2, <1>6 DEF Sound
    <2>6. QED BY <2>4, <2>5
  <1>9. i \in 0 .. N /\ i - 1 \in 0 .. N BY <1>3
  <1>10. QED BY <1>7, <1>8, <1>9

\* So a cycle with a day of eligibility has its allotment and, when it is over, nothing left.
LEMMA CycleSettled ==
  ASSUME AllowInv, Kind # "ACCRUING", WaitKept, NEW c \in Int, Allot(Now, c, Wait) = Now,
         Larger(c, Wait) <= EndLimit, Larger(c, Wait) <= CycleEnd(c)
  PROVE  /\ Policy(c).perDay > 0 => <<"ALLOT", c>> \in Keys(ledger)
         /\ CycleEnd(c) < today /\ NoBatchPosted => Remaining(ledger, c) <= 0
  <1> DEFINE p == Policy(c)
             on == Larger(c, Wait)
             units == p.perDay * (IF p.prorate THEN CycleEnd(c) - on + 1 ELSE CycleEnd(c) - c + 1)
             a == Entry(<<"ALLOT", c>>, "ALLOTMENT", units, on, c)
             given == IF p.perDay > 0 THEN Posted(Now, a) ELSE Now
             left == Remaining(given.ledger, c)
             z == Entry(<<"EXP", c>>, "EXPIRY", - left, CycleEnd(c), c)
             over == CycleEnd(c) < today /\ left > 0
  <1>1. EngineTypes /\ PayInv /\ Listed(ledger) /\ (NoBatchPosted => Lapsed(ledger)) BY DEF AllowInv, PayInv
  <1>2. Sound(Now) /\ Now.ledger = ledger BY <1>1, NowSound
  <1>3. today \in Int /\ EndLimit \in Int /\ CycleEnd(c) \in Int /\ Wait \in Int
    <2>1. today \in Int /\ start \in Int BY <1>1 DEF EngineTypes
    <2> DEFINE k == versions[1].policy.minServiceMonths
    <2>2. k \in Nat /\ MonthDays \in Nat \ {0} BY <1>1, <2>1, VersionTypes, Numbers
    <2> HIDE DEF k
    <2>3. k * MonthDays \in Int BY <2>2
    <2>4. QED BY <1>1, <2>1, <2>3, DateTypes DEF Wait, k
  <1>4. on \in Int BY <1>3 DEF Larger
  <1>5. units \in Int
    <2>1. p \in Policies /\ p.perDay \in Nat BY <1>1, VersionTypes, Numbers
    <2> HIDE DEF p, on
    <2>2. QED BY <1>3, <1>4, <2>1
  <1>6. Allot(Now, c, Wait) = IF over THEN Posted(given, z) ELSE given
    <2>1. ~(on > EndLimit \/ on > CycleEnd(c)) BY <1>3, <1>4
    <2>2. QED BY <2>1 DEF Allot
  <1>7. a.key = <<"ALLOT", c>> /\ a.units \in Int /\ a.on \in Int BY <1>4, <1>5 DEF Entry
  <1> HIDE DEF a
  <1>8. Sound(given) /\ ledger \subseteq given.ledger /\ (p.perDay > 0 => <<"ALLOT", c>> \in Keys(given.ledger))
    BY <1>2, <1>7, PostedIs
  <1> HIDE DEF given
  <1>9. left \in Int BY <1>8, LedgerFigures DEF Sound
  <1>10. z.key = <<"EXP", c>> /\ z.units \in Int /\ z.on \in Int BY <1>3, <1>9 DEF Entry
  <1> HIDE DEF left, z
  <1>11. given.ledger \subseteq Allot(Now, c, Wait).ledger
         /\ (over => <<"EXP", c>> \in Keys(Allot(Now, c, Wait).ledger))
    BY <1>6, <1>8, <1>10, PostedIs
  <1>12. given.ledger = ledger /\ (over => <<"EXP", c>> \in Keys(ledger)) BY <1>2, <1>8, <1>11
  <1>13. ASSUME CycleEnd(c) < today, NoBatchPosted PROVE Remaining(ledger, c) <= 0
    <2>1. CASE ~over
      <3>1. Remaining(ledger, c) = left /\ ~(left > 0) BY <1>12, <1>13, <2>1 DEF left
      <3>2. QED BY <1>9, <3>1
    <2>2. CASE over
      <3>1. PICK e \in ledger : e.key = <<"EXP", c>> BY <1>12, <2>2 DEF Keys
      <3>2. e.type = "EXPIRY" /\ e.cycle = c BY <1>1, <3>1 DEF Listed, Regular, ExpiryAt
      <3>3. QED BY <1>1, <1>13, <3>2 DEF Lapsed
    <2>3. QED BY <2>1, <2>2
  <1>14. QED BY <1>8, <1>12, <1>13

\* What is allotted in a cycle, and what is left of it.
LEMMA CycleAllotted ==
  ASSUME AllowInv, Kind # "ACCRUING", WaitKept, NEW c \in Int, CycleEnd(c) >= today,
         Policy(c).perDay > 0 => <<"ALLOT", c>> \in Keys(ledger)
  PROVE  Remaining(ledger, c) = Gives(c) + Total({e \in ledger : e.cycle = c /\ e.type \notin {"ALLOTMENT", "EXPIRY"}})
  <1> DEFINE A == {e \in ledger : e.cycle = c /\ e.type = "ALLOTMENT"}
             U == {e \in ledger : e.cycle = c /\ e.type \notin {"ALLOTMENT", "EXPIRY"}}
             M == InCycle(ledger, c)
  <1>1. EngineTypes /\ PayInv /\ Listed(ledger) /\ Ints(ledger) BY DEF AllowInv, PayInv, EngineTypes
  <1>2. today \in Int /\ CycleEnd(c) \in Int BY <1>1, DateTypes DEF EngineTypes
  <1>3. ASSUME NEW e \in ledger, e.cycle = c PROVE e.type # "EXPIRY"
    <2>1. SUFFICES ASSUME e.type = "EXPIRY" PROVE FALSE OBVIOUS
    <2>2. PICK b \in Int : e.key = <<"EXP", b>> BY <1>1, <2>1 DEF Listed, Regular
    <2>3. e.cycle = b /\ CycleEnd(b) < today BY <1>1, <2>2 DEF Listed, Regular, ExpiryAt
    <2>4. QED BY <1>2, <1>3, <2>3
  <1>4. M = U \cup A /\ U \cap A = {} BY <1>3 DEF InCycle
  <1>5. \A e \in A : e.key = <<"ALLOT", c>> /\ AllotmentAt(e, c)
    <2>1. TAKE e \in A
    <2>2. PICK b \in Int : e.key = <<"ALLOT", b>> BY <1>1 DEF Listed, Regular
    <2>3. AllotmentAt(e, b) /\ b = c BY <1>1, <2>2 DEF Listed, Regular, AllotmentAt
    <2>4. QED BY <2>2, <2>3
  <1>6. /\ M \in SUBSET ledger /\ U \in SUBSET ledger BY DEF InCycle
  <1>7. Total(U) = UnitSum(U) /\ Total(M) = UnitSum(M) /\ UnitSum(U) \in Int /\ IsFiniteSet(U)
        /\ \A e \in U : e.units \in Int
    BY <1>1, <1>6, SubSums DEF Ints
  <1>8. UnitSum(M) = Gives(c) + UnitSum(U)
    <2>1. CASE Policy(c).perDay > 0
      <3>1. PICK e \in ledger : e.key = <<"ALLOT", c>> BY <2>1 DEF Keys
      <3>2. AllotmentAt(e, c) /\ e.units \in Int BY <1>1, <3>1 DEF Listed, Regular, Ints
      <3>3. e \in A /\ e.units = Gives(c) BY <3>2 DEF AllotmentAt
      <3>4. A = {e} BY <1>1, <1>5, <3>1, <3>3 DEF Listed
      <3> HIDE DEF A, U, M
      <3>5. UnitSum(U \cup {e}) = UnitSum(U) + e.units BY <1>4, <1>7, <3>2, <3>4, UnitSumAdd
      <3>6. QED BY <1>4, <1>7, <3>2, <3>3, <3>4, <3>5
    <2>2. CASE ~(Policy(c).perDay > 0)
      <3>1. A = {} BY <1>5, <2>2 DEF AllotmentAt
      <3>2. Policy(c).perDay = 0 BY <1>1, <2>2, VersionTypes, Numbers
      <3>3. Gives(c) = 0
        <4> DEFINE x == IF Policy(c).prorate THEN Larger(c, Wait) ELSE c
                   w == CycleEnd(c) - x + 1
        <4>1. Wait \in Int
          <5>1. start \in Int BY <1>1 DEF EngineTypes
          <5> DEFINE k == versions[1].policy.minServiceMonths
          <5>2. k \in Nat /\ MonthDays \in Nat \ {0} BY <1>1, <1>2, VersionTypes, Numbers
          <5> HIDE DEF k
          <5>3. k * MonthDays \in Int BY <5>2
          <5>4. QED BY <5>1, <5>3 DEF Wait, k
        <4>2. x \in Int BY <4>1 DEF Larger
        <4> HIDE DEF x
        <4>3. w \in Int BY <1>2, <4>2
        <4>4. Gives(c) = Policy(c).perDay * w BY DEF Gives, x
        <4> HIDE DEF w
        <4>5. QED BY <3>2, <4>3, <4>4
      <3> HIDE DEF A, U, M
      <3>4. M = U BY <1>4, <3>1
      <3>5. QED BY <1>7, <3>3, <3>4
    <2>3. QED BY <2>1, <2>2
  <1>9. Remaining(ledger, c) = UnitSum(M) BY <1>7, RemainingIs
  <1>10. QED BY <1>7, <1>8, <1>9

\* Every cycle the property speaks of is one the loop came to.
LEMMA AllowInvRight == AllowInv => AllowanceRight
  <1>1. SUFFICES ASSUME AllowInv, Kind = "ALLOWANCE", UpToDate, WaitKept,
                        NEW d \in EligibleFrom .. EndLimit, d >= YearStart(today) - YearDays
                 PROVE  LET c == CycleKey(d)
                        IN IF CycleEnd(c) >= today
                           THEN Remaining(ledger, c) = Gives(c) + Total({e \in ledger : e.cycle = c /\ e.type \notin {"ALLOTMENT", "EXPIRY"}})
                           ELSE NoBatchPosted => Remaining(ledger, c) <= 0
    <2>1. SUFFICES ASSUME AllowInv, Kind = "ALLOWANCE", UpToDate, WaitKept PROVE AllowanceRight BY DEF AllowanceRight
    <2>2. EligibleFrom = Wait BY <2>1, WaitIs DEF AllowInv, PayInv
    <2>3. QED BY <1>1, <2>1, <2>2 DEF AllowanceRight, EligibleFrom, Gives
  <1> DEFINE c == CycleKey(d)
  <1>2. EngineTypes /\ Uniform /\ Kind # "ACCRUING" BY <1>1 DEF AllowInv, PayInv
  <1>3. EligibleFrom = Wait /\ EligibleFrom \in Int /\ EndLimit \in Int /\ today \in Int
    BY <1>1, <1>2, WaitIs, AllowanceLoop, DateTypes DEF EngineTypes
  <1>4. d \in Int /\ EligibleFrom <= d /\ d <= EndLimit BY <1>3
  <1>5. LoopFrom <= d
    <2>1. YearDays \in Nat \ {0} BY Numbers
    <2>2. YearStart(today) \in Int BY <1>3, <2>1 DEF YearStart
    <2>3. QED BY <1>1, <1>3, <1>4, <2>1, <2>2 DEF LoopFrom, Larger
  <1>6. PICK i \in 1 .. Len(Cycles) : Cycles[i] = c BY <1>2, <1>4, <1>5, CycleVisited
  <1>7. Allot(Now, c, Wait) = Now BY <1>1, <1>2, <1>3, <1>6, NothingDue
  <1>8. c \in Int /\ c <= d /\ d <= CycleEnd(c) /\ CycleEnd(c) \in Int BY <1>2, <1>4, CycleHolds, DateTypes
  <1> HIDE DEF c
  <1>9. Larger(c, Wait) <= EndLimit /\ Larger(c, Wait) <= CycleEnd(c) BY <1>3, <1>4, <1>8 DEF Larger
  <1>10. /\ Policy(c).perDay > 0 => <<"ALLOT", c>> \in Keys(ledger)
         /\ CycleEnd(c) < today /\ NoBatchPosted => Remaining(ledger, c) <= 0
    BY <1>1, <1>2, <1>7, <1>8, <1>9, CycleSettled
  <1>11. CASE CycleEnd(c) >= today
    <2>1. Remaining(ledger, c) = Gives(c) + Total({e \in ledger : e.cycle = c /\ e.type \notin {"ALLOTMENT", "EXPIRY"}})
      BY <1>1, <1>2, <1>8, <1>10, <1>11, CycleAllotted
    <2>2. QED BY <1>11, <2>1 DEF c
  <1>12. CASE ~(CycleEnd(c) >= today) BY <1>3, <1>8, <1>10, <1>12 DEF c
  <1>13. QED BY <1>11, <1>12

\* Whatever the policies and however late the ledger is brought up to date: an
\* allowance holds in its own cycle what the policy gives less what was used, and
\* nothing once the cycle is over, unless a batch is posted or the waiting time changed.
THEOREM AllowancesAreRight == Spec => []AllowanceRight
  <1>1. Spec => []AllowInv BY InitAllow, StepAllow, PTL DEF Spec
  <1>2. QED BY <1>1, AllowInvRight, PTL

-----------------------------------------------------------------------------
(***************************************************************************)
(* Dates at equal distances.                                               *)
(***************************************************************************)
LEMMA Divided ==
  ASSUME NEW n \in Nat \ {0}, NEW x \in Int
  PROVE  /\ x \div n \in Int /\ x % n \in Int /\ (x \div n) * n \in Int
         /\ x = (x \div n) * n + (x % n) /\ 0 <= x % n /\ x % n < n
  OBVIOUS

\* A greater multiple is a whole step greater.
LEMMA StepUp ==
  ASSUME NEW n \in Nat \ {0}, NEW a \in Int, NEW b \in Int, a * n < b * n
  PROVE  a < b /\ a * n + n <= b * n
  <1>0. a * n \in Int /\ b * n \in Int OBVIOUS
  <1>1. ASSUME b <= a PROVE FALSE
    <2>1. PICK k \in Nat : a = b + k BY <1>1
    <2>2. a * n = b * n + k * n /\ k * n \in Nat BY <2>1
    <2>3. QED BY <1>0, <2>2
  <1>2. a < b BY <1>1
  <1>3. PICK k \in Nat : b = a + 1 + k BY <1>2
  <1>4. b * n = a * n + n + k * n /\ k * n \in Nat BY <1>3
  <1>5. QED BY <1>0, <1>2, <1>4

\* What a number leaves, when it is divided.
LEMMA Leaves ==
  ASSUME NEW n \in Nat \ {0}, NEW x \in Int
  PROVE  x % n = 0 <=> \E q \in Int : x = q * n
  <1>1. ASSUME x % n = 0 PROVE \E q \in Int : x = q * n
    <2>1. x = (x \div n) * n /\ x \div n \in Int BY <1>1, Divided
    <2>2. QED BY <2>1
  <1>2. ASSUME NEW q \in Int, x = q * n PROVE x % n = 0
    <2> DEFINE p == x \div n
               r == x % n
    <2>1. p \in Int /\ r \in Int /\ p * n \in Int /\ x = p * n + r /\ 0 <= r /\ r < n BY Divided
    <2>2. q * n \in Int OBVIOUS
    <2> HIDE DEF p, r
    <2>3. ASSUME r # 0 PROVE FALSE
      <3>1. p * n < q * n BY <1>2, <2>1, <2>2, <2>3
      <3>2. p * n + n <= q * n BY <2>1, <3>1, StepUp
      <3>3. QED BY <1>2, <2>1, <2>2, <3>2
    <2>4. QED BY <2>3 DEF r
  <1>3. QED BY <1>1, <1>2

\* Two such numbers are a whole number of steps apart.
LEMMA Between ==
  ASSUME NEW n \in Nat \ {0}, NEW x \in Int, NEW y \in Int, x % n = 0
  PROVE  /\ y % n = 0 <=> (y - x) % n = 0
         /\ y % n = 0 <=> (y + x) % n = 0
         /\ y % n = 0 /\ x < y => x + n <= y
  <1>1. PICK p \in Int : x = p * n BY Leaves
  <1>2. \A z \in Int : z % n = 0 => (z + x) % n = 0 /\ (z - x) % n = 0
    <2>1. TAKE z \in Int
    <2>2. HAVE z % n = 0
    <2>3. PICK q \in Int : z = q * n BY <2>2, Leaves
    <2>4. z + x = (q + p) * n /\ z - x = (q - p) * n /\ q + p \in Int /\ q - p \in Int BY <1>1, <2>3
    <2>5. z + x \in Int /\ z - x \in Int OBVIOUS
    <2>6. QED BY <2>4, <2>5, Leaves
  <1>3. y - x \in Int /\ y + x \in Int /\ (y - x) + x = y /\ (y + x) - x = y OBVIOUS
  <1>4. ASSUME y % n = 0, x < y PROVE x + n <= y
    <2>1. PICK q \in Int : y = q * n BY <1>4, Leaves
    <2>2. p * n + n <= q * n BY <1>1, <1>4, <2>1, StepUp
    <2>3. QED BY <1>1, <2>1, <2>2
  <1>5. y % n = 0 => (y - x) % n = 0 /\ (y + x) % n = 0 BY <1>2
  <1>6. (y - x) % n = 0 => y % n = 0
    <2> DEFINE z == y - x
    <2>1. z \in Int /\ z + x = y BY <1>3
    <2> HIDE DEF z
    <2>2. z % n = 0 => y % n = 0 BY <1>2, <2>1
    <2>3. QED BY <2>2 DEF z
  <1>7. (y + x) % n = 0 => y % n = 0
    <2> DEFINE z == y + x
    <2>1. z \in Int /\ z - x = y BY <1>3
    <2> HIDE DEF z
    <2>2. z % n = 0 => y % n = 0 BY <1>2, <2>1
    <2>3. QED BY <2>2 DEF z
  <1>8. QED BY <1>4, <1>5, <1>6, <1>7

\* The month of a date is the only one that contains it.
LEMMA MonthOf ==
  ASSUME NEW d \in Int
  PROVE  /\ MonthStart(d) \in Int /\ MonthStart(d) % MonthDays = 0
         /\ MonthStart(d) <= d /\ d <= MonthStart(d) + MonthDays - 1
         /\ \A m \in Int : m % MonthDays = 0 /\ m <= d /\ d <= m + MonthDays - 1 => m = MonthStart(d)
         /\ (d + 1) % MonthDays = 0 => d = MonthStart(d) + MonthDays - 1
         /\ d = MonthStart(d) + MonthDays - 1 => (d + 1) % MonthDays = 0
  <1> DEFINE n == MonthDays
             s == MonthStart(d)
  <1>1. n \in Nat \ {0} BY Numbers
  <1>2. s \in Int /\ s <= d /\ d < s + n /\ s % n = 0
    <2> DEFINE q == d \div n
               r == d % n
    <2>1. q \in Int /\ r \in Int /\ q * n \in Int /\ d = q * n + r /\ 0 <= r /\ r < n BY <1>1, Divided
    <2>2. s = d - r BY DEF MonthStart
    <2> HIDE DEF q, r, s, n
    <2>3. s = q * n /\ s \in Int BY <2>1, <2>2
    <2>4. s % n = 0 BY <1>1, <2>1, <2>3, Leaves
    <2>5. QED BY <1>1, <2>1, <2>2, <2>3, <2>4
  <1> HIDE DEF s, n
  <1>3. ASSUME NEW m \in Int, m % n = 0, m <= d, d <= m + n - 1 PROVE m = s
    <2>1. m < s => m + n <= s BY <1>1, <1>2, <1>3, Between
    <2>2. s < m => s + n <= m BY <1>1, <1>2, <1>3, Between
    <2>3. QED BY <1>1, <1>2, <1>3, <2>1, <2>2
  <1>4. ASSUME (d + 1) % n = 0 PROVE d = s + n - 1
    <2>1. d + 1 \in Int /\ s < d + 1 BY <1>2
    <2>2. s + n <= d + 1 BY <1>1, <1>2, <1>4, <2>1, Between
    <2>3. QED BY <1>1, <1>2, <2>2
  <1>5. ASSUME d = s + n - 1 PROVE (d + 1) % n = 0
    <2>1. d + 1 = n + s /\ n % n = 0
      <3>1. n \in Int /\ n = 1 * n BY <1>1
      <3>2. n % n = 0 BY <1>1, <3>1, Leaves
      <3>3. QED BY <1>1, <1>2, <1>5, <3>2
    <2>2. n \in Int BY <1>1
    <2>3. (n + s) % n = 0 BY <1>1, <1>2, <2>1, <2>2, Between
    <2>4. QED BY <2>1, <2>3
  <1>6. QED BY <1>2, <1>3, <1>4, <1>5, <1>1 DEF n, s

\* The dates a loop comes to: those of its step between two days, in order.
Visits(dates, n, first, last) ==
  /\ \A i \in 1 .. Len(dates) :
       dates[i] \in Int /\ first <= dates[i] /\ dates[i] <= last /\ (dates[i] - first) % n = 0
  /\ \A d \in Int : first <= d /\ d <= last /\ (d - first) % n = 0 => \E i \in 1 .. Len(dates) : dates[i] = d
  /\ \A i, j \in 1 .. Len(dates) : dates[i] < dates[j] => i < j

LEMMA EveryHas ==
  ASSUME NEW n \in Nat \ {0}, NEW first \in Int, NEW last \in Int, NEW dates, dates = Every(n, first, last)
  PROVE  Visits(dates, n, first, last)
  <1> DEFINE N == Len(dates)
             m == (last - first) \div n
  <1>1. N \in Nat /\ \A i \in 1 .. N : dates[i] = first + (i - 1) * n BY EveryIs
  <1>2. \A i \in 1 .. N : i - 1 \in Int /\ (i - 1) * n \in Int BY <1>1
  <1>3. last - first \in Int /\ m \in Int /\ m * n <= last - first /\ m * n \in Int /\ last - first < m * n + n
    <2>1. last - first \in Int OBVIOUS
    <2>2. QED BY <2>1, Divided
  <1>4. N = IF last < first THEN 0 ELSE m + 1
    <2> DEFINE k == IF last < first THEN 0 ELSE m + 1
    <2>1. dates = [i \in 1 .. k |-> first + (i - 1) * n] BY DEF Every
    <2>2. k \in Nat
      <3>1. last >= first => m >= 0
        <4>1. SUFFICES ASSUME last >= first, m < 0 PROVE FALSE BY <1>3
        <4> HIDE DEF m
        <4>2. m * n < 0 * n => m < 0 /\ m * n + n <= 0 * n BY <1>3, StepUp
        <4>3. PICK j \in Nat : m = -1 - j BY <1>3, <4>1
        <4>4. m * n = - n - j * n /\ j * n \in Nat BY <4>3
        <4>5. QED BY <1>3, <4>1, <4>4
      <3> HIDE DEF m
      <3>2. QED BY <1>3, <3>1
    <2> HIDE DEF k
    <2>3. Len(dates) = k BY <2>1, <2>2
    <2>4. QED BY <2>3 DEF k
  <1> HIDE DEF N, m
  <1>5. ASSUME NEW i \in 1 .. N
        PROVE  dates[i] \in Int /\ first <= dates[i] /\ dates[i] <= last /\ (dates[i] - first) % n = 0
    <2> DEFINE k == i - 1
    <2>1. k \in Nat /\ dates[i] = first + k * n /\ k * n \in Nat /\ ~(last < first) /\ k <= m
      BY <1>1, <1>2, <1>3, <1>4
    <2> HIDE DEF k
    <2>2. k * n <= m * n
      <3>1. PICK j \in Nat : m = k + j BY <1>3, <2>1
      <3>2. m * n = k * n + j * n /\ j * n \in Nat BY <2>1, <3>1
      <3>3. QED BY <2>1, <3>2
    <2>3. dates[i] \in Int /\ first <= dates[i] /\ dates[i] <= last BY <1>3, <2>1, <2>2
    <2>4. dates[i] - first = k * n /\ dates[i] - first \in Int BY <2>1
    <2>5. QED BY <2>1, <2>3, <2>4, Leaves
  <1>6. ASSUME NEW d \in Int, first <= d, d <= last, (d - first) % n = 0
        PROVE  \E i \in 1 .. N : dates[i] = d
    <2>1. d - first \in Int BY <1>6
    <2>2. PICK k \in Int : d - first = k * n BY <1>6, <2>1, Leaves
    <2>3. k * n \in Int OBVIOUS
    <2>4. k >= 0
      <3>1. SUFFICES ASSUME k < 0 PROVE FALSE OBVIOUS
      <3>2. PICK j \in Nat : k = -1 - j BY <3>1
      <3>3. k * n = - n - j * n /\ j * n \in Nat BY <3>2
      <3>4. QED BY <1>6, <2>2, <2>3, <3>3
    <2>5. k <= m
      <3>1. SUFFICES ASSUME m < k PROVE FALSE BY <1>3
      <3>2. PICK j \in Nat : k = m + 1 + j BY <1>3, <3>1
      <3>3. k * n = m * n + n + j * n /\ j * n \in Nat BY <1>3, <3>2
      <3>4. QED BY <1>3, <1>6, <2>2, <2>3, <3>3
    <2>6. k + 1 \in 1 .. N /\ (k + 1) - 1 = k BY <1>3, <1>4, <1>6, <2>4, <2>5
    <2>7. dates[k + 1] = first + k * n BY <1>1, <2>6 DEF N
    <2>8. dates[k + 1] = d BY <2>2, <2>3, <2>7
    <2>9. QED BY <2>6, <2>8
  <1>7. ASSUME NEW i \in 1 .. N, NEW j \in 1 .. N, dates[i] < dates[j] PROVE i < j
    <2> DEFINE a == i - 1
               b == j - 1
    <2>1. a \in Int /\ b \in Int /\ dates[i] = first + a * n /\ dates[j] = first + b * n /\ a * n \in Int /\ b * n \in Int
      BY <1>1, <1>2 DEF N
    <2> HIDE DEF a, b
    <2>2. a * n < b * n BY <1>7, <2>1
    <2>3. a < b BY <2>1, <2>2, StepUp
    <2>4. QED BY <1>1, <2>3 DEF a, b, N
  <1>8. QED BY <1>5, <1>6, <1>7 DEF N, Visits

-----------------------------------------------------------------------------
(***************************************************************************)
(* Leave that is earned. The three loops of processAccruing make one       *)
(* posting at most for each date they come to: what it is for, the day it  *)
(* is dated, the day whose balance it reads, when it is due and what it    *)
(* comes to, given that balance.                                           *)
(***************************************************************************)
Phases == {"accrue", "grant", "end"}
AccTo(m) == IF Left /\ EmpLastDay < m + MonthDays - 1 THEN EmpLastDay ELSE m + MonthDays - 1
PolicyFor(k, d) == Policy(IF k = "accrue" THEN AccTo(d) ELSE d)
DateOf(k, d) == IF k = "accrue" THEN AccTo(d) ELSE IF k = "grant" THEN d ELSE d - 1
ReadOn(k, d) == IF k = "accrue" THEN AccTo(d) ELSE d - 1
KeyFor(k, d) == <<IF k = "accrue" THEN "ACC" ELSE IF k = "grant" THEN "ACCUP" ELSE "CYC", d>>
FirstGrant == start + versions[1].policy.firstGrantAfterMonths * MonthDays
OnGrid(k, d) ==
  IF k = "accrue" THEN d % MonthDays = 0
  ELSE IF k = "grant" THEN d >= FirstGrant /\ (d - FirstGrant) % YearDays = 0
  ELSE d > start /\ (d - start) % YearDays = 0
Ripe(k, d, x) ==
  LET p == PolicyFor(k, d)
  IN IF k = "accrue" THEN Larger(d, x) <= AccTo(d) /\ AccTo(d) <= today /\ p.frequency = "MONTHLY" /\ p.perDay > 0
     ELSE IF k = "grant" THEN p.frequency = "UPFRONT" /\ d >= x
     ELSE ~CarriesAll(p)
Due(k, d) == OnGrid(k, d) /\ d <= EndLimit /\ Ripe(k, d, start)
UnitsFor(k, d, held) ==
  LET p == PolicyFor(k, d)
      days == IF p.prorate THEN AccTo(d) - Larger(d, start) + 1 ELSE MonthDays
  IN IF k = "accrue" THEN UpToMax(p, p.perDay * days, held)
     ELSE IF k = "grant" THEN UpToMax(p, p.perDay * YearDays, held)
     ELSE - Larger(0, held - p.carryForwardMax)
Reads(k, d) == k = "end" \/ PolicyFor(k, d).maxBalance # NoLimit
Ahead(j, c, k, d) == IF j = k THEN c < d ELSE k = "end" /\ DateOf(j, c) < d

\* What such a posting found on the day it reads.
Before(L, k, d) == {e \in L : e.on <= ReadOn(k, d) /\ e.key # KeyFor(k, d) /\ e.key[1] # "TERM"}

Terms ==
  /\ versions[1].from = 0
  /\ \A i \in DOMAIN versions :
       /\ versions[i].policy.frequency = versions[1].policy.frequency
       /\ versions[i].policy.firstGrantAfterMonths = versions[1].policy.firstGrantAfterMonths
Placed ==
  /\ EngineTypes /\ today \in Nat /\ start \in Nat /\ Terms /\ (leftOn = NoDate \/ leftOn > start)
  /\ \A b \in DOMAIN batches : batches[b].cut \in Nat /\ batches[b].cut <= today

LEMMA PlacedTypes ==
  ASSUME Placed
  PROVE  /\ EngineTypes /\ today \in Nat /\ start \in Nat /\ leftOn \in Int
         /\ EndLimit \in Int /\ EndLimit <= today /\ EmpLastDay \in Int
         /\ MonthDays \in Nat \ {0} /\ YearDays \in Nat \ {0}
         /\ FirstGrant \in Int /\ FirstGrant >= start
         /\ Left => EmpLastDay >= start /\ EndLimit = EmpLastDay /\ EmpLastDay < today
         /\ ~Left => EndLimit = today
  <1>1. EngineTypes /\ today \in Nat /\ start \in Nat /\ leftOn \in Int BY DEF Placed, EngineTypes
  <1>2. MonthDays \in Nat \ {0} /\ YearDays \in Nat \ {0} BY Numbers
  <1>3. EmpLastDay \in Int /\ EndLimit \in Int BY <1>1, DateTypes
  <1>4. FirstGrant \in Int /\ FirstGrant >= start
    <2> DEFINE n == versions[1].policy.firstGrantAfterMonths
    <2>1. n \in Nat BY <1>1, VersionTypes, Numbers
    <2> HIDE DEF n
    <2>2. n * MonthDays \in Nat BY <1>2, <2>1
    <2>3. QED BY <1>1, <2>2 DEF FirstGrant, n
  <1>5. Left => EmpLastDay >= start /\ EndLimit = EmpLastDay /\ EmpLastDay < today
    BY <1>1 DEF Left, EmpLastDay, EndLimit, Smaller, Placed
  <1>6. ~Left => EndLimit = today BY DEF EndLimit
  <1>7. QED BY <1>1, <1>2, <1>3, <1>4, <1>5, <1>6

\* The version in force on a day is a version, and one in force today.
LEMMA VersionFor ==
  ASSUME Placed, NEW d \in Int
  PROVE  /\ Policy(d) \in Policies /\ Policy(d).frequency = versions[1].policy.frequency
         /\ Policy(d).firstGrantAfterMonths = versions[1].policy.firstGrantAfterMonths
         /\ d >= 0 => VersionOn(d).from <= d
         /\ 0 <= d /\ d <= today => Policy(d) \in InForce
  <1> DEFINE S == {i \in DOMAIN versions : versions[i].from <= d}
  <1>1. EngineTypes /\ Terms /\ today \in Int BY DEF Placed
  <1>2. S # {} => Max(S) \in S BY <1>1, VersionIndex
  <1>3. 1 \in DOMAIN versions BY <1>1 DEF EngineTypes
  <1>4. VersionOn(d) = versions[IF S = {} THEN 1 ELSE Max(S)] BY DEF VersionOn
  <1>5. d >= 0 => 1 \in S BY <1>1, <1>3 DEF Terms
  <1>6. \A i \in DOMAIN versions : versions[i].from \in Int
    <2> DEFINE R == [from : Int, policy : Policies]
    <2>1. versions \in Seq(R) BY <1>1 DEF EngineTypes
    <2> HIDE DEF R
    <2>2. \A i \in DOMAIN versions : versions[i] \in R BY <2>1
    <2>3. QED BY <2>2 DEF R
  <1>7. Policy(d) \in Policies BY <1>1, VersionTypes
  <1>8. PICK i \in DOMAIN versions : VersionOn(d) = versions[i] /\ (d >= 0 => i \in S) BY <1>2, <1>3, <1>4, <1>5
  <1>9. Policy(d) = versions[i].policy BY <1>8 DEF Policy
  <1>10. d >= 0 => versions[i].from <= d BY <1>8
  <1>11. 0 <= d /\ d <= today => versions[i].from <= today BY <1>1, <1>6, <1>10
  <1>12. QED BY <1>1, <1>7, <1>8, <1>9, <1>10, <1>11 DEF Terms, InForce

LEMMA DateFigures ==
  ASSUME Placed, NEW k \in Phases, NEW d \in Int
  PROVE  /\ AccTo(d) \in Int /\ DateOf(k, d) \in Int /\ ReadOn(k, d) \in Int
         /\ PolicyFor(k, d) \in Policies
         /\ \A h \in Int : UnitsFor(k, d, h) \in Int
         /\ ~Reads(k, d) => \A h, g : UnitsFor(k, d, h) = UnitsFor(k, d, g)
  <1>1. /\ EmpLastDay \in Int /\ MonthDays \in Nat \ {0} /\ YearDays \in Nat \ {0} /\ start \in Nat
    BY PlacedTypes
  <1>2. AccTo(d) \in Int /\ DateOf(k, d) \in Int /\ ReadOn(k, d) \in Int
    BY <1>1 DEF AccTo, DateOf, ReadOn
  <1> DEFINE p == PolicyFor(k, d)
             days == IF p.prorate THEN AccTo(d) - Larger(d, start) + 1 ELSE MonthDays
  <1>3. p \in Policies BY <1>2, VersionFor DEF PolicyFor
  <1>4. p.perDay \in Nat /\ p.maxBalance \in Nat /\ p.carryForwardMax \in Nat BY <1>3, Numbers
  <1>6. \A h : UnitsFor(k, d, h) = IF k = "accrue" THEN UpToMax(p, p.perDay * days, h)
                                   ELSE IF k = "grant" THEN UpToMax(p, p.perDay * YearDays, h)
                                   ELSE - Larger(0, h - p.carryForwardMax)
    BY DEF UnitsFor
  <1>7. p.perDay * days \in Int /\ p.perDay * YearDays \in Int
    <2>1. days \in Int BY <1>1, <1>2 DEF Larger
    <2> HIDE DEF days, p
    <2>2. QED BY <1>1, <1>4, <2>1
  <1>8. ~Reads(k, d) => k # "end" /\ p.maxBalance = NoLimit BY DEF Reads
  <1> HIDE DEF p, days
  <1>9. \A h \in Int : UnitsFor(k, d, h) \in Int BY <1>4, <1>6, <1>7 DEF UpToMax, Larger, Smaller
  <1>10. ASSUME ~Reads(k, d), NEW h, NEW g PROVE UnitsFor(k, d, h) = UnitsFor(k, d, g)
    <2>1. k # "end" /\ \A u, v : UpToMax(p, u, v) = u BY <1>8, <1>10 DEF UpToMax
    <2> DEFINE u == IF k = "accrue" THEN p.perDay * days ELSE p.perDay * YearDays
    <2>2. \A v : UnitsFor(k, d, v) = UpToMax(p, u, v) BY <1>6, <2>1 DEF Phases
    <2> HIDE DEF u
    <2>3. QED BY <2>1, <2>2
  <1>11. QED BY <1>2, <1>3, <1>9, <1>10 DEF p

\* When what is due is dated.
LEMMA DueDates ==
  ASSUME Placed, NEW k \in Phases, NEW d \in Int, Due(k, d)
  PROVE  /\ start <= DateOf(k, d) /\ DateOf(k, d) <= EndLimit /\ ReadOn(k, d) <= DateOf(k, d)
         /\ PolicyFor(k, d) \in InForce
         /\ k = "accrue" => d <= AccTo(d) /\ AccTo(d) <= d + MonthDays - 1
         /\ d >= 0 \/ k = "accrue"
  <1>1. /\ EmpLastDay \in Int /\ MonthDays \in Nat \ {0} /\ start \in Nat /\ today \in Nat
        /\ EndLimit \in Int /\ EndLimit <= today /\ AccTo(d) \in Int /\ FirstGrant \in Int /\ FirstGrant >= start
        /\ (Left => EndLimit = EmpLastDay) /\ (~Left => EndLimit = today)
    BY PlacedTypes, DateFigures
  <1>2. CASE k = "accrue"
    <2>1. Larger(d, start) <= AccTo(d) /\ AccTo(d) <= today BY <1>2 DEF Due, Ripe
    <2>2. d <= AccTo(d) /\ start <= AccTo(d) BY <1>1, <2>1 DEF Larger
    <2>3. AccTo(d) <= d + MonthDays - 1 BY <1>1 DEF AccTo
    <2>4. AccTo(d) <= EndLimit
      <3>1. CASE Left /\ EmpLastDay < d + MonthDays - 1 BY <1>1, <3>1 DEF AccTo
      <3>2. CASE Left /\ ~(EmpLastDay < d + MonthDays - 1) BY <1>1, <3>2 DEF AccTo
      <3>3. CASE ~Left BY <1>1, <2>1, <3>3
      <3>4. QED BY <3>1, <3>2, <3>3
    <2>5. PolicyFor(k, d) \in InForce BY <1>1, <1>2, <2>1, <2>2, VersionFor DEF PolicyFor
    <2>6. QED BY <1>1, <1>2, <2>2, <2>3, <2>4, <2>5 DEF DateOf, ReadOn
  <1>3. CASE k = "grant"
    <2>1. FirstGrant <= d /\ start <= d /\ d <= EndLimit BY <1>1, <1>3 DEF Due, OnGrid
    <2>2. PolicyFor(k, d) \in InForce BY <1>1, <1>3, <2>1, VersionFor DEF PolicyFor
    <2>3. QED BY <1>1, <1>3, <2>1, <2>2 DEF DateOf, ReadOn
  <1>4. CASE k = "end"
    <2>1. start < d /\ d <= EndLimit BY <1>1, <1>4 DEF Due, OnGrid
    <2>2. PolicyFor(k, d) \in InForce BY <1>1, <1>4, <2>1, VersionFor DEF PolicyFor
    <2>3. QED BY <1>1, <1>4, <2>1, <2>2 DEF DateOf, ReadOn
  <1>5. QED BY <1>2, <1>3, <1>4 DEF Phases

\* What comes later is dated after what the other reads, when policies in
\* force do not bound both the balance and what is carried over.
LEMMA LaterDates ==
  ASSUME Placed, BalancesFree \/ CarriesFree, NEW k \in Phases, NEW d \in Int, NEW j \in Phases, NEW c \in Int,
         Due(k, d), Due(j, c), KeyFor(k, d) # KeyFor(j, c), ~Ahead(k, d, j, c), Reads(j, c)
  PROVE  ReadOn(j, c) < DateOf(k, d)
  <1>1. MonthDays \in Nat \ {0} /\ AccTo(c) \in Int /\ AccTo(d) \in Int /\ DateOf(k, d) \in Int
    BY PlacedTypes, DateFigures
  <1>2. CASE j = k
    <2>1. c < d BY <1>2 DEF Ahead, KeyFor
    <2>2. CASE k = "accrue"
      <3>1. c % MonthDays = 0 /\ d % MonthDays = 0 BY <1>2, <2>2 DEF Due, OnGrid
      <3>2. c + MonthDays <= d BY <1>1, <2>1, <3>1, Between
      <3>3. d <= AccTo(d) /\ AccTo(c) <= c + MonthDays - 1 BY <1>2, <2>2, DueDates
      <3>4. QED BY <1>1, <1>2, <2>2, <3>2, <3>3 DEF ReadOn, DateOf
    <2>3. CASE k # "accrue" BY <1>2, <2>1, <2>3 DEF ReadOn, DateOf
    <2>4. QED BY <2>2, <2>3
  <1>3. CASE j # k /\ j = "end" BY <1>1, <1>3 DEF Ahead, ReadOn
  <1>4. CASE j # k /\ j # "end"
    <2>1. PolicyFor(j, c).maxBalance # NoLimit /\ PolicyFor(j, c) \in InForce BY <1>4, DueDates DEF Reads
    <2>2. CarriesFree BY <2>1 DEF BalancesFree
    <2>3. k # "end"
      <3>1. PolicyFor(k, d) \in InForce BY DueDates
      <3>2. CarriesAll(PolicyFor(k, d)) BY <2>2, <3>1 DEF CarriesFree
      <3>3. QED BY <3>2 DEF Due, Ripe
    <2>4. AccTo(d) \in Int /\ AccTo(c) \in Int BY <1>1
    <2>5. \A y \in Int : Policy(y).frequency = versions[1].policy.frequency BY VersionFor
    <2>6. \A i \in Phases, y \in Int : Due(i, y) => /\ i = "accrue" => versions[1].policy.frequency = "MONTHLY"
                                                    /\ i = "grant" => versions[1].policy.frequency = "UPFRONT"
      <3>1. TAKE i \in Phases, y \in Int
      <3>2. AccTo(y) \in Int BY DateFigures
      <3>3. QED BY <2>5, <3>2 DEF Due, Ripe, PolicyFor
    <2>7. (k = "accrue" /\ j = "grant") \/ (k = "grant" /\ j = "accrue") BY <1>4, <2>3 DEF Phases
    <2>8. QED BY <2>6, <2>7
  <1>5. QED BY <1>2, <1>3, <1>4

\* An entry as the loops make it.
Makes(e, k, d, held) ==
  /\ e.key = KeyFor(k, d) /\ e.on = DateOf(k, d) /\ e.units = UnitsFor(k, d, held)
  /\ e.type # "OPENING_BALANCE"

\* A turn of a loop posts what is due and is not posted yet, and nothing else.
LEMMA TurnPosts ==
  ASSUME Placed, NEW s, Sound(s), NEW k \in Phases, NEW d \in Int, NEW x \in Int, OnGrid(k, d),
         k = "accrue" => Larger(d, x) = Larger(d, start)
  PROVE  /\ ~Ripe(k, d, x) \/ KeyFor(k, d) \in Keys(s.ledger) => Turn(k, x, s, d).ledger = s.ledger
         /\ Ripe(k, d, x) /\ KeyFor(k, d) \notin Keys(s.ledger) =>
              \E e : /\ Makes(e, k, d, Balance(s.ledger, ReadOn(k, d)))
                     /\ Turn(k, x, s, d).ledger = s.ledger \cup {e}
  <1> DEFINE h == Balance(s.ledger, ReadOn(k, d))
             key == KeyFor(k, d)
  <1>1. /\ AccTo(d) \in Int /\ DateOf(k, d) \in Int /\ ReadOn(k, d) \in Int
        /\ PolicyFor(k, d) \in Policies /\ UnitsFor(k, d, h) \in Int /\ h \in Int
    <2>1. h \in Int BY LedgerFigures DEF Sound
    <2> HIDE DEF h
    <2>2. QED BY <2>1, DateFigures
  <1>p. \A ty, cy : LET e == Entry(key, ty, UnitsFor(k, d, h), DateOf(k, d), cy)
                    IN /\ e.key = key /\ e.type = ty /\ e.units = UnitsFor(k, d, h) /\ e.on = DateOf(k, d)
    BY DEF Entry
  \* Posting such an entry does this.
  <1>2. ASSUME NEW t, Sound(t), t.ledger = s.ledger, NEW ty, NEW cy, ty # "OPENING_BALANCE", Ripe(k, d, x),
               key \in Keys(s.ledger) => t = s,
               Turn(k, x, s, d) = Posted(t, Entry(key, ty, UnitsFor(k, d, h), DateOf(k, d), cy))
        PROVE  /\ ~Ripe(k, d, x) \/ key \in Keys(s.ledger) => Turn(k, x, s, d).ledger = s.ledger
               /\ Ripe(k, d, x) /\ key \notin Keys(s.ledger) =>
                    \E e : Makes(e, k, d, h) /\ Turn(k, x, s, d).ledger = s.ledger \cup {e}
    <2> DEFINE e == Entry(key, ty, UnitsFor(k, d, h), DateOf(k, d), cy)
    <2>1. e.key = key /\ e.type = ty /\ e.units = UnitsFor(k, d, h) /\ e.on = DateOf(k, d) BY <1>p
    <2>2. Turn(k, x, s, d) = Posted(t, e) BY <1>2
    <2>3. e.units \in Int /\ e.on \in Int BY <1>1, <2>1
    <2>4. Makes(e, k, d, h) BY <1>2, <2>1 DEF Makes
    <2> HIDE DEF e
    <2>5. /\ key \in Keys(t.ledger) => Posted(t, e) = t
          /\ key \notin Keys(t.ledger) => Posted(t, e).ledger = t.ledger \cup {e}
      BY <1>2, <2>1, <2>3, PostedIs
    <2> HIDE DEF h, key
    <2>6. QED BY <1>2, <2>2, <2>4, <2>5
  <1>3. CASE k = "accrue"
    <2> DEFINE p == Policy(AccTo(d))
               earned == p.perDay * (IF p.prorate THEN AccTo(d) - Larger(d, x) + 1 ELSE MonthDays)
    <2>1. Ripe(k, d, x) <=> Larger(d, x) <= AccTo(d) /\ AccTo(d) <= today /\ p.frequency = "MONTHLY" /\ p.perDay > 0
      BY <1>3 DEF Ripe, PolicyFor
    <2>2. Accrue(s, d, x) = IF Larger(d, x) <= AccTo(d) /\ AccTo(d) <= today /\ p.frequency = "MONTHLY" /\ p.perDay > 0
            THEN Posted(s, Entry(<<"ACC", d>>, "ACCRUAL", UpToMax(p, earned, Balance(s.ledger, AccTo(d))), AccTo(d), CycleKey(AccTo(d))))
            ELSE s
      BY DEF Accrue, AccTo
    <2>3. UnitsFor(k, d, h) = UpToMax(p, earned, Balance(s.ledger, AccTo(d)))
      BY <1>3 DEF UnitsFor, PolicyFor, ReadOn
    <2>4. Turn(k, x, s, d) = Accrue(s, d, x) /\ key = <<"ACC", d>> /\ DateOf(k, d) = AccTo(d)
      BY <1>3 DEF Turn, KeyFor, DateOf
    <2> HIDE DEF p, earned, h, key
    <2>5. CASE Ripe(k, d, x)
      <3>1. Turn(k, x, s, d) = Posted(s, Entry(key, "ACCRUAL", UnitsFor(k, d, h), DateOf(k, d), CycleKey(AccTo(d))))
        BY <2>1, <2>2, <2>3, <2>4, <2>5
      <3>2. QED BY <1>2, <2>5, <3>1 DEF h, key
    <2>6. CASE ~Ripe(k, d, x) BY <2>1, <2>2, <2>4, <2>6
    <2>7. QED BY <2>5, <2>6
  <1>4. CASE k = "grant"
    <2> DEFINE p == Policy(d)
    <2>1. Ripe(k, d, x) <=> p.frequency = "UPFRONT" /\ d >= x
      BY <1>4 DEF Ripe, PolicyFor
    <2>2. Grant(s, d, x) = IF p.frequency = "UPFRONT" /\ d >= x
            THEN Posted(s, Entry(<<"ACCUP", d>>, "ALLOTMENT", UpToMax(p, p.perDay * YearDays, Balance(s.ledger, d - 1)), d, d))
            ELSE s
      BY DEF Grant
    <2>3. UnitsFor(k, d, h) = UpToMax(p, p.perDay * YearDays, Balance(s.ledger, d - 1))
      BY <1>4 DEF UnitsFor, PolicyFor, ReadOn
    <2>4. Turn(k, x, s, d) = Grant(s, d, x) /\ key = <<"ACCUP", d>> /\ DateOf(k, d) = d
      BY <1>4 DEF Turn, KeyFor, DateOf
    <2> HIDE DEF p, h, key
    <2>5. CASE Ripe(k, d, x)
      <3>1. Turn(k, x, s, d) = Posted(s, Entry(key, "ALLOTMENT", UnitsFor(k, d, h), DateOf(k, d), d))
        BY <2>1, <2>2, <2>3, <2>4, <2>5
      <3>2. QED BY <1>2, <2>5, <3>1 DEF h, key
    <2>6. CASE ~Ripe(k, d, x) BY <2>1, <2>2, <2>4, <2>6
    <2>7. QED BY <2>5, <2>6
  <1>5. CASE k = "end"
    <2> DEFINE p == Policy(d)
               excess == Balance(s.ledger, d - 1) - p.carryForwardMax
               payout == p.excessAction = "PAYOUT" \/ ~p.belowStatutoryOk
               entry(ty, u) == Entry(<<"CYC", d>>, ty, u, d - 1, CycleKey(d - 1))
    <2>1. Ripe(k, d, x) <=> ~(p.carryForwardMax = NoLimit \/ p.excessAction = "CARRY_ALL")
      BY <1>5 DEF Ripe, PolicyFor, CarriesAll
    <2>2. ~(d < VersionOn(d).from)
      <3>1. d > start /\ start \in Nat BY <1>5, PlacedTypes DEF OnGrid
      <3>2. d >= 0 BY <3>1
      <3>3. VersionOn(d).from <= d BY <3>2, VersionFor
      <3>4. VersionOn(d).from \in Int BY PlacedTypes, VersionTypes
      <3>5. QED BY <3>3, <3>4
    <2>3. EndCycle(s, d) = IF ~Ripe(k, d, x) \/ <<"CYC", d>> \in Keys(s.ledger) THEN s
            ELSE IF excess <= 0 THEN Posted(s, entry("CARRY_FORWARD", 0))
            ELSE IF payout THEN Posted(CreatePayout(s, excess), entry("PAYOUT", - excess))
            ELSE Posted(s, entry("FORFEIT", - excess))
      BY <2>1, <2>2 DEF EndCycle
    <2>4. UnitsFor(k, d, h) = - Larger(0, excess) BY <1>5 DEF UnitsFor, PolicyFor, ReadOn
    <2>5. Turn(k, x, s, d) = EndCycle(s, d) /\ key = <<"CYC", d>> /\ DateOf(k, d) = d - 1
      BY <1>5 DEF Turn, KeyFor, DateOf
    <2>6. excess \in Int
      <3>1. h \in Int /\ h = Balance(s.ledger, d - 1) BY <1>1, <1>5 DEF ReadOn
      <3>2. p \in Policies /\ p.carryForwardMax \in Int BY VersionFor, Numbers
      <3>3. QED BY <3>1, <3>2
    <2>7. \A ty, u : entry(ty, u) = Entry(key, ty, u, DateOf(k, d), CycleKey(d - 1)) BY <2>5
    <2>8. Sound(CreatePayout(s, excess)) /\ CreatePayout(s, excess).ledger = s.ledger
      <3> HIDE DEF excess
      <3>1. QED BY <2>6, Created
    <2> HIDE DEF p, excess, payout, entry, h, key
    <2>9. CASE ~Ripe(k, d, x) \/ key \in Keys(s.ledger)
      <3>1. EndCycle(s, d) = s BY <2>3, <2>5, <2>9
      <3>2. Turn(k, x, s, d).ledger = s.ledger BY <2>5, <3>1
      <3>3. QED BY <2>9, <3>2 DEF key
    <2>10. CASE Ripe(k, d, x) /\ key \notin Keys(s.ledger)
      <3>1. CASE excess <= 0
        <4>0. \A y \in Int : y <= 0 => Larger(0, y) = 0 BY DEF Larger
        <4>1. UnitsFor(k, d, h) = 0 BY <2>4, <2>6, <3>1, <4>0
        <4>2. Turn(k, x, s, d) = Posted(s, Entry(key, "CARRY_FORWARD", UnitsFor(k, d, h), DateOf(k, d), CycleKey(d - 1)))
          BY <2>3, <2>5, <2>7, <2>10, <3>1, <4>1
        <4>3. QED BY <1>2, <2>10, <4>2 DEF h, key
      <3>2. CASE excess > 0 /\ ~payout
        <4>1. UnitsFor(k, d, h) = - excess BY <2>4, <2>6, <3>2 DEF Larger
        <4>2. ~(excess <= 0) BY <2>6, <3>2
        <4>3. Turn(k, x, s, d) = Posted(s, Entry(key, "FORFEIT", UnitsFor(k, d, h), DateOf(k, d), CycleKey(d - 1)))
          BY <2>3, <2>5, <2>7, <2>10, <3>2, <4>1, <4>2
        <4>4. QED BY <1>2, <2>10, <4>3 DEF h, key
      <3>3. CASE excess > 0 /\ payout
        <4>1. UnitsFor(k, d, h) = - excess BY <2>4, <2>6, <3>3 DEF Larger
        <4>2. ~(excess <= 0) BY <2>6, <3>3
        <4>3. Turn(k, x, s, d) = Posted(CreatePayout(s, excess),
                                        Entry(key, "PAYOUT", UnitsFor(k, d, h), DateOf(k, d), CycleKey(d - 1)))
          BY <2>3, <2>5, <2>7, <2>10, <3>3, <4>1, <4>2
        <4>4. QED BY <1>2, <2>8, <2>10, <4>3 DEF h, key
      <3>4. QED BY <2>6, <3>1, <3>2, <3>3
    <2>11. QED BY <2>9, <2>10 DEF h, key
  <1>6. QED BY <1>3, <1>4, <1>5 DEF Phases

-----------------------------------------------------------------------------
(***************************************************************************)
(* The book. Every key is posted once. What the loops posted is due and    *)
(* comes to what the balance they found asks for; nothing that was read    *)
(* changes afterwards, because what comes later is dated later. The last   *)
(* payout leaves nothing, and nothing to post. A batch has its opening and *)
(* the balance on its cut-over date is its figure, or the opening and its  *)
(* reversal cancel.                                                        *)
(***************************************************************************)
OnePerKey(L) == \A e, f \in L : e.key = f.key => e = f
Keyed(L) ==
  \A e \in L : /\ e.on >= 0
               /\ \/ \E k \in Phases, d \in Int : e.key = KeyFor(k, d)
                  \/ \E t \in {"TERM", "USE", "RET", "OPEN", "REV"} : \E r : e.key = <<t, r>>
AsDue(L) ==
  \A e \in L, k \in Phases, d \in Int : e.key = KeyFor(k, d) =>
    Due(k, d) /\ e.on = DateOf(k, d) /\ e.units = UnitsFor(k, d, UnitSum(Before(L, k, d)))
InOrder(L) ==
  \A k, j \in Phases, c, d \in Int :
    KeyFor(k, d) \in Keys(L) /\ Reads(k, d) /\ Due(j, c) /\ Ahead(j, c, k, d) => KeyFor(j, c) \in Keys(L)
PaidOff(L) ==
  \A e \in L : e.key[1] = "TERM" =>
    /\ Left /\ e.key = <<"TERM", leftOn>> /\ e.on = EmpLastDay /\ UnitSum(L) = 0
    /\ \A k \in Phases, d \in Int : Due(k, d) => KeyFor(k, d) \in Keys(L)
TakenOn(L) ==
  /\ \A e \in L : \A b :
       /\ e.key = <<"OPEN", b>> => b \in DOMAIN batches /\ e.on = batches[b].cut /\ batches[b].status # "DRAFT"
       /\ e.key = <<"REV", b>> => b \in DOMAIN batches /\ e.on = batches[b].cut /\ batches[b].status = "REVERSED"
  /\ \A e \in L : e.type = "OPENING_BALANCE" <=> \E b : e.key = <<"OPEN", b>>
  /\ \A b \in DOMAIN batches :
       /\ batches[b].status = "POSTED" =>
            <<"OPEN", b>> \in Keys(L) /\ UnitSum({e \in L : e.on <= batches[b].cut}) = batches[b].figure
       /\ batches[b].status = "REVERSED" =>
            \E e, f \in L : e.key = <<"OPEN", b>> /\ f.key = <<"REV", b>> /\ e.units + f.units = 0
Booked(L) == OnePerKey(L) /\ Keyed(L) /\ AsDue(L) /\ InOrder(L) /\ PaidOff(L) /\ TakenOn(L)

LEMMA KeysApart ==
  /\ \A k, j \in Phases : \A c, d : KeyFor(k, d) = KeyFor(j, c) => k = j /\ d = c
  /\ \A k \in Phases : \A d, r : \A t \in {"TERM", "USE", "RET", "OPEN", "REV"} : KeyFor(k, d) # <<t, r>>
  /\ \A k \in Phases : \A d : KeyFor(k, d)[1] \in {"ACC", "ACCUP", "CYC"}
  /\ \A t, r : <<t, r>>[1] = t
  <1>1. \A k, j \in Phases : \A c, d : KeyFor(k, d) = KeyFor(j, c) => k = j /\ d = c BY DEF KeyFor, Phases
  <1>2. \A k \in Phases : \A d : KeyFor(k, d)[1] \in {"ACC", "ACCUP", "CYC"} BY DEF KeyFor, Phases
  <1>3. \A t, r : <<t, r>>[1] = t OBVIOUS
  <1>4. \A k \in Phases : \A d, r : \A t \in {"TERM", "USE", "RET", "OPEN", "REV"} : KeyFor(k, d) # <<t, r>>
    BY DEF KeyFor, Phases
  <1>5. QED BY <1>1, <1>2, <1>3, <1>4

\* Nothing that was posted reads a balance, when no policy in force bounds one.
LEMMA NothingReads ==
  ASSUME Placed, NEW k \in Phases, NEW d \in Int, Due(k, d), BalancesFree, CarriesFree
  PROVE  ~Reads(k, d)
  <1>1. PolicyFor(k, d) \in InForce BY DueDates
  <1>2. PolicyFor(k, d).maxBalance = NoLimit BY <1>1 DEF BalancesFree
  <1>3. CarriesAll(PolicyFor(k, d)) BY <1>1 DEF CarriesFree
  <1>4. k # "end" BY <1>3 DEF Due, Ripe
  <1>5. QED BY <1>2, <1>4 DEF Reads

\* An entry is added that nothing read: what was posted stays as it was judged.
LEMMA StillDue ==
  ASSUME Placed, NEW L, Ints(L), Booked(L), NEW e, e.units \in Int, e.on \in Int, e.key \notin Keys(L),
         \A k \in Phases, d \in Int :
           KeyFor(k, d) \in Keys(L) /\ Reads(k, d) => e.on > ReadOn(k, d) \/ e.key[1] = "TERM"
  PROVE  /\ Ints(L \cup {e}) /\ e \notin L /\ UnitSum(L \cup {e}) = UnitSum(L) + e.units
         /\ OnePerKey(L \cup {e}) /\ Keys(L \cup {e}) = Keys(L) \cup {e.key}
         /\ \A f \in L, k \in Phases, d \in Int : f.key = KeyFor(k, d) =>
              Due(k, d) /\ f.on = DateOf(k, d) /\ f.units = UnitsFor(k, d, UnitSum(Before(L \cup {e}, k, d)))
  <1>1. e \notin L BY DEF Keys
  <1>2. Ints(L \cup {e}) BY FS_AddElement DEF Ints
  <1>3. UnitSum(L \cup {e}) = UnitSum(L) + e.units BY <1>1, UnitSumAdd DEF Ints
  <1>4. Keys(L \cup {e}) = Keys(L) \cup {e.key} BY DEF Keys
  <1>5. OnePerKey(L \cup {e}) BY DEF Booked, OnePerKey, Keys
  <1>6. ASSUME NEW f \in L, NEW k \in Phases, NEW d \in Int, f.key = KeyFor(k, d)
        PROVE  Due(k, d) /\ f.on = DateOf(k, d) /\ f.units = UnitsFor(k, d, UnitSum(Before(L \cup {e}, k, d)))
    <2>1. Due(k, d) /\ f.on = DateOf(k, d) /\ f.units = UnitsFor(k, d, UnitSum(Before(L, k, d)))
      BY <1>6 DEF Booked, AsDue
    <2>2. CASE Reads(k, d)
      <3>1. KeyFor(k, d) \in Keys(L) BY <1>6 DEF Keys
      <3>2. e.on > ReadOn(k, d) \/ e.key[1] = "TERM" BY <2>2, <3>1
      <3>3. ReadOn(k, d) \in Int BY DateFigures
      <3>4. Before(L \cup {e}, k, d) = Before(L, k, d) BY <3>2, <3>3 DEF Before
      <3>5. QED BY <2>1, <3>4
    <2>3. CASE ~Reads(k, d)
      <3>1. UnitsFor(k, d, UnitSum(Before(L, k, d))) = UnitsFor(k, d, UnitSum(Before(L \cup {e}, k, d)))
        BY <2>3, DateFigures
      <3>2. QED BY <2>1, <3>1
    <2>4. QED BY <2>2, <2>3
  <1>7. QED BY <1>1, <1>2, <1>3, <1>4, <1>5, <1>6

\* What batches set stands, when an entry after the cut-over is added that is not theirs.
LEMMA StillTakenOn ==
  ASSUME Placed, NEW L, Ints(L), TakenOn(L), NEW e, e.units \in Int, e.on \in Int, e.type # "OPENING_BALANCE",
         \A b : e.key # <<"OPEN", b>> /\ e.key # <<"REV", b>>,
         \A b \in DOMAIN batches : batches[b].status = "POSTED" => e.on > batches[b].cut
  PROVE  TakenOn(L \cup {e})
  <1>1. ASSUME NEW b \in DOMAIN batches, batches[b].status = "POSTED"
        PROVE  /\ <<"OPEN", b>> \in Keys(L \cup {e})
               /\ UnitSum({f \in L \cup {e} : f.on <= batches[b].cut}) = batches[b].figure
    <2>1. e.on > batches[b].cut /\ batches[b].cut \in Int BY <1>1 DEF Placed
    <2>2. {f \in L \cup {e} : f.on <= batches[b].cut} = {f \in L : f.on <= batches[b].cut} BY <2>1
    <2>3. <<"OPEN", b>> \in Keys(L) /\ UnitSum({f \in L : f.on <= batches[b].cut}) = batches[b].figure
      BY <1>1 DEF TakenOn
    <2>4. <<"OPEN", b>> \in Keys(L \cup {e}) BY <2>3 DEF Keys
    <2>5. QED BY <2>2, <2>3, <2>4
  <1>2. ASSUME NEW b \in DOMAIN batches, batches[b].status = "REVERSED"
        PROVE  \E f, g \in L \cup {e} : f.key = <<"OPEN", b>> /\ g.key = <<"REV", b>> /\ f.units + g.units = 0
    <2>1. \E f, g \in L : f.key = <<"OPEN", b>> /\ g.key = <<"REV", b>> /\ f.units + g.units = 0
      BY <1>2 DEF TakenOn
    <2>2. QED BY <2>1
  <1>3. \A f \in L \cup {e} : \A b :
          /\ f.key = <<"OPEN", b>> => b \in DOMAIN batches /\ f.on = batches[b].cut /\ batches[b].status # "DRAFT"
          /\ f.key = <<"REV", b>> => b \in DOMAIN batches /\ f.on = batches[b].cut /\ batches[b].status = "REVERSED"
    BY DEF TakenOn
  <1>4. \A f \in L \cup {e} : f.type = "OPENING_BALANCE" <=> \E b : f.key = <<"OPEN", b>> BY DEF TakenOn
  <1>5. QED BY <1>1, <1>2, <1>3, <1>4 DEF TakenOn

\* A posting of the loops keeps the book.
LEMMA BookPosting ==
  ASSUME Placed, BalancesFree \/ CarriesFree, NEW L, Ints(L), Booked(L), NEW k \in Phases, NEW d \in Int, Due(k, d),
         KeyFor(k, d) \notin Keys(L), NEW e, Makes(e, k, d, Balance(L, ReadOn(k, d))),
         Reads(k, d) => \A j \in Phases, c \in Int : Due(j, c) /\ Ahead(j, c, k, d) => KeyFor(j, c) \in Keys(L),
         \A b \in DOMAIN batches : batches[b].status = "POSTED" => DateOf(k, d) > batches[b].cut
  PROVE  Booked(L \cup {e})
  <1> DEFINE M == L \cup {e}
  <1>1. /\ e.key = KeyFor(k, d) /\ e.on = DateOf(k, d) /\ e.units = UnitsFor(k, d, Balance(L, ReadOn(k, d)))
        /\ e.type # "OPENING_BALANCE"
    BY DEF Makes
  <1>2. e.on \in Int /\ e.units \in Int /\ ReadOn(k, d) \in Int /\ e.on >= 0
    <2>1. Balance(L, ReadOn(k, d)) \in Int BY LedgerFigures
    <2>2. DateOf(k, d) >= start /\ start \in Nat BY DueDates, PlacedTypes
    <2>3. QED BY <1>1, <2>1, <2>2, DateFigures
  <1>3. \A f \in L : f.key[1] # "TERM"
    <2>1. PaidOff(L) BY DEF Booked
    <2>2. QED BY <2>1 DEF PaidOff
  <1>4. ASSUME NEW j \in Phases, NEW c \in Int, KeyFor(j, c) \in Keys(L), Reads(j, c)
        PROVE  e.on > ReadOn(j, c)
    <2>1. PICK f \in L : f.key = KeyFor(j, c) BY <1>4 DEF Keys
    <2>2. Due(j, c) BY <2>1 DEF Booked, AsDue
    <2>3. ~Ahead(k, d, j, c) BY <1>4 DEF Booked, InOrder
    <2>4. ReadOn(j, c) < DateOf(k, d) BY <1>4, <2>2, <2>3, LaterDates
    <2>5. QED BY <1>1, <1>2, <2>4, DateFigures
  <1>5. /\ Ints(M) /\ OnePerKey(M) /\ Keys(M) = Keys(L) \cup {e.key}
        /\ \A f \in L, j \in Phases, c \in Int : f.key = KeyFor(j, c) =>
             Due(j, c) /\ f.on = DateOf(j, c) /\ f.units = UnitsFor(j, c, UnitSum(Before(M, j, c)))
    <2>1. e.key \notin Keys(L) BY <1>1
    <2>2. QED BY <1>2, <1>4, <2>1, StillDue
  <1>6. Keyed(M)
    <2>1. Keyed(L) BY DEF Booked
    <2>2. QED BY <1>1, <1>2, <2>1 DEF Keyed
  <1>7. AsDue(M)
    <2>1. Before(M, k, d) = {f \in L : f.on <= ReadOn(k, d)} BY <1>1, <1>3 DEF Before, Keys
    <2>2. UnitSum(Before(M, k, d)) = Balance(L, ReadOn(k, d))
      <3>1. {f \in L : f.on <= ReadOn(k, d)} \in SUBSET L OBVIOUS
      <3>2. QED BY <2>1, <3>1, SubSums DEF Balance
    <2>c. \A j \in Phases, c \in Int : KeyFor(k, d) = KeyFor(j, c) => k = j /\ d = c BY KeysApart
    <2>3. \A j \in Phases, c \in Int : e.key = KeyFor(j, c) => j = k /\ c = d BY <1>1, <2>c
    <2> HIDE DEF M
    <2>4. \A f \in M : f \in L \/ f = e BY DEF M
    <2>5. QED BY <1>1, <1>5, <2>2, <2>3, <2>4 DEF AsDue
  <1>8. InOrder(M)
    <2>1. SUFFICES ASSUME NEW i \in Phases, NEW j \in Phases, NEW c \in Int, NEW b \in Int,
                          KeyFor(i, b) \in Keys(M), Reads(i, b), Due(j, c), Ahead(j, c, i, b)
                   PROVE  KeyFor(j, c) \in Keys(M)
      BY DEF InOrder
    <2>2. CASE KeyFor(i, b) \in Keys(L) BY <1>5, <2>1, <2>2 DEF Booked, InOrder
    <2>3. CASE KeyFor(i, b) = e.key
      <3>1. i = k /\ b = d BY <1>1, <2>3, KeysApart
      <3>2. QED BY <1>5, <2>1, <3>1
    <2>4. QED BY <1>5, <2>1, <2>2, <2>3
  <1>9. PaidOff(M)
    <2>1. e.key[1] # "TERM" BY <1>1, KeysApart
    <2>2. QED BY <1>3, <2>1 DEF PaidOff
  <1>10. TakenOn(M)
    <2>1. \A b : e.key # <<"OPEN", b>> /\ e.key # <<"REV", b>> BY <1>1, KeysApart
    <2>2. \A b \in DOMAIN batches : batches[b].status = "POSTED" => e.on > batches[b].cut BY <1>1
    <2>3. TakenOn(L) BY DEF Booked
    <2>4. QED BY <1>1, <1>2, <2>1, <2>2, <2>3, StillTakenOn
  <1>11. QED BY <1>5, <1>6, <1>7, <1>8, <1>9, <1>10 DEF Booked

\* Somebody's leave, or what a batch posts, changes nothing that was judged,
\* if nothing that was posted read the balance of that day.
LEMMA OtherPosting ==
  ASSUME Placed, ~Left, NEW L, Ints(L), Booked(L), NEW e, e.units \in Int, e.on \in Int, e.on >= 0,
         NEW t \in {"USE", "RET", "OPEN", "REV"}, NEW r, e.key = <<t, r>>, e.key \notin Keys(L),
         \A k \in Phases, d \in Int : KeyFor(k, d) \in Keys(L) /\ Reads(k, d) => e.on > ReadOn(k, d)
  PROVE  /\ Ints(L \cup {e}) /\ OnePerKey(L \cup {e}) /\ Keyed(L \cup {e}) /\ AsDue(L \cup {e})
         /\ InOrder(L \cup {e}) /\ PaidOff(L \cup {e})
  <1> DEFINE M == L \cup {e}
  <1>2. \A f \in L : f.key[1] # "TERM" BY DEF Booked, PaidOff
  <1>4. /\ Ints(M) /\ OnePerKey(M) /\ Keys(M) = Keys(L) \cup {e.key}
        /\ \A f \in L, j \in Phases, c \in Int : f.key = KeyFor(j, c) =>
             Due(j, c) /\ f.on = DateOf(j, c) /\ f.units = UnitsFor(j, c, UnitSum(Before(M, j, c)))
    BY StillDue
  <1>5. \A j \in Phases : \A c : e.key # KeyFor(j, c) BY KeysApart
  <1>6. Keyed(M)
    <2>1. Keyed(L) BY DEF Booked
    <2>2. QED BY <2>1 DEF Keyed
  <1>7. AsDue(M)
    <2> HIDE DEF M
    <2>1. \A f \in M : f \in L \/ f = e BY DEF M
    <2>2. QED BY <1>4, <1>5, <2>1 DEF AsDue
  <1>8. InOrder(M) BY <1>4, <1>5 DEF Booked, InOrder
  <1>9. PaidOff(M)
    <2>1. e.key[1] # "TERM" BY KeysApart
    <2>2. QED BY <1>2, <2>1 DEF PaidOff
  <1>10. QED BY <1>4, <1>6, <1>7, <1>8, <1>9

\* A booking, or a cancellation, of leave that is still to come keeps the book.
LEMMA BookLeave ==
  ASSUME Placed, ~Left, NEW L, Ints(L), Booked(L), NEW e, e.units \in Int, e.on \in Int, e.on > today,
         e.type # "OPENING_BALANCE", NEW t \in {"USE", "RET"}, NEW r, e.key = <<t, r>>, e.key \notin Keys(L)
  PROVE  Booked(L \cup {e})
  <1>1. today \in Nat /\ EndLimit \in Int /\ EndLimit <= today BY PlacedTypes
  <1>2. ASSUME NEW j \in Phases, NEW c \in Int, KeyFor(j, c) \in Keys(L)
        PROVE  e.on > ReadOn(j, c)
    <2>1. PICK f \in L : f.key = KeyFor(j, c) BY <1>2 DEF Keys
    <2>2. Due(j, c) BY <2>1 DEF Booked, AsDue
    <2>3. ReadOn(j, c) <= DateOf(j, c) /\ DateOf(j, c) <= EndLimit BY <2>2, DueDates
    <2>4. DateOf(j, c) \in Int /\ ReadOn(j, c) \in Int BY DateFigures
    <2>5. QED BY <1>1, <2>3, <2>4
  <1>3. e.on >= 0 BY <1>1
  <1>4. /\ OnePerKey(L \cup {e}) /\ Keyed(L \cup {e}) /\ AsDue(L \cup {e})
        /\ InOrder(L \cup {e}) /\ PaidOff(L \cup {e})
    BY <1>2, <1>3, OtherPosting
  <1>5. TakenOn(L \cup {e})
    <2>1. \A b : e.key # <<"OPEN", b>> /\ e.key # <<"REV", b>> OBVIOUS
    <2>2. \A b \in DOMAIN batches : batches[b].status = "POSTED" => e.on > batches[b].cut BY <1>1 DEF Placed
    <2>3. TakenOn(L) BY DEF Booked
    <2>4. QED BY <2>1, <2>2, <2>3, StillTakenOn
  <1>6. QED BY <1>4, <1>5 DEF Booked

-----------------------------------------------------------------------------
\* Where the loops begin: the start of service, or the day after the cut-over
\* of the batch that stands.
StandsOn(L, x, b, o) ==
  /\ b \in DOMAIN batches /\ batches[b].status = "POSTED"
  /\ LiveOpenings(L) = {o} /\ o \in L /\ o.key = <<"OPEN", b>> /\ o.on = batches[b].cut
  /\ x = Larger(start, batches[b].cut + 1)

LEMMA BatchTypes ==
  ASSUME Placed
  PROVE  \A b \in DOMAIN batches : /\ batches[b].status \in {"DRAFT", "POSTED", "REVERSED"}
                                   /\ batches[b].cut \in Nat /\ batches[b].figure \in Int
  <1> DEFINE B == [status : {"DRAFT", "POSTED", "REVERSED"}, cut : Int, figure : Int]
  <1>1. batches \in Seq(B) BY PlacedTypes DEF EngineTypes
  <1> HIDE DEF B
  <1>2. \A b \in DOMAIN batches : batches[b] \in B BY <1>1
  <1>3. QED BY <1>2 DEF B, Placed

LEMMA FloorIs ==
  ASSUME Placed, NothingRewritten, NEW L, Ints(L), Booked(L), NEW x, x = AccrualFloor(L)
  PROVE  /\ x \in Int /\ x >= start /\ (x = start \/ x % MonthDays = 0)
         /\ \A b \in DOMAIN batches : batches[b].status = "POSTED" => batches[b].cut < x
         /\ \/ LiveOpenings(L) = {} /\ x = start /\ \A b \in DOMAIN batches : batches[b].status # "POSTED"
            \/ \E b, o : StandsOn(L, x, b, o)
         /\ NoBatchPosted => x = start /\ LiveOpenings(L) = {}
  <1>t. start \in Nat BY PlacedTypes
  <1>k. OnePerKey(L) /\ TakenOn(L) BY DEF Booked
  <1>b. \A b \in DOMAIN batches : batches[b].status \in {"DRAFT", "POSTED", "REVERSED"} /\ batches[b].cut \in Nat
    BY BatchTypes
  \* An opening is of a batch that was posted.
  <1>o. ASSUME NEW e \in LiveOpenings(L)
        PROVE  \E b \in DOMAIN batches : batches[b].status = "POSTED" /\ e.key = <<"OPEN", b>> /\ e.on = batches[b].cut
    <2>1. e \in L /\ e.type = "OPENING_BALANCE" /\ <<"REV", e.key[2]>> \notin Keys(L) BY DEF LiveOpenings
    <2>2. PICK b : e.key = <<"OPEN", b>> BY <1>k, <2>1 DEF TakenOn
    <2>3. b \in DOMAIN batches /\ e.on = batches[b].cut /\ batches[b].status # "DRAFT" BY <1>k, <2>1, <2>2 DEF TakenOn
    <2>4. e.key[2] = b BY <2>2
    <2>5. batches[b].status # "REVERSED"
      <3>1. <<"REV", b>> \notin Keys(L) BY <2>1, <2>4
      <3>2. QED BY <1>k, <2>3, <3>1 DEF TakenOn, Keys
    <2>6. QED BY <1>b, <2>2, <2>3, <2>5
  <1>1. CASE \A b \in DOMAIN batches : batches[b].status # "POSTED"
    <2>1. LiveOpenings(L) = {} BY <1>1, <1>o
    <2>2. x = start BY <2>1 DEF AccrualFloor
    <2>3. QED BY <1>1, <1>t, <2>1, <2>2
  <1>2. ASSUME NEW b \in DOMAIN batches, batches[b].status = "POSTED"
        PROVE  /\ x \in Int /\ x >= start /\ (x = start \/ x % MonthDays = 0)
               /\ \A c \in DOMAIN batches : batches[c].status = "POSTED" => batches[c].cut < x
               /\ \E o : StandsOn(L, x, b, o)
    <2>1. ~NoBatchPosted BY <1>2 DEF NoBatchPosted
    <2>2. OneTakeOn BY <2>1 DEF NothingRewritten
    <2>3. /\ (batches[b].cut + 1) % MonthDays = 0 \/ batches[b].cut < start
          /\ \A c \in DOMAIN batches \ {b} : batches[c].status = "DRAFT"
      BY <1>2, <2>2 DEF OneTakeOn
    <2>4. PICK o \in L : o.key = <<"OPEN", b>> BY <1>2, <1>k DEF TakenOn, Keys
    <2>5. o.on = batches[b].cut BY <1>k, <2>4 DEF TakenOn
    <2>6. o \in LiveOpenings(L)
      <3>1. o.type = "OPENING_BALANCE" /\ o.key[2] = b BY <1>k, <2>4 DEF TakenOn
      <3>2. <<"REV", b>> \notin Keys(L) BY <1>2, <1>k DEF TakenOn, Keys
      <3>3. QED BY <3>1, <3>2 DEF LiveOpenings
    <2>7. LiveOpenings(L) = {o}
      <3>1. ASSUME NEW e \in LiveOpenings(L) PROVE e = o
        <4>1. PICK c \in DOMAIN batches : batches[c].status = "POSTED" /\ e.key = <<"OPEN", c>> BY <1>o
        <4>2. c = b BY <2>3, <4>1
        <4>3. e \in L BY DEF LiveOpenings
        <4>4. QED BY <1>k, <2>4, <4>1, <4>2, <4>3 DEF OnePerKey
      <3>2. QED BY <2>6, <3>1
    <2>8. Max({e.on : e \in LiveOpenings(L)}) = batches[b].cut
      <3>1. {e.on : e \in LiveOpenings(L)} = {batches[b].cut} BY <2>5, <2>7
      <3>a. batches[b].cut \in Int BY <1>b
      <3>b. IsFiniteSet({batches[b].cut}) BY FS_Singleton
      <3>2. IsFiniteSet({batches[b].cut}) /\ {batches[b].cut} \subseteq Int BY <3>a, <3>b
      <3>3. Max({batches[b].cut}) \in {batches[b].cut} BY <3>2, MaxIn
      <3>4. QED BY <3>1, <3>3
    <2>9. x = Larger(start, batches[b].cut + 1) BY <2>7, <2>8 DEF AccrualFloor
    <2>10. x \in Int /\ x >= start /\ batches[b].cut < x /\ (x = start \/ x = batches[b].cut + 1) BY <1>b, <1>t, <2>9 DEF Larger
    <2>11. x = start \/ x % MonthDays = 0 BY <1>b, <1>t, <2>3, <2>10
    <2>12. StandsOn(L, x, b, o) BY <1>2, <2>4, <2>5, <2>7, <2>9 DEF StandsOn
    <2>13. \A c \in DOMAIN batches : batches[c].status = "POSTED" => c = b BY <2>3
    <2>14. QED BY <2>10, <2>11, <2>12, <2>13
  <1>3. QED BY <1>1, <1>2 DEF NoBatchPosted

-----------------------------------------------------------------------------
LoopDates(k, x) ==
  IF k = "accrue" THEN Every(MonthDays, MonthStart(x), EndLimit)
  ELSE IF k = "grant" THEN Every(YearDays, FirstGrant, EndLimit)
  ELSE Every(YearDays, start + YearDays, EndLimit)

\* A loop comes to every date of what is due from there on, and to nothing else.
LEMMA LoopCovers ==
  ASSUME Placed, NEW x \in Int, x >= start, x = start \/ x % MonthDays = 0, NEW k \in Phases,
         NEW dates, dates = LoopDates(k, x)
  PROVE  /\ dates \in Seq(Int) /\ Len(dates) \in Nat
         /\ \A i \in 1 .. Len(dates) :
              /\ dates[i] \in Int /\ OnGrid(k, dates[i])
              /\ k = "accrue" => Larger(dates[i], x) = Larger(dates[i], start)
              /\ Ripe(k, dates[i], x) => Due(k, dates[i]) /\ (k # "end" => DateOf(k, dates[i]) >= x)
         /\ \A d \in Int : Due(k, d) /\ DateOf(k, d) >= x =>
              Ripe(k, d, x) /\ \E i \in 1 .. Len(dates) : dates[i] = d
         /\ \A i, j \in 1 .. Len(dates) : dates[i] < dates[j] => i < j
  <1>t. /\ EndLimit \in Int /\ start \in Nat /\ FirstGrant \in Int /\ FirstGrant >= start
        /\ MonthDays \in Nat \ {0} /\ YearDays \in Nat \ {0} /\ today \in Nat
    BY PlacedTypes
  <1>1. CASE k = "accrue"
    <2> DEFINE m == MonthStart(x)
    <2>1. m \in Int /\ m % MonthDays = 0 /\ m <= x /\ x <= m + MonthDays - 1 BY MonthOf
    <2>2. x % MonthDays = 0 => m = x
      <3>1. x % MonthDays = 0 /\ m < x => m + MonthDays <= x BY <1>t, <2>1, Between
      <3> HIDE DEF m
      <3>2. QED BY <1>t, <2>1, <3>1
    <2> HIDE DEF m
    <2>3. dates = Every(MonthDays, m, EndLimit) BY <1>1 DEF LoopDates, m
    <2>4. dates \in Seq(Int) /\ Len(dates) \in Nat BY <1>t, <2>1, <2>3, EveryIs
    <2>5. /\ \A i \in 1 .. Len(dates) : dates[i] \in Int /\ m <= dates[i] /\ dates[i] <= EndLimit
                                        /\ (dates[i] - m) % MonthDays = 0
          /\ \A d \in Int : m <= d /\ d <= EndLimit /\ (d - m) % MonthDays = 0 => \E i \in 1 .. Len(dates) : dates[i] = d
          /\ \A i, j \in 1 .. Len(dates) : dates[i] < dates[j] => i < j
      <3>1. MonthDays \in Nat \ {0} /\ m \in Int /\ EndLimit \in Int BY <1>t, <2>1
      <3>2. Visits(dates, MonthDays, m, EndLimit) BY <3>1, <2>3, EveryHas
      <3>3. QED BY <3>2 DEF Visits
    <2>6. \A d \in Int : d % MonthDays = 0 <=> (d - m) % MonthDays = 0 BY <1>t, <2>1, Between
    <2>7. \A d \in Int : m <= d => Larger(d, x) = Larger(d, start) BY <1>t, <2>1, <2>2 DEF Larger
    <2>8. ASSUME NEW d \in Int, m <= d PROVE Ripe(k, d, x) <=> Ripe(k, d, start)
      BY <1>1, <2>7, <2>8 DEF Ripe
    <2>9. ASSUME NEW d \in Int, Ripe(k, d, x) PROVE DateOf(k, d) >= x
      <3>1. Larger(d, x) <= AccTo(d) BY <1>1, <2>9 DEF Ripe
      <3>2. AccTo(d) \in Int BY DateFigures
      <3>3. AccTo(d) >= x BY <3>1, <3>2 DEF Larger
      <3>4. QED BY <1>1, <3>3 DEF DateOf
    <2>10. ASSUME NEW d \in Int, Due(k, d), DateOf(k, d) >= x PROVE m <= d /\ d <= EndLimit /\ d % MonthDays = 0
      <3>1. d % MonthDays = 0 /\ d <= EndLimit BY <1>1, <2>10 DEF Due, OnGrid
      <3>2. AccTo(d) <= d + MonthDays - 1 /\ AccTo(d) >= x BY <1>1, <2>10, DueDates DEF DateOf
      <3>3. AccTo(d) \in Int BY DateFigures
      <3>4. d < m => d + MonthDays <= m BY <1>t, <2>1, <3>1, Between
      <3>5. QED BY <1>t, <2>1, <3>1, <3>2, <3>3, <3>4
    <2>11. \A i \in 1 .. Len(dates) : OnGrid(k, dates[i]) BY <1>1, <2>5, <2>6 DEF OnGrid
    <2>12. \A i \in 1 .. Len(dates) : Ripe(k, dates[i], x) => Due(k, dates[i]) /\ DateOf(k, dates[i]) >= x
      BY <2>5, <2>8, <2>9, <2>11 DEF Due
    <2>13. \A d \in Int : Due(k, d) /\ DateOf(k, d) >= x => Ripe(k, d, x) /\ \E i \in 1 .. Len(dates) : dates[i] = d
      BY <2>5, <2>6, <2>8, <2>10 DEF Due
    <2>14. \A i \in 1 .. Len(dates) : Larger(dates[i], x) = Larger(dates[i], start) BY <2>5, <2>7
    <2>15. QED BY <2>4, <2>5, <2>11, <2>12, <2>13, <2>14
  <1>2. CASE k = "grant"
    <2>3. dates = Every(YearDays, FirstGrant, EndLimit) BY <1>2 DEF LoopDates
    <2>4. dates \in Seq(Int) /\ Len(dates) \in Nat BY <1>t, <2>3, EveryIs
    <2>5. /\ \A i \in 1 .. Len(dates) : dates[i] \in Int /\ FirstGrant <= dates[i] /\ dates[i] <= EndLimit
                                        /\ (dates[i] - FirstGrant) % YearDays = 0
          /\ \A d \in Int : FirstGrant <= d /\ d <= EndLimit /\ (d - FirstGrant) % YearDays = 0 =>
               \E i \in 1 .. Len(dates) : dates[i] = d
          /\ \A i, j \in 1 .. Len(dates) : dates[i] < dates[j] => i < j
      <3>1. YearDays \in Nat \ {0} /\ FirstGrant \in Int /\ EndLimit \in Int BY <1>t
      <3>2. Visits(dates, YearDays, FirstGrant, EndLimit) BY <3>1, <2>3, EveryHas
      <3>3. QED BY <3>2 DEF Visits
    <2>6. \A d \in Int : OnGrid(k, d) <=> d >= FirstGrant /\ (d - FirstGrant) % YearDays = 0 BY <1>2 DEF OnGrid
    <2>7. \A d \in Int : FirstGrant <= d => (Ripe(k, d, x) <=> Ripe(k, d, start) /\ d >= x) BY <1>2, <1>t DEF Ripe
    <2>8. \A d : DateOf(k, d) = d BY <1>2 DEF DateOf
    <2>11. \A i \in 1 .. Len(dates) : OnGrid(k, dates[i]) BY <2>5, <2>6
    <2>12. \A i \in 1 .. Len(dates) : Ripe(k, dates[i], x) => Due(k, dates[i]) /\ DateOf(k, dates[i]) >= x
      BY <2>5, <2>7, <2>8, <2>11 DEF Due
    <2>13. \A d \in Int : Due(k, d) /\ DateOf(k, d) >= x => Ripe(k, d, x) /\ \E i \in 1 .. Len(dates) : dates[i] = d
      BY <1>t, <2>5, <2>6, <2>7, <2>8 DEF Due
    <2>15. QED BY <1>2, <2>4, <2>5, <2>11, <2>12, <2>13
  <1>3. CASE k = "end"
    <2> DEFINE f == start + YearDays
    <2>1. f \in Int BY <1>t
    <2>2. \A d \in Int : OnGrid(k, d) <=> f <= d /\ (d - f) % YearDays = 0
      <3>1. TAKE d \in Int
      <3>2. YearDays % YearDays = 0
        <4>1. YearDays \in Int /\ YearDays = 1 * YearDays BY <1>t
        <4>2. QED BY <1>t, <4>1, Leaves
      <3> DEFINE z == d - start
      <3>3. z \in Int /\ z - YearDays = d - f /\ YearDays \in Int BY <1>t
      <3>4. OnGrid(k, d) <=> d > start /\ z % YearDays = 0 BY <1>3 DEF OnGrid
      <3> HIDE DEF z, f
      <3>5. z % YearDays = 0 <=> (d - f) % YearDays = 0 BY <1>t, <3>2, <3>3, Between
      <3>6. z % YearDays = 0 /\ z > 0 => YearDays <= z
        <4>1. 0 % YearDays = 0
          <5>1. 0 = 0 * YearDays BY <1>t
          <5>2. QED BY <1>t, <5>1, Leaves
        <4>2. z % YearDays = 0 /\ 0 < z => 0 + YearDays <= z BY <1>t, <3>3, <4>1, Between
        <4>3. QED BY <1>t, <3>3, <4>2
      <3>7. (d > start <=> z > 0) /\ (f <= d <=> YearDays <= z) BY <1>t DEF z, f
      <3>8. QED BY <1>t, <3>3, <3>4, <3>5, <3>6, <3>7
    <2>3. dates = Every(YearDays, f, EndLimit) BY <1>3 DEF LoopDates
    <2> HIDE DEF f
    <2>4. dates \in Seq(Int) /\ Len(dates) \in Nat BY <1>t, <2>1, <2>3, EveryIs
    <2>5. /\ \A i \in 1 .. Len(dates) : dates[i] \in Int /\ f <= dates[i] /\ dates[i] <= EndLimit
                                        /\ (dates[i] - f) % YearDays = 0
          /\ \A d \in Int : f <= d /\ d <= EndLimit /\ (d - f) % YearDays = 0 => \E i \in 1 .. Len(dates) : dates[i] = d
          /\ \A i, j \in 1 .. Len(dates) : dates[i] < dates[j] => i < j
      <3>1. YearDays \in Nat \ {0} /\ f \in Int /\ EndLimit \in Int BY <1>t, <2>1
      <3>2. Visits(dates, YearDays, f, EndLimit) BY <3>1, <2>3, EveryHas
      <3>3. QED BY <3>2 DEF Visits
    <2>7. \A d : Ripe(k, d, x) <=> Ripe(k, d, start) BY <1>3 DEF Ripe
    <2>11. \A i \in 1 .. Len(dates) : OnGrid(k, dates[i]) BY <2>2, <2>5
    <2>12. \A i \in 1 .. Len(dates) : Ripe(k, dates[i], x) => Due(k, dates[i]) BY <2>5, <2>7, <2>11 DEF Due
    <2>13. \A d \in Int : Due(k, d) => Ripe(k, d, x) /\ \E i \in 1 .. Len(dates) : dates[i] = d
      BY <2>2, <2>5, <2>7 DEF Due
    <2>15. QED BY <1>3, <2>4, <2>5, <2>11, <2>12, <2>13
  <1>4. QED BY <1>1, <1>2, <1>3 DEF Phases

-----------------------------------------------------------------------------
\* Only where no batch was posted does a posting read a balance.
LEMMA ReadsAlone ==
  ASSUME Placed, NothingRewritten, NEW k \in Phases, NEW d \in Int, Due(k, d), Reads(k, d)
  PROVE  NoBatchPosted
  <1>1. ~(BalancesFree /\ CarriesFree) BY NothingReads
  <1>2. QED BY <1>1 DEF NothingRewritten

Has(L, k, x) == \A c \in Int : Due(k, c) /\ DateOf(k, c) >= x => KeyFor(k, c) \in Keys(L)

\* A loop keeps the book, and at its end all is posted that is due from there on.
LEMMA LoopBooks ==
  ASSUME Placed, NothingRewritten, NEW s, Sound(s), Booked(s.ledger), NEW x, x = AccrualFloor(s.ledger),
         NEW k \in Phases, k = "end" => \A j \in Phases : j # k => Has(s.ledger, j, x),
         NEW dates, dates = LoopDates(k, x), NEW g, Run(k, x, s, dates, g)
  PROVE  /\ Sound(g[Len(dates)]) /\ Booked(g[Len(dates)].ledger) /\ Has(g[Len(dates)].ledger, k, x)
         /\ s.ledger \subseteq g[Len(dates)].ledger /\ AccrualFloor(g[Len(dates)].ledger) = x
  <1> DEFINE N == Len(dates)
             Posts(i) == \A j \in 1 .. i : Ripe(k, dates[j], x) => KeyFor(k, dates[j]) \in Keys(g[i].ledger)
             B == {i \in 0 .. N : ~(Booked(g[i].ledger) /\ Posts(i))}
  <1>t. EngineTypes /\ Ints(s.ledger) BY PlacedTypes DEF Sound
  <1>x. /\ x \in Int /\ x >= start /\ (x = start \/ x % MonthDays = 0)
        /\ \A b \in DOMAIN batches : batches[b].status = "POSTED" => batches[b].cut < x
        /\ NoBatchPosted => x = start
    BY <1>t, FloorIs
  <1>d. /\ dates \in Seq(Int) /\ N \in Nat
        /\ \A i \in 1 .. N :
             /\ dates[i] \in Int /\ OnGrid(k, dates[i])
             /\ k = "accrue" => Larger(dates[i], x) = Larger(dates[i], start)
             /\ Ripe(k, dates[i], x) => Due(k, dates[i]) /\ (k # "end" => DateOf(k, dates[i]) >= x)
        /\ \A d \in Int : Due(k, d) /\ DateOf(k, d) >= x => Ripe(k, d, x) /\ \E i \in 1 .. N : dates[i] = d
        /\ \A i, j \in 1 .. N : dates[i] < dates[j] => i < j
    BY <1>x, LoopCovers
  <1>g. /\ g[0] = s
        /\ \A i \in 1 .. N : g[i] = Turn(k, x, g[i - 1], dates[i])
        /\ \A i \in 0 .. N, j \in 0 .. N : j <= i => Step(g[j], g[i])
    BY <1>t, <1>x, <1>d, RunSteps
  <1>s. \A i \in 0 .. N : Sound(g[i]) /\ s.ledger \subseteq g[i].ledger /\ AccrualFloor(g[i].ledger) = x
    <2>1. TAKE i \in 0 .. N
    <2>2. Step(g[0], g[i])
      <3>1. 0 \in 0 .. N /\ 0 <= i BY <1>d
      <3> HIDE DEF N
      <3>2. QED BY <1>g, <3>1
    <2>3. QED BY <1>g, <2>2 DEF Step, AccrualFloor
  \* One turn.
  <1>1. ASSUME NEW i \in 1 .. N, Booked(g[i - 1].ledger), Posts(i - 1)
        PROVE  Booked(g[i].ledger) /\ Posts(i)
    <2> DEFINE d == dates[i]
               L == g[i - 1].ledger
               M == g[i].ledger
    <2>1. i - 1 \in 0 .. N /\ i \in 0 .. N BY <1>d
    <2>2. Sound(g[i - 1]) /\ s.ledger \subseteq L /\ Ints(L) BY <1>s, <2>1 DEF Sound
    <2>3. /\ ~Ripe(k, d, x) \/ KeyFor(k, d) \in Keys(L) => M = L
          /\ Ripe(k, d, x) /\ KeyFor(k, d) \notin Keys(L) =>
               \E e : Makes(e, k, d, Balance(L, ReadOn(k, d))) /\ M = L \cup {e}
      <3> DEFINE t == g[i - 1]
      <3>1. d \in Int /\ OnGrid(k, d) /\ (k = "accrue" => Larger(d, x) = Larger(d, start)) BY <1>d
      <3>2. g[i] = Turn(k, x, t, d) /\ Sound(t) BY <1>g, <2>2
      <3> HIDE DEF t, d, N
      <3>3. /\ ~Ripe(k, d, x) \/ KeyFor(k, d) \in Keys(t.ledger) => g[i].ledger = t.ledger
            /\ Ripe(k, d, x) /\ KeyFor(k, d) \notin Keys(t.ledger) =>
                 \E e : Makes(e, k, d, Balance(t.ledger, ReadOn(k, d))) /\ g[i].ledger = t.ledger \cup {e}
        BY <1>x, <3>1, <3>2, TurnPosts
      <3>4. QED BY <3>3 DEF t
    <2>4. L \subseteq M
      <3>1. i - 1 <= i BY <1>d
      <3>2. Step(g[i - 1], g[i])
        <4> HIDE DEF N
        <4>1. QED BY <1>g, <2>1, <3>1
      <3>3. QED BY <3>2 DEF Step
    <2>5. Booked(M) /\ (Ripe(k, d, x) => KeyFor(k, d) \in Keys(M))
      <3>1. CASE ~Ripe(k, d, x) \/ KeyFor(k, d) \in Keys(L) BY <1>1, <2>3, <3>1
      <3>2. CASE Ripe(k, d, x) /\ KeyFor(k, d) \notin Keys(L)
        <4>1. PICK e : Makes(e, k, d, Balance(L, ReadOn(k, d))) /\ M = L \cup {e} BY <2>3, <3>2
        <4>2. d \in Int /\ Due(k, d) /\ (k # "end" => DateOf(k, d) >= x) BY <1>d, <3>2
        <4>3. ASSUME NEW b \in DOMAIN batches, batches[b].status = "POSTED" PROVE DateOf(k, d) > batches[b].cut
          <5>1. k # "end"
            <6>1. ~NoBatchPosted BY <4>3 DEF NoBatchPosted
            <6>2. ~Reads(k, d) BY <4>2, <6>1, ReadsAlone
            <6>3. QED BY <6>2 DEF Reads
          <5>2. batches[b].cut < x /\ batches[b].cut \in Int /\ DateOf(k, d) \in Int
            <6>1. DateOf(k, d) \in Int
              <7> HIDE DEF d
              <7>1. QED BY <4>2, DateFigures
            <6>2. QED BY <1>x, <4>3, <6>1, BatchTypes
          <5>3. QED BY <1>x, <4>2, <5>1, <5>2
        <4>4. ASSUME Reads(k, d), NEW j \in Phases, NEW c \in Int, Due(j, c), Ahead(j, c, k, d)
              PROVE  KeyFor(j, c) \in Keys(L)
          <5>1. x = start BY <1>x, <4>2, <4>4, ReadsAlone
          <5>2. DateOf(j, c) >= x BY <4>4, <5>1, DueDates
          <5>3. CASE j = k
            <6>1. PICK l \in 1 .. N : dates[l] = c /\ Ripe(k, c, x) BY <1>d, <4>4, <5>2, <5>3
            <6>2. c < d BY <4>4, <5>3 DEF Ahead
            <6>3. l < i BY <1>d, <6>1, <6>2
            <6>4. l \in 1 .. (i - 1) BY <1>d, <6>3
            <6>5. KeyFor(k, dates[l]) \in Keys(L) BY <1>1, <6>1, <6>4
            <6>6. QED BY <5>3, <6>1, <6>5
          <5>4. CASE j # k
            <6>1. k = "end" BY <4>4, <5>4 DEF Ahead
            <6>2. KeyFor(j, c) \in Keys(s.ledger) BY <4>4, <5>2, <5>4, <6>1 DEF Has
            <6>3. QED BY <2>2, <6>2 DEF Keys
          <5>5. QED BY <5>3, <5>4
        <4>5. Booked(L \cup {e})
          <5> HIDE DEF L, M, d
          <5>1. BalancesFree \/ CarriesFree BY DEF NothingRewritten
          <5>2. Booked(L) BY <1>1 DEF L
          <5>3. QED BY <2>2, <3>2, <4>1, <4>2, <4>3, <4>4, <5>1, <5>2, BookPosting
        <4>6. e.key = KeyFor(k, d) /\ e \in M BY <4>1 DEF Makes
        <4>7. QED BY <4>1, <4>5, <4>6 DEF Keys
      <3>3. QED BY <3>1, <3>2
    <2>6. Posts(i)
      <3>1. SUFFICES ASSUME NEW j \in 1 .. i, Ripe(k, dates[j], x) PROVE KeyFor(k, dates[j]) \in Keys(M) OBVIOUS
      <3>2. CASE j = i BY <2>5, <3>1, <3>2
      <3>3. CASE j # i
        <4>1. j \in 1 .. (i - 1) BY <1>d, <3>3
        <4>2. KeyFor(k, dates[j]) \in Keys(L) BY <1>1, <3>1, <4>1
        <4>3. QED BY <2>4, <4>2 DEF Keys
      <3>4. QED BY <3>2, <3>3
    <2>7. QED BY <2>5, <2>6
  <1>2. ASSUME B # {} PROVE FALSE
    <2>0. B \in SUBSET (0 .. N) OBVIOUS
    <2>1. \E i \in B : \A b \in B : i <= b
      <3> HIDE DEF B, N
      <3>1. QED BY <1>d, <1>2, <2>0, Least
    <2>2. PICK i \in B : \A b \in B : i <= b BY <2>1
    <2>3. i # 0
      <3>1. Posts(0) BY <1>d
      <3>2. Booked(g[0].ledger) BY <1>g
      <3>3. QED BY <2>2, <3>1, <3>2
    <2>4. i \in 1 .. N /\ i - 1 \in 0 .. N /\ i - 1 \notin B BY <1>d, <2>2, <2>3
    <2> HIDE DEF Posts
    <2>5. Booked(g[i - 1].ledger) /\ Posts(i - 1) BY <2>4
    <2>6. Booked(g[i].ledger) /\ Posts(i) BY <1>1, <2>4, <2>5
    <2>7. QED BY <2>2, <2>6
  <1>3. N \in 0 .. N /\ N \notin B BY <1>2, <1>d
  <1>4. Booked(g[N].ledger) /\ Posts(N)
    <2> HIDE DEF Posts
    <2>1. QED BY <1>3
  <1>5. Has(g[N].ledger, k, x)
    <2>1. SUFFICES ASSUME NEW c \in Int, Due(k, c), DateOf(k, c) >= x PROVE KeyFor(k, c) \in Keys(g[N].ledger)
      BY DEF Has
    <2>2. PICK i \in 1 .. N : dates[i] = c /\ Ripe(k, c, x) BY <1>d, <2>1
    <2>3. QED BY <1>4, <2>2
  <1>6. QED BY <1>3, <1>4, <1>5, <1>s

\* The last payout closes the book.
LEMMA PayOutBooks ==
  ASSUME Placed, NothingRewritten, NEW s, Sound(s), Booked(s.ledger),
         \A k \in Phases : Has(s.ledger, k, AccrualFloor(s.ledger))
  PROVE  /\ Booked(PayOut(s).ledger) /\ s.ledger \subseteq PayOut(s).ledger
         /\ LiveOpenings(PayOut(s).ledger) = LiveOpenings(s.ledger)
         /\ Left /\ Policy(today).payoutOnTermination => UnitSum(PayOut(s).ledger) <= 0
  <1> DEFINE L == s.ledger
             u == Total(L)
             key == <<"TERM", leftOn>>
             c == IF leftOn < EngineStartedOn THEN s ELSE CreatePayout(s, u)
             e == Entry(key, "PAYOUT", - u, EmpLastDay, CycleKey(EmpLastDay))
             pays == Left /\ Policy(today).payoutOnTermination /\ key \notin Keys(L) /\ u > 0
  <1>1. PayOut(s) = IF pays THEN Posted(c, e) ELSE s BY DEF PayOut
  <1>t. EngineTypes /\ Ints(L) /\ EmpLastDay \in Int BY PlacedTypes DEF Sound
  <1>u. u \in Int /\ u = UnitSum(L) BY <1>t, SubSums
  <1>e. e.key = key /\ e.type = "PAYOUT" /\ e.units = - u /\ e.on = EmpLastDay BY DEF Entry
  <1>2. CASE ~pays
    <2>1. Left /\ Policy(today).payoutOnTermination => UnitSum(L) <= 0
      <3>1. SUFFICES ASSUME Left, Policy(today).payoutOnTermination, u > 0 PROVE FALSE BY <1>u
      <3>2. PICK f \in L : f.key = key BY <1>2, <3>1 DEF Keys
      <3>3. f.key[1] = "TERM" BY <3>2
      <3>4. UnitSum(L) = 0 BY <3>2, <3>3 DEF Booked, PaidOff
      <3>5. QED BY <1>u, <3>1, <3>4
    <2> HIDE DEF pays
    <2>2. PayOut(s) = s BY <1>1, <1>2
    <2>3. QED BY <2>1, <2>2
  <1>3. CASE pays
    <2> DEFINE M == L \cup {e}
    <2>1. PayOut(s).ledger = M
      <3>1. Sound(c) /\ c.ledger = L
        <4> HIDE DEF u
        <4>1. Sound(CreatePayout(s, u)) /\ CreatePayout(s, u).ledger = L BY <1>u, Created
        <4>2. QED BY <4>1
      <3>2. e.units \in Int /\ e.on \in Int /\ e.key \notin Keys(L) BY <1>e, <1>t, <1>u, <1>3
      <3>3. PayOut(s) = Posted(c, e) BY <1>1, <1>3
      <3> HIDE DEF c, e, pays
      <3>4. Posted(c, e).ledger = c.ledger \cup {e} BY <3>1, <3>2, PostedIs
      <3>5. QED BY <3>1, <3>3, <3>4
    <2>2. Left /\ key \notin Keys(L) BY <1>3
    <2>3. NoBatchPosted BY <2>2 DEF NothingRewritten
    <2>4. \A f \in L : f.key[1] # "TERM"
      <3>1. ASSUME NEW f \in L, f.key[1] = "TERM" PROVE FALSE
        <4>1. f.key = key BY <3>1 DEF Booked, PaidOff
        <4>2. QED BY <2>2, <4>1 DEF Keys
      <3>2. QED BY <3>1
    <2> HIDE DEF e, u, pays, c
    <2>5. e.key[1] = "TERM" /\ e.key \notin Keys(L) /\ e.units \in Int /\ e.on \in Int
      BY <1>e, <1>t, <1>u, <2>2
    <2>6. /\ Ints(M) /\ UnitSum(M) = UnitSum(L) + e.units
          /\ OnePerKey(M) /\ Keys(M) = Keys(L) \cup {e.key}
          /\ \A f \in L, k \in Phases, d \in Int : f.key = KeyFor(k, d) =>
               Due(k, d) /\ f.on = DateOf(k, d) /\ f.units = UnitsFor(k, d, UnitSum(Before(M, k, d)))
      <3>1. Booked(L) OBVIOUS
      <3> HIDE DEF L
      <3>2. QED BY <1>t, <2>5, <3>1, StillDue
    <2>7. \A k \in Phases : \A d : e.key # KeyFor(k, d) BY <1>e, KeysApart
    <2>8. Keyed(M)
      <3>1. Keyed(L) BY DEF Booked
      <3>2. e.on >= 0 BY <1>e, <2>2, PlacedTypes
      <3>3. QED BY <1>e, <3>1, <3>2 DEF Keyed
    <2>9. AsDue(M)
      <3> HIDE DEF M
      <3>1. \A f \in M : f \in L \/ f = e BY DEF M
      <3>2. QED BY <2>6, <2>7, <3>1 DEF AsDue
    <2>10. InOrder(M) BY <2>6, <2>7 DEF Booked, InOrder
    <2>11. UnitSum(M) = 0 BY <1>e, <1>u, <2>6
    <2>12. \A k \in Phases, d \in Int : Due(k, d) => KeyFor(k, d) \in Keys(M)
      <3>1. AccrualFloor(L) = start BY <1>t, <2>3, FloorIs
      <3>2. \A k \in Phases, d \in Int : Due(k, d) => DateOf(k, d) >= start BY DueDates
      <3>3. QED BY <2>6, <3>1, <3>2 DEF Has
    <2>13. PaidOff(M)
      <3> HIDE DEF M
      <3>1. \A f \in M : f.key[1] = "TERM" => f = e BY <2>4 DEF M
      <3>2. QED BY <1>e, <2>2, <2>11, <2>12, <3>1 DEF PaidOff
    <2>14. TakenOn(M)
      <3>1. \A b : e.key # <<"OPEN", b>> /\ e.key # <<"REV", b>> BY <1>e
      <3>2. \A b \in DOMAIN batches : batches[b].status = "POSTED" => e.on > batches[b].cut BY <2>3 DEF NoBatchPosted
      <3>3. TakenOn(L) /\ e.type # "OPENING_BALANCE" BY <1>e DEF Booked
      <3>4. QED BY <1>t, <2>5, <3>1, <3>2, <3>3, StillTakenOn
    <2>15. Booked(M) BY <2>6, <2>8, <2>9, <2>10, <2>13, <2>14 DEF Booked
    <2>16. LiveOpenings(M) = LiveOpenings(L)
      <3>a. \A b : <<"REV", b>> # e.key BY <1>e
      <3>b. Keys(M) = Keys(L) \cup {e.key} BY <2>6
      <3>1. \A b : <<"REV", b>> \in Keys(M) <=> <<"REV", b>> \in Keys(L) BY <3>a, <3>b, Zenon
      <3>2. e.type # "OPENING_BALANCE" BY <1>e
      <3>3. QED BY <3>1, <3>2 DEF LiveOpenings
    <2>17. QED BY <2>1, <2>11, <2>15, <2>16
  <1>4. QED BY <1>2, <1>3

\* What is posted stays posted.
LEMMA HasMore == ASSUME NEW L, NEW M, L \subseteq M, NEW k, NEW x, Has(L, k, x) PROVE Has(M, k, x)
  BY DEF Has, Keys

\* Processing keeps the book, posts all that is due from the first day of the
\* loops on, and owes a leaver nothing.
LEMMA SettledBooks ==
  ASSUME Placed, NothingRewritten, Kind = "ACCRUING", NEW s, Sound(s), Booked(s.ledger), NEW t, t = ProcessEmployee(s)
  PROVE  /\ Booked(t.ledger) /\ \A k \in Phases : Has(t.ledger, k, AccrualFloor(t.ledger))
         /\ Left /\ Policy(today).payoutOnTermination => UnitSum(t.ledger) <= 0
  <1> DEFINE x == AccrualFloor(s.ledger)
             D1 == LoopDates("accrue", x)
             D2 == LoopDates("grant", x)
             D3 == LoopDates("end", x)
             a == Accrued(s, x, D1)
             b == Granted(a, x, D2)
             c == Ended(b, D3)
  <1>1. t = PayOut(c)
    <2>1. Policy(today).firstGrantAfterMonths = versions[1].policy.firstGrantAfterMonths
      BY VersionFor, PlacedTypes
    <2> DEFINE first == start + Policy(today).firstGrantAfterMonths * MonthDays
    <2>2. ProcessEmployee(s) = PayOut(Ended(Granted(Accrued(s, x, Every(MonthDays, MonthStart(x), EndLimit)), x,
                                                    Every(YearDays, first, EndLimit)),
                                            Every(YearDays, start + YearDays, EndLimit)))
      BY DEF ProcessEmployee, ProcessAccruing, Accrued, Granted, Ended, InTurn
    <2>3. first = FirstGrant BY <2>1 DEF FirstGrant
    <2>4. D1 = Every(MonthDays, MonthStart(x), EndLimit) /\ D2 = Every(YearDays, FirstGrant, EndLimit)
          /\ D3 = Every(YearDays, start + YearDays, EndLimit)
      BY DEF LoopDates
    <2> HIDE DEF D1, D2, D3, x, first
    <2>5. QED BY <2>2, <2>3, <2>4
  <1>x. x \in Int /\ x >= start /\ (x = start \/ x % MonthDays = 0)
    <2>1. Ints(s.ledger) BY DEF Sound
    <2>2. QED BY <2>1, FloorIs
  <1>p. "accrue" \in Phases /\ "grant" \in Phases /\ "end" \in Phases BY DEF Phases
  <1>d. Len(D1) \in Nat /\ Len(D2) \in Nat /\ Len(D3) \in Nat
    <2> DEFINE D(k) == LoopDates(k, x)
    <2>1. ASSUME NEW k \in Phases PROVE Len(D(k)) \in Nat
      <3> DEFINE y == D(k)
      <3>1. y = LoopDates(k, x) OBVIOUS
      <3> HIDE DEF y, x
      <3>2. Len(y) \in Nat BY <1>x, <3>1, LoopCovers
      <3>3. QED BY <3>2 DEF y
    <2>2. QED BY <1>p, <2>1
  <1> HIDE DEF x
  <1>2. Sound(a) /\ Booked(a.ledger) /\ Has(a.ledger, "accrue", x) /\ AccrualFloor(a.ledger) = x
    <2>1. PICK g : Run("accrue", x, s, D1, g) /\ a = g[Len(D1)] BY <1>d, Loops
    <2> HIDE DEF D1, a
    <2>2. D1 = LoopDates("accrue", x) /\ x = AccrualFloor(s.ledger) BY DEF D1, x
    <2>3. QED BY <1>p, <2>1, <2>2, LoopBooks
  <1> HIDE DEF a
  <1>3. /\ Sound(b) /\ Booked(b.ledger) /\ Has(b.ledger, "grant", x) /\ AccrualFloor(b.ledger) = x
        /\ a.ledger \subseteq b.ledger
    <2>1. PICK g : Run("grant", x, a, D2, g) /\ b = g[Len(D2)] BY <1>d, Loops
    <2> HIDE DEF D2, b
    <2>2. D2 = LoopDates("grant", x) BY DEF D2
    <2>3. QED BY <1>2, <1>p, <2>1, <2>2, LoopBooks
  <1> HIDE DEF b
  <1>4. Has(b.ledger, "accrue", x) BY <1>2, <1>3, HasMore
  <1>5. /\ Sound(c) /\ Booked(c.ledger) /\ Has(c.ledger, "end", x) /\ AccrualFloor(c.ledger) = x
        /\ b.ledger \subseteq c.ledger
    <2>1. PICK g : Run("end", x, b, D3, g) /\ c = g[Len(D3)] BY <1>d, EndLoops
    <2> HIDE DEF D3, c
    <2>2. D3 = LoopDates("end", x) BY DEF D3
    <2>3. \A j \in Phases : j # "end" => Has(b.ledger, j, x) BY <1>3, <1>4 DEF Phases
    <2>4. QED BY <1>3, <1>p, <2>1, <2>2, <2>3, LoopBooks
  <1> HIDE DEF c
  <1>6. \A k \in Phases : Has(c.ledger, k, x) BY <1>3, <1>4, <1>5, HasMore DEF Phases
  <1>7. /\ Booked(PayOut(c).ledger) /\ c.ledger \subseteq PayOut(c).ledger
        /\ LiveOpenings(PayOut(c).ledger) = LiveOpenings(c.ledger)
        /\ Left /\ Policy(today).payoutOnTermination => UnitSum(PayOut(c).ledger) <= 0
    BY <1>5, <1>6, PayOutBooks
  <1>8. AccrualFloor(PayOut(c).ledger) = x BY <1>5, <1>7 DEF AccrualFloor
  <1>9. \A k \in Phases : Has(PayOut(c).ledger, k, x) BY <1>6, <1>7, HasMore
  <1>10. QED BY <1>1, <1>7, <1>8, <1>9

-----------------------------------------------------------------------------
\* What was due stays due, for the same units, and what becomes due is dated
\* today or later.
Later ==
  /\ Placed /\ Placed' /\ start' = start /\ today <= today'
  /\ \A c \in Int : c <= today => Policy(c)' = Policy(c)
  /\ versions[1].policy.firstGrantAfterMonths' = versions[1].policy.firstGrantAfterMonths
  /\ Left => leftOn' = leftOn
  /\ Left' /\ ~Left => EmpLastDay' >= today

LEMMA DueLater ==
  ASSUME Later, NEW k \in Phases, NEW d \in Int
  PROVE  /\ Due(k, d) => /\ Due(k, d)' /\ DateOf(k, d)' = DateOf(k, d) /\ ReadOn(k, d)' = ReadOn(k, d)
                         /\ (Reads(k, d)' <=> Reads(k, d))
                         /\ \A h : UnitsFor(k, d, h)' = UnitsFor(k, d, h)
         /\ Due(k, d)' /\ DateOf(k, d)' < today => Due(k, d) /\ DateOf(k, d)' = DateOf(k, d)
         /\ Left => /\ Left' /\ EmpLastDay' = EmpLastDay /\ EndLimit' = EndLimit
                    /\ Due(k, d)' => DateOf(k, d)' < today
         /\ DateOf(k, d)' \in Int /\ DateOf(k, d)' <= d + MonthDays - 1 /\ (k = "end" => DateOf(k, d)' = d - 1)
  <1> DEFINE l == EmpLastDay
             m == EmpLastDay'
  <1>t. /\ today \in Nat /\ today' \in Nat /\ today <= today' /\ start' = start /\ start \in Nat /\ l \in Int /\ m \in Int
        /\ leftOn \in Int /\ leftOn' \in Int
        /\ MonthDays \in Nat \ {0} /\ YearDays \in Nat \ {0}
        /\ (Left => EndLimit = l /\ l < today) /\ (~Left => EndLimit = today)
        /\ (Left' => EndLimit' = m /\ m < today') /\ (~Left' => EndLimit' = today')
        /\ EndLimit \in Int /\ EndLimit' \in Int
    <2>1. Placed /\ Placed' /\ start' = start /\ today <= today' BY DEF Later
    <2>2. /\ EngineTypes /\ today \in Nat /\ start \in Nat /\ leftOn \in Int
          /\ EndLimit \in Int /\ EmpLastDay \in Int
          /\ MonthDays \in Nat \ {0} /\ YearDays \in Nat \ {0}
          /\ Left => EmpLastDay >= start /\ EndLimit = EmpLastDay /\ EmpLastDay < today
          /\ ~Left => EndLimit = today
       BY <2>1, PlacedTypes
    <2>3. (/\ today \in Nat /\ leftOn \in Int
           /\ EndLimit \in Int /\ EmpLastDay \in Int
           /\ Left => EndLimit = EmpLastDay /\ EmpLastDay < today
           /\ ~Left => EndLimit = today)'
       BY <2>1, PlacedTypes, PTL
    <2>4. /\ today' \in Nat /\ leftOn' \in Int /\ EndLimit' \in Int /\ m \in Int
          /\ (Left' => EndLimit' = m /\ m < today') /\ (~Left' => EndLimit' = today')
      BY <2>3
    <2>5. QED BY <2>1, <2>2, <2>4
  <1>l. Left => Left' /\ m = l /\ EndLimit' = EndLimit
    <2>1. Left => leftOn' = leftOn BY DEF Later
    <2>2. Left => Left' /\ m = l BY <1>t, <2>1 DEF Left, EmpLastDay
    <2>3. QED BY <1>t, <2>2
  <1>e. Left' /\ ~Left => m >= today BY DEF Later
  <1>f. FirstGrant' = FirstGrant BY <1>t DEF FirstGrant, Later
  <1>p. \A c \in Int : c <= today => Policy(c)' = Policy(c) BY DEF Later
  <1>a. /\ AccTo(d) = IF Left /\ l < d + MonthDays - 1 THEN l ELSE d + MonthDays - 1
        /\ AccTo(d)' = IF Left' /\ m < d + MonthDays - 1 THEN m ELSE d + MonthDays - 1
        /\ AccTo(d) \in Int /\ AccTo(d)' \in Int
    <2>1. AccTo(d) = IF Left /\ l < d + MonthDays - 1 THEN l ELSE d + MonthDays - 1 BY DEF AccTo
    <2>2. AccTo(d)' = IF Left' /\ m < d + MonthDays - 1 THEN m ELSE d + MonthDays - 1 BY DEF AccTo
    <2>3. QED BY <1>t, <2>1, <2>2
  <1> HIDE DEF l, m
  <1>b. AccTo(d) <= today => AccTo(d)' = AccTo(d) BY <1>t, <1>l, <1>e, <1>a
  <1>c. AccTo(d)' < today => AccTo(d)' = AccTo(d) BY <1>t, <1>l, <1>e, <1>a
  <1>d. \A c \in Int : /\ c <= EndLimit => c <= EndLimit' /\ c <= today
                       /\ c <= EndLimit' /\ c - 1 < today => c <= EndLimit
    BY <1>t, <1>l, <1>e
  <1>1. CASE k = "accrue"
    <2>1. /\ \A z \in Int : Ripe(k, d, z) <=> /\ Larger(d, z) <= AccTo(d) /\ AccTo(d) <= today
                                              /\ Policy(AccTo(d)).frequency = "MONTHLY" /\ Policy(AccTo(d)).perDay > 0
          /\ \A z \in Int : Ripe(k, d, z)' <=> /\ Larger(d, z) <= AccTo(d)' /\ AccTo(d)' <= today'
                                               /\ PolicyFor(k, d)'.frequency = "MONTHLY" /\ PolicyFor(k, d)'.perDay > 0
      BY <1>1 DEF Ripe, PolicyFor
    <2>2. DateOf(k, d) = AccTo(d) /\ DateOf(k, d)' = AccTo(d)' /\ ReadOn(k, d) = AccTo(d) /\ ReadOn(k, d)' = AccTo(d)'
      BY <1>1 DEF DateOf, ReadOn
    <2>3. PolicyFor(k, d) = Policy(AccTo(d)) BY <1>1 DEF PolicyFor
    <2>4. ASSUME AccTo(d)' = AccTo(d), AccTo(d) <= today
          PROVE  /\ PolicyFor(k, d)' = PolicyFor(k, d) /\ (Reads(k, d)' <=> Reads(k, d))
                 /\ \A h : UnitsFor(k, d, h)' = UnitsFor(k, d, h)
                 /\ Due(k, d)' <=> Due(k, d)
      <3>1. PolicyFor(k, d)' = Policy(AccTo(d))' BY <1>1, <2>4 DEF PolicyFor
      <3>2. PolicyFor(k, d)' = PolicyFor(k, d)
        <4>1. \A c \in Int : c <= today => Policy(c)' = Policy(c) BY <1>p
        <4>2. PICK c \in Int : c = AccTo(d) BY <1>a
        <4>3. PolicyFor(k, d)' = Policy(c)' BY <1>1, <2>4, <4>2 DEF PolicyFor
        <4>4. QED BY <2>3, <2>4, <4>1, <4>2, <4>3
      <3>3. Reads(k, d)' <=> Reads(k, d) BY <3>2 DEF Reads
      <3>4. \A h : UnitsFor(k, d, h)' = UnitsFor(k, d, h) BY <1>1, <1>t, <2>4, <3>2 DEF UnitsFor
      <3>5. Ripe(k, d, start)' <=> Ripe(k, d, start)
        <4>1. PICK z \in Int : z = start BY <1>t
        <4>2. Ripe(k, d, start) <=> Ripe(k, d, z) BY <4>1
        <4>3. Ripe(k, d, start)' <=> Ripe(k, d, z)' BY <1>t, <4>1
        <4>4. AccTo(d)' <= today' BY <1>t, <1>a, <2>4
        <4>5. QED BY <2>1, <2>3, <2>4, <3>2, <4>2, <4>3, <4>4
      <3>6. OnGrid(k, d)' <=> OnGrid(k, d) BY <1>1 DEF OnGrid
      <3>7. Due(k, d) => d <= today /\ d <= EndLimit' BY <1>d DEF Due
      <3>8. Due(k, d)' => d <= EndLimit
        <4>1. Due(k, d)' => d <= EndLimit' /\ Ripe(k, d, start)' BY DEF Due
        <4>2. Due(k, d)' => d <= AccTo(d)
          <5>1. Due(k, d)' => Ripe(k, d, start) BY <3>5, <4>1
          <5>2. Ripe(k, d, start) => Larger(d, start) <= AccTo(d) BY <1>t, <2>1
          <5>3. QED BY <1>a, <1>t, <5>1, <5>2 DEF Larger
        <4>3. Due(k, d)' => d - 1 < today BY <1>a, <1>t, <2>4, <4>2
        <4>4. QED BY <1>d, <4>1, <4>3
      <3>9. QED BY <3>2, <3>3, <3>4, <3>5, <3>6, <3>7, <3>8 DEF Due
    <2>5. Due(k, d) => AccTo(d) <= today BY <1>1, <1>t, <2>1 DEF Due
    <2>6. Left => AccTo(d)' < today BY <1>a, <1>l, <1>t
    <2>7. AccTo(d)' <= d + MonthDays - 1 BY <1>a, <1>t
    <2>8. QED BY <1>1, <1>a, <1>b, <1>c, <1>l, <1>t, <2>2, <2>4, <2>5, <2>6, <2>7 DEF l, m
  <1>2. CASE k \in {"grant", "end"}
    <2>1. DateOf(k, d)' = DateOf(k, d) /\ ReadOn(k, d)' = ReadOn(k, d) BY <1>2 DEF DateOf, ReadOn
    <2>2. ASSUME d <= today
          PROVE  /\ (Reads(k, d)' <=> Reads(k, d)) /\ \A h : UnitsFor(k, d, h)' = UnitsFor(k, d, h)
                 /\ OnGrid(k, d)' <=> OnGrid(k, d)
                 /\ Ripe(k, d, start)' <=> Ripe(k, d, start)
      <3>1. PolicyFor(k, d)' = PolicyFor(k, d) BY <1>2, <1>p, <2>2 DEF PolicyFor
      <3>2. Reads(k, d)' <=> Reads(k, d) BY <3>1 DEF Reads
      <3>3. \A h : UnitsFor(k, d, h)' = UnitsFor(k, d, h) BY <1>2, <1>t, <3>1 DEF UnitsFor
      <3>4. OnGrid(k, d)' <=> OnGrid(k, d) BY <1>2, <1>f, <1>t DEF OnGrid
      <3>5. Ripe(k, d, start)' <=> Ripe(k, d, start) BY <1>2, <1>t, <3>1 DEF Ripe
      <3>6. QED BY <3>2, <3>3, <3>4, <3>5
    <2>3. Due(k, d) => d <= today /\ d <= EndLimit' BY <1>d DEF Due
    <2>4. Due(k, d)' /\ DateOf(k, d)' < today => d <= today /\ d <= EndLimit
      <3>1. DateOf(k, d)' < today => d - 1 < today BY <1>2, <1>t, <2>1 DEF DateOf
      <3>2. Due(k, d)' => d <= EndLimit' BY DEF Due
      <3>3. QED BY <1>t, <1>d, <3>1, <3>2
    <2>5. Due(k, d) => Due(k, d)' BY <2>2, <2>3 DEF Due
    <2>6. Due(k, d)' /\ DateOf(k, d)' < today => Due(k, d) BY <2>2, <2>4 DEF Due
    <2>7. DateOf(k, d)' \in Int /\ DateOf(k, d)' <= d /\ DateOf(k, d)' <= d + MonthDays - 1 /\ (k = "end" => DateOf(k, d)' = d - 1)
      BY <1>2, <1>t DEF DateOf
    <2>8. Left /\ Due(k, d)' => DateOf(k, d)' < today
      <3>1. Due(k, d)' => d <= EndLimit' BY DEF Due
      <3>2. QED BY <1>t, <1>l, <2>7, <3>1
    <2>9. QED BY <1>2, <1>l, <2>1, <2>2, <2>3, <2>5, <2>6, <2>7, <2>8 DEF l, m
  <1>3. QED BY <1>1, <1>2 DEF Phases

\* So a book stays one, if what batches set still stands.
LEMMA BookLater ==
  ASSUME Later, NEW L, OnePerKey(L), Keyed(L), AsDue(L), InOrder(L), PaidOff(L), TakenOn(L)'
  PROVE  Booked(L)'
  <1>t. /\ Placed /\ today \in Nat /\ MonthDays \in Nat \ {0} /\ EndLimit <= today /\ EndLimit \in Int /\ EmpLastDay \in Int
    BY PlacedTypes DEF Later
  <1>k. \A k, d : KeyFor(k, d)' = KeyFor(k, d) BY DEF KeyFor
  <1>1. OnePerKey(L)' BY DEF OnePerKey
  <1>2. Keyed(L)' BY <1>k DEF Keyed
  <1>d. ASSUME NEW k \in Phases, NEW d \in Int, KeyFor(k, d) \in Keys(L)
        PROVE  Due(k, d) /\ DateOf(k, d) <= today /\ d <= DateOf(k, d) + 1 /\ (k # "end" => d <= DateOf(k, d))
    <2>1. PICK e \in L : e.key = KeyFor(k, d) BY <1>d DEF Keys
    <2>2. Due(k, d) BY <2>1 DEF AsDue
    <2>3. DateOf(k, d) <= EndLimit /\ (k = "accrue" => d <= AccTo(d)) /\ DateOf(k, d) \in Int
      BY <1>t, <2>2, DueDates, DateFigures
    <2>4. d <= DateOf(k, d) + 1 /\ (k # "end" => d <= DateOf(k, d)) BY <2>3 DEF DateOf, Phases
    <2>5. QED BY <1>t, <2>2, <2>3, <2>4
  <1>3. AsDue(L)'
    <2>1. SUFFICES ASSUME NEW e \in L, NEW k \in Phases, NEW d \in Int, e.key = KeyFor(k, d)
                   PROVE  /\ Due(k, d)' /\ e.on = DateOf(k, d)'
                          /\ e.units = UnitsFor(k, d, UnitSum(Before(L, k, d)))'
      BY <1>k DEF AsDue
    <2>2. Due(k, d) /\ e.on = DateOf(k, d) /\ e.units = UnitsFor(k, d, UnitSum(Before(L, k, d)))
      BY <2>1 DEF AsDue
    <2>3. /\ Due(k, d)' /\ DateOf(k, d)' = DateOf(k, d) /\ ReadOn(k, d)' = ReadOn(k, d)
          /\ \A h : UnitsFor(k, d, h)' = UnitsFor(k, d, h)
      BY <2>2, DueLater
    <2>4. Before(L, k, d)' = Before(L, k, d) BY <2>3 DEF Before
    <2>5. UnitSum(Before(L, k, d))' = UnitSum(Before(L, k, d)) BY <2>4
    <2> DEFINE u == UnitSum(Before(L, k, d))
    <2>6. PICK h : h = u OBVIOUS
    <2>7. u' = h BY <2>5, <2>6
    <2> HIDE DEF u
    <2>8. UnitsFor(k, d, u)' = UnitsFor(k, d, h)' BY <2>7
    <2>9. UnitsFor(k, d, u)' = UnitsFor(k, d, u) BY <2>3, <2>6, <2>8
    <2>10. QED BY <2>2, <2>3, <2>9 DEF u
  <1>4. InOrder(L)'
    <2>1. SUFFICES ASSUME NEW k \in Phases, NEW j \in Phases, NEW c \in Int, NEW d \in Int,
                          KeyFor(k, d) \in Keys(L), Reads(k, d)', Due(j, c)', Ahead(j, c, k, d)'
                   PROVE  KeyFor(j, c) \in Keys(L)
      BY <1>k DEF InOrder, Keys
    <2>2. Due(k, d) /\ DateOf(k, d) <= today /\ d <= DateOf(k, d) + 1 /\ (k # "end" => d <= DateOf(k, d))
      BY <1>d, <2>1
    <2>3. Reads(k, d) BY <2>1, <2>2, DueLater
    <2>4. DateOf(j, c)' \in Int /\ DateOf(j, c)' <= c + MonthDays - 1 /\ DateOf(k, d) \in Int BY <1>t, DueLater, DateFigures
    <2>5. DateOf(j, c)' < today
      <3>1. CASE j = k /\ k = "accrue"
        <4>1. c % MonthDays = 0 /\ d % MonthDays = 0 BY <2>1, <2>2, <3>1 DEF Due, OnGrid
        <4>2. c < d BY <2>1, <3>1 DEF Ahead
        <4>3. c + MonthDays <= d BY <1>t, <4>1, <4>2, Between
        <4>4. QED BY <1>t, <2>2, <2>4, <3>1, <4>3
      <3>2. CASE j = k /\ k = "grant"
        <4>1. c < d BY <2>1, <3>2 DEF Ahead
        <4>2. DateOf(j, c)' = c BY <3>2 DEF DateOf
        <4>3. QED BY <1>t, <2>2, <2>4, <3>2, <4>1, <4>2
      <3>3. CASE j = k /\ k = "end"
        <4>1. c < d BY <2>1, <3>3 DEF Ahead
        <4>2. DateOf(j, c)' = c - 1 /\ DateOf(k, d) = d - 1 BY <3>3 DEF DateOf
        <4>3. QED BY <1>t, <2>2, <2>4, <4>1, <4>2
      <3>4. CASE j # k
        <4>1. k = "end" /\ DateOf(j, c)' < d BY <2>1, <3>4 DEF Ahead
        <4>2. d <= EndLimit BY <2>2 DEF Due
        <4>3. QED BY <1>t, <2>4, <4>1, <4>2
      <3>5. QED BY <3>1, <3>2, <3>3, <3>4 DEF Phases
    <2>6. Due(j, c) /\ DateOf(j, c)' = DateOf(j, c) BY <2>1, <2>5, DueLater
    <2>7. Ahead(j, c, k, d) BY <2>1, <2>6 DEF Ahead
    <2>8. QED BY <2>1, <2>3, <2>6, <2>7 DEF InOrder
  <1>5. PaidOff(L)'
    <2>1. SUFFICES ASSUME NEW e \in L, e.key[1] = "TERM"
                   PROVE  /\ Left' /\ e.key = <<"TERM", leftOn'>> /\ e.on = EmpLastDay' /\ UnitSum(L) = 0
                          /\ \A k \in Phases, d \in Int : Due(k, d)' => KeyFor(k, d) \in Keys(L)
      BY <1>k DEF PaidOff, Keys
    <2>2. /\ Left /\ e.key = <<"TERM", leftOn>> /\ e.on = EmpLastDay /\ UnitSum(L) = 0
          /\ \A k \in Phases, d \in Int : Due(k, d) => KeyFor(k, d) \in Keys(L)
      BY <2>1 DEF PaidOff
    <2>3. leftOn' = leftOn BY <2>2 DEF Later
    <2>4. \A k \in Phases, d \in Int : Left' /\ EmpLastDay' = EmpLastDay /\ (Due(k, d)' => Due(k, d))
      BY <2>2, DueLater
    <2>5. "end" \in Phases /\ 0 \in Int BY DEF Phases
    <2>6. Left' /\ EmpLastDay' = EmpLastDay BY <2>4, <2>5
    <2>7. QED BY <2>2, <2>3, <2>4, <2>6
  <1>6. QED BY <1>1, <1>2, <1>3, <1>4, <1>5 DEF Booked

-----------------------------------------------------------------------------
(***************************************************************************)
(* The book is kept by every step of a history that rewrites nothing.      *)
(***************************************************************************)
AccruInv == AllowInv /\ Placed /\ (Kind = "ACCRUING" /\ NothingRewritten => Booked(ledger))

\* Batches that were posted stay as they are, and no other is posted.
DraftsOnly ==
  /\ \A b \in DOMAIN batches : batches[b].status # "DRAFT" => b \in DOMAIN batches' /\ batches'[b] = batches[b]
  /\ \A b \in DOMAIN batches' : batches'[b].status # "DRAFT" => b \in DOMAIN batches /\ batches'[b] = batches[b]
ForceStays ==
  \A i \in DOMAIN versions : versions[i].from <= today => i \in DOMAIN versions' /\ versions'[i] = versions[i]

LEMMA BookedNext ==
  ASSUME Later, DraftsOnly, NEW L, Booked(L), ledger' = L
  PROVE  Booked(ledger)'
  <1>0. OnePerKey(L) /\ Keyed(L) /\ AsDue(L) /\ InOrder(L) /\ PaidOff(L) /\ TakenOn(L) BY DEF Booked
  <1>1. TakenOn(L)'
    <2>0. \A b \in DOMAIN batches' : batches'[b].status \in {"POSTED", "REVERSED"} => b \in DOMAIN batches /\ batches'[b] = batches[b]
      BY DEF DraftsOnly
    <2>1. \A b \in DOMAIN batches' : batches'[b].status = "POSTED" => 
            <<"OPEN", b>> \in Keys(L) /\ UnitSum({e \in L : e.on <= batches'[b].cut}) = batches'[b].figure
      BY <1>0, <2>0 DEF TakenOn
    <2>2. \A b \in DOMAIN batches' : batches'[b].status = "REVERSED" => 
            \E e, f \in L : e.key = <<"OPEN", b>> /\ f.key = <<"REV", b>> /\ e.units + f.units = 0
      BY <1>0, <2>0 DEF TakenOn
    <2>3. \A e \in L : \A b :
       /\ e.key = <<"OPEN", b>> => b \in DOMAIN batches' /\ e.on = batches'[b].cut /\ batches'[b].status # "DRAFT"
       /\ e.key = <<"REV", b>> => b \in DOMAIN batches' /\ e.on = batches'[b].cut /\ batches'[b].status = "REVERSED"
      BY <1>0 DEF TakenOn, DraftsOnly
    <2>4. \A e \in L : e.type = "OPENING_BALANCE" <=> \E b : e.key = <<"OPEN", b>> BY <1>0 DEF TakenOn
    <2>5. QED BY <2>1, <2>2, <2>3, <2>4 DEF TakenOn, Keys
  <1>2. Booked(L)' BY <1>0, <1>1, BookLater
  <1>3. QED BY <1>2 

\* What a history does not rewrite now, it did not rewrite before.
LEMMA RewrittenBefore ==
  ASSUME Placed, DraftsOnly, ForceStays, start' = start, today' \in Int, today <= today', Left => Left', NothingRewritten'
  PROVE  NothingRewritten
  <1>1. NoBatchPosted' => NoBatchPosted BY DEF NoBatchPosted, DraftsOnly
  <1>2. OneTakeOn' => OneTakeOn
    <2>1. SUFFICES ASSUME OneTakeOn', NEW b \in DOMAIN batches, batches[b].status # "DRAFT"
                   PROVE  /\ (batches[b].cut + 1) % MonthDays = 0 \/ batches[b].cut < start
                          /\ \A c \in DOMAIN batches \ {b} : batches[c].status = "DRAFT"
      BY DEF OneTakeOn
    <2>2. b \in DOMAIN batches' /\ batches'[b] = batches[b] BY <2>1 DEF DraftsOnly
    <2>3. /\ (batches'[b].cut + 1) % MonthDays = 0 \/ batches'[b].cut < start'
          /\ \A c \in DOMAIN batches' \ {b} : batches'[c].status = "DRAFT"
      BY <2>1, <2>2 DEF OneTakeOn
    <2>4. \A c \in DOMAIN batches \ {b} : batches[c].status = "DRAFT" BY <2>3 DEF DraftsOnly
    <2>5. QED BY <2>2, <2>3, <2>4
  <1>3. InForce \subseteq InForce'
    <2>1. \A i \in DOMAIN versions : versions[i].from \in Int /\ today \in Int
      <3> DEFINE R == [from : Int, policy : Policies]
      <3>1. versions \in Seq(R) /\ today \in Int BY DEF Placed, EngineTypes
      <3> HIDE DEF R
      <3>2. \A i \in DOMAIN versions : versions[i] \in R BY <3>1
      <3>3. QED BY <3>1, <3>2 DEF R
    <2>2. \A i \in DOMAIN versions : versions[i].from <= today =>
            i \in DOMAIN versions' /\ versions'[i].from <= today' /\ versions'[i].policy = versions[i].policy
      BY <2>1 DEF ForceStays
    <2>3. \A i \in DOMAIN versions : versions[i].from <= today => versions[i].policy \in InForce'
      BY <2>2 DEF InForce
    <2>4. QED BY <2>3 DEF InForce
  <1>4. (BalancesFree' => BalancesFree) /\ (CarriesFree' => CarriesFree)
    <2>1. BalancesFree' <=> \A p \in InForce' : p.maxBalance = NoLimit BY DEF BalancesFree
    <2>2. CarriesFree' <=> \A p \in InForce' : CarriesAll(p) BY DEF CarriesFree, CarriesAll
    <2>3. QED BY <1>3, <2>1, <2>2 DEF BalancesFree, CarriesFree
  <1>5. QED BY <1>1, <1>2, <1>4 DEF NothingRewritten

\* A change of policy leaves the versions in force, the waiting time and the
\* way units are credited.
LEMMA VersionsStand ==
  ASSUME EngineTypes, versions[1].from = 0, today \in Nat, NEW p, NEW d \in Int, UpdatePolicy(p, d)
  PROVE  ForceStays /\ versions'[1] = versions[1] /\ (Terms => Terms')
  <1> DEFINE n == Len(versions)
             R == [from : Int, policy : Policies]
  <1>v. versions \in Seq(R) /\ n \in Nat /\ n >= 1 /\ DOMAIN versions = 1 .. n
        /\ \A i \in 1 .. n : versions[i].from \in Int
    <2>1. versions \in Seq(R) /\ n >= 1 BY DEF EngineTypes
    <2>r. \A v \in R : v.from \in Int OBVIOUS
    <2> HIDE DEF R
    <2>2. n \in Nat /\ DOMAIN versions = 1 .. n /\ \A i \in 1 .. n : versions[i] \in R BY <2>1
    <2>3. QED BY <2>1, <2>2, <2>r
  <1>1. /\ d > today /\ d >= versions[n].from
        /\ \A field \in {"kind", "frequency", "cycle", "prorate", "firstGrantAfterMonths"} :
             p[field] = versions[n].policy[field]
        /\ versions' = IF d = versions[n].from THEN [versions EXCEPT ![n].policy = p]
                                               ELSE Append(versions, [from |-> d, policy |-> p])
    BY DEF UpdatePolicy, Last
  <1>2. p.frequency = versions[n].policy.frequency /\ p.firstGrantAfterMonths = versions[n].policy.firstGrantAfterMonths
    BY <1>1
  <1>3. /\ \A i \in 1 .. n : i \in DOMAIN versions' /\ (versions[i].from <= today \/ i = 1 => versions'[i] = versions[i])
        /\ \A i \in DOMAIN versions' : (i \in 1 .. n /\ versions'[i] = versions[i]) \/ versions'[i].policy = p
    <2>1. CASE d = versions[n].from
      <3> DEFINE w == [versions[n] EXCEPT !.policy = p]
      <3>1. versions[n] \in R
        <4> HIDE DEF R
        <4>1. QED BY <1>v
      <3>2. w.policy = p BY <3>1
      <3>3. versions' = [versions EXCEPT ![n] = w] BY <1>1, <2>1
      <3>4. n # 1 BY <1>1, <2>1
      <3> HIDE DEF w, R, n
      <3>5. DOMAIN versions' = 1 .. n /\ versions'[n] = w /\ \A i \in 1 .. n : i # n => versions'[i] = versions[i]
        BY <1>v, <3>3
      <3>6. ~(versions[n].from <= today) BY <1>1, <1>v, <2>1
      <3>7. QED BY <3>2, <3>4, <3>5, <3>6
    <2>2. CASE d # versions[n].from
      <3> DEFINE w == [from |-> d, policy |-> p]
      <3>1. w.policy = p OBVIOUS
      <3>2. versions' = Append(versions, w) BY <1>1, <2>2
      <3> HIDE DEF w, R
      <3>3. DOMAIN versions' = 1 .. n + 1 /\ versions'[n + 1] = w /\ \A i \in 1 .. n : versions'[i] = versions[i]
        BY <1>v, <3>2
      <3>4. 1 .. n \subseteq 1 .. n + 1 /\ \A i \in 1 .. n + 1 : i \in 1 .. n \/ i = n + 1 BY <1>v
      <3> HIDE DEF n
      <3>5. QED BY <3>1, <3>3, <3>4
    <2>3. QED BY <2>1, <2>2
  <1>4. 1 \in 1 .. n /\ n \in 1 .. n BY <1>v
  <1> HIDE DEF n, R
  <1>5. ForceStays BY <1>3, <1>v DEF ForceStays
  <1>6. versions'[1] = versions[1] BY <1>3, <1>4
  <1>7. ASSUME Terms PROVE Terms'
    <2>1. \A i \in 1 .. n : /\ versions[i].policy.frequency = versions[1].policy.frequency
                            /\ versions[i].policy.firstGrantAfterMonths = versions[1].policy.firstGrantAfterMonths
      BY <1>7, <1>v DEF Terms
    <2>2. \A i \in DOMAIN versions' :
            /\ versions'[i].policy.frequency = versions[1].policy.frequency
            /\ versions'[i].policy.firstGrantAfterMonths = versions[1].policy.firstGrantAfterMonths
      BY <1>2, <1>3, <1>4, <2>1
    <2>3. QED BY <1>6, <2>2 DEF Terms
  <1>8. QED BY <1>5, <1>6, <1>7

LEMMA InitAccru == Init => AccruInv
  <1>1. SUFFICES ASSUME Init PROVE AccruInv OBVIOUS
  <1>2. AllowInv BY <1>1, InitAllow
  <1>3. EngineTypes BY <1>2 DEF AllowInv, PayInv
  <1>4. PICK p \in Policies : versions = <<[from |-> 0, policy |-> p]>> BY <1>1 DEF Init
  <1>5. Terms BY <1>4 DEF Terms
  <1>6. start \in Nat BY <1>1, DateAssumption DEF Init
  <1>7. today \in Nat /\ leftOn = NoDate /\ DOMAIN batches = {} /\ ledger = {} BY <1>1 DEF Init
  <1>8. Placed BY <1>3, <1>5, <1>6, <1>7 DEF Placed
  <1>9. Booked({}) 
    <2>1. OnePerKey({}) /\ Keyed({}) /\ AsDue({}) /\ PaidOff({}) BY DEF OnePerKey, Keyed, AsDue, PaidOff
    <2>2. InOrder({}) BY DEF InOrder, Keys
    <2>3. TakenOn({}) BY <1>7 DEF TakenOn
    <2>4. QED BY <2>1, <2>2, <2>3 DEF Booked
  <1>10. QED BY <1>2, <1>7, <1>8, <1>9 DEF AccruInv

\* A batch is posted where nothing was: its entry makes the balance its figure.
LEMMA BookOpening ==
  ASSUME Placed, Later, ~Left, BalancesFree, CarriesFree, NoBatchPosted, Ints(ledger), Booked(ledger),
         NEW b \in DOMAIN batches, batches' = [batches EXCEPT ![b].status = "POSTED"],
         NEW e, e.key = <<"OPEN", b>>, e.type = "OPENING_BALANCE", e.on = batches[b].cut,
         e.units = batches[b].figure - Balance(ledger, batches[b].cut), ledger' = ledger \cup {e}
  PROVE  Booked(ledger)'
  <1> DEFINE B == [status : {"DRAFT", "POSTED", "REVERSED"}, cut : Int, figure : Int]
             cut == batches[b].cut
             x == [batches[b] EXCEPT !.status = "POSTED"]
  <1>b. cut \in Nat /\ batches[b].figure \in Int BY BatchTypes
  <1>u. e.units \in Int /\ e.on \in Int /\ e.on >= 0 BY <1>b, LedgerFigures
  <1>s. /\ \A c \in DOMAIN batches : batches[c].status = "DRAFT"
        /\ DOMAIN batches' = DOMAIN batches /\ \A c \in DOMAIN batches : c # b => batches'[c] = batches[c]
        /\ batches'[b].status = "POSTED" /\ batches'[b].cut = cut /\ batches'[b].figure = batches[b].figure
    <2>1. \A c \in DOMAIN batches : batches[c].status = "DRAFT" BY DEF NoBatchPosted
    <2>2. batches[b] \in B
      <3>1. batches \in Seq(B) BY DEF Placed, EngineTypes
      <3> HIDE DEF B
      <3>2. QED BY <3>1
    <2>3. x.status = "POSTED" /\ x.cut = cut /\ x.figure = batches[b].figure BY <2>2
    <2>4. batches' = [batches EXCEPT ![b] = x] OBVIOUS
    <2> HIDE DEF x
    <2>5. DOMAIN batches' = DOMAIN batches /\ batches'[b] = x /\ \A c \in DOMAIN batches : c # b => batches'[c] = batches[c]
      BY <2>4
    <2>6. QED BY <2>1, <2>3, <2>5
  <1>t. TakenOn(ledger) BY DEF Booked
  <1>k. \A f \in ledger : \A c : f.key # <<"OPEN", c>> /\ f.key # <<"REV", c>> BY <1>s, <1>t DEF TakenOn
  <1>1. e.key \notin Keys(ledger) BY <1>k DEF Keys
  <1>2. \A k \in Phases, d \in Int : KeyFor(k, d) \in Keys(ledger) => ~Reads(k, d)
    <2>1. SUFFICES ASSUME NEW k \in Phases, NEW d \in Int, KeyFor(k, d) \in Keys(ledger) PROVE ~Reads(k, d) OBVIOUS
    <2>2. PICK f \in ledger : f.key = KeyFor(k, d) BY <2>1 DEF Keys
    <2>3. Due(k, d) BY <2>2 DEF Booked, AsDue
    <2>4. QED BY <2>3, NothingReads
  <1> DEFINE L == ledger
  <1>l. L = ledger OBVIOUS
  <1> HIDE DEF L
  <1>3. PICK M : M = L \cup {e} OBVIOUS
  <1>4. /\ Ints(M) /\ OnePerKey(M) /\ Keyed(M) /\ AsDue(M) /\ InOrder(M) /\ PaidOff(M)
    BY <1>l, <1>1, <1>2, <1>3, <1>u, OtherPosting
  <1>5. TakenOn(M)'
    <2>1. \A f \in M : \A c :
       /\ f.key = <<"OPEN", c>> => c \in DOMAIN batches' /\ f.on = batches'[c].cut /\ batches'[c].status # "DRAFT"
       /\ f.key = <<"REV", c>> => c \in DOMAIN batches' /\ f.on = batches'[c].cut /\ batches'[c].status = "REVERSED"
      BY <1>l, <1>3, <1>k, <1>s
    <2>2. \A f \in M : f.type = "OPENING_BALANCE" <=> \E c : f.key = <<"OPEN", c>> BY <1>l, <1>3, <1>t DEF TakenOn
    <2>3. \A c \in DOMAIN batches' : c = b \/ batches'[c].status = "DRAFT" BY <1>s
    <2>4. <<"OPEN", b>> \in Keys(M) BY <1>3 DEF Keys
    <2>5. UnitSum({f \in M : f.on <= cut}) = batches[b].figure
      <3> DEFINE S == {f \in L : f.on <= cut}
      <3>1. S \in SUBSET L OBVIOUS
      <3>2. UnitSum(S) = Balance(ledger, cut) /\ UnitSum(S) \in Int /\ IsFiniteSet(S) BY <1>l, <3>1, SubSums DEF Balance
      <3>3. {f \in M : f.on <= cut} = S \cup {e} /\ e \notin S
        <4>1. e.on <= cut BY <1>b
        <4>2. e \notin L BY <1>1, <1>l DEF Keys
        <4>3. QED BY <1>3, <4>1, <4>2
      <3>4. \A f \in S \cup {e} : f.units \in Int BY <1>l, <1>u DEF Ints
      <3> HIDE DEF S
      <3>5. UnitSum(S \cup {e}) = UnitSum(S) + e.units BY <3>2, <3>3, <3>4, UnitSumAdd
      <3>6. e.units = batches[b].figure - Balance(ledger, cut) OBVIOUS
      <3> DEFINE h == Balance(ledger, cut)
                 y == batches[b].figure
                 T == {f \in M : f.on <= cut}
      <3>7. UnitSum(S) = h /\ h \in Int /\ y \in Int /\ e.units = y - h BY <1>b, <3>2, <3>6
      <3>8. T = S \cup {e} BY <3>3
      <3> HIDE DEF h, y, T, cut
      <3>9. UnitSum(T) = y BY <3>5, <3>7, <3>8
      <3>10. QED BY <3>9 DEF y, T
    <2>6. \A c \in DOMAIN batches' :
       /\ batches'[c].status = "POSTED" =>
            <<"OPEN", c>> \in Keys(M) /\ UnitSum({f \in M : f.on <= batches'[c].cut}) = batches'[c].figure
       /\ batches'[c].status = "REVERSED" =>
            \E f, g \in M : f.key = <<"OPEN", c>> /\ g.key = <<"REV", c>> /\ f.units + g.units = 0
      BY <1>s, <2>3, <2>4, <2>5
    <2>7. QED BY <2>1, <2>2, <2>6 DEF TakenOn, Keys
  <1>6. Booked(M)' BY <1>4, <1>5, BookLater
  <1>7. ledger' = M BY <1>l, <1>3
  <1>8. QED BY <1>6, <1>7

\* The only batch that was posted is reversed: the two entries cancel.
LEMMA BookReversal ==
  ASSUME Placed, Later, ~Left, BalancesFree, CarriesFree, Ints(ledger), Booked(ledger),
         NEW b \in DOMAIN batches, batches[b].status = "POSTED", \A c \in DOMAIN batches \ {b} : batches[c].status = "DRAFT",
         batches' = [batches EXCEPT ![b].status = "REVERSED"],
         NEW o \in ledger, o.key = <<"OPEN", b>>,
         NEW e, e.key = <<"REV", b>>, e.type # "OPENING_BALANCE", e.on = o.on, e.units = - o.units, ledger' = ledger \cup {e}
  PROVE  Booked(ledger)'
  <1> DEFINE B == [status : {"DRAFT", "POSTED", "REVERSED"}, cut : Int, figure : Int]
             x == [batches[b] EXCEPT !.status = "REVERSED"]
  <1>t. TakenOn(ledger) BY DEF Booked
  <1>o. o.on = batches[b].cut BY <1>t DEF TakenOn
  <1>b. batches[b].cut \in Nat BY BatchTypes
  <1>u. e.units \in Int /\ e.on \in Int /\ e.on >= 0 /\ o.units \in Int BY <1>b, <1>o DEF Ints
  <1>s. /\ DOMAIN batches' = DOMAIN batches /\ \A c \in DOMAIN batches : c # b => batches'[c] = batches[c]
        /\ batches'[b].status = "REVERSED" /\ batches'[b].cut = batches[b].cut
    <2>2. batches[b] \in B
      <3>1. batches \in Seq(B) BY DEF Placed, EngineTypes
      <3> HIDE DEF B
      <3>2. QED BY <3>1
    <2>3. x.status = "REVERSED" /\ x.cut = batches[b].cut BY <2>2
    <2>4. batches' = [batches EXCEPT ![b] = x] OBVIOUS
    <2> HIDE DEF x
    <2>5. DOMAIN batches' = DOMAIN batches /\ batches'[b] = x /\ \A c \in DOMAIN batches : c # b => batches'[c] = batches[c]
      BY <2>4
    <2>6. QED BY <2>3, <2>5
  <1>k. \A f \in ledger : \A c : (f.key = <<"OPEN", c>> => c = b /\ f.on = batches[b].cut) /\ f.key # <<"REV", c>> BY <1>t DEF TakenOn
  <1>1. e.key \notin Keys(ledger) BY <1>k DEF Keys
  <1>2. \A k \in Phases, d \in Int : KeyFor(k, d) \in Keys(ledger) => ~Reads(k, d)
    <2>1. SUFFICES ASSUME NEW k \in Phases, NEW d \in Int, KeyFor(k, d) \in Keys(ledger) PROVE ~Reads(k, d) OBVIOUS
    <2>2. PICK f \in ledger : f.key = KeyFor(k, d) BY <2>1 DEF Keys
    <2>3. Due(k, d) BY <2>2 DEF Booked, AsDue
    <2>4. QED BY <2>3, NothingReads
  <1> DEFINE L == ledger
  <1>l. L = ledger OBVIOUS
  <1> HIDE DEF L
  <1>3. PICK M : M = L \cup {e} OBVIOUS
  <1>4. /\ Ints(M) /\ OnePerKey(M) /\ Keyed(M) /\ AsDue(M) /\ InOrder(M) /\ PaidOff(M)
    BY <1>l, <1>1, <1>2, <1>3, <1>u, OtherPosting
  <1>5. TakenOn(M)'
    <2>1. \A f \in M : \A c :
       /\ f.key = <<"OPEN", c>> => c \in DOMAIN batches' /\ f.on = batches'[c].cut /\ batches'[c].status # "DRAFT"
       /\ f.key = <<"REV", c>> => c \in DOMAIN batches' /\ f.on = batches'[c].cut /\ batches'[c].status = "REVERSED"
      BY <1>l, <1>3, <1>k, <1>s, <1>o
    <2>2. \A f \in M : f.type = "OPENING_BALANCE" <=> \E c : f.key = <<"OPEN", c>> BY <1>l, <1>3, <1>t DEF TakenOn
    <2>3. \A c \in DOMAIN batches' : c = b \/ batches'[c].status = "DRAFT" BY <1>s
    <2>4. o \in M /\ e \in M /\ o.units + e.units = 0 BY <1>l, <1>3, <1>u
    <2>6. \A c \in DOMAIN batches' :
       /\ batches'[c].status # "POSTED"
       /\ batches'[c].status = "REVERSED" =>
            \E f, g \in M : f.key = <<"OPEN", c>> /\ g.key = <<"REV", c>> /\ f.units + g.units = 0
      BY <1>s, <2>3, <2>4
    <2>7. QED BY <2>1, <2>2, <2>6 DEF TakenOn, Keys
  <1>6. Booked(M)' BY <1>4, <1>5, BookLater
  <1>7. ledger' = M BY <1>l, <1>3
  <1>8. QED BY <1>6, <1>7

\* What a step keeps of the records the book was judged by.
LEMMA PlacedNext ==
  ASSUME AccruInv, AllowInv', start' = start, Terms', leftOn' = NoDate \/ leftOn' > start,
         \A b \in DOMAIN batches' : \/ b \in DOMAIN batches /\ batches'[b].cut = batches[b].cut
                                    \/ batches'[b].cut \in Nat /\ batches'[b].cut <= today,
         today <= today'
  PROVE  Placed'
  <1>1. EngineTypes' /\ today' \in Nat BY DEF AllowInv, PayInv
  <1>2. today \in Nat /\ start \in Nat BY PlacedTypes DEF AccruInv
  <1>3. \A b \in DOMAIN batches' : batches'[b].cut \in Nat /\ batches'[b].cut <= today' BY <1>1, <1>2 DEF AccruInv, Placed
  <1>4. QED BY <1>1, <1>2, <1>3 DEF Placed

LEMMA LaterNext ==
  ASSUME Placed, Placed', start' = start, Undisturbed, versions'[1] = versions[1],
         leftOn' = leftOn \/ (~Left /\ ~Left'), Left' /\ ~Left => EmpLastDay' >= today
  PROVE  Later /\ (Left => Left')
  <1>1. today \in Int /\ today' \in Int /\ today <= today' /\ leftOn \in Int BY PlacedTypes DEF Undisturbed
  <1>2. Left => Left' BY <1>1 DEF Left
  <1>3. \A c \in Int : c <= today => Policy(c)' = Policy(c) BY DEF Undisturbed
  <1>4. versions[1].policy.firstGrantAfterMonths' = versions[1].policy.firstGrantAfterMonths OBVIOUS
  <1>5. Left => leftOn' = leftOn OBVIOUS
  <1>6. QED BY <1>1, <1>2, <1>3, <1>4, <1>5 DEF Later

\* The steps that change nothing but the ledger, and those that leave it alone.
LEMMA LedgerStep ==
  ASSUME AccruInv, AllowInv', UNCHANGED <<today, start, leftOn, versions>>, DraftsOnly,
         \A b \in DOMAIN batches' : \/ b \in DOMAIN batches /\ batches'[b].cut = batches[b].cut
                                    \/ batches'[b].cut \in Nat /\ batches'[b].cut <= today,
         NEW L, ledger' = L, Kind = "ACCRUING" /\ NothingRewritten => Booked(L)
  PROVE  AccruInv'
  <1>1. Placed /\ AllowInv /\ today \in Nat BY DEF AccruInv, Placed
  <1>2. Terms' /\ (leftOn' = NoDate \/ leftOn' > start) BY <1>1 DEF Placed, Terms
  <1>3. today' \in Int /\ today <= today' BY <1>1
  <1>4. Placed' BY <1>2, <1>3, PlacedNext
  <1>5. Undisturbed /\ Kind' = Kind BY <1>1, <1>3, QuietKept
  <1>6. Left' <=> Left BY DEF Left
  <1>7. Later BY <1>1, <1>4, <1>5, <1>6, LaterNext
  <1>8. ForceStays BY DEF ForceStays
  <1>9. NothingRewritten' => NothingRewritten BY <1>1, <1>3, <1>6, <1>8, RewrittenBefore
  <1>10. ASSUME Kind' = "ACCRUING", NothingRewritten' PROVE Booked(ledger)'
    <2>1. Booked(L) BY <1>5, <1>9, <1>10
    <2>2. QED BY <1>7, <2>1, BookedNext
  <1>11. QED BY <1>4, <1>10 DEF AccruInv

LEMMA RecordStep ==
  ASSUME AccruInv, AllowInv', UNCHANGED <<start, ledger, batches>>, Terms', versions'[1] = versions[1],
         leftOn' = NoDate \/ leftOn' > start, Undisturbed, ForceStays,
         leftOn' = leftOn \/ (~Left /\ ~Left'), Left' /\ ~Left => EmpLastDay' >= today
  PROVE  AccruInv'
  <1>1. Placed /\ AllowInv /\ today \in Nat BY DEF AccruInv, Placed
  <1>3. today' \in Int /\ today <= today' BY DEF Undisturbed
  <1>4. Placed' BY <1>3, PlacedNext
  <1>5. Kind' = Kind BY DEF Kind
  <1>7. Later /\ (Left => Left') BY <1>1, <1>4, LaterNext
  <1>8. DraftsOnly BY DEF DraftsOnly
  <1>9. NothingRewritten' => NothingRewritten BY <1>1, <1>3, <1>7, <1>8, RewrittenBefore
  <1>10. ASSUME Kind' = "ACCRUING", NothingRewritten' PROVE Booked(ledger)'
    <2>1. Booked(ledger) BY <1>5, <1>9, <1>10 DEF AccruInv
    <2>2. PICK L : L = ledger OBVIOUS
    <2>3. Booked(L) /\ ledger' = L BY <2>1, <2>2
    <2>4. QED BY <1>7, <1>8, <2>3, BookedNext
  <1>11. QED BY <1>4, <1>10 DEF AccruInv

\* Where a batch is posted or reversed.
LEMMA BatchStep ==
  ASSUME AccruInv, AllowInv', UNCHANGED <<today, start, leftOn, versions>>, NEW b \in DOMAIN batches,
         NEW st \in {"POSTED", "REVERSED"}, batches' = [batches EXCEPT ![b].status = st],
         Later /\ ~Left /\ BalancesFree /\ CarriesFree /\ (\A c \in DOMAIN batches \ {b} : batches[c].status = "DRAFT")
         /\ Kind = "ACCRUING" /\ ((batches[b].cut + 1) % MonthDays = 0 \/ batches[b].cut < start) => Booked(ledger)'
  PROVE  AccruInv'
  <1> DEFINE B == [status : {"DRAFT", "POSTED", "REVERSED"}, cut : Int, figure : Int]
             x == [batches[b] EXCEPT !.status = st]
  <1>1. Placed /\ AllowInv /\ today \in Nat BY DEF AccruInv, Placed
  <1>2. /\ DOMAIN batches' = DOMAIN batches /\ \A c \in DOMAIN batches : c # b => batches'[c] = batches[c]
        /\ batches'[b].status = st /\ batches'[b].cut = batches[b].cut
    <2>2. batches[b] \in B
      <3>1. batches \in Seq(B) BY <1>1 DEF Placed, EngineTypes
      <3> HIDE DEF B
      <3>2. QED BY <3>1
    <2>3. x.status = st /\ x.cut = batches[b].cut BY <2>2
    <2>4. batches' = [batches EXCEPT ![b] = x] OBVIOUS
    <2> HIDE DEF x
    <2>5. DOMAIN batches' = DOMAIN batches /\ batches'[b] = x /\ \A c \in DOMAIN batches : c # b => batches'[c] = batches[c]
      BY <2>4
    <2>6. QED BY <2>3, <2>5
  <1>c. \A c \in DOMAIN batches' : c \in DOMAIN batches /\ batches'[c].cut = batches[c].cut BY <1>2
  <1>3. Terms' /\ (leftOn' = NoDate \/ leftOn' > start) BY <1>1 DEF Placed, Terms
  <1>4. today' \in Int /\ today <= today' BY <1>1
  <1>5. Placed' BY <1>3, <1>4, <1>c, PlacedNext
  <1>6. Undisturbed /\ Kind' = Kind BY <1>1, <1>4, QuietKept
  <1>7. Left' <=> Left BY DEF Left
  <1>8. Later BY <1>1, <1>5, <1>6, <1>7, LaterNext
  <1>9. ASSUME Kind' = "ACCRUING", NothingRewritten' PROVE Booked(ledger)'
    <2>1. b \in DOMAIN batches' /\ batches'[b].status # "DRAFT" BY <1>2
    <2>2. ~NoBatchPosted' BY <2>1 DEF NoBatchPosted
    <2>3. OneTakeOn' /\ ~Left' /\ BalancesFree' /\ CarriesFree' BY <1>9, <2>2 DEF NothingRewritten
    <2>4. BalancesFree /\ CarriesFree BY <2>3 DEF BalancesFree, CarriesFree, InForce
    <2>5. /\ (batches'[b].cut + 1) % MonthDays = 0 \/ batches'[b].cut < start'
          /\ \A c \in DOMAIN batches' \ {b} : batches'[c].status = "DRAFT"
      BY <2>1, <2>3 DEF OneTakeOn
    <2>6. \A c \in DOMAIN batches \ {b} : batches[c].status = "DRAFT" BY <1>2, <2>5
    <2>7. (batches[b].cut + 1) % MonthDays = 0 \/ batches[b].cut < start BY <1>2, <2>5
    <2>8. QED BY <1>6, <1>7, <1>8, <1>9, <2>3, <2>4, <2>6, <2>7
  <1>10. QED BY <1>5, <1>9 DEF AccruInv

LEMMA StepAccru == AccruInv /\ [Next]_vars => AccruInv'
  <1>1. SUFFICES ASSUME AccruInv, [Next]_vars PROVE AccruInv' OBVIOUS
  <1>t. AllowInv /\ Placed /\ PayInv /\ EngineTypes /\ today \in Nat /\ Ints(ledger) /\ start \in Nat /\ leftOn \in Int
    BY <1>1, PlacedTypes DEF AccruInv, AllowInv, PayInv, EngineTypes
  <1>p. AllowInv' BY <1>1, <1>t, StepAllow
  <1>d. /\ \A d \in Dates \cup Figures : d \in Int
        /\ \A c \in Cutovers : c \in Nat
    BY DateAssumption
  <1>e. \A k, ty, u, on, c : LET e == Entry(k, ty, u, on, c)
                             IN e.key = k /\ e.type = ty /\ e.units = u /\ e.on = on
    BY DEF Entry
  <1>n. Sound(Now) /\ Now.ledger = ledger /\ Sound(Settled) /\ Ints(Settled.ledger) BY <1>t, NowSound
  <1>b. Kind = "ACCRUING" /\ NothingRewritten => Booked(ledger) BY <1>1 DEF AccruInv
  <1>k. Kind = "ACCRUING" /\ NothingRewritten => Booked(Settled.ledger)
    <2>1. ASSUME Kind = "ACCRUING", NothingRewritten PROVE Booked(Settled.ledger)
      <3>1. Booked(Now.ledger) BY <1>b, <1>n, <2>1
      <3>2. PICK t : t = ProcessEmployee(Now) OBVIOUS
      <3>3. PICK s : s = Now OBVIOUS
      <3>4. Booked(t.ledger) BY <1>n, <1>t, <2>1, <3>1, <3>2, <3>3, SettledBooks
      <3>5. QED BY <3>2, <3>4 DEF Settled
    <2>2. QED BY <2>1
  <1>f. Terms' /\ ForceStays /\ versions'[1] = versions[1] /\ Undisturbed
    <2>1. CASE UNCHANGED versions /\ UNCHANGED start
      <3>1. Terms' /\ ForceStays BY <1>t, <2>1 DEF Terms, ForceStays, Placed
      <3>2. today' \in Int /\ today <= today'
        <4>1. today' = today \/ today' = today + 1
          BY <1>1 DEF Next, vars, Process, LeaveUsed, TakeOn, Settings, NextDay, Book, Cancel, CreateBatch, PostBatch,
                      ReverseBatch, DeleteBatch, UpdatePolicy, Leave
        <4>2. QED BY <1>t, <4>1
      <3>3. Undisturbed BY <1>t, <2>1, <3>2, QuietKept
      <3>4. QED BY <2>1, <3>1, <3>3
    <2>2. CASE \E p \in Policies, d \in Dates : UpdatePolicy(p, d)
      <3>1. PICK p \in Policies, d \in Dates : UpdatePolicy(p, d) BY <2>2
      <3>2. d \in Int BY <1>d
      <3>3. versions[1].from = 0 /\ Terms BY <1>t DEF Placed, Terms
      <3>4. ForceStays /\ versions'[1] = versions[1] /\ Terms' BY <1>t, <3>1, <3>2, <3>3, VersionsStand
      <3>5. Undisturbed BY <1>t, <3>1, <3>2, VersionsKept
      <3>6. QED BY <3>4, <3>5
    <2>3. QED BY <1>1, <2>1, <2>2 DEF Next, vars, Process, LeaveUsed, TakeOn, Settings, NextDay, Book, Cancel, CreateBatch,
                                      PostBatch, ReverseBatch, DeleteBatch, Leave
  \* The ledger, when the batches stay.
  <1>q. ASSUME UNCHANGED <<today, start, leftOn, versions, batches>>, NEW L, ledger' = L,
               Kind = "ACCRUING" /\ NothingRewritten => Booked(L)
        PROVE  AccruInv'
    <2>1. DraftsOnly BY <1>q DEF DraftsOnly
    <2>2. QED BY <1>1, <1>p, <1>q, <2>1, LedgerStep
  <1>2. CASE UNCHANGED vars
    <2>1. UNCHANGED <<today, start, leftOn, versions, batches>> /\ ledger' = ledger BY <1>2 DEF vars
    <2>2. PICK L : L = ledger OBVIOUS
    <2>3. ledger' = L /\ (Kind = "ACCRUING" /\ NothingRewritten => Booked(L)) BY <1>b, <2>1, <2>2
    <2>4. QED BY <1>q, <2>1, <2>3
  <1>3. CASE Process
    <2>1. UNCHANGED <<today, start, leftOn, versions, batches>> /\ ledger' = Settled.ledger BY <1>3 DEF Process, Commit
    <2>2. PICK L : L = Settled.ledger OBVIOUS
    <2>3. ledger' = L /\ (Kind = "ACCRUING" /\ NothingRewritten => Booked(L)) BY <1>k, <2>1, <2>2
    <2>4. QED BY <1>q, <2>1, <2>3
  <1>4. ASSUME NEW r, NEW d \in Dates, Book(r, d) PROVE AccruInv'
    <2> DEFINE e == Entry(<<"USE", r>>, "USAGE", -1, d, CycleKey(d))
    <2>1. ~Left /\ d > today /\ UNCHANGED <<today, start, leftOn, versions, batches>> /\ ledger' = Posted(Settled, e).ledger
      BY <1>4 DEF Book, Commit
    <2>2. e.key = <<"USE", r>> /\ e.type # "OPENING_BALANCE" /\ e.units \in Int /\ e.on \in Int /\ e.on > today
      BY <1>d, <1>e, <2>1
    <2> HIDE DEF e
    <2>3. PICK s : s = Settled OBVIOUS
    <2>4. PICK L : L = Posted(s, e).ledger OBVIOUS
    <2>5. L = s.ledger \/ (e.key \notin Keys(s.ledger) /\ L = s.ledger \cup {e}) BY <1>n, <2>2, <2>3, <2>4, PostedIs
    <2>6. ASSUME Kind = "ACCRUING", NothingRewritten PROVE Booked(L)
      <3>1. Booked(s.ledger) /\ Ints(s.ledger) BY <1>k, <1>n, <2>3, <2>6
      <3>2. QED BY <1>t, <2>1, <2>2, <2>5, <3>1, BookLeave
    <2>7. ledger' = L BY <2>1, <2>3, <2>4
    <2>8. QED BY <1>q, <2>1, <2>6, <2>7
  <1>5. ASSUME NEW r, Cancel(r) PROVE AccruInv'
    <2>1. PICK e \in ledger : /\ e.on > today
                              /\ Commit(Posted(Now, Entry(<<"RET", r>>, "USAGE_REVERSAL", - e.units, e.on, e.cycle)))
      BY <1>5 DEF Cancel
    <2> DEFINE x == Entry(<<"RET", r>>, "USAGE_REVERSAL", - e.units, e.on, e.cycle)
    <2>2. ~Left /\ UNCHANGED <<today, start, leftOn, versions, batches>> /\ ledger' = Posted(Now, x).ledger
      BY <1>5, <2>1 DEF Cancel, Commit
    <2>3. - e.units \in Int /\ e.on \in Int BY <1>t DEF Ints
    <2>4. x.key = <<"RET", r>> /\ x.type # "OPENING_BALANCE" /\ x.units \in Int /\ x.on \in Int /\ x.on > today
      BY <1>e, <2>1, <2>3
    <2> HIDE DEF x
    <2>5. PICK s : s = Now OBVIOUS
    <2>6. PICK L : L = Posted(s, x).ledger OBVIOUS
    <2>7. L = s.ledger \/ (x.key \notin Keys(s.ledger) /\ L = s.ledger \cup {x}) BY <1>n, <2>4, <2>5, <2>6, PostedIs
    <2>8. ASSUME Kind = "ACCRUING", NothingRewritten PROVE Booked(L)
      <3>1. Booked(s.ledger) /\ Ints(s.ledger) BY <1>b, <1>n, <1>t, <2>5, <2>8
      <3>2. QED BY <1>t, <2>2, <2>4, <2>7, <3>1, BookLeave
    <2>9. ledger' = L BY <2>2, <2>5, <2>6
    <2>10. QED BY <1>q, <2>2, <2>8, <2>9
  \* A draft more, or a draft less.
  <1>s. ASSUME UNCHANGED <<today, start, leftOn, versions, ledger>>, DraftsOnly,
               \A b \in DOMAIN batches' : \/ b \in DOMAIN batches /\ batches'[b].cut = batches[b].cut
                                          \/ batches'[b].cut \in Nat /\ batches'[b].cut <= today
        PROVE  AccruInv'
    <2>1. PICK L : L = ledger OBVIOUS
    <2>2. ledger' = L /\ (Kind = "ACCRUING" /\ NothingRewritten => Booked(L)) BY <1>b, <1>s, <2>1
    <2>3. QED BY <1>1, <1>p, <1>s, <2>2, LedgerStep
  <1>6. ASSUME NEW cut \in Cutovers, NEW figure \in Figures, CreateBatch(cut, figure) PROVE AccruInv'
    <2> DEFINE B == [status : {"DRAFT", "POSTED", "REVERSED"}, cut : Int, figure : Int]
               b == [status |-> "DRAFT", cut |-> cut, figure |-> figure]
               n == Len(batches)
    <2>1. UNCHANGED <<today, start, leftOn, versions, ledger>> /\ cut <= today /\ batches' = Append(batches, b)
      BY <1>6 DEF CreateBatch
    <2>2. b.status = "DRAFT" /\ b.cut = cut /\ cut \in Nat BY <1>d
    <2>3. batches \in Seq(B) BY <1>t DEF EngineTypes
    <2> HIDE DEF B, b
    <2>4. /\ \A i \in DOMAIN batches : i \in DOMAIN batches' /\ batches'[i] = batches[i]
          /\ \A i \in DOMAIN batches' : i \in DOMAIN batches \/ batches'[i] = b
      BY <2>1, <2>3
    <2>5. DraftsOnly BY <2>2, <2>4 DEF DraftsOnly
    <2>6. QED BY <1>s, <2>1, <2>2, <2>4, <2>5
  <1>9. ASSUME NEW b \in DOMAIN batches, DeleteBatch(b) PROVE AccruInv'
    <2> DEFINE B == [status : {"DRAFT", "POSTED", "REVERSED"}, cut : Int, figure : Int]
    <2>1. /\ UNCHANGED <<today, start, leftOn, versions, ledger>>
          /\ b = Len(batches) /\ batches[b].status = "DRAFT" /\ batches' = SubSeq(batches, 1, b - 1)
      BY <1>9 DEF DeleteBatch
    <2>2. batches \in Seq(B) BY <1>t DEF EngineTypes
    <2> HIDE DEF B
    <2>3. \A i \in DOMAIN batches : i = b \/ (i \in DOMAIN batches' /\ batches'[i] = batches[i]) BY <2>1, <2>2
    <2>4. \A i \in DOMAIN batches' : i \in DOMAIN batches /\ batches'[i] = batches[i] BY <2>1, <2>2
    <2>5. DraftsOnly BY <2>1, <2>3, <2>4 DEF DraftsOnly
    <2>6. QED BY <1>s, <2>1, <2>4, <2>5
  <1>7. ASSUME NEW b \in DOMAIN batches, PostBatch(b) PROVE AccruInv'
    <2>1. /\ UNCHANGED <<today, start, leftOn, versions>> /\ batches' = [batches EXCEPT ![b].status = "POSTED"]
          /\ batches[b].status = "DRAFT"
          /\ Kind = "ACCRUING" => ledger' = SetBalance(b, batches[b].cut, batches[b].figure).ledger
      BY <1>7 DEF PostBatch, Commit
    <2>2. ASSUME Later, ~Left, BalancesFree, CarriesFree, \A c \in DOMAIN batches \ {b} : batches[c].status = "DRAFT",
                 Kind = "ACCRUING"
          PROVE  Booked(ledger)'
      <3> DEFINE u == batches[b].figure - Balance(ledger, batches[b].cut)
                 e == Entry(<<"OPEN", b>>, "OPENING_BALANCE", u, batches[b].cut, CycleKey(batches[b].cut))
      <3>1. NoBatchPosted BY <2>1, <2>2 DEF NoBatchPosted
      <3>2. Booked(ledger) BY <1>b, <2>2, <3>1 DEF NothingRewritten
      <3>3. ledger' = Posted(Now, e).ledger BY <2>1, <2>2 DEF SetBalance
      <3>4. e.key = <<"OPEN", b>> /\ e.type = "OPENING_BALANCE" /\ e.on = batches[b].cut /\ e.units = u BY <1>e
      <3>5. batches[b].cut \in Int /\ u \in Int
        <4>1. batches[b].cut \in Nat /\ batches[b].figure \in Int BY <1>t, BatchTypes
        <4>2. Balance(ledger, batches[b].cut) \in Int BY <1>t, LedgerFigures
        <4>3. QED BY <4>1, <4>2
      <3>6. <<"OPEN", b>> \notin Keys(ledger) BY <2>1, <3>2 DEF Booked, TakenOn, Keys
      <3> HIDE DEF e
      <3>7. PICK s : s = Now OBVIOUS
      <3>8. s.ledger = ledger /\ Sound(s) /\ e.units \in Int /\ e.on \in Int /\ e.key \notin Keys(s.ledger)
        BY <1>n, <3>4, <3>5, <3>6, <3>7
      <3>9. Posted(s, e).ledger = s.ledger \cup {e} BY <3>8, PostedIs
      <3>10. ledger' = ledger \cup {e} BY <3>3, <3>7, <3>8, <3>9
      <3>11. QED BY <1>t, <2>1, <2>2, <3>1, <3>2, <3>4, <3>10, BookOpening
    <2>3. QED BY <1>1, <1>p, <2>1, <2>2, BatchStep
  <1>8. ASSUME NEW b \in DOMAIN batches, ReverseBatch(b) PROVE AccruInv'
    <2> DEFINE ty(e) == IF e.type = "OPENING_USAGE" THEN "USAGE_REVERSAL" ELSE "ADJUSTMENT_REVERSAL"
    <2>1. PICK o \in ledger : /\ o.key = <<"OPEN", b>>
                              /\ Commit(Posted(Now, Entry(<<"REV", b>>, ty(o), - o.units, o.on, o.cycle)))
      BY <1>8 DEF ReverseBatch
    <2>2. /\ UNCHANGED <<today, start, leftOn, versions>> /\ batches' = [batches EXCEPT ![b].status = "REVERSED"]
          /\ batches[b].status = "POSTED"
      BY <1>8 DEF ReverseBatch
    <2>3. ty(o) # "OPENING_BALANCE" OBVIOUS
    <2> HIDE DEF ty
    <2> DEFINE e == Entry(<<"REV", b>>, ty(o), - o.units, o.on, o.cycle)
    <2>4. e.key = <<"REV", b>> /\ e.type # "OPENING_BALANCE" /\ e.on = o.on /\ e.units = - o.units BY <1>e, <2>3
    <2>5. ledger' = Posted(Now, e).ledger BY <2>1 DEF Commit
    <2>6. e.units \in Int /\ e.on \in Int BY <1>t, <2>4 DEF Ints
    <2> HIDE DEF e
    <2>7. ASSUME Later, ~Left, BalancesFree, CarriesFree, \A c \in DOMAIN batches \ {b} : batches[c].status = "DRAFT",
                 Kind = "ACCRUING", (batches[b].cut + 1) % MonthDays = 0 \/ batches[b].cut < start
          PROVE  Booked(ledger)'
      <3>1. OneTakeOn BY <2>7 DEF OneTakeOn
      <3>2. Booked(ledger) BY <1>b, <2>7, <3>1 DEF NothingRewritten
      <3>3. <<"REV", b>> \notin Keys(ledger) BY <2>2, <3>2 DEF Booked, TakenOn, Keys
      <3>4. PICK s : s = Now OBVIOUS
      <3>5. s.ledger = ledger /\ Sound(s) /\ e.key \notin Keys(s.ledger) BY <1>n, <2>4, <3>3, <3>4
      <3>6. Posted(s, e).ledger = s.ledger \cup {e} BY <2>6, <3>5, PostedIs
      <3>7. ledger' = ledger \cup {e} BY <2>5, <3>4, <3>5, <3>6
      <3>8. QED BY <1>t, <2>1, <2>2, <2>4, <2>7, <3>2, <3>7, BookReversal
    <2>8. QED BY <1>1, <1>p, <2>2, <2>7, BatchStep
  <1>10. ASSUME NEW p \in Policies, NEW d \in Dates, UpdatePolicy(p, d) PROVE AccruInv'
    <2>1. UNCHANGED <<start, ledger, batches>> /\ leftOn' = leftOn /\ today' = today BY <1>10 DEF UpdatePolicy
    <2>2. Left' <=> Left BY <2>1 DEF Left
    <2>3. leftOn' = NoDate \/ leftOn' > start BY <1>t, <2>1 DEF Placed
    <2>4. QED BY <1>1, <1>f, <1>p, <2>1, <2>2, <2>3, RecordStep
  <1>11. ASSUME NEW d \in Dates, Leave(d) PROVE AccruInv'
    <2>1. UNCHANGED <<start, ledger, batches>> /\ leftOn' = d /\ leftOn = NoDate /\ d > today /\ d > start /\ today' = today
      BY <1>11 DEF Leave
    <2>2. ~Left /\ ~Left' BY <1>t, <1>d, <2>1 DEF Left
    <2>4. QED BY <1>1, <1>f, <1>p, <2>1, <2>2, RecordStep
  <1>12. CASE NextDay
    <2>1. UNCHANGED <<start, ledger, batches>> /\ leftOn' = leftOn /\ today' = today + 1 BY <1>12 DEF NextDay
    <2>2. Left' /\ ~Left => EmpLastDay' >= today BY <1>t, <2>1 DEF Left, EmpLastDay
    <2>3. leftOn' = NoDate \/ leftOn' > start BY <1>t, <2>1 DEF Placed
    <2>4. QED BY <1>1, <1>f, <1>p, <2>1, <2>2, <2>3, RecordStep
  <1>13. QED BY <1>1, <1>2, <1>3, <1>4, <1>5, <1>6, <1>7, <1>8, <1>9, <1>10, <1>11, <1>12
             DEF Next, LeaveUsed, TakeOn, Settings

-----------------------------------------------------------------------------
(***************************************************************************)
(* The clerk. What an up-to-date ledger holds grows from one day to the    *)
(* next by what people book, what batches post and by what each phase      *)
(* dates on that day; and that is what the clerk writes down.              *)
(***************************************************************************)
Clean(L, d) == {e \in L : e.on <= d /\ e.key[1] # "TERM"}
Of(L, k, d) == {e \in L : e.on = d /\ \E c \in Int : e.key = KeyFor(k, c)}
Leaving(L, d) == {e \in L : e.on = d /\ e.key[1] \in {"USE", "RET"}}
TakingOn(L, d) == {e \in L : e.on = d /\ e.key[1] \in {"OPEN", "REV"}}
DateFor(k, d) == IF k = "accrue" THEN MonthStart(d) ELSE IF k = "grant" THEN d ELSE d + 1

\* A part of a ledger and the rest of it.
LEMMA Parts ==
  ASSUME NEW L, Ints(L), NEW S \in SUBSET L, NEW T \in SUBSET S
  PROVE  /\ UnitSum(S) = UnitSum(S \ T) + UnitSum(T)
         /\ UnitSum(S) \in Int /\ UnitSum(T) \in Int /\ UnitSum(S \ T) \in Int
  <1>1. T \in SUBSET L /\ S \ T \in SUBSET L OBVIOUS
  <1>2. /\ UnitSum(S) \in Int /\ UnitSum(T) \in Int /\ UnitSum(S \ T) \in Int
        /\ IsFiniteSet(T) /\ IsFiniteSet(S \ T)
    BY <1>1, SubSums
  <1>3. (S \ T) \cup T = S /\ (S \ T) \cap T = {} OBVIOUS
  <1>4. \A e \in (S \ T) \cup T : e.units \in Int BY DEF Ints
  <1>5. UnitSum((S \ T) \cup T) = UnitSum(S \ T) + UnitSum(T) BY <1>2, <1>3, <1>4, UnitSumUnion
  <1>6. QED BY <1>2, <1>3, <1>5

LEMMA DaySplit ==
  ASSUME NEW L, Ints(L), Keyed(L), NEW d \in Int
  PROVE  /\ UnitSum(Clean(L, d)) = UnitSum(Clean(L, d - 1)) + UnitSum(Leaving(L, d)) + UnitSum(TakingOn(L, d))
              + UnitSum(Of(L, "accrue", d)) + UnitSum(Of(L, "grant", d)) + UnitSum(Of(L, "end", d))
         /\ \A b : UnitSum(Clean(L, b)) \in Int /\ UnitSum(Leaving(L, b)) \in Int /\ UnitSum(TakingOn(L, b)) \in Int
         /\ \A k : UnitSum(Of(L, k, d)) \in Int
  <1> DEFINE A == Of(L, "accrue", d)
             G == Of(L, "grant", d)
             E == Of(L, "end", d)
             P == Leaving(L, d)
             O == TakingOn(L, d)
             S == Clean(L, d)
  <1>p. "accrue" \in Phases /\ "grant" \in Phases /\ "end" \in Phases BY DEF Phases
  <1>1. A \subseteq S /\ G \subseteq S /\ E \subseteq S /\ P \subseteq S /\ O \subseteq S
    <2>1. ASSUME NEW k \in Phases PROVE Of(L, k, d) \subseteq S
      <3>1. \A c : KeyFor(k, c)[1] # "TERM" BY KeysApart
      <3>2. QED BY <3>1 DEF Of, Clean
    <2>2. P \subseteq S /\ O \subseteq S BY DEF Clean, Leaving, TakingOn
    <2>3. QED BY <1>p, <2>1, <2>2
  <1>2. A \cap G = {} /\ (A \cup G) \cap E = {}
    BY <1>p, KeysApart DEF Of
  <1>3. P \cap O = {} /\ (A \cup G \cup E) \cap (P \cup O) = {}
    <2>1. P \cap O = {} BY DEF Leaving, TakingOn
    <2>2. ASSUME NEW k \in Phases, NEW e \in Of(L, k, d) PROVE e.key[1] \in {"ACC", "ACCUP", "CYC"}
      <3>1. PICK c \in Int : e.key = KeyFor(k, c) BY DEF Of
      <3>2. QED BY <3>1, KeysApart
    <2>3. QED BY <1>p, <2>1, <2>2 DEF Leaving, TakingOn
  <1>4. Clean(L, d - 1) = (((((S \ E) \ G) \ A) \ O) \ P)
    <2>1. \A e \in L : e.on \in Int BY DEF Ints
    <2>2. \A e \in Clean(L, d - 1) : e \in S /\ e.on # d BY <2>1 DEF Clean
    <2>3. ASSUME NEW e \in S, e \notin Clean(L, d - 1) PROVE e \in A \/ e \in G \/ e \in E \/ e \in P \/ e \in O
      <3>1. e \in L /\ e.on = d /\ e.key[1] # "TERM" BY <2>1, <2>3 DEF Clean
      <3>2. \/ \E k \in Phases, c \in Int : e.key = KeyFor(k, c)
            \/ \E t \in {"TERM", "USE", "RET", "OPEN", "REV"} : \E r : e.key = <<t, r>>
        BY <3>1 DEF Keyed
      <3>3. CASE \E k \in Phases, c \in Int : e.key = KeyFor(k, c) BY <3>1, <3>3 DEF Of, Phases
      <3>4. CASE \E t \in {"TERM", "USE", "RET", "OPEN", "REV"} : \E r : e.key = <<t, r>>
        BY <3>1, <3>4 DEF Leaving, TakingOn
      <3>5. QED BY <3>2, <3>3, <3>4
    <2>4. \A e \in A \cup G \cup E \cup P \cup O : e.on = d BY DEF Of, Leaving, TakingOn
    <2> HIDE DEF A, G, E, P, O, S
    <2>5. QED BY <2>2, <2>3, <2>4
  <1>5. S \in SUBSET L BY DEF Clean
  <1> HIDE DEF A, G, E, P, O, S
  <1>6. /\ UnitSum(S) = UnitSum(S \ E) + UnitSum(E) /\ UnitSum(S \ E) \in Int /\ UnitSum(E) \in Int
    BY <1>1, <1>5, Parts
  <1>7. /\ UnitSum(S \ E) = UnitSum((S \ E) \ G) + UnitSum(G) /\ UnitSum((S \ E) \ G) \in Int /\ UnitSum(G) \in Int
    <2>1. S \ E \in SUBSET L /\ G \in SUBSET (S \ E) BY <1>1, <1>2, <1>5
    <2>2. QED BY <2>1, Parts
  <1>8. /\ UnitSum((S \ E) \ G) = UnitSum(((S \ E) \ G) \ A) + UnitSum(A) /\ UnitSum(((S \ E) \ G) \ A) \in Int /\ UnitSum(A) \in Int
    <2>1. (S \ E) \ G \in SUBSET L /\ A \in SUBSET ((S \ E) \ G) BY <1>1, <1>2, <1>5
    <2>2. QED BY <2>1, Parts
  <1>9. /\ UnitSum(((S \ E) \ G) \ A) = UnitSum((((S \ E) \ G) \ A) \ O) + UnitSum(O)
        /\ UnitSum((((S \ E) \ G) \ A) \ O) \in Int /\ UnitSum(O) \in Int
    <2>1. ((S \ E) \ G) \ A \in SUBSET L /\ O \in SUBSET (((S \ E) \ G) \ A) BY <1>1, <1>3, <1>5
    <2>2. QED BY <2>1, Parts
  <1>10. /\ UnitSum((((S \ E) \ G) \ A) \ O) = UnitSum(((((S \ E) \ G) \ A) \ O) \ P) + UnitSum(P)
         /\ UnitSum(((((S \ E) \ G) \ A) \ O) \ P) \in Int /\ UnitSum(P) \in Int
    <2>1. (((S \ E) \ G) \ A) \ O \in SUBSET L /\ P \in SUBSET ((((S \ E) \ G) \ A) \ O) BY <1>1, <1>3, <1>5
    <2>2. QED BY <2>1, Parts
  <1>11. UnitSum(S) = UnitSum(Clean(L, d - 1)) + UnitSum(P) + UnitSum(O) + UnitSum(A) + UnitSum(G) + UnitSum(E)
    <2> DEFINE c == UnitSum(Clean(L, d - 1))
    <2>1. UnitSum(((((S \ E) \ G) \ A) \ O) \ P) = c BY <1>4
    <2>2. c \in Int BY <1>10, <2>1
    <2> HIDE DEF c
    <2>3. UnitSum(S) = c + UnitSum(P) + UnitSum(O) + UnitSum(A) + UnitSum(G) + UnitSum(E)
      BY <1>6, <1>7, <1>8, <1>9, <1>10, <2>1, <2>2
    <2>4. QED BY <2>3 DEF c
  <1>12. \A b : UnitSum(Clean(L, b)) \in Int /\ UnitSum(Leaving(L, b)) \in Int /\ UnitSum(TakingOn(L, b)) \in Int
    <2>1. TAKE b
    <2>2. Clean(L, b) \in SUBSET L /\ Leaving(L, b) \in SUBSET L /\ TakingOn(L, b) \in SUBSET L
      BY DEF Clean, Leaving, TakingOn
    <2>3. QED BY <2>2, SubSums
  <1>13. \A k : UnitSum(Of(L, k, d)) \in Int
    <2>1. TAKE k
    <2>2. Of(L, k, d) \in SUBSET L BY DEF Of
    <2>3. QED BY <2>2, SubSums
  <1>14. QED BY <1>11, <1>12, <1>13 DEF A, G, E, P, O, S

\* What a phase dates on a day is for one date.
LEMMA Dated ==
  ASSUME Placed, NEW k \in Phases, NEW c \in Int, NEW d \in Int, Due(k, c), DateOf(k, c) = d
  PROVE  c = DateFor(k, d)
  <1>1. CASE k = "accrue"
    <2>1. c % MonthDays = 0 BY <1>1 DEF Due, OnGrid
    <2>2. c <= d /\ d <= c + MonthDays - 1 BY <1>1, DueDates DEF DateOf
    <2>3. QED BY <1>1, <2>1, <2>2, MonthOf DEF DateFor
  <1>2. CASE k # "accrue" BY <1>2 DEF DateFor, DateOf
  <1>3. QED BY <1>1, <1>2

\* On a day that is not before the loops' first, a phase has dated what was due.
LEMMA PhaseDay ==
  ASSUME Placed, NEW L, Ints(L), Booked(L), NEW x, NEW k \in Phases, Has(L, k, x), NEW d \in Int, x \in Int, d >= x \/ d < start,
         NEW c, c = DateFor(k, d)
  PROVE  /\ c \in Int
         /\ ~(Due(k, c) /\ DateOf(k, c) = d) => Of(L, k, d) = {}
         /\ Due(k, c) /\ DateOf(k, c) = d =>
              /\ UnitSum(Of(L, k, d)) = UnitsFor(k, c, UnitSum(Before(L, k, c)))
              /\ k = "grant" => Before(L, k, c) = Clean(L, d - 1)
              /\ k # "grant" => Before(L, k, c) = Clean(L, d) \ Of(L, k, d)
  <1>0. c \in Int /\ start \in Nat BY MonthOf, PlacedTypes DEF DateFor
  <1>1. ASSUME NEW e \in Of(L, k, d) PROVE e.key = KeyFor(k, c) /\ Due(k, c) /\ DateOf(k, c) = d
    <2>1. PICK b \in Int : e.key = KeyFor(k, b) BY DEF Of
    <2>2. e \in L /\ e.on = d BY DEF Of
    <2>3. Due(k, b) /\ DateOf(k, b) = d BY <2>1, <2>2 DEF Booked, AsDue
    <2>4. b = c BY <2>3, Dated
    <2>5. QED BY <2>1, <2>3, <2>4
  <1>2. ASSUME Due(k, c), DateOf(k, c) = d
        PROVE  /\ UnitSum(Of(L, k, d)) = UnitsFor(k, c, UnitSum(Before(L, k, c)))
               /\ k = "grant" => Before(L, k, c) = Clean(L, d - 1)
               /\ k # "grant" => Before(L, k, c) = Clean(L, d) \ Of(L, k, d)
    <2>1. d >= x
      <3>1. d >= start BY <1>0, <1>2, DueDates
      <3>2. QED BY <1>0, <3>1
    <2>2. KeyFor(k, c) \in Keys(L) BY <1>0, <1>2, <2>1 DEF Has
    <2>3. PICK e \in L : e.key = KeyFor(k, c) BY <2>2 DEF Keys
    <2>4. e.on = d /\ e.units = UnitsFor(k, c, UnitSum(Before(L, k, c))) BY <1>0, <1>2, <2>3 DEF Booked, AsDue
    <2>5. \A f \in L : f.key = KeyFor(k, c) => f = e BY <2>3 DEF Booked, OnePerKey
    <2>6. Of(L, k, d) = {e}
      <3>1. e \in Of(L, k, d) BY <1>0, <2>3, <2>4 DEF Of
      <3>2. \A f \in Of(L, k, d) : f = e BY <1>1, <2>5 DEF Of
      <3>3. QED BY <3>1, <3>2
    <2>7. UnitSum({e}) = e.units
      <3>1. e.units \in Int BY DEF Ints
      <3>2. UnitSum({} \cup {e}) = UnitSum({}) + e.units BY <3>1, UnitSumAdd, FS_EmptySet
      <3>3. {} \cup {e} = {e} OBVIOUS
      <3>4. QED BY <3>1, <3>2, <3>3, UnitSumEmpty
    <2>8. \A f \in L : f.on \in Int BY DEF Ints
    <2>9. ASSUME k = "grant" PROVE Before(L, k, c) = Clean(L, d - 1)
      <3>1. c = d /\ ReadOn(k, c) = d - 1 BY <2>9 DEF DateFor, ReadOn
      <3>2. \A f \in L : f.on <= d - 1 => f.key # KeyFor(k, c) BY <2>4, <2>5, <2>8
      <3>3. QED BY <3>1, <3>2 DEF Before, Clean
    <2>10. ASSUME k # "grant" PROVE Before(L, k, c) = Clean(L, d) \ Of(L, k, d)
      <3>1. ReadOn(k, c) = d BY <1>2, <2>10 DEF DateOf, ReadOn, Phases
      <3>2. \A f \in L : f.key = KeyFor(k, c) <=> f \in Of(L, k, d) BY <2>3, <2>5, <2>6
      <3>3. QED BY <3>1, <3>2 DEF Before, Clean
    <2>11. QED BY <2>4, <2>6, <2>7, <2>9, <2>10
  <1>3. QED BY <1>0, <1>1, <1>2

\* Where no opening stands, what batches posted on a day cancels.
LEMMA OpeningsCancel ==
  ASSUME Placed, NothingRewritten, NEW L, Ints(L), Booked(L), NEW d \in Int, \A o \in LiveOpenings(L) : o.on # d
  PROVE  UnitSum(TakingOn(L, d)) = 0
  <1>t. TakenOn(L) /\ OnePerKey(L) /\ Keyed(L) BY DEF Booked
  <1>1. CASE TakingOn(L, d) = {} BY <1>1, UnitSumEmpty
  <1>2. ASSUME NEW e \in TakingOn(L, d) PROVE UnitSum(TakingOn(L, d)) = 0
    <2>0. e \in L /\ e.on = d /\ e.key[1] \in {"OPEN", "REV"} BY DEF TakingOn
    <2>k. \A f \in TakingOn(L, d) : \E c : f.key = <<"OPEN", c>> \/ f.key = <<"REV", c>>
      <3>1. TAKE f \in TakingOn(L, d)
      <3>2. f \in L /\ f.key[1] \in {"OPEN", "REV"} BY DEF TakingOn
      <3>3. \A k \in Phases, c \in Int : f.key # KeyFor(k, c) BY <3>2, KeysApart
      <3>4. PICK t \in {"TERM", "USE", "RET", "OPEN", "REV"} : \E r : f.key = <<t, r>> BY <1>t, <3>2, <3>3 DEF Keyed
      <3>5. PICK r : f.key = <<t, r>> BY <3>4
      <3>6. t = "OPEN" \/ t = "REV" BY <3>2, <3>5
      <3>7. QED BY <3>5, <3>6
    <2>1. PICK b : e.key = <<"OPEN", b>> \/ e.key = <<"REV", b>> BY <2>k
    <2>2. b \in DOMAIN batches /\ batches[b].cut = d /\ batches[b].status # "DRAFT" BY <1>t, <2>0, <2>1 DEF TakenOn
    <2>3. ~NoBatchPosted BY <2>2 DEF NoBatchPosted
    <2>4. \A c \in DOMAIN batches \ {b} : batches[c].status = "DRAFT" BY <2>2, <2>3 DEF NothingRewritten, OneTakeOn
    <2>5. batches[b].status # "POSTED"
      <3>1. SUFFICES ASSUME batches[b].status = "POSTED" PROVE FALSE OBVIOUS
      <3>2. e.key = <<"OPEN", b>> /\ <<"REV", b>> \notin Keys(L) BY <1>t, <2>0, <2>1, <3>1 DEF TakenOn, Keys
      <3>3. e.type = "OPENING_BALANCE" /\ e.key[2] = b BY <1>t, <2>0, <3>2 DEF TakenOn
      <3>4. e \in LiveOpenings(L) BY <2>0, <3>2, <3>3 DEF LiveOpenings
      <3>5. QED BY <2>0, <3>4
    <2>6. batches[b].status = "REVERSED" BY <2>2, <2>5, BatchTypes
    <2>7. PICK o \in L, r \in L : o.key = <<"OPEN", b>> /\ r.key = <<"REV", b>> /\ o.units + r.units = 0
      BY <1>t, <2>2, <2>6 DEF TakenOn
    <2>8. TakingOn(L, d) = {o} \cup {r}
      <3>1. o.on = d /\ r.on = d BY <1>t, <2>2, <2>7 DEF TakenOn
      <3>2. o \in TakingOn(L, d) /\ r \in TakingOn(L, d) BY <2>7, <3>1 DEF TakingOn
      <3>3. ASSUME NEW f \in TakingOn(L, d) PROVE f = o \/ f = r
        <4>1. f \in L BY DEF TakingOn
        <4>2. PICK c : f.key = <<"OPEN", c>> \/ f.key = <<"REV", c>> BY <2>k
        <4>3. c \in DOMAIN batches /\ batches[c].status # "DRAFT" BY <1>t, <4>1, <4>2 DEF TakenOn
        <4>4. c = b BY <2>4, <4>3
        <4>5. QED BY <1>t, <2>7, <4>1, <4>2, <4>4 DEF OnePerKey
      <3>4. QED BY <3>2, <3>3
    <2>9. o # r BY <2>7
    <2>10. o.units \in Int /\ r.units \in Int BY DEF Ints
    <2>11. UnitSum({o}) = o.units
      <3>2. UnitSum({} \cup {o}) = UnitSum({}) + o.units BY <2>10, UnitSumAdd, FS_EmptySet
      <3>3. {} \cup {o} = {o} OBVIOUS
      <3>4. QED BY <2>10, <3>2, <3>3, UnitSumEmpty
    <2>12. UnitSum({o} \cup {r}) = UnitSum({o}) + r.units BY <2>9, <2>10, UnitSumAdd, FS_Singleton
    <2>13. QED BY <2>7, <2>8, <2>11, <2>12
  <1>3. QED BY <1>1, <1>2

-----------------------------------------------------------------------------
\* What the clerk credits on a day, before the policy's highest balance.
Owed(x, d) ==
  LET p == Policy(d)
      from == Larger(MonthStart(d), x)
  IN IF p.frequency = "MONTHLY" /\ PeriodEnd(d) /\ from <= d
     THEN p.perDay * (IF p.prorate THEN d - from + 1 ELSE MonthDays)
     ELSE IF p.frequency = "UPFRONT" /\ GrantDate(d) /\ d >= x
     THEN p.perDay * YearDays
     ELSE 0

Comes(k, c, p, u) == \A h : UnitsFor(k, c, h) = UpToMax(p, u, h)

OwedBy(d, c, p, u) ==
  /\ u \in Nat
  /\ Due("accrue", c) /\ DateOf("accrue", c) = d =>
       p.frequency = "MONTHLY" /\ ~Due("grant", d) /\ Comes("accrue", c, p, u)
  /\ Due("grant", d) => p.frequency = "UPFRONT" /\ Comes("grant", d, p, u)
  /\ ~(Due("accrue", c) /\ DateOf("accrue", c) = d) /\ ~Due("grant", d) => u = 0

\* It is what one of the two loops dates on that day, or nothing.
LEMMA OwedIs ==
  ASSUME Placed, NEW x \in Int, x >= start, x = start \/ x % MonthDays = 0, NEW d \in Int, d <= EndLimit,
         d >= x \/ d < start, NEW c, c = MonthStart(d), NEW p, p = Policy(d), NEW u, u = Owed(x, d)
  PROVE  OwedBy(d, c, p, u)
  <1> DEFINE from == Larger(c, x)
             days == IF p.prorate THEN d - from + 1 ELSE MonthDays
  <1>t. /\ start \in Nat /\ EndLimit \in Int /\ EndLimit <= today /\ today \in Nat /\ EmpLastDay \in Int
        /\ MonthDays \in Nat \ {0} /\ YearDays \in Nat \ {0} /\ FirstGrant \in Int /\ FirstGrant >= start
        /\ (Left => EndLimit = EmpLastDay) /\ AccTo(c) \in Int
    <2>1. c \in Int /\ "accrue" \in Phases BY MonthOf DEF Phases
    <2>2. AccTo(c) \in Int BY <2>1, DateFigures
    <2>3. QED BY <2>2, PlacedTypes
  <1>c. /\ c \in Int /\ c % MonthDays = 0 /\ c <= d /\ d <= c + MonthDays - 1
        /\ (d + 1) % MonthDays = 0 <=> d = c + MonthDays - 1
    BY MonthOf
  <1>p. p \in Policies /\ p.perDay \in Nat BY VersionFor, Numbers
  <1>1. AccTo(c) = d <=> PeriodEnd(d)
    <2>1. PeriodEnd(d) <=> d = c + MonthDays - 1 \/ (Left /\ d = EmpLastDay) BY <1>c DEF PeriodEnd
    <2>2. CASE Left
      <3>1. d <= EmpLastDay BY <1>t, <2>2
      <3>2. AccTo(c) = IF EmpLastDay < c + MonthDays - 1 THEN EmpLastDay ELSE c + MonthDays - 1 BY <2>2 DEF AccTo
      <3>3. QED BY <1>t, <1>c, <2>1, <2>2, <3>1, <3>2
    <2>3. CASE ~Left
      <3>1. AccTo(c) = c + MonthDays - 1 BY <2>3 DEF AccTo
      <3>2. QED BY <1>t, <1>c, <2>1, <2>3, <3>1
    <2>4. QED BY <2>2, <2>3
  <1>2. from <= d <=> d >= x BY <1>c DEF Larger
  <1>3. Larger(c, start) <= d <=> d >= x BY <1>c, <1>t DEF Larger
  <1>4. d >= x => Larger(c, start) = from
    <2>1. SUFFICES ASSUME d >= x, x # start PROVE Larger(c, start) = from BY DEF Larger
    <2>2. x % MonthDays = 0 BY <2>1
    <2>3. c < x => c + MonthDays <= x BY <1>c, <1>t, <2>2, Between
    <2>4. x <= c BY <1>c, <1>t, <2>1, <2>3
    <2>5. QED BY <1>c, <1>t, <2>4 DEF Larger
  <1>5. Due("accrue", c) /\ DateOf("accrue", c) = d <=>
          p.frequency = "MONTHLY" /\ PeriodEnd(d) /\ from <= d /\ p.perDay > 0
    <2>1. DateOf("accrue", c) = AccTo(c) BY DEF DateOf
    <2>2. OnGrid("accrue", c) /\ c <= EndLimit BY <1>c, <1>t DEF OnGrid
    <2>3. ASSUME AccTo(c) = d
          PROVE  Ripe("accrue", c, start) <=> Larger(c, start) <= d /\ p.frequency = "MONTHLY" /\ p.perDay > 0
      <3>1. PolicyFor("accrue", c) = p BY <2>3 DEF PolicyFor
      <3>2. AccTo(c) <= today BY <1>t, <2>3
      <3>3. QED BY <2>3, <3>1, <3>2 DEF Ripe
    <2>4. QED BY <1>1, <1>2, <1>3, <2>1, <2>2, <2>3 DEF Due
  <1>6. Due("grant", d) <=> p.frequency = "UPFRONT" /\ GrantDate(d) /\ d >= x
    <2>1. GrantDate(d) <=> d >= FirstGrant /\ (d - FirstGrant) % YearDays = 0
      <3>1. Policy(today).firstGrantAfterMonths = versions[1].policy.firstGrantAfterMonths BY <1>t, VersionFor
      <3>2. QED BY <3>1 DEF GrantDate, FirstGrant
    <2>2. d >= FirstGrant => d >= start /\ d >= x BY <1>t
    <2>3. PolicyFor("grant", d) = p BY DEF PolicyFor
    <2>4. Due("grant", d) <=> d >= FirstGrant /\ (d - FirstGrant) % YearDays = 0 /\ p.frequency = "UPFRONT" /\ d >= start
      BY <2>3 DEF Due, OnGrid, Ripe
    <2>5. QED BY <2>1, <2>2, <2>4
  <1>7. from <= d => days \in Nat BY <1>c, <1>t DEF Larger
  <1>8. u = IF p.frequency = "MONTHLY" /\ PeriodEnd(d) /\ from <= d THEN p.perDay * days
            ELSE IF p.frequency = "UPFRONT" /\ GrantDate(d) /\ d >= x THEN p.perDay * YearDays ELSE 0
    BY DEF Owed
  <1>9. u \in Nat
    <2> HIDE DEF from, days
    <2>1. from <= d => p.perDay * days \in Nat BY <1>7, <1>p
    <2>2. p.perDay * YearDays \in Nat BY <1>p, <1>t
    <2>3. QED BY <1>8, <2>1, <2>2
  <1>10. ASSUME Due("accrue", c), DateOf("accrue", c) = d
         PROVE  /\ p.frequency = "MONTHLY" /\ ~Due("grant", d)
                /\ Comes("accrue", c, p, u)
    <2>1. p.frequency = "MONTHLY" /\ PeriodEnd(d) /\ from <= d BY <1>5, <1>10
    <2>2. AccTo(c) = d /\ Larger(c, start) = from BY <1>1, <1>2, <1>4, <2>1
    <2>3. PolicyFor("accrue", c) = p BY <2>2 DEF PolicyFor
    <2>4. \A h : UnitsFor("accrue", c, h) = UpToMax(p, p.perDay * days, h) BY <2>2, <2>3 DEF UnitsFor
    <2>5. u = p.perDay * days BY <1>8, <2>1
    <2> HIDE DEF from, days
    <2>6. Comes("accrue", c, p, u) BY <2>4, <2>5 DEF Comes
    <2>7. QED BY <1>6, <2>1, <2>6
  <1>11. ASSUME Due("grant", d) PROVE p.frequency = "UPFRONT" /\ Comes("grant", d, p, u)
    <2>1. p.frequency = "UPFRONT" /\ GrantDate(d) /\ d >= x BY <1>6, <1>11
    <2>2. u = p.perDay * YearDays BY <1>8, <2>1
    <2>3. PolicyFor("grant", d) = p BY DEF PolicyFor
    <2>4. \A h : UnitsFor("grant", d, h) = UpToMax(p, p.perDay * YearDays, h) BY <2>3 DEF UnitsFor
    <2>5. QED BY <2>1, <2>2, <2>4 DEF Comes
  <1>12. ASSUME ~(Due("accrue", c) /\ DateOf("accrue", c) = d), ~Due("grant", d) PROVE u = 0
    <2>1. p.frequency = "MONTHLY" /\ PeriodEnd(d) /\ from <= d => p.perDay * days = 0
      <3>1. HAVE p.frequency = "MONTHLY" /\ PeriodEnd(d) /\ from <= d
      <3>2. p.perDay = 0 /\ days \in Nat BY <1>5, <1>7, <1>12, <1>p, <3>1
      <3> HIDE DEF days
      <3>3. QED BY <3>2
    <2> HIDE DEF from, days
    <2>2. QED BY <1>6, <1>8, <1>12, <2>1
  <1>13. Due("accrue", c) /\ DateOf("accrue", c) = d =>
           p.frequency = "MONTHLY" /\ ~Due("grant", d) /\ Comes("accrue", c, p, u) BY <1>10
  <1>14. Due("grant", d) => p.frequency = "UPFRONT" /\ Comes("grant", d, p, u) BY <1>11
  <1>15. ~(Due("accrue", c) /\ DateOf("accrue", c) = d) /\ ~Due("grant", d) => u = 0 BY <1>12
  <1>16. QED BY <1>9, <1>13, <1>14, <1>15 DEF OwedBy

\* The clerk's line for a day, with names for its parts.
Opened(b, d) ==
  LET opening == {e \in LiveOpenings(ledger) : e.on = d}
  IN IF opening = {} THEN b + People(d) ELSE batches[(CHOOSE e \in opening : TRUE).key[2]].figure
Credited(p, u, b, w) ==
  IF p.maxBalance = NoLimit THEN u
  ELSE Larger(0, Smaller(u, p.maxBalance - (IF p.frequency = "UPFRONT" THEN b ELSE w)))
Carried(w, d) == IF Due("end", d + 1) THEN Smaller(w, Policy(d + 1).carryForwardMax) ELSE w

LEMMA ClerkIs ==
  ASSUME NEW x, NEW b, NEW d
  PROVE  Clerk(x, b, d) = Carried(Opened(b, d) + Credited(Policy(d), Owed(x, d), b, Opened(b, d)), d)
  <1> DEFINE w == Opened(b, d)
             v == Credited(Policy(d), Owed(x, d), b, w)
             q == Policy(d + 1)
  <1>1. Due("end", d + 1) <=> Anniversary(d + 1) /\ d + 1 <= EndLimit /\ ~CarriesAll(q)
    BY DEF Due, OnGrid, Ripe, PolicyFor, Anniversary
  <1>2. Clerk(x, b, d) = IF Anniversary(d + 1) /\ d + 1 <= EndLimit /\ ~CarriesAll(q)
                         THEN Smaller(w + v, q.carryForwardMax) ELSE w + v
    BY DEF Clerk, Opened, Credited, Owed
  <1>3. QED BY <1>1, <1>2 DEF Carried

\* With no limit on what is carried over, no year ends on a credited month that
\* is cut back.
LEMMA CutApart ==
  ASSUME Placed, BalancesFree \/ CarriesFree, NEW d \in Int, 0 <= d, d <= EndLimit, Due("end", d + 1)
  PROVE  Policy(d).maxBalance = NoLimit
  <1>1. "end" \in Phases /\ d + 1 \in Int BY DEF Phases
  <1>2. PolicyFor("end", d + 1) \in InForce BY <1>1, DueDates
  <1>3. ~CarriesAll(PolicyFor("end", d + 1)) BY DEF Due, Ripe
  <1>4. BalancesFree BY <1>2, <1>3 DEF CarriesFree
  <1>5. EndLimit \in Int /\ EndLimit <= today /\ today \in Nat BY PlacedTypes
  <1>6. Policy(d) \in InForce BY <1>5, VersionFor
  <1>7. QED BY <1>4, <1>6 DEF BalancesFree

\* Up to the highest balance, said in two ways.
LEMMA UpToMaxIs ==
  ASSUME NEW p, p.maxBalance \in Int, NEW u \in Nat, NEW h \in Int
  PROVE  UpToMax(p, u, h) = IF p.maxBalance = NoLimit THEN u ELSE Larger(0, Smaller(u, p.maxBalance - h))
  BY DEF UpToMax, Larger, Smaller

\* A day on which no opening stands: the ledger moves as the clerk's line does.
LEMMA DayBooked ==
  ASSUME Placed, NothingRewritten, NEW L, L = ledger, Ints(L), Booked(L), NEW x, x = AccrualFloor(L),
         \A k \in Phases : Has(L, k, x), NEW d \in Int, 0 <= d, d <= EndLimit, d >= x \/ d < start,
         \A o \in LiveOpenings(L) : o.on # d
  PROVE  UnitSum(Clean(L, d)) = Clerk(x, UnitSum(Clean(L, d - 1)), d)
  <1> DEFINE b == UnitSum(Clean(L, d - 1))
             C == UnitSum(Clean(L, d))
             P == UnitSum(Leaving(L, d))
             A == UnitSum(Of(L, "accrue", d))
             G == UnitSum(Of(L, "grant", d))
             E == UnitSum(Of(L, "end", d))
             c == MonthStart(d)
             p == Policy(d)
             q == Policy(d + 1)
             u == Owed(x, d)
             w == b + P
             m == p.maxBalance
             v == IF m = NoLimit THEN u ELSE Larger(0, Smaller(u, m - (IF p.frequency = "UPFRONT" THEN b ELSE w)))
             accrues == Due("accrue", c) /\ DateOf("accrue", c) = d
             grants == Due("grant", d)
             ends == Due("end", d + 1)
             hA == UnitSum(Clean(L, d) \ Of(L, "accrue", d))
             hE == UnitSum(Clean(L, d) \ Of(L, "end", d))
  <1>t. "accrue" \in Phases /\ "grant" \in Phases /\ "end" \in Phases BY DEF Phases
  <1>x. x \in Int /\ x >= start /\ (x = start \/ x % MonthDays = 0) BY FloorIs
  <1>d. d + 1 \in Int /\ d - 1 \in Int /\ (d + 1) - 1 = d OBVIOUS
  <1>p. m \in Int /\ q.carryForwardMax \in Int
    <2>1. p \in Policies /\ q \in Policies BY <1>d, VersionFor
    <2> HIDE DEF p, q
    <2>2. QED BY <2>1, Numbers
  <1>1. /\ C = b + P + UnitSum(TakingOn(L, d)) + A + G + E
        /\ b \in Int /\ C \in Int /\ P \in Int /\ A \in Int /\ G \in Int /\ E \in Int
    <2>1. Keyed(L) BY DEF Booked
    <2>2. QED BY <2>1, DaySplit
  <1>2. UnitSum(TakingOn(L, d)) = 0 BY OpeningsCancel
  <1>3. OwedBy(d, c, p, u) BY <1>x, OwedIs
  <1>4. /\ ~accrues => Of(L, "accrue", d) = {}
        /\ accrues => A = UnitsFor("accrue", c, hA)
    <2>1. Has(L, "accrue", x) /\ c = DateFor("accrue", d) BY <1>t DEF DateFor
    <2>2. /\ ~(Due("accrue", c) /\ DateOf("accrue", c) = d) => Of(L, "accrue", d) = {}
          /\ Due("accrue", c) /\ DateOf("accrue", c) = d =>
               /\ UnitSum(Of(L, "accrue", d)) = UnitsFor("accrue", c, UnitSum(Before(L, "accrue", c)))
               /\ Before(L, "accrue", c) = Clean(L, d) \ Of(L, "accrue", d)
      <3> HIDE DEF c
      <3>1. QED BY <1>t, <1>x, <2>1, PhaseDay
    <2>3. QED BY <2>2
  <1>5. /\ ~grants => Of(L, "grant", d) = {}
        /\ grants => G = UnitsFor("grant", d, b)
    <2>1. Has(L, "grant", x) /\ d = DateFor("grant", d) /\ DateOf("grant", d) = d BY <1>t DEF DateFor, DateOf
    <2>2. /\ ~(Due("grant", d) /\ DateOf("grant", d) = d) => Of(L, "grant", d) = {}
          /\ Due("grant", d) /\ DateOf("grant", d) = d =>
               /\ UnitSum(Of(L, "grant", d)) = UnitsFor("grant", d, UnitSum(Before(L, "grant", d)))
               /\ Before(L, "grant", d) = Clean(L, d - 1)
      BY <1>t, <1>x, <2>1, PhaseDay
    <2>3. QED BY <2>1, <2>2
  <1>6. /\ ~ends => Of(L, "end", d) = {}
        /\ ends => E = UnitsFor("end", d + 1, hE)
    <2> DEFINE e == d + 1
    <2>1. Has(L, "end", x) /\ e = DateFor("end", d) /\ DateOf("end", e) = d BY <1>d, <1>t DEF DateFor, DateOf
    <2>2. /\ ~(Due("end", e) /\ DateOf("end", e) = d) => Of(L, "end", d) = {}
          /\ Due("end", e) /\ DateOf("end", e) = d =>
               /\ UnitSum(Of(L, "end", d)) = UnitsFor("end", e, UnitSum(Before(L, "end", e)))
               /\ Before(L, "end", e) = Clean(L, d) \ Of(L, "end", d)
      <3> HIDE DEF e
      <3>1. QED BY <1>t, <1>x, <2>1, PhaseDay
    <2>3. QED BY <2>1, <2>2
  <1>7. C = hA + A /\ C = hE + E /\ hA \in Int /\ hE \in Int
    <2>0. "end" \in Phases /\ "accrue" \in Phases BY <1>t
    <2>1. ASSUME NEW k \in Phases
          PROVE  UnitSum(Clean(L, d)) = UnitSum(Clean(L, d) \ Of(L, k, d)) + UnitSum(Of(L, k, d))
                 /\ UnitSum(Clean(L, d) \ Of(L, k, d)) \in Int
      <3>1. Clean(L, d) \in SUBSET L BY DEF Clean
      <3>2. Of(L, k, d) \in SUBSET Clean(L, d)
        <4>1. \A e : KeyFor(k, e)[1] # "TERM" BY KeysApart
        <4>2. QED BY <4>1 DEF Of, Clean
      <3>3. QED BY <3>1, <3>2, Parts
    <2>2. QED BY <2>0, <2>1
  <1>8. (~accrues => A = 0) /\ (~grants => G = 0) /\ (~ends => E = 0) BY <1>4, <1>5, <1>6, UnitSumEmpty
  <1>9. u \in Nat /\ (accrues => p.frequency = "MONTHLY" /\ ~grants /\ Comes("accrue", c, p, u))
        /\ (grants => p.frequency = "UPFRONT" /\ Comes("grant", d, p, u)) /\ (~accrues /\ ~grants => u = 0)
    BY <1>3 DEF OwedBy
  <1>10. ends => m = NoLimit
    <2>1. BalancesFree \/ CarriesFree BY DEF NothingRewritten
    <2>2. QED BY <2>1, CutApart
  <1>11. ends => E = - Larger(0, hE - q.carryForwardMax)
    <2>1. PolicyFor("end", d + 1) = q BY DEF PolicyFor
    <2>2. \A h : UnitsFor("end", d + 1, h) = - Larger(0, h - q.carryForwardMax) BY <2>1 DEF UnitsFor
    <2>3. QED BY <1>6, <2>2
  <1>12. accrues => A = UpToMax(p, u, hA) BY <1>4, <1>9 DEF Comes
  <1>13. grants => G = UpToMax(p, u, b) BY <1>5, <1>9 DEF Comes
  <1>f. (p.frequency = "MONTHLY" => p.frequency # "UPFRONT") OBVIOUS
  <1>14. Opened(b, d) = w
    <2>1. {e \in LiveOpenings(ledger) : e.on = d} = {} OBVIOUS
    <2>2. People(d) = P
      <3>1. {e \in ledger : e.key[1] \in {"USE", "RET"} /\ e.on = d} = Leaving(L, d) BY DEF Leaving
      <3>2. Leaving(L, d) \in SUBSET L BY DEF Leaving
      <3>3. Total(Leaving(L, d)) = UnitSum(Leaving(L, d)) BY <3>2, SubSums
      <3>4. QED BY <3>1, <3>3 DEF People
    <2>3. QED BY <2>1, <2>2 DEF Opened
  <1>15. Clerk(x, b, d) = IF ends THEN Smaller(w + v, q.carryForwardMax) ELSE w + v
    <2>1. Clerk(x, b, d) = Carried(w + Credited(p, u, b, w), d) BY <1>14, ClerkIs
    <2>2. Credited(p, u, b, w) = v BY DEF Credited
    <2>3. QED BY <2>1, <2>2 DEF Carried
  <1>16. A + G = v /\ v \in Int
    <2> DEFINE monthly == p.frequency = "MONTHLY"
               upfront == p.frequency = "UPFRONT"
    <2>1. monthly => ~upfront BY <1>f
    <2>2. v = IF m = NoLimit THEN u ELSE Larger(0, Smaller(u, m - (IF upfront THEN b ELSE w))) OBVIOUS
    <2>3. accrues => A = IF m = NoLimit THEN u ELSE Larger(0, Smaller(u, m - hA))
      <3> HIDE DEF p, u, hA
      <3>1. QED BY <1>p, <1>7, <1>9, <1>12, UpToMaxIs
    <2>4. grants => G = IF m = NoLimit THEN u ELSE Larger(0, Smaller(u, m - b))
      <3> HIDE DEF p, u, b
      <3>1. QED BY <1>p, <1>1, <1>9, <1>13, UpToMaxIs
    <2>5. u \in Nat /\ (accrues => monthly /\ ~grants) /\ (grants => upfront) /\ (~accrues /\ ~grants => u = 0) BY <1>9
    <2> HIDE DEF p, u, hA, hE, b, C, P, A, G, E, accrues, grants, ends, monthly, upfront, v, m
    <2>6. v \in Int BY <1>p, <1>1, <2>2, <2>5 DEF Larger, Smaller
    <2>7. CASE accrues
      <3>1. G = 0 /\ monthly /\ ~upfront BY <1>8, <2>1, <2>5, <2>7
      <3>2. m = NoLimit \/ hA = w
        <4>1. m # NoLimit => E = 0 BY <1>8, <1>10
        <4>2. QED BY <1>1, <1>2, <1>7, <3>1, <4>1
      <3>3. A = v BY <2>2, <2>3, <2>7, <3>1, <3>2
      <3>4. QED BY <1>1, <2>6, <3>1, <3>3
    <2>8. CASE grants
      <3>1. A = 0 /\ upfront BY <1>8, <2>5, <2>8
      <3>2. G = v BY <2>2, <2>4, <2>8, <3>1
      <3>3. QED BY <1>1, <2>6, <3>1, <3>2
    <2>9. CASE ~accrues /\ ~grants
      <3>1. A = 0 /\ G = 0 /\ u = 0 BY <1>8, <2>5, <2>9
      <3>2. v = 0 BY <1>p, <1>1, <2>2, <3>1 DEF Larger, Smaller
      <3>3. QED BY <3>1, <3>2
    <2>10. QED BY <2>6, <2>7, <2>8, <2>9
  <1>17. C = Clerk(x, b, d)
    <2> HIDE DEF p, q, u, hA, hE, b, C, P, A, G, E, accrues, grants, ends, v, m
    <2>1. w \in Int /\ C = w + v + E BY <1>1, <1>2, <1>16
    <2>2. CASE ends
      <3>1. hE = w + v BY <1>7, <1>16, <1>1, <2>1
      <3>2. C = w + v - Larger(0, (w + v) - q.carryForwardMax) BY <1>11, <2>1, <2>2, <3>1, <1>p, <1>16 DEF Larger
      <3>3. C = Smaller(w + v, q.carryForwardMax) BY <1>p, <1>16, <2>1, <3>2 DEF Larger, Smaller
      <3>4. QED BY <1>15, <2>2, <3>3
    <2>3. CASE ~ends BY <1>1, <1>8, <1>15, <1>16, <2>1, <2>3
    <2>4. QED BY <2>2, <2>3
  <1>18. QED BY <1>17 DEF b, C

\* On its cut-over date the batch that stands gives the clerk the figure that
\* the ledger then comes to.
LEMMA OpeningDay ==
  ASSUME Placed, NothingRewritten, NEW L, L = ledger, Ints(L), Booked(L), NEW x, NEW a, NEW o, StandsOn(L, x, a, o),
         NEW d, d = batches[a].cut
  PROVE  /\ d \in Nat /\ d <= EndLimit /\ ~Left
         /\ \A b : Clerk(x, b, d) = UnitSum(Clean(L, d))
  <1>s. /\ a \in DOMAIN batches /\ batches[a].status = "POSTED"
        /\ LiveOpenings(L) = {o} /\ o.key = <<"OPEN", a>> /\ o.on = d /\ x = Larger(start, d + 1)
    BY DEF StandsOn
  <1>1. BalancesFree /\ CarriesFree /\ ~Left
    <2>1. ~NoBatchPosted BY <1>s DEF NoBatchPosted
    <2>2. QED BY <2>1 DEF NothingRewritten
  <1>2. d \in Nat /\ d <= today /\ EndLimit = today /\ today \in Nat /\ start \in Nat
    BY <1>s, <1>1, BatchTypes, PlacedTypes DEF Placed
  <1>f. batches[a].figure \in Int BY <1>s, BatchTypes
  <1>3. UnitSum(Clean(L, d)) = batches[a].figure
    <2>1. \A e \in L : e.key[1] # "TERM" BY <1>1 DEF Booked, PaidOff
    <2>2. Clean(L, d) = {e \in L : e.on <= d} BY <2>1 DEF Clean
    <2>3. UnitSum({e \in L : e.on <= d}) = batches[a].figure BY <1>s DEF Booked, TakenOn
    <2>4. QED BY <2>2, <2>3
  <1>4. ASSUME NEW b PROVE Opened(b, d) = batches[a].figure
    <2>1. {e \in LiveOpenings(ledger) : e.on = d} = {o} BY <1>s
    <2>2. (CHOOSE e \in {o} : TRUE) = o OBVIOUS
    <2>3. o.key[2] = a BY <1>s
    <2>4. {o} # {} OBVIOUS
    <2>5. QED BY <2>1, <2>2, <2>3, <2>4 DEF Opened
  <1>5. Owed(x, d) = 0
    <2>1. x > d BY <1>s, <1>2 DEF Larger
    <2>2. x \in Int /\ MonthStart(d) \in Int BY <1>s, <1>2, MonthOf DEF Larger
    <2>3. ~(d >= x) /\ ~(Larger(MonthStart(d), x) <= d) BY <1>2, <2>1, <2>2 DEF Larger
    <2>4. QED BY <2>3 DEF Owed
  <1>6. ASSUME NEW b, NEW w PROVE Credited(Policy(d), Owed(x, d), b, w) = 0
    <2>1. Policy(d) \in InForce BY <1>2, VersionFor
    <2>2. Policy(d).maxBalance = NoLimit BY <1>1, <2>1 DEF BalancesFree
    <2>3. QED BY <1>5, <2>2 DEF Credited
  <1>7. ASSUME NEW w PROVE Carried(w, d) = w
    <2>1. ~Due("end", d + 1)
      <3>1. SUFFICES ASSUME Due("end", d + 1) PROVE FALSE OBVIOUS
      <3>2. "end" \in Phases /\ d + 1 \in Int BY <1>2 DEF Phases
      <3>3. PolicyFor("end", d + 1) \in InForce BY <3>1, <3>2, DueDates
      <3>4. QED BY <1>1, <3>1, <3>3 DEF CarriesFree, Due, Ripe
    <2>2. QED BY <2>1 DEF Carried
  <1>8. ASSUME NEW b PROVE Clerk(x, b, d) = UnitSum(Clean(L, d))
    <2> DEFINE f == batches[a].figure
    <2>1. Clerk(x, b, d) = Carried(Opened(b, d) + Credited(Policy(d), Owed(x, d), b, Opened(b, d)), d) BY ClerkIs
    <2>2. Clerk(x, b, d) = Carried(f + 0, d) BY <1>4, <1>6, <2>1
    <2>3. f + 0 = f BY <1>f
    <2>4. QED BY <1>3, <1>7, <2>2, <2>3
  <1>9. QED BY <1>1, <1>2, <1>8

-----------------------------------------------------------------------------
\* The clerk's evenings, one after the other.
Evenings(x, dates, g) ==
  g = [i \in 0 .. Len(dates) |-> IF i = 0 THEN 0 ELSE Clerk(x, g[i - 1], dates[i])]

LEMMA EveningsExist == ASSUME NEW x, NEW dates, Len(dates) \in Nat PROVE \E g : Evenings(x, dates, g)
  <1> DEFINE N == Len(dates)
             R(n, g) == g = [i \in 0 .. n |-> IF i = 0 THEN 0 ELSE Clerk(x, g[i - 1], dates[i])]
             B == {n \in 0 .. N : ~\E g : R(n, g)}
  <1>1. ASSUME B # {} PROVE FALSE
    <2>0. B \in SUBSET (0 .. N) OBVIOUS
    <2>1. \E n \in B : \A b \in B : n <= b
      <3> HIDE DEF B
      <3>1. QED BY <1>1, <2>0, Least
    <2>2. PICK n \in B : \A b \in B : n <= b BY <2>1
    <2>3. CASE n = 0
      <3> DEFINE g == [i \in 0 .. 0 |-> 0]
      <3>1. R(0, g) OBVIOUS
      <3>2. QED BY <2>2, <2>3, <3>1
    <2>4. CASE n # 0
      <3>1. n \in 1 .. N /\ n - 1 \in 0 .. N /\ n - 1 \notin B BY <2>2, <2>4
      <3>2. PICK g : R(n - 1, g) BY <3>1
      <3> DEFINE h == [i \in 0 .. n |-> IF i = n THEN Clerk(x, g[n - 1], dates[n]) ELSE g[i]]
                 l == [i \in 0 .. n |-> IF i = 0 THEN 0 ELSE Clerk(x, h[i - 1], dates[i])]
      <3>3. ASSUME NEW i \in 0 .. n PROVE h[i] = l[i]
        <4>1. CASE i = n BY <3>1, <4>1
        <4>2. CASE i # n
          <5>1. i \in 0 .. n - 1 /\ h[i] = g[i] BY <3>1, <4>2
          <5>2. i # 0 => i - 1 \in 0 .. n /\ i - 1 # n BY <3>1
          <5>3. QED BY <3>2, <5>1, <5>2
        <4>3. QED BY <4>1, <4>2
      <3>4. h = [i \in 0 .. n |-> h[i]] /\ l = [i \in 0 .. n |-> l[i]] OBVIOUS
      <3>5. h = l
        <4> HIDE DEF h, l
        <4>1. QED BY <3>3, <3>4
      <3>6. R(n, h) BY <3>5
      <3>7. QED BY <2>2, <3>6
    <2>5. QED BY <2>3, <2>4
  <1>2. N \in 0 .. N OBVIOUS
  <1>3. \E g : R(N, g) BY <1>1, <1>2
  <1>4. QED BY <1>3 DEF Evenings

ClerkAfter(x, dates) == InTurn(LAMBDA b, d : Clerk(x, b, d), 0, dates)
LEMMA EveningsAre ==
  ASSUME NEW x, NEW dates, Len(dates) \in Nat
  PROVE  \E g : Evenings(x, dates, g) /\ ClerkAfter(x, dates) = g[Len(dates)]
  <1> DEFINE G(g) == [i \in 0 .. Len(dates) |-> IF i = 0 THEN 0 ELSE Clerk(x, g[i - 1], dates[i])]
             h == CHOOSE g : g = G(g)
  <1>1. ClerkAfter(x, dates) = h[Len(dates)] BY DEF ClerkAfter, InTurn
  <1>2. \A g : Evenings(x, dates, g) <=> g = G(g) BY DEF Evenings
  <1> HIDE DEF G
  <1>3. \E g : g = G(g) BY <1>2, EveningsExist
  <1>4. h = G(h) BY <1>3, Zenon
  <1>5. QED BY <1>1, <1>2, <1>4

\* Every evening from the cut-over of the batch that stands, or from the first,
\* the clerk's balance is the ledger's.
LEMMA EveryEvening ==
  ASSUME Placed, NothingRewritten, NEW L, L = ledger, Ints(L), Booked(L), NEW x, x = AccrualFloor(L),
         \A k \in Phases : Has(L, k, x), NEW dates, dates = Every(1, 0, EndLimit)
  PROVE  EndLimit \in Nat /\ UnitSum(Clean(L, EndLimit)) = ClerkAfter(x, dates)
  <1> DEFINE N == Len(dates)
             c(i) == UnitSum(Clean(L, i))
  <1>t. today \in Nat /\ EndLimit \in Nat /\ start \in Nat /\ (~Left => EndLimit = today)
    <2>1. Left => EndLimit >= start BY PlacedTypes
    <2>2. QED BY <2>1, PlacedTypes
  <1>d. N = EndLimit + 1 /\ N \in Nat /\ \A i \in 1 .. N : dates[i] = i - 1
    <2>1. dates \in Seq(Int) /\ N \in Nat /\ \A i \in 1 .. N : dates[i] = 0 + (i - 1) * 1
      <3>1. 1 \in Nat \ {0} /\ 0 \in Int /\ EndLimit \in Int BY <1>t
      <3>2. QED BY <3>1, EveryIs
    <2>2. EndLimit \div 1 = EndLimit BY <1>t
    <2>3. dates = [i \in 1 .. EndLimit + 1 |-> 0 + (i - 1) * 1]
      <3>1. (EndLimit - 0) \div 1 + 1 = EndLimit + 1 /\ ~(EndLimit < 0) BY <1>t, <2>2
      <3>2. QED BY <3>1 DEF Every
    <2>4. N = EndLimit + 1
      <3>1. EndLimit + 1 \in Nat BY <1>t
      <3>2. QED BY <2>3, <3>1
    <2>5. QED BY <2>1, <2>4
  <1>g. PICK g : Evenings(x, dates, g) /\ ClerkAfter(x, dates) = g[N] BY <1>d, EveningsAre
  <1>e. g[0] = 0 /\ \A i \in 1 .. N : g[i] = Clerk(x, g[i - 1], i - 1)
    <2>1. g = [i \in 0 .. N |-> IF i = 0 THEN 0 ELSE Clerk(x, g[i - 1], dates[i])] BY <1>g DEF Evenings
    <2>2. 0 \in 0 .. N /\ \A i \in 1 .. N : i \in 0 .. N /\ i # 0 BY <1>d
    <2>3. g[0] = 0 /\ \A i \in 1 .. N : g[i] = Clerk(x, g[i - 1], dates[i])
      <3> HIDE DEF N
      <3>1. QED BY <2>1, <2>2
    <2>4. QED BY <1>d, <2>3
  <1>f. /\ x \in Int /\ x >= start
        /\ (LiveOpenings(L) = {} /\ x = start) \/ \E a, o : StandsOn(L, x, a, o)
    BY FloorIs
  \* The evening from which on they agree.
  <1>z. \E z \in Int :
          /\ -1 <= z /\ z <= EndLimit
          /\ \A o \in LiveOpenings(L) : o.on <= z
          /\ x <= Larger(start, z + 1)
          /\ z = -1 \/ \A b : Clerk(x, b, z) = c(z)
    <2>1. CASE LiveOpenings(L) = {} /\ x = start
      <3>1. /\ -1 \in Int /\ -1 <= EndLimit /\ x <= Larger(start, -1 + 1)
        BY <1>t, <2>1 DEF Larger
      <3>2. QED BY <2>1, <3>1
    <2>2. CASE \E a, o : StandsOn(L, x, a, o)
      <3>1. PICK a, o : StandsOn(L, x, a, o) BY <2>2
      <3> DEFINE z == batches[a].cut
      <3>2. z \in Nat /\ z <= EndLimit /\ \A b : Clerk(x, b, z) = c(z) BY <3>1, OpeningDay
      <3>3. LiveOpenings(L) = {o} /\ o.on = z /\ x = Larger(start, z + 1) BY <3>1 DEF StandsOn
      <3> HIDE DEF z, c
      <3>4. /\ z \in Int /\ -1 <= z /\ x <= Larger(start, z + 1) /\ \A p \in LiveOpenings(L) : p.on <= z
        BY <1>f, <3>2, <3>3
      <3>5. QED BY <3>2, <3>4
    <2>3. QED BY <1>f, <2>1, <2>2
  <1>y. PICK z \in Int : /\ -1 <= z /\ z <= EndLimit
                         /\ \A o \in LiveOpenings(L) : o.on <= z
                         /\ x <= Larger(start, z + 1)
                         /\ z = -1 \/ \A b : Clerk(x, b, z) = c(z)
    BY <1>z
  <1>1. c(-1) = 0
    <2>1. \A e \in L : e.on >= 0 /\ e.on \in Int BY DEF Booked, Keyed, Ints
    <2>2. Clean(L, -1) = {} BY <2>1 DEF Clean
    <2>3. QED BY <2>2, UnitSumEmpty
  <1>2. ASSUME NEW i \in 1 .. N, i - 1 > z, g[i - 1] = c(i - 2) PROVE g[i] = c(i - 1)
    <2> DEFINE d == i - 1
    <2>1. d \in Int /\ 0 <= d /\ d <= EndLimit /\ d - 1 = i - 2 BY <1>d, <1>t
    <2>2. d >= x \/ d < start BY <1>f, <1>t, <1>y, <1>2, <2>1 DEF Larger
    <2>3. \A o \in LiveOpenings(L) : o.on # d
      <3>1. LiveOpenings(L) \subseteq L BY DEF LiveOpenings
      <3>2. \A o \in L : o.on \in Int BY DEF Ints
      <3>3. QED BY <1>y, <1>2, <2>1, <3>1, <3>2
    <2> HIDE DEF d
    <2>4. c(d) = Clerk(x, c(d - 1), d) BY <2>1, <2>2, <2>3, DayBooked
    <2>5. g[i] = Clerk(x, g[i - 1], i - 1) BY <1>e
    <2>6. d = i - 1 BY DEF d
    <2> HIDE DEF c
    <2>7. QED BY <1>2, <2>1, <2>4, <2>5, <2>6
  <1>3. z + 1 \in 0 .. N /\ g[z + 1] = c(z)
    <2>1. z + 1 \in 0 .. N BY <1>d, <1>t, <1>y
    <2>2. CASE z = -1
      <3>1. z + 1 = 0 BY <2>2
      <3>2. QED BY <1>1, <1>e, <2>1, <2>2, <3>1
    <2>3. CASE z # -1
      <3>1. z + 1 \in 1 .. N /\ (z + 1) - 1 = z BY <1>y, <2>1, <2>3
      <3>2. g[z + 1] = Clerk(x, g[z], z) BY <1>e, <3>1
      <3>3. Clerk(x, g[z], z) = c(z) BY <1>y, <2>3
      <3>4. QED BY <2>1, <3>2, <3>3
    <2>4. QED BY <2>2, <2>3
  <1> DEFINE B == {i \in 0 .. N : i > z /\ g[i] # c(i - 1)}
  <1>4. ASSUME B # {} PROVE FALSE
    <2>0. B \in SUBSET (0 .. N) OBVIOUS
    <2>1. \E n \in B : \A b \in B : n <= b
      <3> HIDE DEF B
      <3>1. QED BY <1>4, <1>d, <2>0, Least
    <2>2. PICK n \in B : \A b \in B : n <= b BY <2>1
    <2>3. n \in 0 .. N /\ n > z /\ g[n] # c(n - 1) OBVIOUS
    <2>4. n # z + 1
      <3>1. (z + 1) - 1 = z OBVIOUS
      <3>2. QED BY <1>3, <2>3, <3>1
    <2>5. n \in 1 .. N /\ n - 1 \in 0 .. N /\ n - 1 > z BY <1>y, <1>d, <2>3, <2>4
    <2>6. n - 1 \notin B BY <2>2, <2>5
    <2>7. g[n - 1] = c((n - 1) - 1) BY <2>5, <2>6
    <2>8. (n - 1) - 1 = n - 2 BY <2>5
    <2> HIDE DEF c, B
    <2>9. g[n] = c(n - 1) BY <1>2, <2>5, <2>7, <2>8
    <2>10. QED BY <2>3, <2>9
  <1>5. g[N] = c(EndLimit)
    <2>1. N \in 0 .. N /\ N > z /\ N - 1 = EndLimit BY <1>d, <1>t, <1>y
    <2>2. N \notin B BY <1>4
    <2> HIDE DEF c
    <2>3. QED BY <2>1, <2>2
  <1>6. QED BY <1>t, <1>g, <1>5

\* What is dated up to the last day of the loops: the clerk's part and the last payout.
LEMMA UpToLastDay ==
  ASSUME Placed, NEW L, Ints(L), Booked(L)
  PROVE  Balance(L, EndLimit) = UnitSum(Clean(L, EndLimit)) + Total({e \in L : e.key[1] = "TERM"})
  <1> DEFINE S == {e \in L : e.on <= EndLimit}
             T == {e \in L : e.key[1] = "TERM"}
  <1>1. T \in SUBSET S
    <2>1. EndLimit \in Int /\ (Left => EndLimit = EmpLastDay) BY PlacedTypes
    <2>2. ASSUME NEW e \in T PROVE e \in S
      <3>1. Left /\ e.on = EmpLastDay BY DEF Booked, PaidOff
      <3>2. QED BY <2>1, <3>1
    <2>3. QED BY <2>2
  <1>2. S \ T = Clean(L, EndLimit) BY DEF Clean
  <1>3. S \in SUBSET L /\ T \in SUBSET L OBVIOUS
  <1>4. Balance(L, EndLimit) = UnitSum(S) /\ Total(T) = UnitSum(T)
    <2>1. Total(S) = UnitSum(S) /\ Total(T) = UnitSum(T)
      <3> HIDE DEF S, T
      <3>1. QED BY <1>3, SubSums
    <2>2. QED BY <2>1 DEF Balance
  <1>5. UnitSum(S) = UnitSum(S \ T) + UnitSum(T)
    <2> HIDE DEF S, T
    <2>1. QED BY <1>1, <1>3, Parts
  <1>6. QED BY <1>2, <1>4, <1>5

LEMMA BookIsTheClerks == AccruInv => AsIfEveryDay
  <1>1. SUFFICES ASSUME AccruInv, Kind = "ACCRUING", UpToDate, NothingRewritten
                 PROVE  /\ Balance(ledger, EndLimit) = ClerkAfter(AccrualFloor(ledger), Every(1, 0, EndLimit))
                             + Total({e \in ledger : e.key[1] = "TERM"})
                        /\ Left /\ Policy(today).payoutOnTermination => Total(ledger) <= 0
    BY DEF AsIfEveryDay, ClerkAfter
  <1>2. Placed /\ Booked(ledger) /\ Ints(ledger) /\ additions \in Int
    BY <1>1 DEF AccruInv, AllowInv, PayInv, EngineTypes
  <1>3. PICK L : L = ledger OBVIOUS
  <1>4. PICK s : s = Now OBVIOUS
  <1>5. Sound(s) /\ s.ledger = L /\ ProcessEmployee(s) = s
    <2>1. s = [ledger |-> L, additions |-> additions] BY <1>3, <1>4 DEF Now
    <2>2. s.ledger = L /\ s.additions = additions BY <2>1
    <2>3. Sound(s) BY <1>2, <1>3, <2>1, <2>2 DEF Sound
    <2>4. ProcessEmployee(s) = s BY <1>1, <1>4 DEF UpToDate, Settled
    <2>5. QED BY <2>2, <2>3, <2>4
  <1>6. PICK x : x = AccrualFloor(L) OBVIOUS
  <1>7. /\ \A k \in Phases : Has(L, k, x)
        /\ Left /\ Policy(today).payoutOnTermination => UnitSum(L) <= 0
    <2>1. Booked(s.ledger) BY <1>2, <1>3, <1>5
    <2>2. PICK t : t = ProcessEmployee(s) OBVIOUS
    <2>3. /\ \A k \in Phases : Has(t.ledger, k, AccrualFloor(t.ledger))
          /\ Left /\ Policy(today).payoutOnTermination => UnitSum(t.ledger) <= 0
      BY <1>1, <1>2, <1>5, <2>1, <2>2, SettledBooks
    <2>4. t.ledger = L BY <1>5, <2>2
    <2>5. QED BY <1>6, <2>3, <2>4
  <1>8. PICK dates : dates = Every(1, 0, EndLimit) OBVIOUS
  <1>9. UnitSum(Clean(L, EndLimit)) = ClerkAfter(x, dates) BY <1>1, <1>2, <1>3, <1>6, <1>7, <1>8, EveryEvening
  <1>10. Balance(L, EndLimit) = UnitSum(Clean(L, EndLimit)) + Total({e \in L : e.key[1] = "TERM"})
    BY <1>2, <1>3, UpToLastDay
  <1>11. Total(L) = UnitSum(L) BY <1>2, <1>3, SubSums
  <1>12. QED BY <1>3, <1>6, <1>7, <1>8, <1>9, <1>10, <1>11

\* Once the employee was processed, the balance of leave that is earned is what
\* a clerk would have who looks at the calendar every evening, whatever days the
\* server missed, and a leaver is owed nothing more (processAccruing, with the
\* postings of batches and of leave).
THEOREM LeaveIsAsIfEveryDay == Spec => []AsIfEveryDay
  <1>1. Init => AccruInv BY InitAccru
  <1>2. AccruInv /\ [Next]_vars => AccruInv' BY StepAccru
  <1>3. AccruInv => AsIfEveryDay BY BookIsTheClerks
  <1>4. QED BY <1>1, <1>2, <1>3, PTL DEF Spec

-----------------------------------------------------------------------------
(***************************************************************************)
(* Leave for events. The invariant knows, besides what the requests for an *)
(* event take together, what those that name one child take (they came to  *)
(* no more than the entitlement without the extra days, or they would not  *)
(* have been accepted), and of which requests each line of the ledger is.  *)
(***************************************************************************)

\* Days of some requests.
LengthSum(lv, S) == MapThenSumSet(LAMBDA o : Length(lv[o]), S)

LEMMA LengthSumIs ==
  ASSUME NEW lv, NEW S, IsFiniteSet(S)
  PROVE  LengthSum(lv, S) = SumFunctionOnSet([o \in S |-> Length(lv[o])], S)
  <1> DEFINE f == [o \in S |-> Length(lv[o])]
             G(g) == [T \in SUBSET S |-> IF T = {} THEN 0 ELSE Length(lv[Pick(T)]) + g[T \ {Pick(T)}]]
             h == CHOOSE g : g = G(g)
  <1>1. LengthSum(lv, S) = h[S]
    BY DEF LengthSum, MapThenSumSet, MapThenFoldSet, Pick
  <1>2. \A g : Sums(g, f, S) <=> g = G(g)
    <2>1. \A T \in SUBSET S : T # {} => f[Pick(T)] = Length(lv[Pick(T)]) BY DEF Pick
    <2>2. QED BY <2>1 DEF Sums
  <1> HIDE DEF f, G
  <1>3. \E g : g = G(g) BY <1>2, Exists
  <1>4. h = G(h) BY <1>3, Zenon
  <1>5. Sums(h, f, S) BY <1>2, <1>4
  <1>6. QED BY <1>1, <1>5, SumBy DEF f

LEMMA LengthSumType ==
  ASSUME NEW lv, NEW S, IsFiniteSet(S), \A r \in S : Length(lv[r]) \in Int
  PROVE  LengthSum(lv, S) \in Int
  <1> DEFINE f == [o \in S |-> Length(lv[o])]
  <1>1. \A r \in S : f[r] \in Int OBVIOUS
  <1> HIDE DEF f
  <1>2. SumFunctionOnSet(f, S) \in Int BY <1>1, SumType
  <1>3. QED BY <1>2, LengthSumIs DEF f

LEMMA LengthSumSame ==
  ASSUME NEW lv, NEW lw, NEW S, IsFiniteSet(S), \A r \in S : Length(lv[r]) = Length(lw[r])
  PROVE  LengthSum(lv, S) = LengthSum(lw, S)
  <1> DEFINE f(l) == [o \in S |-> Length(l[o])]
  <1>1. \A r \in S : f(lv)[r] = f(lw)[r] OBVIOUS
  <1>2. LengthSum(lv, S) = SumFunctionOnSet(f(lv), S) /\ LengthSum(lw, S) = SumFunctionOnSet(f(lw), S) BY LengthSumIs
  <1> HIDE DEF f
  <1>3. QED BY <1>1, <1>2, SumSame

LEMMA LengthSumAdd ==
  ASSUME NEW lv, NEW S, NEW x, IsFiniteSet(S), x \notin S, \A r \in S \cup {x} : Length(lv[r]) \in Int
  PROVE  LengthSum(lv, S \cup {x}) = LengthSum(lv, S) + Length(lv[x])
  <1> DEFINE f == [o \in S \cup {x} |-> Length(lv[o])]
             g == [o \in S |-> Length(lv[o])]
  <1>1. \A r \in S \cup {x} : f[r] \in Int OBVIOUS
  <1>2. \A r \in S : f[r] = g[r] OBVIOUS
  <1>3. f[x] = Length(lv[x]) OBVIOUS
  <1>4. IsFiniteSet(S \cup {x}) BY FS_AddElement
  <1>5. LengthSum(lv, S \cup {x}) = SumFunctionOnSet(f, S \cup {x}) /\ LengthSum(lv, S) = SumFunctionOnSet(g, S)
    BY <1>4, LengthSumIs
  <1> HIDE DEF f, g
  <1>6. SumFunctionOnSet(f, S \cup {x}) = SumFunctionOnSet(f, S) + f[x] BY <1>1, SumAdd
  <1>7. SumFunctionOnSet(f, S) = SumFunctionOnSet(g, S) BY <1>2, SumSame
  <1>8. QED BY <1>3, <1>5, <1>6, <1>7

LEMMA LengthSumPart ==
  ASSUME NEW lv, NEW S, NEW T \in SUBSET S, IsFiniteSet(S), \A r \in S : Length(lv[r]) \in Nat
  PROVE  LengthSum(lv, T) <= LengthSum(lv, S)
  <1> DEFINE f == [o \in S |-> Length(lv[o])]
             g == [o \in T |-> Length(lv[o])]
  <1>1. \A r \in S : f[r] \in Nat OBVIOUS
  <1>2. \A r \in T : f[r] = g[r] OBVIOUS
  <1>3. IsFiniteSet(T) BY FS_Subset
  <1>4. LengthSum(lv, S) = SumFunctionOnSet(f, S) /\ LengthSum(lv, T) = SumFunctionOnSet(g, T) BY <1>3, LengthSumIs
  <1> HIDE DEF f, g
  <1>5. SumFunctionOnSet(f, T) <= SumFunctionOnSet(f, S) BY <1>1, SumPart
  <1>6. SumFunctionOnSet(f, T) = SumFunctionOnSet(g, T) BY <1>2, <1>3, SumSame
  <1>7. QED BY <1>4, <1>5, <1>6
-----------------------------------------------------------------------------
Asked == {r \in EventRequests : leave[r].status # "NONE"}
StandingFor(event) == {r \in EventRequests : Stands(r) /\ leave[r].event = event}
SingleFor(event) == {r \in StandingFor(event) : leave[r].multiple = FALSE}
TakenFor(event) == {r \in EventRequests : leave[r].status = "APPROVED" /\ leave[r].event = event}
LinesIn(E, event) == {e \in E : e.event = event}
LinesFor(event) == LinesIn(entries, event)
Use(r) == Line(<<"USE", r>>, - Length(leave[r]), leave[r].event)

EventTypes ==
  /\ rules \in EventRules
  /\ leave = [r \in EventRequests |-> leave[r]]
  /\ IsFiniteSet(Asked)
  /\ \A r \in EventRequests :
       /\ leave[r].first \in Int /\ leave[r].last \in Int /\ leave[r].multiple \in BOOLEAN
       /\ leave[r].status \in {"NONE", "PENDING", "APPROVED", "DECLINED", "CANCELLED"}
       /\ Stands(r) => leave[r].first <= leave[r].last
EventBounds ==
  \A event : /\ LengthSum(leave, SingleFor(event)) <= rules.days
             /\ LengthSum(leave, StandingFor(event)) <= rules.days + rules.extra
EventLines ==
  /\ IsFiniteSet(entries)
  /\ \A e \in entries : e.units \in Int
  /\ \A e \in entries : \A event : e.key = <<"EVT", event>> =>
       e.event = event /\ \E r \in Asked : leave[r].event = event /\ e.units = Entitlement(leave[r].multiple)
  /\ \A e \in entries, r \in EventRequests : e.key = <<"USE", r>> =>
       leave[r].status \in {"APPROVED", "CANCELLED"} /\ e = Use(r)
  /\ \A e \in entries, r \in EventRequests : e.key = <<"RET", r>> => leave[r].status = "CANCELLED"
  /\ \A r \in EventRequests : leave[r].status = "APPROVED" => Use(r) \in entries
EventSums ==
  \A event :
    /\ \A a \in entries : a.key = <<"EVT", event>> =>
         UnitSum(LinesFor(event)) = a.units - LengthSum(leave, TakenFor(event))
    /\ ~Allotted(event) => UnitSum(LinesFor(event)) = - LengthSum(leave, TakenFor(event))
\* No two requests that start within the window are both paid.
OnePaid ==
  \A r, o \in EventRequests :
    r # o /\ Stands(r) /\ Stands(o) /\ leave[r].first <= leave[o].first /\ leave[o].first < leave[r].first + rules.every =>
      "UNPAID" \in {leave[r].pay, leave[o].pay}
EventInv == EventTypes /\ EventBounds /\ OnePaid /\ EventLines /\ EventSums

With(S, r) == (S \ {r}) \cup {r}
StandsAs(new) == new.status \in {"PENDING", "APPROVED"}
Fits(r, new) == Length(new) <= Entitlement(new.multiple) - UsedForEvent(r, new.event)
\* A request is made, judged or given up; what it asks for stays.
Change(r, new) ==
  /\ leave' = [leave EXCEPT ![r] = new]
  /\ new.first \in Int /\ new.last \in Int /\ new.multiple \in BOOLEAN
  /\ new.status \in {"PENDING", "APPROVED", "DECLINED", "CANCELLED"}
  /\ new.status \in {"PENDING", "APPROVED"} => new.first <= new.last
  /\ leave[r].status # "NONE" => /\ new.event = leave[r].event /\ new.multiple = leave[r].multiple
                                 /\ new.first = leave[r].first /\ new.last = leave[r].last

LEMMA RuleTypes == ASSUME EventTypes PROVE rules.days \in Nat /\ rules.extra \in Nat /\ rules.every \in Nat
  BY EventAssumption DEF EventTypes

\* The requests about an event are finitely many.
LEMMA FiniteFor ==
  ASSUME EventTypes, NEW event
  PROVE  /\ IsFiniteSet(StandingFor(event)) /\ IsFiniteSet(SingleFor(event)) /\ IsFiniteSet(TakenFor(event))
         /\ \A r \in EventRequests : Length(leave[r]) \in Int
         /\ \A r \in StandingFor(event) : Length(leave[r]) \in Nat
  <1>1. IsFiniteSet(Asked) BY DEF EventTypes
  <1>2. StandingFor(event) \subseteq Asked /\ SingleFor(event) \subseteq Asked /\ TakenFor(event) \subseteq Asked
    BY DEF StandingFor, SingleFor, TakenFor, Asked, Stands
  <1>3. \A r \in EventRequests : leave[r].first \in Int /\ leave[r].last \in Int BY DEF EventTypes
  <1>4. \A r \in StandingFor(event) : r \in EventRequests /\ leave[r].first <= leave[r].last BY DEF EventTypes, StandingFor
  <1>5. QED BY <1>1, <1>2, <1>3, <1>4, FS_Subset DEF Length

LEMMA ChangeTypes ==
  ASSUME EventTypes, NEW r \in EventRequests, NEW new, Change(r, new), rules' = rules
  PROVE  EventTypes' /\ leave'[r] = new /\ \A o \in EventRequests : o # r => leave'[o] = leave[o]
  <1>1. leave'[r] = new /\ \A o \in EventRequests : o # r => leave'[o] = leave[o] BY DEF EventTypes, Change
  <1>2. Stands(r)' <=> new.status \in {"PENDING", "APPROVED"} BY <1>1 DEF Stands
  <1>3. \A o \in EventRequests : o # r => (Stands(o)' <=> Stands(o)) BY <1>1 DEF Stands
  <1>4. Asked' = Asked \cup {r} BY <1>1 DEF Asked, Change
  <1>5. IsFiniteSet(Asked') BY <1>4, FS_AddElement DEF EventTypes
  <1>6. leave' = [o \in EventRequests |-> leave'[o]] BY DEF Change, EventTypes
  <1>7. ASSUME NEW o \in EventRequests
        PROVE  /\ leave'[o].first \in Int /\ leave'[o].last \in Int /\ leave'[o].multiple \in BOOLEAN
               /\ leave'[o].status \in {"NONE", "PENDING", "APPROVED", "DECLINED", "CANCELLED"}
               /\ Stands(o)' => leave'[o].first <= leave'[o].last
    <2>1. CASE o = r BY <1>1, <1>2, <2>1 DEF Change
    <2>2. CASE o # r BY <1>1, <1>3, <2>2 DEF EventTypes
    <2>3. QED BY <2>1, <2>2
  <1>8. EventTypes' BY <1>5, <1>6, <1>7 DEF EventTypes
  <1>9. QED BY <1>1, <1>8

\* A request leaves the sets it was in and joins those of what it has become.
LEMMA ChangeSets ==
  ASSUME EventTypes, NEW r \in EventRequests, NEW new, Change(r, new), rules' = rules, NEW event
  PROVE  /\ StandsAs(new) /\ new.event = event => StandingFor(event)' = With(StandingFor(event), r)
         /\ ~(StandsAs(new) /\ new.event = event) => StandingFor(event)' = StandingFor(event) \ {r}
         /\ StandsAs(new) /\ new.event = event /\ new.multiple = FALSE =>
              SingleFor(event)' = With(SingleFor(event), r)
         /\ ~(StandsAs(new) /\ new.event = event /\ new.multiple = FALSE) => SingleFor(event)' = SingleFor(event) \ {r}
         /\ new.status = "APPROVED" /\ new.event = event => TakenFor(event)' = With(TakenFor(event), r)
         /\ ~(new.status = "APPROVED" /\ new.event = event) => TakenFor(event)' = TakenFor(event) \ {r}
  <1>1. leave'[r] = new /\ \A o \in EventRequests : o # r => leave'[o] = leave[o] BY ChangeTypes
  <1>2. Stands(r)' <=> StandsAs(new) BY <1>1 DEF Stands, StandsAs
  <1>3. \A o \in EventRequests : o # r => (Stands(o)' <=> Stands(o)) BY <1>1 DEF Stands
  <1>4. \A o \in EventRequests : /\ o \in StandingFor(event)' <=> Stands(o)' /\ leave'[o].event = event
                                 /\ o \in StandingFor(event) <=> Stands(o) /\ leave[o].event = event
                                 /\ o \in SingleFor(event)' <=> o \in StandingFor(event)' /\ leave'[o].multiple = FALSE
                                 /\ o \in SingleFor(event) <=> o \in StandingFor(event) /\ leave[o].multiple = FALSE
                                 /\ o \in TakenFor(event)' <=> leave'[o].status = "APPROVED" /\ leave'[o].event = event
                                 /\ o \in TakenFor(event) <=> leave[o].status = "APPROVED" /\ leave[o].event = event
    BY DEF StandingFor, SingleFor, TakenFor
  <1>5. /\ StandingFor(event)' \subseteq EventRequests /\ StandingFor(event) \subseteq EventRequests
        /\ SingleFor(event)' \subseteq EventRequests /\ SingleFor(event) \subseteq EventRequests
        /\ TakenFor(event)' \subseteq EventRequests /\ TakenFor(event) \subseteq EventRequests
    BY DEF StandingFor, SingleFor, TakenFor
  <1>6. /\ r \in StandingFor(event)' <=> StandsAs(new) /\ new.event = event
        /\ r \in SingleFor(event)' <=> StandsAs(new) /\ new.event = event /\ new.multiple = FALSE
        /\ r \in TakenFor(event)' <=> new.status = "APPROVED" /\ new.event = event
    BY <1>1, <1>2, <1>4
  <1>7. \A o \in EventRequests : o # r => /\ o \in StandingFor(event)' <=> o \in StandingFor(event)
                                          /\ o \in SingleFor(event)' <=> o \in SingleFor(event)
                                          /\ o \in TakenFor(event)' <=> o \in TakenFor(event)
    BY <1>1, <1>3, <1>4
  <1>8. QED BY <1>5, <1>6, <1>7 DEF With

\* One that no longer stands frees its days.
LEMMA GivenUpBounds ==
  ASSUME EventTypes, EventBounds, OnePaid, NEW r \in EventRequests, NEW new, Change(r, new),
         new.status \notin {"PENDING", "APPROVED"}, rules' = rules
  PROVE  EventBounds' /\ OnePaid'
  <1>1. /\ leave'[r] = new /\ \A o \in EventRequests : o # r => leave'[o] = leave[o]
        /\ \A event : StandingFor(event)' = StandingFor(event) \ {r} /\ SingleFor(event)' = SingleFor(event) \ {r}
    <2>1. leave'[r] = new /\ \A o \in EventRequests : o # r => leave'[o] = leave[o] BY ChangeTypes
    <2>2. ~StandsAs(new) BY DEF StandsAs
    <2>3. ASSUME NEW event PROVE StandingFor(event)' = StandingFor(event) \ {r} /\ SingleFor(event)' = SingleFor(event) \ {r}
      BY <2>2, ChangeSets
    <2>4. QED BY <2>1, <2>3
  <1>2. ASSUME NEW event, NEW S, S = StandingFor(event) \/ S = SingleFor(event)
        PROVE  LengthSum(leave', S \ {r}) <= LengthSum(leave, S)
    <2>1. IsFiniteSet(S) /\ \A o \in S : Length(leave[o]) \in Nat BY <1>2, FiniteFor DEF SingleFor
    <2>2. S \ {r} \in SUBSET S /\ IsFiniteSet(S \ {r}) BY <2>1, FS_Subset
    <2>3. S \subseteq EventRequests BY <1>2 DEF StandingFor, SingleFor
    <2>4. \A o \in S \ {r} : Length(leave'[o]) = Length(leave[o]) BY <1>1, <2>3
    <2>5. LengthSum(leave', S \ {r}) = LengthSum(leave, S \ {r}) BY <2>2, <2>4, LengthSumSame
    <2>6. LengthSum(leave, S \ {r}) <= LengthSum(leave, S) BY <2>1, <2>2, LengthSumPart
    <2>7. QED BY <2>5, <2>6
  <1>3. ASSUME NEW event
        PROVE  /\ LengthSum(leave', SingleFor(event)') <= rules.days
               /\ LengthSum(leave', StandingFor(event)') <= rules.days + rules.extra
    <2> DEFINE S == StandingFor(event)
               T == SingleFor(event)
    <2>1. LengthSum(leave', S \ {r}) <= LengthSum(leave, S) /\ LengthSum(leave', T \ {r}) <= LengthSum(leave, T) BY <1>2
    <2>2. /\ IsFiniteSet(S) /\ IsFiniteSet(T) /\ \A o \in S : Length(leave[o]) \in Int
          /\ \A o \in T : Length(leave[o]) \in Int
      <3>1. /\ IsFiniteSet(StandingFor(event)) /\ IsFiniteSet(SingleFor(event))
            /\ \A o \in EventRequests : Length(leave[o]) \in Int
        BY FiniteFor
      <3>2. StandingFor(event) \subseteq EventRequests /\ SingleFor(event) \subseteq EventRequests
        BY DEF StandingFor, SingleFor
      <3>3. QED BY <3>1, <3>2
    <2>3. /\ IsFiniteSet(S \ {r}) /\ IsFiniteSet(T \ {r})
          /\ \A o \in S \ {r} : Length(leave'[o]) \in Int
          /\ \A o \in T \ {r} : Length(leave'[o]) \in Int
      BY <1>1, <2>2, FS_Subset DEF StandingFor, SingleFor
    <2>4. LengthSum(leave', S \ {r}) \in Int /\ LengthSum(leave', T \ {r}) \in Int BY <2>3, LengthSumType
    <2>5. LengthSum(leave, S) \in Int /\ LengthSum(leave, T) \in Int BY <2>2, LengthSumType
    <2>6. LengthSum(leave, T) <= rules.days /\ LengthSum(leave, S) <= rules.days + rules.extra BY DEF EventBounds
    <2>7. LengthSum(leave', SingleFor(event)') = LengthSum(leave', T \ {r})
          /\ LengthSum(leave', StandingFor(event)') = LengthSum(leave', S \ {r}) BY <1>1
    <2>8. rules.days \in Nat /\ rules.extra \in Nat BY RuleTypes
    <2> HIDE DEF S, T
    <2>9. QED BY <2>1, <2>4, <2>5, <2>6, <2>7, <2>8
  <1>4. EventBounds' BY <1>3 DEF EventBounds
  <1>5. ~Stands(r)' BY <1>1 DEF Stands
  <1>6. \A o \in EventRequests : Stands(o)' => Stands(o) /\ o # r /\ leave'[o] = leave[o] BY <1>1, <1>5 DEF Stands
  <1>7. OnePaid'
    <2>1. SUFFICES ASSUME NEW a \in EventRequests, NEW o \in EventRequests, a # o, Stands(a)', Stands(o)',
                          leave'[a].first <= leave'[o].first, leave'[o].first < leave'[a].first + rules'.every
                   PROVE  "UNPAID" \in {leave'[a].pay, leave'[o].pay}
      BY DEF OnePaid
    <2>2. leave'[a] = leave[a] /\ leave'[o] = leave[o] /\ Stands(a) /\ Stands(o) BY <1>6, <2>1
    <2>3. QED BY <2>1, <2>2 DEF OnePaid
  <1>8. QED BY <1>4, <1>7

\* One that is accepted fits into what its event has left.
LEMMA AcceptedBounds ==
  ASSUME EventTypes, EventBounds, NEW r \in EventRequests, NEW new, Change(r, new),
         new.status \in {"PENDING", "APPROVED"}, rules' = rules, Fits(r, new)
  PROVE  EventBounds'
  <1>1. /\ leave'[r] = new /\ \A o \in EventRequests : o # r => leave'[o] = leave[o]
        /\ \A event :
             /\ new.event = event => StandingFor(event)' = (StandingFor(event) \ {r}) \cup {r}
             /\ new.event # event => StandingFor(event)' = StandingFor(event) \ {r}
             /\ new.event = event /\ new.multiple = FALSE => SingleFor(event)' = (SingleFor(event) \ {r}) \cup {r}
             /\ ~(new.event = event /\ new.multiple = FALSE) => SingleFor(event)' = SingleFor(event) \ {r}
    <2>1. leave'[r] = new /\ \A o \in EventRequests : o # r => leave'[o] = leave[o] BY ChangeTypes
    <2>2. StandsAs(new) BY DEF StandsAs
    <2>3. ASSUME NEW event
          PROVE  /\ new.event = event => StandingFor(event)' = (StandingFor(event) \ {r}) \cup {r}
                 /\ new.event # event => StandingFor(event)' = StandingFor(event) \ {r}
                 /\ new.event = event /\ new.multiple = FALSE => SingleFor(event)' = (SingleFor(event) \ {r}) \cup {r}
                 /\ ~(new.event = event /\ new.multiple = FALSE) => SingleFor(event)' = SingleFor(event) \ {r}
      <3>1. new.event = event => StandingFor(event)' = With(StandingFor(event), r) BY <2>2, ChangeSets
      <3>2. new.event # event => StandingFor(event)' = StandingFor(event) \ {r} BY <2>2, ChangeSets
      <3>3. new.event = event /\ new.multiple = FALSE => SingleFor(event)' = With(SingleFor(event), r)
        BY <2>2, ChangeSets
      <3>4. ~(new.event = event /\ new.multiple = FALSE) => SingleFor(event)' = SingleFor(event) \ {r}
        BY <2>2, ChangeSets
      <3>5. QED BY <3>1, <3>2, <3>3, <3>4 DEF With
    <2>4. QED BY <2>1, <2>3
  <1>2. ASSUME NEW event
        PROVE  LET S == StandingFor(event) \ {r}
                   T == SingleFor(event) \ {r}
               IN /\ IsFiniteSet(S) /\ IsFiniteSet(T)
                  /\ LengthSum(leave', S) = LengthSum(leave, S) /\ LengthSum(leave', S) \in Int
                  /\ LengthSum(leave', S) <= rules.days + rules.extra
                  /\ LengthSum(leave', T) \in Int /\ LengthSum(leave', T) <= rules.days
                  /\ \A o \in S : Length(leave'[o]) \in Nat
    <2> DEFINE U == StandingFor(event)
               V == SingleFor(event)
               S == U \ {r}
               T == V \ {r}
    <2>1. IsFiniteSet(U) /\ IsFiniteSet(V) /\ V \subseteq U /\ U \subseteq EventRequests /\ \A o \in U : Length(leave[o]) \in Nat
      BY FiniteFor DEF SingleFor, StandingFor
    <2>2. IsFiniteSet(S) /\ IsFiniteSet(T) /\ S \in SUBSET U /\ T \in SUBSET V BY <2>1, FS_Subset
    <2>3. \A o \in U : o # r => Length(leave'[o]) = Length(leave[o]) BY <1>1, <2>1
    <2>4. LengthSum(leave, U) <= rules.days + rules.extra /\ LengthSum(leave, V) <= rules.days BY DEF EventBounds
    <2>5. rules.days \in Nat /\ rules.extra \in Nat BY RuleTypes
    <2> HIDE DEF U, V
    <2>6. /\ \A o \in S : Length(leave'[o]) = Length(leave[o]) /\ Length(leave[o]) \in Nat
          /\ \A o \in T : Length(leave'[o]) = Length(leave[o]) /\ Length(leave[o]) \in Nat
          /\ \A o \in V : Length(leave[o]) \in Nat
      BY <2>1, <2>3
    <2>7. \A o \in S : Length(leave'[o]) \in Nat BY <2>6
    <2>8. LengthSum(leave', S) = LengthSum(leave, S) /\ LengthSum(leave', T) = LengthSum(leave, T)
      <3> HIDE DEF S, T
      <3>1. QED BY <2>2, <2>6, LengthSumSame
    <2>9. LengthSum(leave, S) <= LengthSum(leave, U) /\ LengthSum(leave, T) <= LengthSum(leave, V)
      <3> HIDE DEF S, T
      <3>1. QED BY <2>1, <2>2, <2>6, LengthSumPart
    <2>10. LengthSum(leave, U) \in Int /\ LengthSum(leave, V) \in Int BY <2>1, <2>6, LengthSumType
    <2>11. LengthSum(leave, S) \in Int /\ LengthSum(leave, T) \in Int
      <3> HIDE DEF S, T
      <3>1. QED BY <2>2, <2>6, LengthSumType
    <2>12. /\ LengthSum(leave', S) <= rules.days + rules.extra
           /\ LengthSum(leave', T) <= rules.days
      <3> HIDE DEF S, T
      <3>1. QED BY <2>4, <2>5, <2>8, <2>9, <2>10, <2>11
    <2>13. QED BY <2>2, <2>7, <2>8, <2>11, <2>12 DEF U, V
  <1>3. Length(new) \in Nat BY DEF Change, Length
  <1>4. rules.days \in Nat /\ rules.extra \in Nat BY RuleTypes
  <1>5. ASSUME NEW event
        PROVE  /\ LengthSum(leave', SingleFor(event)') <= rules.days
               /\ LengthSum(leave', StandingFor(event)') <= rules.days + rules.extra
    <2> DEFINE S == StandingFor(event) \ {r}
               T == SingleFor(event) \ {r}
    <2>1. /\ IsFiniteSet(S) /\ IsFiniteSet(T)
          /\ LengthSum(leave', S) = LengthSum(leave, S) /\ LengthSum(leave', S) \in Int
          /\ LengthSum(leave', S) <= rules.days + rules.extra
          /\ LengthSum(leave', T) \in Int /\ LengthSum(leave', T) <= rules.days
          /\ \A o \in S : Length(leave'[o]) \in Nat
      BY <1>2
    <2>2. T \subseteq S /\ r \notin S /\ r \notin T BY DEF SingleFor
    <2>3. CASE new.event # event
      <3>1. StandingFor(event)' = S /\ SingleFor(event)' = T BY <1>1, <2>3
      <3>2. QED BY <2>1, <3>1
    <2>4. CASE new.event = event
      <3>1. StandingFor(event)' = S \cup {r} BY <1>1, <2>4
      <3>2. UsedForEvent(r, event) = LengthSum(leave, {o \in EventRequests \ {r} : Stands(o) /\ leave[o].event = event})
        BY DEF UsedForEvent, LengthSum
      <3>3. {o \in EventRequests \ {r} : Stands(o) /\ leave[o].event = event} = S BY DEF StandingFor
      <3>4. UsedForEvent(r, event) = LengthSum(leave', S) BY <2>1, <3>2, <3>3
      <3>5. \A o \in S \cup {r} : Length(leave'[o]) \in Nat /\ Length(leave'[o]) \in Int BY <1>1, <1>3, <2>1
      <3>a. Length(leave'[r]) = Length(new) BY <1>1
      <3>b. SingleFor(event)' = IF new.multiple = FALSE THEN T \cup {r} ELSE T BY <1>1, <2>4
      <3> HIDE DEF S, T
      <3>6. LengthSum(leave', S \cup {r}) = LengthSum(leave', S) + Length(new)
        BY <2>1, <2>2, <3>5, <3>a, LengthSumAdd
      <3>c. LengthSum(leave', S \cup {r}) <= Entitlement(new.multiple)
        <4>1. Entitlement(new.multiple) \in Int BY <1>4 DEF Entitlement
        <4>2. Length(new) <= Entitlement(new.multiple) - LengthSum(leave', S) BY <2>4, <3>4 DEF Fits
        <4>3. QED BY <1>3, <2>1, <3>6, <4>1, <4>2
      <3>d. LengthSum(leave', S \cup {r}) \in Int BY <1>3, <2>1, <3>6
      <3>7. LengthSum(leave', StandingFor(event)') <= rules.days + rules.extra
        <4>1. Entitlement(new.multiple) \in Int /\ Entitlement(new.multiple) <= rules.days + rules.extra BY <1>4 DEF Entitlement
        <4>2. QED BY <1>4, <3>1, <3>c, <3>d, <4>1
      <3>8. CASE new.multiple = FALSE
        <4>1. T \cup {r} \in SUBSET (S \cup {r}) /\ IsFiniteSet(S \cup {r}) BY <2>1, <2>2, FS_AddElement
        <4>2. LengthSum(leave', T \cup {r}) <= LengthSum(leave', S \cup {r}) BY <3>5, <4>1, LengthSumPart
        <4>3. Entitlement(new.multiple) = rules.days BY <1>4, <3>8 DEF Entitlement
        <4>4. IsFiniteSet(T \cup {r}) /\ \A o \in T \cup {r} : Length(leave'[o]) \in Int BY <3>5, <4>1, FS_Subset
        <4>5. LengthSum(leave', T \cup {r}) \in Int BY <4>4, LengthSumType
        <4>6. SingleFor(event)' = T \cup {r} BY <3>8, <3>b
        <4>7. LengthSum(leave', T \cup {r}) <= rules.days BY <1>4, <3>c, <3>d, <4>2, <4>3, <4>5
        <4>8. QED BY <3>7, <4>6, <4>7
      <3>9. CASE new.multiple # FALSE
        <4>1. SingleFor(event)' = T BY <3>9, <3>b
        <4>2. QED BY <2>1, <3>7, <4>1
      <3>10. QED BY <3>8, <3>9
    <2>5. QED BY <2>3, <2>4
  <1>6. QED BY <1>5 DEF EventBounds

\* Of two that start within the window the one judged later is unpaid.
LEMMA AcceptedPaid ==
  ASSUME EventTypes, OnePaid, NEW r \in EventRequests, NEW new, Change(r, new), NEW event,
         new.status \in {"PENDING", "APPROVED"}, rules' = rules, new.pay = Pay(r, event, new.first),
         \A o \in Others(r) : o.last < new.first \/ new.last < o.first
  PROVE  OnePaid'
  <1>1. leave'[r] = new /\ \A o \in EventRequests : o # r => leave'[o] = leave[o] BY ChangeTypes
  <1>2. \A o \in EventRequests : o # r => (Stands(o)' <=> Stands(o)) BY <1>1 DEF Stands
  <1>3. rules.every \in Nat /\ new.first \in Int /\ new.last \in Int /\ new.first <= new.last BY RuleTypes DEF Change
  <1>4. ASSUME NEW o \in EventRequests, o # r, Stands(o),
               new.first - rules.every < leave[o].first, leave[o].first < new.first + rules.every
        PROVE  new.pay = "UNPAID"
    <2>1. leave[o] \in Others(r) BY <1>4 DEF Others
    <2>2. leave[o].first \in Int /\ leave[o].last \in Int /\ leave[o].first <= leave[o].last BY <1>4 DEF EventTypes
    <2>3. leave[o].first # new.first BY <1>3, <2>1, <2>2
    <2>4. RecentEvent(r, new.first) BY <1>4, <2>1, <2>3 DEF RecentEvent
    <2>5. QED BY <2>4 DEF Pay
  <1>5. SUFFICES ASSUME NEW a \in EventRequests, NEW o \in EventRequests, a # o, Stands(a)', Stands(o)',
                        leave'[a].first <= leave'[o].first, leave'[o].first < leave'[a].first + rules'.every
                 PROVE  "UNPAID" \in {leave'[a].pay, leave'[o].pay}
    BY DEF OnePaid
  <1>6. CASE a # r /\ o # r BY <1>1, <1>2, <1>5, <1>6 DEF OnePaid
  <1>7. CASE a = r
    <2>1. Stands(o) /\ leave'[o] = leave[o] /\ leave[o].first \in Int BY <1>1, <1>2, <1>5, <1>7 DEF EventTypes
    <2>2. new.first <= leave[o].first /\ leave[o].first < new.first + rules.every BY <1>1, <1>5, <1>7, <2>1
    <2>3. new.first - rules.every < leave[o].first BY <1>3, <2>1, <2>2
    <2>4. new.pay = "UNPAID" BY <1>4, <1>5, <1>7, <2>1, <2>2, <2>3
    <2>5. QED BY <1>1, <1>7, <2>4
  <1>8. CASE o = r
    <2>1. Stands(a) /\ leave'[a] = leave[a] /\ leave[a].first \in Int BY <1>1, <1>2, <1>5, <1>8 DEF EventTypes
    <2>2. leave[a].first <= new.first /\ new.first < leave[a].first + rules.every BY <1>1, <1>5, <1>8, <2>1
    <2>3. leave[a].first < new.first + rules.every /\ new.first - rules.every < leave[a].first
      <3>1. leave[a].first # new.first
        <4>1. leave[a] \in Others(r) BY <1>5, <1>8, <2>1 DEF Others
        <4>2. leave[a].last \in Int /\ leave[a].first <= leave[a].last BY <2>1 DEF EventTypes
        <4>3. QED BY <1>3, <2>1, <4>1, <4>2
      <3>2. QED BY <1>3, <2>1, <2>2, <3>1
    <2>4. new.pay = "UNPAID" BY <1>4, <1>5, <1>8, <2>1, <2>3
    <2>5. QED BY <1>1, <1>8, <2>4
  <1>9. QED BY <1>6, <1>7, <1>8

-----------------------------------------------------------------------------
\* A line more, in the sum of its event.
LEMMA LinesAdd ==
  ASSUME NEW E, IsFiniteSet(E), \A e \in E : e.units \in Int, NEW x, x \notin E, x.units \in Int, NEW event
  PROVE  /\ IsFiniteSet(LinesIn(E, event)) /\ UnitSum(LinesIn(E, event)) \in Int
         /\ x.event = event => UnitSum(LinesIn(E \cup {x}, event)) = UnitSum(LinesIn(E, event)) + x.units
         /\ x.event # event => LinesIn(E \cup {x}, event) = LinesIn(E, event)
  <1> DEFINE S == LinesIn(E, event)
  <1>1. IsFiniteSet(S) /\ x \notin S /\ \A e \in S \cup {x} : e.units \in Int BY FS_Subset DEF LinesIn
  <1>2. x.event = event => LinesIn(E \cup {x}, event) = S \cup {x} BY DEF LinesIn
  <1>3. x.event # event => LinesIn(E \cup {x}, event) = S BY DEF LinesIn
  <1> HIDE DEF S
  <1>4. UnitSum(S \cup {x}) = UnitSum(S) + x.units /\ UnitSum(S) \in Int BY <1>1, UnitSumAdd, UnitSumType
  <1>5. QED BY <1>1, <1>2, <1>3, <1>4 DEF S

\* What was asked for stays asked for.
LEMMA AskedStays ==
  ASSUME EventTypes, NEW r \in EventRequests, NEW new, Change(r, new), rules' = rules
  PROVE  \A o \in Asked : /\ o \in Asked' /\ leave'[o].event = leave[o].event
                         /\ leave'[o].multiple = leave[o].multiple /\ Length(leave'[o]) = Length(leave[o])
  <1>1. leave'[r] = new /\ \A o \in EventRequests : o # r => leave'[o] = leave[o] BY ChangeTypes
  <1>2. TAKE o \in Asked
  <1>3. CASE o = r BY <1>1, <1>3 DEF Change, Asked, Length
  <1>4. CASE o # r BY <1>1, <1>4 DEF Asked
  <1>5. QED BY <1>3, <1>4

\* What an event took, after a request for it changed.
LEMMA TakenSum ==
  ASSUME EventTypes, NEW r \in EventRequests, NEW new, Change(r, new), rules' = rules, NEW event
  PROVE  /\ LengthSum(leave, TakenFor(event)) \in Int
         /\ Length(new) \in Int
         /\ new.status = "APPROVED" /\ leave[r].status # "APPROVED" /\ new.event = event =>
              LengthSum(leave', TakenFor(event)') = LengthSum(leave, TakenFor(event)) + Length(new)
         /\ new.status # "APPROVED" /\ leave[r].status = "APPROVED" /\ new.event = event =>
              LengthSum(leave', TakenFor(event)') = LengthSum(leave, TakenFor(event)) - Length(new)
         /\ (new.status = "APPROVED" <=> leave[r].status = "APPROVED")  \/ new.event # event =>
              LengthSum(leave', TakenFor(event)') = LengthSum(leave, TakenFor(event))
  <1> DEFINE T == TakenFor(event)
             S == T \ {r}
  <1>1. leave'[r] = new /\ \A o \in EventRequests : o # r => leave'[o] = leave[o] BY ChangeTypes
  <1>2. IsFiniteSet(T) /\ \A o \in EventRequests : Length(leave[o]) \in Int BY FiniteFor
  <1>3. T \subseteq EventRequests /\ S \subseteq EventRequests BY DEF TakenFor
  <1>4. Length(new) \in Int BY DEF Change, Length
  <1>5. new.status = "APPROVED" /\ new.event = event => TakenFor(event)' = With(T, r) BY ChangeSets
  <1>6. ~(new.status = "APPROVED" /\ new.event = event) => TakenFor(event)' = S BY ChangeSets
  <1>7. /\ r \in T <=> leave[r].status = "APPROVED" /\ leave[r].event = event
        /\ leave[r].status = "APPROVED" => leave[r].event = new.event /\ Length(leave[r]) = Length(new)
    BY DEF TakenFor, Change, Length
  <1>8. \A o \in S : Length(leave'[o]) = Length(leave[o]) BY <1>1, <1>3
  <1>9. IsFiniteSet(S) /\ r \notin S /\ With(T, r) = S \cup {r} /\ (r \in T => T = S \cup {r}) /\ (r \notin T => T = S)
    BY <1>2, FS_Subset DEF With
  <1>10. Length(leave'[r]) = Length(new) BY <1>1
  <1>11. \A o \in T : Length(leave[o]) \in Int BY <1>2, <1>3
  <1>12. \A o \in S \cup {r} : Length(leave[o]) \in Int BY <1>2, <1>3
  <1>13. \A o \in S \cup {r} : Length(leave'[o]) \in Int BY <1>4, <1>8, <1>10, <1>12
  <1> HIDE DEF T, S
  <1>14. LengthSum(leave, T) \in Int BY <1>2, <1>11, LengthSumType
  <1>15. LengthSum(leave', S) = LengthSum(leave, S) BY <1>8, <1>9, LengthSumSame
  <1>16. LengthSum(leave', S \cup {r}) = LengthSum(leave', S) + Length(new) BY <1>9, <1>10, <1>13, LengthSumAdd
  <1>17. LengthSum(leave, S \cup {r}) = LengthSum(leave, S) + Length(leave[r]) BY <1>9, <1>12, LengthSumAdd
  <1>18. LengthSum(leave, S) \in Int BY <1>9, <1>12, LengthSumType
  <1>19. ASSUME new.status = "APPROVED", leave[r].status # "APPROVED", new.event = event
         PROVE  LengthSum(leave', TakenFor(event)') = LengthSum(leave, T) + Length(new)
    <2>1. TakenFor(event)' = S \cup {r} /\ T = S BY <1>5, <1>7, <1>9, <1>19
    <2>2. QED BY <1>15, <1>16, <2>1
  <1>20. ASSUME new.status # "APPROVED", leave[r].status = "APPROVED", new.event = event
         PROVE  LengthSum(leave', TakenFor(event)') = LengthSum(leave, T) - Length(new)
    <2>1. TakenFor(event)' = S /\ T = S \cup {r} /\ Length(leave[r]) = Length(new) BY <1>6, <1>7, <1>9, <1>20
    <2>2. QED BY <1>4, <1>15, <1>17, <1>18, <2>1
  <1>21. ASSUME (new.status = "APPROVED" <=> leave[r].status = "APPROVED") \/ new.event # event
         PROVE  LengthSum(leave', TakenFor(event)') = LengthSum(leave, T)
    <2>1. CASE new.status = "APPROVED" /\ new.event = event
      <3>1. TakenFor(event)' = S \cup {r} /\ T = S \cup {r} /\ Length(leave[r]) = Length(new)
        BY <1>5, <1>7, <1>9, <1>21, <2>1
      <3>2. QED BY <1>15, <1>16, <1>17, <3>1
    <2>2. CASE ~(new.status = "APPROVED" /\ new.event = event)
      <3>1. TakenFor(event)' = S /\ T = S BY <1>6, <1>7, <1>9, <1>21, <2>2
      <3>2. QED BY <1>15, <3>1
    <2>3. QED BY <2>1, <2>2
  <1>22. QED BY <1>4, <1>14, <1>19, <1>20, <1>21 DEF T

\* A change that brings no use or return keeps every line explained, if the
\* request it changes has used nothing before.
LEMMA LinesKept ==
  ASSUME EventTypes, EventLines, NEW r \in EventRequests, NEW new, Change(r, new), rules' = rules
  PROVE  /\ \A e \in entries : \A event : e.key = <<"EVT", event>> =>
              e.event = event /\ \E o \in Asked' : leave'[o].event = event /\ e.units = Entitlement(leave'[o].multiple)
         /\ \A e \in entries, o \in EventRequests : o # r /\ e.key = <<"USE", o>> =>
              leave'[o].status \in {"APPROVED", "CANCELLED"} /\ e = Use(o)'
         /\ \A e \in entries, o \in EventRequests : o # r /\ e.key = <<"RET", o>> => leave'[o].status = "CANCELLED"
         /\ \A o \in EventRequests : o # r /\ leave'[o].status = "APPROVED" => Use(o)' \in entries
  <1>1. leave'[r] = new /\ \A o \in EventRequests : o # r => leave'[o] = leave[o] BY ChangeTypes
  <1>3. \A o \in EventRequests : o # r => Use(o)' = Use(o) BY <1>1 DEF Use, Length, Line
  <1>4. ASSUME NEW e \in entries, NEW event, e.key = <<"EVT", event>>
        PROVE  e.event = event /\ \E o \in Asked' : leave'[o].event = event /\ e.units = Entitlement(leave'[o].multiple)
    <2>1. PICK o \in Asked : leave[o].event = event /\ e.units = Entitlement(leave[o].multiple) BY <1>4 DEF EventLines
    <2>2. o \in Asked' /\ leave'[o].event = leave[o].event /\ leave'[o].multiple = leave[o].multiple BY AskedStays
    <2>3. Entitlement(leave'[o].multiple) = e.units BY <2>1, <2>2
    <2>4. e.event = event BY <1>4 DEF EventLines
    <2>5. QED BY <2>1, <2>2, <2>3, <2>4
  <1>5. ASSUME NEW e \in entries, NEW o \in EventRequests, o # r, e.key = <<"USE", o>>
        PROVE  leave'[o].status \in {"APPROVED", "CANCELLED"} /\ e = Use(o)'
    BY <1>1, <1>3, <1>5 DEF EventLines
  <1>6. ASSUME NEW e \in entries, NEW o \in EventRequests, o # r, e.key = <<"RET", o>>
        PROVE  leave'[o].status = "CANCELLED"
    BY <1>1, <1>6 DEF EventLines
  <1>7. ASSUME NEW o \in EventRequests, o # r, leave'[o].status = "APPROVED" PROVE Use(o)' \in entries
    BY <1>1, <1>3, <1>7 DEF EventLines
  <1>8. QED BY <1>4, <1>5, <1>6, <1>7

\* A request asked for, declined or given up before it was approved.
LEMMA LedgerQuiet ==
  ASSUME EventTypes, EventLines, EventSums, NEW r \in EventRequests, NEW new, Change(r, new), rules' = rules,
         new.status # "APPROVED", leave[r].status \in {"NONE", "PENDING"}, entries' = entries
  PROVE  EventLines' /\ EventSums'
  <1>1. leave'[r] = new BY ChangeTypes
  <1>2. \A e \in entries : e.key # <<"USE", r>> /\ e.key # <<"RET", r>> BY DEF EventLines
  <1>3. EventLines'
    <2>1. IsFiniteSet(entries') /\ \A e \in entries' : e.units \in Int BY DEF EventLines
    <2>2. \A e \in entries' : \A event : e.key = <<"EVT", event>> =>
            e.event = event /\ \E o \in Asked' : leave'[o].event = event /\ e.units = Entitlement(leave'[o].multiple)
      BY LinesKept
    <2>3. \A e \in entries', o \in EventRequests : e.key = <<"USE", o>> =>
            leave'[o].status \in {"APPROVED", "CANCELLED"} /\ e = Use(o)'
      BY <1>2, LinesKept
    <2>4. \A e \in entries', o \in EventRequests : e.key = <<"RET", o>> => leave'[o].status = "CANCELLED"
      BY <1>2, LinesKept
    <2>5. \A o \in EventRequests : leave'[o].status = "APPROVED" => Use(o)' \in entries' BY <1>1, LinesKept
    <2>6. QED BY <2>1, <2>2, <2>3, <2>4, <2>5 DEF EventLines, Entitlement
  <1>4. ASSUME NEW event
        PROVE  /\ LengthSum(leave', TakenFor(event)') = LengthSum(leave, TakenFor(event))
               /\ LinesFor(event)' = LinesFor(event) /\ (Allotted(event)' <=> Allotted(event))
    BY TakenSum DEF LinesFor, LinesIn, Allotted
  <1>5. EventSums' BY <1>4 DEF EventSums
  <1>6. QED BY <1>3, <1>5

\* An approved one is cancelled: what it used returns, under its event.
LEMMA LedgerCancel ==
  ASSUME EventTypes, EventLines, EventSums, NEW r \in EventRequests, NEW new, Change(r, new), rules' = rules,
         new.status = "CANCELLED", leave[r].status = "APPROVED",
         entries' = entries \cup {Line(<<"RET", r>>, Length(new), new.event)}
  PROVE  EventLines' /\ EventSums'
  <1> DEFINE x == Line(<<"RET", r>>, Length(new), new.event)
  <1>1. leave'[r] = new /\ leave[r].event = new.event BY ChangeTypes DEF Change
  <1>2. \A e \in entries : e.key # <<"RET", r>> BY DEF EventLines
  <1>3. Length(new) \in Int BY TakenSum
  <1>4. x.key = <<"RET", r>> /\ x.units = Length(new) /\ x.event = new.event BY DEF Line
  <1>5. x \notin entries BY <1>2, <1>4
  <1>6. Use(r)' = Use(r) BY <1>1 DEF Use, Change, Length, Line
  <1>7. IsFiniteSet(entries) /\ \A e \in entries : e.units \in Int BY DEF EventLines
  <1> HIDE DEF x
  <1>8. entries' = entries \cup {x} BY DEF x
  <1>9. EventLines'
    <2>1. IsFiniteSet(entries') /\ \A e \in entries' : e.units \in Int BY <1>3, <1>4, <1>7, <1>8, FS_AddElement
    <2>2. \A e \in entries' : \A event : e.key = <<"EVT", event>> =>
            e.event = event /\ \E o \in Asked' : leave'[o].event = event /\ e.units = Entitlement(leave'[o].multiple)
      <3>1. \A event : x.key # <<"EVT", event>> BY <1>4
      <3>2. QED BY <1>8, <3>1, LinesKept
    <2>3. ASSUME NEW e \in entries', NEW o \in EventRequests, e.key = <<"USE", o>>
          PROVE  leave'[o].status \in {"APPROVED", "CANCELLED"} /\ e = Use(o)'
      <3>1. e \in entries BY <1>4, <1>8, <2>3
      <3>2. CASE o = r BY <1>1, <1>6, <2>3, <3>1, <3>2 DEF EventLines
      <3>3. CASE o # r BY <2>3, <3>1, <3>3, LinesKept
      <3>4. QED BY <3>2, <3>3
    <2>4. ASSUME NEW e \in entries', NEW o \in EventRequests, e.key = <<"RET", o>> PROVE leave'[o].status = "CANCELLED"
      <3>1. CASE o = r BY <1>1, <3>1
      <3>2. CASE o # r
        <4>1. e \in entries BY <1>4, <1>8, <2>4, <3>2
        <4>2. QED BY <2>4, <3>2, <4>1, LinesKept
      <3>3. QED BY <3>1, <3>2
    <2>5. \A o \in EventRequests : leave'[o].status = "APPROVED" => Use(o)' \in entries' BY <1>1, <1>8, LinesKept
    <2>6. QED BY <2>1, <2>2, <2>3, <2>4, <2>5 DEF EventLines, Entitlement
  <1>10. ASSUME NEW event
         PROVE  LET d == LengthSum(leave, TakenFor(event)) - LengthSum(leave', TakenFor(event)')
                IN  /\ UnitSum(LinesFor(event)') = UnitSum(LinesFor(event)) + d /\ d \in Int
                    /\ UnitSum(LinesFor(event)) \in Int /\ LengthSum(leave', TakenFor(event)') \in Int
    <2>1. /\ UnitSum(LinesFor(event)) \in Int /\ LinesFor(event)' = LinesIn(entries \cup {x}, event)
          /\ x.event = event => UnitSum(LinesIn(entries \cup {x}, event)) = UnitSum(LinesFor(event)) + x.units
          /\ x.event # event => LinesIn(entries \cup {x}, event) = LinesFor(event)
      <3>1. x.units \in Int BY <1>3, <1>4
      <3>2. LinesFor(event)' = LinesIn(entries \cup {x}, event) BY <1>8 DEF LinesFor, LinesIn
      <3>3. QED BY <1>5, <1>7, <3>1, <3>2, LinesAdd DEF LinesFor
    <2>2. LengthSum(leave, TakenFor(event)) \in Int BY TakenSum
    <2>3. CASE new.event = event
      <3>1. LengthSum(leave', TakenFor(event)') = LengthSum(leave, TakenFor(event)) - Length(new) BY <2>3, TakenSum
      <3>2. UnitSum(LinesFor(event)') = UnitSum(LinesFor(event)) + Length(new) BY <1>4, <2>1, <2>3
      <3>3. QED BY <1>3, <2>1, <2>2, <3>1, <3>2
    <2>4. CASE new.event # event
      <3>1. LengthSum(leave', TakenFor(event)') = LengthSum(leave, TakenFor(event)) BY <2>4, TakenSum
      <3>2. UnitSum(LinesFor(event)') = UnitSum(LinesFor(event)) BY <1>4, <2>1, <2>4
      <3>3. QED BY <2>1, <2>2, <3>1, <3>2
    <2>5. QED BY <2>3, <2>4
  <1>11. \A e \in entries' : \A event : e.key = <<"EVT", event>> => e \in entries BY <1>4, <1>8
  <1>12. EventSums'
    <2>1. ASSUME NEW event, NEW a \in entries', a.key = <<"EVT", event>>
          PROVE  UnitSum(LinesFor(event)') = a.units - LengthSum(leave', TakenFor(event)')
      <3>1. a \in entries /\ a.units \in Int BY <1>7, <1>11, <2>1
      <3>2. UnitSum(LinesFor(event)) = a.units - LengthSum(leave, TakenFor(event)) BY <2>1, <3>1 DEF EventSums
      <3>3. LengthSum(leave, TakenFor(event)) \in Int BY TakenSum
      <3>4. QED BY <1>10, <3>1, <3>2, <3>3
    <2>2. ASSUME NEW event, ~Allotted(event)'
          PROVE  UnitSum(LinesFor(event)') = - LengthSum(leave', TakenFor(event)')
      <3>1. ~Allotted(event) BY <1>8, <2>2 DEF Allotted
      <3>2. UnitSum(LinesFor(event)) = - LengthSum(leave, TakenFor(event)) BY <3>1 DEF EventSums
      <3>3. LengthSum(leave, TakenFor(event)) \in Int BY TakenSum
      <3>4. QED BY <1>10, <3>2, <3>3
    <2>3. QED BY <2>1, <2>2 DEF EventSums
  <1>13. QED BY <1>9, <1>12

\* One is approved: its event's days are allotted, if they were not, and used.
LEMMA LedgerApprove ==
  ASSUME EventTypes, EventLines, EventSums, NEW r \in EventRequests, NEW new, Change(r, new), rules' = rules,
         new.status = "APPROVED", leave[r].status \in {"NONE", "PENDING"}, NEW given,
         Allotted(new.event) => given = {},
         ~Allotted(new.event) => given = {Line(<<"EVT", new.event>>, Entitlement(new.multiple), new.event)},
         entries' = (entries \cup given) \cup {Line(<<"USE", r>>, - Length(new), new.event)}
  PROVE  EventLines' /\ EventSums'
  <1> DEFINE ev == new.event
             a == Line(<<"EVT", ev>>, Entitlement(new.multiple), ev)
             x == Line(<<"USE", r>>, - Length(new), ev)
             M == entries \cup given
  <1>1. leave'[r] = new BY ChangeTypes
  <1>2. \A e \in entries : e.key # <<"USE", r>> /\ e.key # <<"RET", r>> BY DEF EventLines
  <1>3. Length(new) \in Int /\ - Length(new) \in Int /\ Entitlement(new.multiple) \in Int
    BY TakenSum, RuleTypes DEF Entitlement
  <1>4. x.key = <<"USE", r>> /\ x.units = - Length(new) /\ x.event = ev BY DEF Line
  <1>5. a.key = <<"EVT", ev>> /\ a.units = Entitlement(new.multiple) /\ a.event = ev BY DEF Line
  <1>6. Use(r)' = x BY <1>1 DEF Use, Length, Line
  <1>7. IsFiniteSet(entries) /\ \A e \in entries : e.units \in Int BY DEF EventLines
  <1>8. r \in Asked' /\ leave'[r].event = ev /\ leave'[r].multiple = new.multiple BY <1>1 DEF Asked
  <1>9. (Allotted(ev) => M = entries) /\ (~Allotted(ev) => M = entries \cup {a} /\ a \notin entries)
    BY <1>5 DEF Allotted
  <1> HIDE DEF x, a, ev, M
  <1>10. entries' = M \cup {x} BY DEF x, M, ev
  <1>11. \A e \in M : e \in entries \/ (e = a /\ ~Allotted(ev)) BY <1>9
  <1>12. entries \subseteq M /\ (~Allotted(ev) => a \in M) BY <1>9
  <1>13. IsFiniteSet(M) /\ x \notin M /\ \A e \in M : e.units \in Int
    <2>1. IsFiniteSet(M) BY <1>7, <1>9, FS_AddElement
    <2>2. QED BY <1>2, <1>3, <1>4, <1>5, <1>7, <1>11, <2>1
  <1>14. EventLines'
    <2>1. IsFiniteSet(entries') /\ \A e \in entries' : e.units \in Int BY <1>3, <1>4, <1>10, <1>13, FS_AddElement
    <2>2. ASSUME NEW e \in entries', NEW event, e.key = <<"EVT", event>>
          PROVE  e.event = event /\ \E o \in Asked' : leave'[o].event = event /\ e.units = Entitlement(leave'[o].multiple)
      <3>1. e \in M BY <1>4, <1>10, <2>2
      <3>2. CASE e \in entries BY <2>2, <3>2, LinesKept
      <3>3. CASE e = a
        <4>1. event = ev BY <1>5, <2>2, <3>3
        <4>2. e.units = Entitlement(leave'[r].multiple) BY <1>5, <1>8, <3>3
        <4>3. e.event = event BY <1>5, <3>3, <4>1
        <4>4. leave'[r].event = event BY <1>8, <4>1
        <4>5. QED BY <1>8, <4>2, <4>3, <4>4
      <3>4. QED BY <1>11, <3>1, <3>2, <3>3
    <2>3. ASSUME NEW e \in entries', NEW o \in EventRequests, e.key = <<"USE", o>>
          PROVE  leave'[o].status \in {"APPROVED", "CANCELLED"} /\ e = Use(o)'
      <3>1. e \in entries \/ e = x BY <1>5, <1>10, <1>11, <2>3
      <3>2. CASE e = x
        <4>1. o = r BY <1>4, <2>3, <3>2
        <4>2. QED BY <1>1, <1>6, <3>2, <4>1
      <3>3. CASE e \in entries BY <1>2, <2>3, <3>3, LinesKept
      <3>4. QED BY <3>1, <3>2, <3>3
    <2>4. ASSUME NEW e \in entries', NEW o \in EventRequests, e.key = <<"RET", o>> PROVE leave'[o].status = "CANCELLED"
      <3>1. e \in entries BY <1>4, <1>5, <1>10, <1>11, <2>4
      <3>2. QED BY <1>2, <2>4, <3>1, LinesKept
    <2>5. ASSUME NEW o \in EventRequests, leave'[o].status = "APPROVED" PROVE Use(o)' \in entries'
      <3>1. CASE o = r BY <1>6, <1>10, <3>1
      <3>2. CASE o # r
        <4>1. Use(o)' \in entries BY <2>5, <3>2, LinesKept
        <4>2. QED BY <1>10, <1>12, <4>1
      <3>3. QED BY <3>1, <3>2
    <2>6. QED BY <2>1, <2>2, <2>3, <2>4, <2>5 DEF EventLines, Entitlement
  <1>15. \A e \in entries' : \A event : e.key = <<"EVT", event>> => e \in entries \/ (e = a /\ event = ev /\ ~Allotted(ev))
    BY <1>4, <1>5, <1>10, <1>11
  <1>16. \A event : Allotted(event) => Allotted(event)' BY <1>10, <1>12 DEF Allotted
  <1>17. Allotted(ev)' BY <1>5, <1>10, <1>12, <1>16 DEF Allotted
  <1>18. ASSUME NEW event
         PROVE  /\ LinesFor(event)' = LinesIn(M \cup {x}, event)
                /\ UnitSum(LinesFor(event)) \in Int /\ UnitSum(LinesIn(M, event)) \in Int
                /\ LengthSum(leave, TakenFor(event)) \in Int
                /\ ev = event => UnitSum(LinesFor(event)') = UnitSum(LinesIn(M, event)) - Length(new)
                /\ ev # event => LinesFor(event)' = LinesFor(event)
                /\ ev = event /\ ~Allotted(ev) =>
                     UnitSum(LinesIn(M, event)) = UnitSum(LinesFor(event)) + Entitlement(new.multiple)
                /\ Allotted(ev) => LinesIn(M, event) = LinesFor(event)
    <2>1. LinesFor(event)' = LinesIn(M \cup {x}, event) BY <1>10 DEF LinesFor, LinesIn
    <2>2. /\ UnitSum(LinesIn(M, event)) \in Int
          /\ x.event = event => UnitSum(LinesIn(M \cup {x}, event)) = UnitSum(LinesIn(M, event)) + x.units
          /\ x.event # event => LinesIn(M \cup {x}, event) = LinesIn(M, event)
      <3>1. x.units \in Int BY <1>3, <1>4
      <3>2. QED BY <1>13, <3>1, LinesAdd
    <2>3. ev = event => UnitSum(LinesFor(event)') = UnitSum(LinesIn(M, event)) - Length(new)
      BY <1>3, <1>4, <2>1, <2>2
    <2>4. /\ ev # event => LinesIn(M, event) = LinesFor(event)
          /\ ev = event /\ ~Allotted(ev) =>
               UnitSum(LinesIn(M, event)) = UnitSum(LinesFor(event)) + Entitlement(new.multiple)
          /\ Allotted(ev) => LinesIn(M, event) = LinesFor(event)
          /\ UnitSum(LinesFor(event)) \in Int
      <3>1. CASE Allotted(ev)
        <4>1. LinesIn(M, event) = LinesFor(event) BY <1>9, <3>1 DEF LinesFor
        <4>2. QED BY <2>2, <3>1, <4>1
      <3>2. CASE ~Allotted(ev)
        <4>1. M = entries \cup {a} /\ a \notin entries /\ a.units \in Int BY <1>3, <1>5, <1>9, <3>2
        <4>2. /\ a.event = event => UnitSum(LinesIn(M, event)) = UnitSum(LinesIn(entries, event)) + a.units
              /\ a.event # event => LinesIn(M, event) = LinesIn(entries, event)
              /\ UnitSum(LinesIn(entries, event)) \in Int
          BY <1>7, <4>1, LinesAdd
        <4>3. QED BY <1>5, <3>2, <4>2 DEF LinesFor
      <3>3. QED BY <3>1, <3>2
    <2>5. LengthSum(leave, TakenFor(event)) \in Int BY TakenSum
    <2>6. ev # event => LinesFor(event)' = LinesFor(event) BY <1>4, <2>1, <2>2, <2>4
    <2>7. QED BY <2>1, <2>2, <2>3, <2>4, <2>5, <2>6
  <1>19. LengthSum(leave', TakenFor(ev)') = LengthSum(leave, TakenFor(ev)) + Length(new) BY TakenSum DEF ev
  <1>20. \A event : event # ev => LengthSum(leave', TakenFor(event)') = LengthSum(leave, TakenFor(event))
    BY TakenSum DEF ev
  <1>21. EventSums'
    <2>1. ASSUME NEW event, NEW b \in entries', b.key = <<"EVT", event>>
          PROVE  UnitSum(LinesFor(event)') = b.units - LengthSum(leave', TakenFor(event)')
      <3>1. CASE b \in entries
        <4>0. UnitSum(LinesFor(event)) = b.units - LengthSum(leave, TakenFor(event)) BY <2>1, <3>1 DEF EventSums
        <4>1. CASE event # ev
          <5>1. LinesFor(event)' = LinesFor(event) BY <1>18, <4>1
          <5>2. QED BY <1>20, <4>0, <4>1, <5>1
        <4>2. CASE event = ev
          <5>1. Allotted(ev) BY <2>1, <3>1, <4>2 DEF Allotted
          <5>2. UnitSum(LinesFor(ev)') = UnitSum(LinesFor(ev)) - Length(new) BY <1>18, <5>1
          <5>3. LengthSum(leave, TakenFor(ev)) \in Int /\ b.units \in Int BY <1>7, <1>18, <3>1
          <5>4. QED BY <1>3, <1>19, <4>0, <4>2, <5>2, <5>3
        <4>3. QED BY <4>1, <4>2
      <3>2. CASE b = a /\ event = ev /\ ~Allotted(ev)
        <4>1. UnitSum(LinesFor(ev)) = - LengthSum(leave, TakenFor(ev)) BY <3>2 DEF EventSums
        <4>2. UnitSum(LinesFor(ev)') = UnitSum(LinesFor(ev)) + Entitlement(new.multiple) - Length(new)
          BY <1>3, <1>18, <3>2
        <4>3. LengthSum(leave, TakenFor(ev)) \in Int BY <1>18
        <4>4. QED BY <1>3, <1>5, <1>19, <3>2, <4>1, <4>2, <4>3
      <3>3. QED BY <1>15, <2>1, <3>1, <3>2
    <2>2. ASSUME NEW event, ~Allotted(event)'
          PROVE  UnitSum(LinesFor(event)') = - LengthSum(leave', TakenFor(event)')
      <3>1. ~Allotted(event) /\ event # ev BY <1>16, <1>17, <2>2
      <3>2. UnitSum(LinesFor(event)) = - LengthSum(leave, TakenFor(event)) BY <3>1 DEF EventSums
      <3>3. LinesFor(event)' = LinesFor(event) BY <1>18, <3>1
      <3>4. QED BY <1>20, <3>1, <3>2, <3>3
    <2>3. QED BY <2>1, <2>2 DEF EventSums
  <1>22. QED BY <1>14, <1>21

-----------------------------------------------------------------------------
\* Accepted, and approved.
LEMMA Finalized ==
  ASSUME EventInv, NEW r \in EventRequests, leave[r].status \in {"NONE", "PENDING"}, NEW q,
         q.status = "PENDING", q.first \in Int, q.last \in Int, q.multiple \in BOOLEAN,
         FinalizeEvent(r, q), rules' = rules,
         NEW new, Change(r, new), new.status = "APPROVED", new.pay = Pay(r, q.event, q.first), new.event = q.event,
         new.first = q.first, new.last = q.last, new.multiple = q.multiple
  PROVE  EventInv'
  <1>1. Accepted(r, q) /\ Length(new) = Length(q) BY DEF FinalizeEvent, Length
  <1>2. Fits(r, new) /\ \A o \in Others(r) : o.last < new.first \/ new.last < o.first BY <1>1 DEF Accepted, Fits
  <1>3. EventTypes' BY ChangeTypes DEF EventInv
  <1>4. EventBounds' BY <1>2, AcceptedBounds DEF EventInv
  <1>5. OnePaid'
    <2>1. new.pay = Pay(r, q.event, new.first) OBVIOUS
    <2>2. QED BY <1>2, <2>1, AcceptedPaid DEF EventInv
  <1> DEFINE given == IF Allotted(q.event) THEN {} ELSE {Line(<<"EVT", q.event>>, Entitlement(q.multiple), q.event)}
  <1>6. entries' = (entries \cup given) \cup {Line(<<"USE", r>>, - Length(new), new.event)}
    BY <1>1 DEF FinalizeEvent
  <1>7. /\ Allotted(new.event) => given = {}
        /\ ~Allotted(new.event) => given = {Line(<<"EVT", new.event>>, Entitlement(new.multiple), new.event)}
    OBVIOUS
  <1> HIDE DEF given
  <1>8. EventLines' /\ EventSums' BY <1>6, <1>7, LedgerApprove DEF EventInv
  <1>9. QED BY <1>3, <1>4, <1>5, <1>8 DEF EventInv

LEMMA InitEvent == EventInit => EventInv
  <1>1. SUFFICES ASSUME EventInit PROVE EventInv OBVIOUS
  <1>2. leave = [r \in EventRequests |-> NotAsked] /\ entries = {} /\ rules \in EventRules BY <1>1 DEF EventInit
  <1>3. \A r \in EventRequests : leave[r] = NotAsked /\ ~Stands(r) /\ leave[r].status = "NONE" BY <1>2 DEF Stands, NotAsked
  <1>4. Asked = {} /\ \A event : StandingFor(event) = {} /\ SingleFor(event) = {} /\ TakenFor(event) = {}
    BY <1>3 DEF Asked, StandingFor, SingleFor, TakenFor
  <1>5. LengthSum(leave, {}) = 0
    <2>1. LengthSum(leave, {}) = SumFunctionOnSet([o \in {} |-> Length(leave[o])], {}) BY LengthSumIs, FS_EmptySet
    <2>2. QED BY <2>1, SumEmpty
  <1>6. EventTypes
    <2>1. IsFiniteSet(Asked) BY <1>4, FS_EmptySet
    <2>2. leave = [r \in EventRequests |-> leave[r]] BY <1>2
    <2>3. ASSUME NEW r \in EventRequests
          PROVE  /\ leave[r].first \in Int /\ leave[r].last \in Int /\ leave[r].multiple \in BOOLEAN
                 /\ leave[r].status \in {"NONE", "PENDING", "APPROVED", "DECLINED", "CANCELLED"}
                 /\ Stands(r) => leave[r].first <= leave[r].last
      <3>1. leave[r] = NotAsked /\ ~Stands(r) /\ leave[r].status = "NONE" BY <1>3
      <3>2. NotAsked.first \in Int /\ NotAsked.last \in Int /\ NotAsked.multiple \in BOOLEAN BY DEF NotAsked
      <3>3. QED BY <3>1, <3>2
    <2>4. QED BY <1>2, <2>1, <2>2, <2>3 DEF EventTypes
  <1>7. EventBounds
    <2>1. rules.days \in Nat /\ rules.extra \in Nat BY <1>6, RuleTypes
    <2>2. ASSUME NEW event
          PROVE  /\ LengthSum(leave, SingleFor(event)) <= rules.days
                 /\ LengthSum(leave, StandingFor(event)) <= rules.days + rules.extra
      <3>1. SingleFor(event) = {} /\ StandingFor(event) = {} BY <1>4
      <3>2. QED BY <1>5, <2>1, <3>1
    <2>3. QED BY <2>2 DEF EventBounds
  <1>8. OnePaid BY <1>3 DEF OnePaid
  <1>9. EventLines BY <1>2, <1>3, FS_EmptySet DEF EventLines
  <1>10. EventSums
    <2>1. \A event : LinesFor(event) = {} /\ UnitSum(LinesFor(event)) = 0 BY <1>2, UnitSumEmpty DEF LinesFor, LinesIn
    <2>2. QED BY <1>2, <1>4, <1>5, <2>1 DEF EventSums
  <1>11. QED BY <1>6, <1>7, <1>8, <1>9, <1>10 DEF EventInv

LEMMA StepEvent == EventInv /\ [EventNext]_eventVars => EventInv'
  <1>1. SUFFICES ASSUME EventInv, [EventNext]_eventVars PROVE EventInv' OBVIOUS
  <1>t. EventTypes BY <1>1 DEF EventInv
  <1>2. CASE UNCHANGED eventVars
    <2>1. rules' = rules /\ leave' = leave /\ entries' = entries BY <1>2 DEF eventVars
    <2>2. EventTypes' BY <1>1, <2>1 DEF EventInv, EventTypes, Asked, Stands
    <2>3. \A event : /\ SingleFor(event)' = SingleFor(event) /\ StandingFor(event)' = StandingFor(event)
                     /\ TakenFor(event)' = TakenFor(event) /\ LinesFor(event)' = LinesFor(event)
                     /\ (Allotted(event)' <=> Allotted(event))
      BY <2>1 DEF SingleFor, StandingFor, TakenFor, LinesFor, LinesIn, Allotted, Stands
    <2>4. EventBounds' BY <1>1, <2>1, <2>3 DEF EventInv, EventBounds
    <2>5. OnePaid' BY <1>1, <2>1 DEF EventInv, OnePaid, Stands
    <2>6. EventLines' BY <1>1, <2>1 DEF EventInv, EventLines, Asked, Use, Line, Length, Entitlement
    <2>7. EventSums' BY <1>1, <2>1, <2>3 DEF EventInv, EventSums
    <2>8. QED BY <2>2, <2>4, <2>5, <2>6, <2>7 DEF EventInv
  <1>3. ASSUME NEW r \in EventRequests, NEW birth \in Births, NEW span \in Spans, NEW auto \in BOOLEAN,
               RequestEvent(r, birth, span, auto)
        PROVE  EventInv'
    <2> DEFINE q == [status |-> "PENDING", event |-> birth[1], multiple |-> birth[2],
                     first |-> span[1], last |-> span[2], pay |-> Pay(r, birth[1], span[1])]
    <2>1. leave[r] = NotAsked /\ leave[r].status = "NONE" /\ rules' = rules BY <1>3 DEF RequestEvent, NotAsked
    <2>2. /\ q.status = "PENDING" /\ q.first \in Int /\ q.last \in Int /\ q.multiple \in BOOLEAN
          /\ q.event = birth[1] /\ q.first = span[1] /\ q.pay = Pay(r, q.event, q.first)
      BY EventAssumption
    <2>3. CASE auto = TRUE
      <3> DEFINE new == [q EXCEPT !.status = "APPROVED", !.pay = Pay(r, q.event, q.first)]
      <3>1. FinalizeEvent(r, q) BY <1>3, <2>3 DEF RequestEvent
      <3>2. /\ new.status = "APPROVED" /\ new.pay = Pay(r, q.event, q.first) /\ new.event = q.event
            /\ new.first = q.first /\ new.last = q.last /\ new.multiple = q.multiple
        OBVIOUS
      <3>3. leave' = [leave EXCEPT ![r] = new] /\ Accepted(r, q) BY <3>1 DEF FinalizeEvent
      <3> HIDE DEF q, new
      <3>4. q.first <= q.last BY <3>3 DEF Accepted
      <3>5. Change(r, new) BY <2>1, <2>2, <3>2, <3>3, <3>4 DEF Change
      <3>6. QED BY <1>1, <2>1, <2>2, <3>1, <3>2, <3>5, Finalized
    <2>4. CASE auto = FALSE
      <3>1. Accepted(r, q) /\ leave' = [leave EXCEPT ![r] = q] /\ entries' = entries BY <1>3, <2>4 DEF RequestEvent
      <3> HIDE DEF q
      <3>2. q.first <= q.last BY <3>1 DEF Accepted
      <3>3. Change(r, q) BY <2>1, <2>2, <3>1, <3>2 DEF Change
      <3>4. Fits(r, q) /\ \A o \in Others(r) : o.last < q.first \/ q.last < o.first BY <3>1 DEF Accepted, Fits
      <3>5. EventTypes' BY <2>1, <3>3, <1>t, ChangeTypes
      <3>6. EventBounds' BY <1>1, <2>1, <2>2, <3>3, <3>4, AcceptedBounds DEF EventInv
      <3>7. OnePaid' BY <1>1, <2>1, <2>2, <3>3, <3>4, AcceptedPaid DEF EventInv
      <3>8. EventLines' /\ EventSums' BY <1>1, <2>1, <2>2, <3>1, <3>3, LedgerQuiet DEF EventInv
      <3>9. QED BY <3>5, <3>6, <3>7, <3>8 DEF EventInv
    <2>5. QED BY <2>3, <2>4
  <1>4. ASSUME NEW r \in EventRequests, ApproveEvent(r) PROVE EventInv'
    <2> DEFINE q == leave[r]
               new == [q EXCEPT !.status = "APPROVED", !.pay = Pay(r, q.event, q.first)]
    <2>1. q.status = "PENDING" /\ FinalizeEvent(r, q) /\ rules' = rules BY <1>4 DEF ApproveEvent
    <2>2. q.first \in Int /\ q.last \in Int /\ q.multiple \in BOOLEAN BY <1>t DEF EventTypes
    <2>3. leave' = [leave EXCEPT ![r] = new] /\ Accepted(r, q) BY <2>1 DEF FinalizeEvent
    <2>4. /\ new.status = "APPROVED" /\ new.pay = Pay(r, q.event, q.first) /\ new.event = q.event
          /\ new.first = q.first /\ new.last = q.last /\ new.multiple = q.multiple
      BY <2>1
    <2>5. q = leave[r] OBVIOUS
    <2> HIDE DEF q, new
    <2>6. q.first <= q.last BY <2>3 DEF Accepted
    <2>7. Change(r, new) BY <2>2, <2>3, <2>4, <2>5, <2>6 DEF Change
    <2>8. QED BY <1>1, <2>1, <2>2, <2>4, <2>5, <2>7, Finalized
  <1>5. ASSUME NEW r \in EventRequests, DeclineEvent(r) PROVE EventInv'
    <2> DEFINE new == [leave[r] EXCEPT !.status = "DECLINED"]
    <2>1. leave[r].status = "PENDING" /\ leave' = [leave EXCEPT ![r] = new] /\ rules' = rules /\ entries' = entries
      BY <1>5 DEF DeclineEvent
    <2>2. /\ new.status = "DECLINED" /\ new.event = leave[r].event /\ new.multiple = leave[r].multiple
          /\ new.first = leave[r].first /\ new.last = leave[r].last
      BY <2>1
    <2> HIDE DEF new
    <2>3. Change(r, new) BY <1>t, <2>1, <2>2 DEF Change, EventTypes
    <2>4. EventTypes' BY <1>t, <2>1, <2>3, ChangeTypes
    <2>5. EventBounds' /\ OnePaid' BY <1>1, <2>1, <2>2, <2>3, GivenUpBounds DEF EventInv
    <2>6. EventLines' /\ EventSums' BY <1>1, <2>1, <2>2, <2>3, LedgerQuiet DEF EventInv
    <2>7. QED BY <2>4, <2>5, <2>6 DEF EventInv
  <1>6. ASSUME NEW r \in EventRequests, CancelEvent(r) PROVE EventInv'
    <2> DEFINE new == [leave[r] EXCEPT !.status = "CANCELLED"]
               used == {e \in entries : e.key = <<"USE", r>>}
               back == {Line(<<"RET", r>>, - e.units, e.event) : e \in used}
    <2>1. leave[r].status \in {"PENDING", "APPROVED"} /\ leave' = [leave EXCEPT ![r] = new] /\ rules' = rules
      BY <1>6 DEF CancelEvent, Stands
    <2>2. entries' = entries \cup back BY <1>6 DEF CancelEvent
    <2>3. /\ new.status = "CANCELLED" /\ new.event = leave[r].event /\ new.multiple = leave[r].multiple
          /\ new.first = leave[r].first /\ new.last = leave[r].last
      BY <2>1
    <2> HIDE DEF new
    <2>4. Change(r, new) BY <1>t, <2>1, <2>3 DEF Change, EventTypes
    <2>5. EventTypes' BY <1>t, <2>1, <2>4, ChangeTypes
    <2>6. EventBounds' /\ OnePaid' BY <1>1, <2>1, <2>3, <2>4, GivenUpBounds DEF EventInv
    <2>7. CASE leave[r].status = "PENDING"
      <3>1. used = {} BY <1>1, <2>7 DEF EventInv, EventLines
      <3>2. entries' = entries BY <2>2, <3>1
      <3>3. EventLines' /\ EventSums' BY <1>1, <2>1, <2>3, <2>4, <2>7, <3>2, LedgerQuiet DEF EventInv
      <3>4. QED BY <2>5, <2>6, <3>3 DEF EventInv
    <2>8. CASE leave[r].status = "APPROVED"
      <3>1. used = {Use(r)}
        <4>1. Use(r) \in entries /\ \A e \in used : e = Use(r) BY <1>1, <2>8 DEF EventInv, EventLines
        <4>2. Use(r).key = <<"USE", r>> BY DEF Use, Line
        <4>3. QED BY <4>1, <4>2
      <3>2. back = {Line(<<"RET", r>>, - Use(r).units, Use(r).event)} BY <3>1
      <3>3. - Use(r).units = Length(new) /\ Use(r).event = new.event
        <4>1. Length(leave[r]) \in Int BY <1>t DEF EventTypes, Length
        <4>2. QED BY <2>3, <4>1 DEF Use, Line, Length
      <3> HIDE DEF used, back
      <3>4. entries' = entries \cup {Line(<<"RET", r>>, Length(new), new.event)} BY <2>2, <3>2, <3>3
      <3>5. EventLines' /\ EventSums' BY <1>1, <2>1, <2>3, <2>4, <2>8, <3>4, LedgerCancel DEF EventInv
      <3>6. QED BY <2>5, <2>6, <3>5 DEF EventInv
    <2>9. QED BY <2>1, <2>7, <2>8
  <1>7. QED BY <1>1, <1>2, <1>3, <1>4, <1>5, <1>6 DEF EventNext

\* The invariant says what it is meant to.
LEMMA EventInvRight == EventInv => EventLeaveRight
  <1>1. SUFFICES ASSUME EventInv PROVE EventLeaveRight OBVIOUS
  <1>t. EventTypes /\ EventBounds /\ EventLines /\ EventSums BY <1>1 DEF EventInv
  <1>2. WithinEntitlement
    <2>1. SUFFICES ASSUME NEW event \in EventDates
                   PROVE  DaysFor(event) <=
                            Entitlement(\E r \in EventRequests : Stands(r) /\ leave[r].event = event /\ leave[r].multiple)
      BY DEF WithinEntitlement
    <2>2. DaysFor(event) = LengthSum(leave, StandingFor(event)) BY DEF DaysFor, LengthSum, StandingFor
    <2>3. LengthSum(leave, SingleFor(event)) <= rules.days /\ LengthSum(leave, StandingFor(event)) <= rules.days + rules.extra
      BY <1>t DEF EventBounds
    <2>4. rules.days \in Nat /\ rules.extra \in Nat BY <1>t, RuleTypes
    <2>5. CASE \E r \in EventRequests : Stands(r) /\ leave[r].event = event /\ leave[r].multiple
      BY <2>2, <2>3, <2>5 DEF Entitlement
    <2>6. CASE ~\E r \in EventRequests : Stands(r) /\ leave[r].event = event /\ leave[r].multiple
      <3>1. \A r \in EventRequests : leave[r].multiple \in BOOLEAN BY <1>t DEF EventTypes
      <3>2. \A r \in StandingFor(event) : leave[r].multiple = FALSE BY <2>6, <3>1 DEF StandingFor
      <3>3. SingleFor(event) = StandingFor(event) BY <3>2 DEF SingleFor
      <3>4. QED BY <2>2, <2>3, <2>4, <2>6, <3>3 DEF Entitlement
    <2>7. QED BY <2>5, <2>6
  <1>3. EventOnLedger
    <2>1. SUFFICES ASSUME NEW event \in EventDates,
                          Cardinality({leave[r].multiple : r \in {o \in EventRequests : leave[o].event = event}}) = 1,
                          Allotted(event)
                   PROVE  MapThenSumSet(LAMBDA e : e.units, {e \in entries : e.event = event})
                            = Entitlement(TRUE \in {leave[r].multiple : r \in {o \in EventRequests : leave[o].event = event}})
                              - MapThenSumSet(LAMBDA r : Length(leave[r]),
                                  {r \in EventRequests : leave[r].status = "APPROVED" /\ leave[r].event = event})
      BY DEF EventOnLedger
    <2> DEFINE asked == {leave[r].multiple : r \in {o \in EventRequests : leave[o].event = event}}
    <2>2. PICK a \in entries : a.key = <<"EVT", event>> BY <2>1 DEF Allotted
    <2>3. PICK r \in Asked : leave[r].event = event /\ a.units = Entitlement(leave[r].multiple)
      BY <1>t, <2>2 DEF EventLines
    <2>4. leave[r].multiple \in asked /\ leave[r].multiple \in BOOLEAN /\ Cardinality(asked) = 1
      BY <1>t, <2>1, <2>3 DEF Asked, EventTypes
    <2>5. asked \subseteq BOOLEAN BY <1>t DEF EventTypes
    <2> HIDE DEF asked
    <2>6. asked = {leave[r].multiple}
      <3>1. IsFiniteSet(BOOLEAN)
        <4>1. IsFiniteSet({TRUE} \cup {FALSE}) BY FS_AddElement, FS_Singleton
        <4>2. BOOLEAN = {TRUE} \cup {FALSE} OBVIOUS
        <4>3. QED BY <4>1, <4>2
      <3>2. IsFiniteSet(asked) BY <2>5, <3>1, FS_Subset
      <3>3. \E x : asked = {x} BY <2>4, <3>2, FS_Singleton
      <3>4. QED BY <2>4, <3>3
    <2>8. a.units = Entitlement(TRUE \in asked)
      <3>1. CASE leave[r].multiple = TRUE
        <4>1. TRUE \in asked BY <2>6, <3>1
        <4>2. QED BY <2>3, <3>1, <4>1 DEF Entitlement
      <3>2. CASE leave[r].multiple = FALSE
        <4>1. TRUE \notin asked BY <2>6, <3>2
        <4>2. QED BY <2>3, <3>2, <4>1 DEF Entitlement
      <3>3. QED BY <2>4, <3>1, <3>2
    <2>9. UnitSum(LinesFor(event)) = a.units - LengthSum(leave, TakenFor(event)) BY <1>t, <2>2 DEF EventSums
    <2>10. UnitSum(LinesFor(event)) = MapThenSumSet(LAMBDA e : e.units, {e \in entries : e.event = event})
      BY DEF UnitSum, LinesFor, LinesIn
    <2>11. LengthSum(leave, TakenFor(event)) =
             MapThenSumSet(LAMBDA o : Length(leave[o]),
               {o \in EventRequests : leave[o].status = "APPROVED" /\ leave[o].event = event})
      BY DEF LengthSum, TakenFor
    <2>12. QED BY <2>8, <2>9, <2>10, <2>11 DEF asked
  <1>4. PaidOncePerWindow BY <1>1 DEF EventInv, OnePaid, PaidOncePerWindow
  <1>5. QED BY <1>2, <1>3, <1>4 DEF EventLeaveRight

\* Whatever the events, the leave asked for and the policies: the requests for
\* an event never take more than it gives, no two in a window are both paid,
\* and an event's ledger is what it gives less what is approved.
THEOREM EventLeaveIsRight == EventSpec => []EventLeaveRight
  <1>1. EventSpec => []EventInv BY InitEvent, StepEvent, PTL DEF EventSpec
  <1>2. QED BY <1>1, EventInvRight, PTL

-----------------------------------------------------------------------------
(***************************************************************************)
(* Types. What the other invariants leave open: what the engine posts it   *)
(* dates up to today, whatever is dated ahead is leave or its return, and  *)
(* no posting takes from payroll.                                          *)
(***************************************************************************)

Timely(s) == s.additions \in Nat /\ \A e \in s.ledger : e.on \in Nat /\ (e.on <= today \/ e.on \in Dates)
Dateable(on) == on \in Nat /\ (on <= today \/ on \in Dates)

\* An entry and a payout, posted under such a date.
LEMMA TimelyPosted ==
  ASSUME NEW s, Sound(s), Timely(s), NEW e, Dateable(e.on)
  PROVE  Timely(Posted(s, e))
  <1>1. s = [ledger |-> s.ledger, additions |-> s.additions] BY DEF Sound
  <1>2. Posted(s, e) = [ledger |-> Post(s.ledger, e), additions |-> s.additions]
    <2>1. Posted(s, e) = [s EXCEPT !.ledger = Post(s.ledger, e)] BY DEF Posted
    <2> DEFINE L == Post(s.ledger, e)
    <2> HIDE DEF L
    <2>2. [s EXCEPT !.ledger = L] = [ledger |-> L, additions |-> s.additions] BY <1>1
    <2>3. QED BY <2>1, <2>2 DEF L
  <1>3. Post(s.ledger, e) \subseteq s.ledger \cup {e} BY DEF Post
  <1>4. Posted(s, e).ledger \subseteq s.ledger \cup {e} /\ Posted(s, e).additions = s.additions BY <1>2, <1>3
  <1>5. QED BY <1>4 DEF Timely, Dateable

LEMMA TimelyPaid ==
  ASSUME NEW s, Sound(s), Timely(s), NEW units \in Nat, NEW e, Dateable(e.on)
  PROVE  Timely(Posted(CreatePayout(s, units), e))
  <1> DEFINE c == CreatePayout(s, units)
  <1>1. c.ledger = s.ledger /\ c.additions = s.additions + (IF HasRate THEN units ELSE 0) /\ Sound(c) BY Created
  <1> HIDE DEF c
  <1>2. Timely(c) BY <1>1 DEF Timely
  <1>3. Timely(Posted(c, e)) BY <1>1, <1>2, TimelyPosted
  <1>4. QED BY <1>3 DEF c

\* Every turn of a loop, and so the loop and the processing of a day.
LEMMA TimelyTurn ==
  ASSUME Placed, NEW s, Sound(s), Timely(s), NEW x \in Nat, NEW d \in Int, NEW k,
         k \in {"grant", "end"} => d <= EndLimit, k = "end" => d >= 1
  PROVE  Timely(Turn(k, x, s, d))
  <1>t. EngineTypes /\ today \in Nat /\ EndLimit \in Int /\ EndLimit <= today /\ EmpLastDay \in Int BY PlacedTypes
  <1>m. MonthDays \in Nat \ {0} BY Numbers
  <1>on. \A key, ty, u, on, c : Entry(key, ty, u, on, c).on = on BY DEF Entry
  <1>1. CASE k = "accrue"
    <2> DEFINE from == Larger(d, x)
               monthEnd == d + MonthDays - 1
               to == IF Left /\ EmpLastDay < monthEnd THEN EmpLastDay ELSE monthEnd
               p == Policy(to)
               earned == p.perDay * (IF p.prorate THEN to - from + 1 ELSE MonthDays)
               e == Entry(<<"ACC", d>>, "ACCRUAL", UpToMax(p, earned, Balance(s.ledger, to)), to, CycleKey(to))
    <2>1. \/ Accrue(s, d, x) = s
          \/ from <= to /\ to <= today /\ Accrue(s, d, x) = Posted(s, e)
      BY DEF Accrue
    <2>2. from \in Nat /\ to \in Int BY <1>t, <1>m DEF Larger
    <2>3. e.on = to BY <1>on
    <2> HIDE DEF e, to, from
    <2>4. from <= to /\ to <= today => Dateable(e.on) BY <1>t, <2>2, <2>3 DEF Dateable
    <2>5. Timely(Accrue(s, d, x)) BY <2>1, <2>4, TimelyPosted
    <2>6. QED BY <1>1, <2>5 DEF Turn
  <1>2. CASE k = "grant"
    <2> DEFINE p == Policy(d)
               e == Entry(<<"ACCUP", d>>, "ALLOTMENT", UpToMax(p, p.perDay * YearDays, Balance(s.ledger, d - 1)), d, d)
    <2>1. \/ Grant(s, d, x) = s
          \/ d >= x /\ Grant(s, d, x) = Posted(s, e)
      BY DEF Grant
    <2>2. e.on = d BY <1>on
    <2> HIDE DEF e
    <2>3. d >= x => Dateable(e.on) BY <1>t, <1>2, <2>2 DEF Dateable
    <2>4. Timely(Grant(s, d, x)) BY <2>1, <2>3, TimelyPosted
    <2>5. QED BY <1>2, <2>4 DEF Turn
  <1>3. CASE k = "end"
    <2> DEFINE p == Policy(d)
               excess == Balance(s.ledger, d - 1) - p.carryForwardMax
               entry(ty, units) == Entry(<<"CYC", d>>, ty, units, d - 1, CycleKey(d - 1))
    <2>1. \/ EndCycle(s, d) = s
          \/ EndCycle(s, d) = Posted(s, entry("CARRY_FORWARD", 0))
          \/ ~(excess <= 0) /\ EndCycle(s, d) = Posted(CreatePayout(s, excess), entry("PAYOUT", - excess))
          \/ EndCycle(s, d) = Posted(s, entry("FORFEIT", - excess))
      BY DEF EndCycle
    <2>2. excess \in Int
      <3>1. p.carryForwardMax \in Int BY <1>t, VersionTypes, Numbers
      <3>2. Balance(s.ledger, d - 1) \in Int BY LedgerFigures DEF Sound
      <3>3. QED BY <3>1, <3>2
    <2>3. \A ty, units : Dateable(entry(ty, units).on) BY <1>t, <1>3, <1>on DEF Dateable
    <2> HIDE DEF excess, entry
    <2>4. ~(excess <= 0) => excess \in Nat BY <2>2
    <2>5. Timely(EndCycle(s, d)) BY <2>1, <2>3, <2>4, TimelyPosted, TimelyPaid
    <2>6. QED BY <1>3, <2>5 DEF Turn
  <1>4. CASE k \notin {"accrue", "grant", "end"}
    <2> DEFINE p == Policy(d)
               on == Larger(d, x)
               units == p.perDay * (IF p.prorate THEN CycleEnd(d) - on + 1 ELSE CycleEnd(d) - d + 1)
               e == Entry(<<"ALLOT", d>>, "ALLOTMENT", units, on, d)
               given == IF p.perDay > 0 THEN Posted(s, e) ELSE s
               z == Entry(<<"EXP", d>>, "EXPIRY", - Remaining(given.ledger, d), CycleEnd(d), d)
    <2>1. \/ Allot(s, d, x) = s
          \/ ~(on > EndLimit \/ on > CycleEnd(d)) /\ Allot(s, d, x) = given
          \/ ~(on > EndLimit \/ on > CycleEnd(d)) /\ CycleEnd(d) < today /\ Allot(s, d, x) = Posted(given, z)
      BY DEF Allot
    <2>2. on \in Nat /\ CycleEnd(d) \in Int BY <1>t, DateTypes DEF Larger
    <2>3. e.on = on /\ z.on = CycleEnd(d) BY <1>on
    <2>4. units \in Int
      <3>1. p.perDay \in Nat BY <1>t, VersionTypes, Numbers
      <3> DEFINE n == IF p.prorate THEN CycleEnd(d) - on + 1 ELSE CycleEnd(d) - d + 1
                 f == p.perDay
      <3>2. n \in Int BY <2>2
      <3> HIDE DEF n, f, p, on
      <3>3. f \in Int BY <3>1 DEF f
      <3>4. f * n \in Int BY <3>2, <3>3
      <3>5. QED BY <3>4 DEF n, f
    <2>5. given = s \/ given = Posted(s, e) OBVIOUS
    <2>6. e.units = units BY DEF Entry
    <2> HIDE DEF on, units, e, given, z
    <2>7. ASSUME ~(on > EndLimit \/ on > CycleEnd(d)) PROVE Timely(given) /\ Sound(given)
      <3>1. Dateable(e.on) BY <1>t, <2>2, <2>3, <2>7 DEF Dateable
      <3>2. Timely(Posted(s, e)) BY <3>1, TimelyPosted
      <3>3. Sound(Posted(s, e))
        <4>1. e.units \in Int /\ e.on \in Int BY <2>2, <2>3, <2>4, <2>6
        <4>2. QED BY <4>1, PostedIs
      <3>4. QED BY <2>5, <3>2, <3>3
    <2>8. ASSUME ~(on > EndLimit \/ on > CycleEnd(d)), CycleEnd(d) < today PROVE Timely(Posted(given, z))
      <3>1. Dateable(z.on) BY <1>t, <2>2, <2>3, <2>8 DEF Dateable
      <3>2. Timely(given) /\ Sound(given) BY <2>7, <2>8
      <3>3. QED BY <3>1, <3>2, TimelyPosted
    <2>9. Timely(Allot(s, d, x)) BY <2>1, <2>7, <2>8
    <2>10. QED BY <1>4, <2>9 DEF Turn
  <1>5. QED BY <1>1, <1>2, <1>3, <1>4

\* So are whole loops.
LEMMA TimelyLoop ==
  ASSUME Placed, NEW s, Sound(s), Timely(s), NEW x \in Nat, NEW dates \in Seq(Int), NEW k, NEW g, Run(k, x, s, dates, g),
         \A i \in 1 .. Len(dates) : (k \in {"grant", "end"} => dates[i] <= EndLimit) /\ (k = "end" => dates[i] >= 1)
  PROVE  Timely(g[Len(dates)]) /\ Sound(g[Len(dates)])
  <1> DEFINE N == Len(dates)
             B == {i \in 0 .. N : ~Timely(g[i])}
  <1>1. N \in Nat /\ EngineTypes /\ x \in Int BY DEF Placed
  <1>2. /\ g[0] = s /\ \A i \in 1 .. N : g[i] = Turn(k, x, g[i - 1], dates[i]) /\ dates[i] \in Int
        /\ \A i \in 0 .. N, j \in 0 .. N : j <= i => Step(g[j], g[i])
    BY <1>1, RunSteps
  <1>s. \A i \in 0 .. N : Sound(g[i])
    <2>1. \A i \in 0 .. N : Step(g[i], g[i]) BY <1>1, <1>2
    <2>2. QED BY <2>1 DEF Step
  <1>3. ASSUME B # {} PROVE FALSE
    <2>0. B \in SUBSET (0 .. N) OBVIOUS
    <2>1. \E i \in B : \A b \in B : i <= b
      <3> HIDE DEF B, N
      <3>1. QED BY <1>1, <1>3, <2>0, Least
    <2>2. PICK i \in B : \A b \in B : i <= b BY <2>1
    <2>3. i # 0 BY <1>2, <2>2
    <2>4. i \in 1 .. N /\ i - 1 \in 0 .. N /\ i - 1 \notin B BY <2>2, <2>3
    <2>5. Timely(g[i - 1]) /\ Sound(g[i - 1]) BY <2>4, <1>s
    <2> DEFINE t == g[i - 1]
               c == dates[i]
    <2>6. c \in Int /\ g[i] = Turn(k, x, t, c) BY <1>2, <2>4
    <2>7. (k \in {"grant", "end"} => c <= EndLimit) /\ (k = "end" => c >= 1) BY <2>4
    <2>8. Sound(t) /\ Timely(t) BY <2>5
    <2> HIDE DEF t, c
    <2>9. Timely(Turn(k, x, t, c)) BY <2>6, <2>7, <2>8, TimelyTurn
    <2>10. QED BY <2>2, <2>6, <2>9
  <1>4. N \in 0 .. N BY <1>1
  <1>5. QED BY <1>3, <1>4, <1>s

LEMMA TimelyProcess ==
  ASSUME Placed, NEW s, Sound(s), Timely(s)
  PROVE  Timely(ProcessEmployee(s)) /\ Sound(ProcessEmployee(s))
  <1>t. EngineTypes /\ today \in Nat /\ start \in Nat /\ EndLimit \in Int /\ EndLimit <= today /\ EmpLastDay \in Int
        /\ (Left => EmpLastDay >= start)
    BY PlacedTypes
  <1>p. Policy(today).firstGrantAfterMonths \in Nat /\ Policy(today).minServiceMonths \in Nat
    BY <1>t, VersionTypes, Numbers
  <1>m. MonthDays \in Nat \ {0} /\ YearDays \in Nat \ {0} /\ CycleDays \in Nat \ {0} BY Numbers
  <1>s. Sound(ProcessEmployee(s))
    <2>1. Step(s, ProcessEmployee(s)) BY <1>t, ProcessStep
    <2>2. QED BY <2>1 DEF Step
  <1>1. CASE Kind = "ACCRUING"
    <2> DEFINE first == start + Policy(today).firstGrantAfterMonths * MonthDays
               f == AccrualFloor(s.ledger)
               D1 == Every(MonthDays, MonthStart(f), EndLimit)
               D2 == Every(YearDays, first, EndLimit)
               D3 == Every(YearDays, start + YearDays, EndLimit)
               A == Accrued(s, f, D1)
               G == Granted(A, f, D2)
               E == Ended(G, D3)
    <2>1. ProcessEmployee(s) = PayOut(E)
      BY <1>1 DEF ProcessEmployee, ProcessAccruing, Accrued, Granted, Ended, InTurn
    <2>2. first \in Int
      <3> DEFINE n == Policy(today).firstGrantAfterMonths
      <3>1. n \in Nat BY <1>p
      <3> HIDE DEF n
      <3>2. n * MonthDays \in Int BY <1>m, <3>1
      <3>3. QED BY <1>t, <3>2 DEF n
    <2>3. f \in Nat
      <3>1. f \in Int BY <1>t, DateTypes DEF Sound
      <3>2. f >= start
        <4>1. f = start \/ \E y : f = Larger(start, y) BY DEF AccrualFloor
        <4>2. f = start \/ f >= start
          <5>1. \A y : Larger(start, y) = start \/ (Larger(start, y) = y /\ ~(start > y)) BY DEF Larger
          <5> HIDE DEF f
          <5>2. QED BY <1>t, <3>1, <4>1, <5>1
        <4> HIDE DEF f
        <4>3. QED BY <1>t, <4>2
      <3> HIDE DEF f
      <3>3. QED BY <1>t, <3>1, <3>2
    <2>4. D1 \in Seq(Int) /\ Len(D1) \in Nat
      <3> HIDE DEF f
      <3>1. MonthStart(f) \in Int BY <1>t, <2>3, DateTypes
      <3>2. QED BY <1>t, <1>m, <3>1, EveryIs
    <2>5. D2 \in Seq(Int) /\ Len(D2) \in Nat /\ \A i \in 1 .. Len(D2) : D2[i] <= EndLimit
      <3> HIDE DEF first
      <3>1. D2 \in Seq(Int) /\ Len(D2) \in Nat BY <1>t, <1>m, <2>2, EveryIs
      <3>2. Visits(D2, YearDays, first, EndLimit) BY <1>t, <1>m, <2>2, EveryHas
      <3>3. QED BY <3>1, <3>2 DEF Visits
    <2>6. D3 \in Seq(Int) /\ Len(D3) \in Nat /\ \A i \in 1 .. Len(D3) : D3[i] <= EndLimit /\ D3[i] >= 1
      <3>1. start + YearDays \in Int /\ start + YearDays >= 1 BY <1>t, <1>m
      <3>2. D3 \in Seq(Int) /\ Len(D3) \in Nat BY <1>t, <1>m, <3>1, EveryIs
      <3>3. Visits(D3, YearDays, start + YearDays, EndLimit) BY <1>t, <1>m, <3>1, EveryHas
      <3> HIDE DEF D3
      <3>4. QED BY <3>1, <3>2, <3>3 DEF Visits
    <2> HIDE DEF f, D1, D2, D3, first
    <2>7. Timely(A) /\ Sound(A)
      <3>1. PICK g : Run("accrue", f, s, D1, g) /\ A = g[Len(D1)] BY <2>4, Loops
      <3> HIDE DEF A
      <3>2. QED BY <2>3, <2>4, <3>1, TimelyLoop
    <2> HIDE DEF A
    <2>8. Timely(G) /\ Sound(G)
      <3>1. PICK g : Run("grant", f, A, D2, g) /\ G = g[Len(D2)] BY <2>5, Loops
      <3> HIDE DEF G
      <3>2. QED BY <2>3, <2>5, <2>7, <3>1, TimelyLoop
    <2> HIDE DEF G
    <2>9. Timely(E) /\ Sound(E)
      <3>1. PICK g : Run("end", f, G, D3, g) /\ E = g[Len(D3)]
        <4>1. \A y : \E g : Run("end", y, G, D3, g) /\ Ended(G, D3) = g[Len(D3)] BY <2>6, EndLoops
        <4>2. QED BY <4>1
      <3> HIDE DEF E
      <3>2. QED BY <2>3, <2>6, <2>8, <3>1, TimelyLoop
    <2> HIDE DEF E
    <2> DEFINE u == Total(E.ledger)
               h == leftOn < EngineStartedOn
               e == Entry(<<"TERM", leftOn>>, "PAYOUT", - u, EmpLastDay, CycleKey(EmpLastDay))
    <2>10. \/ PayOut(E) = E
           \/ Left /\ u > 0 /\ (PayOut(E) = Posted(E, e) \/ PayOut(E) = Posted(CreatePayout(E, u), e))
      BY DEF PayOut
    <2>11. u \in Int BY <2>9, LedgerFigures DEF Sound
    <2>12. e.on = EmpLastDay BY DEF Entry
    <2> HIDE DEF u, e
    <2>13. Left => Dateable(e.on)
      <3>1. Left => EmpLastDay <= today BY PlacedTypes
      <3>2. QED BY <1>t, <2>12, <3>1 DEF Dateable
    <2>14. u > 0 => u \in Nat BY <2>11
    <2>15. Timely(PayOut(E)) BY <2>9, <2>10, <2>13, <2>14, TimelyPosted, TimelyPaid
    <2>16. QED BY <1>s, <2>1, <2>15
  <1>2. CASE Kind # "ACCRUING"
    <2>1. EligibleFrom \in Int /\ Cycles \in Seq(Int) /\ Len(Cycles) \in Nat
          /\ ProcessEmployee(s) = AllotEach(s, EligibleFrom, Cycles)
      BY <1>t, <1>2, AllowanceLoop
    <2>2. EligibleFrom \in Nat
      <3> DEFINE n == Policy(today).minServiceMonths
      <3>1. n \in Nat BY <1>p
      <3> HIDE DEF n
      <3>2. n * MonthDays \in Nat BY <1>m, <3>1
      <3>3. QED BY <1>t, <3>2 DEF EligibleFrom, n
    <2>3. PICK g : Run("allot", EligibleFrom, s, Cycles, g) /\ AllotEach(s, EligibleFrom, Cycles) = g[Len(Cycles)]
      BY <2>1, Loops
    <2>4. Timely(g[Len(Cycles)]) BY <2>1, <2>2, <2>3, TimelyLoop
    <2>5. QED BY <1>s, <2>1, <2>3, <2>4
  <1>3. QED BY <1>1, <1>2

-----------------------------------------------------------------------------
\* What a transaction commits, judged by today.
\* Bookings, batches and days: only a booking, which is of leave, dates ahead.
LEMMA TimelyNext ==
  ASSUME AccruInv, TypeOK, [Next]_vars
  PROVE  (additions \in Nat)' /\ \A e \in ledger' : e.on \in Nat /\ (e.on <= today' \/ e.on \in Dates)
  <1>0. Placed /\ today \in Nat /\ EngineTypes /\ PayInv /\ start \in Nat
    BY PlacedTypes DEF AccruInv, AllowInv, Placed
  <1>d. \A d \in Dates \cup Cutovers : d \in Int BY DateAssumption
  <1>n. Sound(Now) /\ Timely(Now) /\ Now.ledger = ledger BY <1>0, NowSound DEF Timely, Now, TypeOK
  <1>s. Sound(Settled) /\ Timely(Settled) BY <1>0, <1>n, TimelyProcess DEF Settled
  <1>e. \A k, ty, u, on, c : Entry(k, ty, u, on, c).on = on BY DEF Entry
  <1>l. \A e \in ledger : Dateable(e.on) BY DEF TypeOK, Dateable
  <1>c. ASSUME NEW s, Timely(s), Commit(s), today' = today
        PROVE  (additions \in Nat)' /\ \A e \in ledger' : e.on \in Nat /\ (e.on <= today' \/ e.on \in Dates)
    BY <1>c DEF Commit, Timely
  <1>k. ASSUME NEW s, Sound(s), Timely(s), NEW k, NEW ty, NEW u, NEW on, NEW c, Dateable(on),
               Commit(Posted(s, Entry(k, ty, u, on, c))), today' = today
        PROVE  (additions \in Nat)' /\ \A e \in ledger' : e.on \in Nat /\ (e.on <= today' \/ e.on \in Dates)
    <2> DEFINE e == Entry(k, ty, u, on, c)
    <2>1. Dateable(e.on) /\ Commit(Posted(s, e)) BY <1>k, <1>e
    <2> HIDE DEF e
    <2>2. Timely(Posted(s, e)) BY <1>k, <2>1, TimelyPosted
    <2>3. QED BY <1>k, <1>c, <2>1, <2>2
  <1>q. ASSUME UNCHANGED <<ledger, additions>>, today' \in Int, today' >= today
        PROVE  (additions \in Nat)' /\ \A e \in ledger' : e.on \in Nat /\ (e.on <= today' \/ e.on \in Dates)
    BY <1>0, <1>q DEF TypeOK
  <1>2. CASE UNCHANGED vars BY <1>0, <1>2, <1>q DEF vars
  <1>3. CASE Process BY <1>3, <1>s, <1>c DEF Process
  <1>4. ASSUME NEW r, NEW d \in Dates, Book(r, d)
        PROVE  (additions \in Nat)' /\ \A e \in ledger' : e.on \in Nat /\ (e.on <= today' \/ e.on \in Dates)
    <2>1. Commit(Posted(Settled, Entry(<<"USE", r>>, "USAGE", -1, d, CycleKey(d)))) /\ today' = today /\ d > today
      BY <1>4 DEF Book
    <2>2. Dateable(d) BY <1>0, <1>d, <2>1 DEF Dateable
    <2>3. QED BY <1>k, <1>s, <2>1, <2>2
  <1>5. ASSUME NEW r, Cancel(r)
        PROVE  (additions \in Nat)' /\ \A e \in ledger' : e.on \in Nat /\ (e.on <= today' \/ e.on \in Dates)
    <2>1. PICK e \in ledger : Commit(Posted(Now, Entry(<<"RET", r>>, "USAGE_REVERSAL", - e.units, e.on, e.cycle)))
      BY <1>5 DEF Cancel
    <2>2. today' = today BY <1>5 DEF Cancel
    <2>3. QED BY <1>k, <1>l, <1>n, <2>1, <2>2
  <1>7. ASSUME NEW b \in DOMAIN batches, PostBatch(b)
        PROVE  (additions \in Nat)' /\ \A e \in ledger' : e.on \in Nat /\ (e.on <= today' \/ e.on \in Dates)
    <2> DEFINE cut == batches[b].cut
               figure == batches[b].figure
    <2>1. Dateable(cut) BY <1>0 DEF Placed, Dateable
    <2>2. today' = today /\ Commit(IF Kind = "ACCRUING" THEN SetBalance(b, cut, figure) ELSE SetUsed(b, cut, figure))
      BY <1>7 DEF PostBatch
    <2> HIDE DEF cut, figure
    <2>4. CASE Kind = "ACCRUING"
      <3> DEFINE u == figure - Balance(ledger, cut)
      <3>2. Commit(Posted(Now, Entry(<<"OPEN", b>>, "OPENING_BALANCE", u, cut, CycleKey(cut))))
        BY <2>2, <2>4 DEF SetBalance
      <3> HIDE DEF u
      <3>3. QED BY <1>k, <1>n, <2>1, <2>2, <3>2
    <2>5. CASE Kind # "ACCRUING"
      <3>2. PICK u : Commit(Posted(Settled, Entry(<<"OPEN", b>>, "OPENING_USAGE", u, cut, CycleKey(cut))))
        BY <2>2, <2>5 DEF SetUsed
      <3>3. QED BY <1>k, <1>s, <2>1, <2>2, <3>2
    <2>6. QED BY <2>4, <2>5
  <1>8. ASSUME NEW b \in DOMAIN batches, ReverseBatch(b)
        PROVE  (additions \in Nat)' /\ \A e \in ledger' : e.on \in Nat /\ (e.on <= today' \/ e.on \in Dates)
    <2> DEFINE ty(e) == IF e.type = "OPENING_USAGE" THEN "USAGE_REVERSAL" ELSE "ADJUSTMENT_REVERSAL"
    <2>1. PICK e \in ledger : Commit(Posted(Now, Entry(<<"REV", b>>, ty(e), - e.units, e.on, e.cycle)))
      BY <1>8 DEF ReverseBatch
    <2>2. today' = today BY <1>8 DEF ReverseBatch
    <2> HIDE DEF ty
    <2>3. QED BY <1>k, <1>l, <1>n, <2>1, <2>2
  <1>9. CASE \/ \E cut \in Cutovers, figure \in Figures : CreateBatch(cut, figure)
             \/ \E b \in DOMAIN batches : DeleteBatch(b)
             \/ Settings
    <2>1. UNCHANGED <<ledger, additions>> /\ today' = today
      BY <1>9 DEF CreateBatch, DeleteBatch, Settings, UpdatePolicy, Leave
    <2>2. today' \in Int /\ today' >= today BY <1>0, <2>1
    <2>3. QED BY <1>q, <2>1, <2>2
  <1>10. CASE NextDay BY <1>0, <1>10, <1>q DEF NextDay
  <1>11. QED BY <1>2, <1>3, <1>4, <1>5, <1>7, <1>8, <1>9, <1>10 DEF Next, LeaveUsed, TakeOn

LEMMA StepTyped == AccruInv /\ AccruInv' /\ TypeOK /\ [Next]_vars => TypeOK'
  <1>1. SUFFICES ASSUME AccruInv, AccruInv', TypeOK, [Next]_vars PROVE TypeOK' OBVIOUS
  <1>2. today' \in Days /\ start' \in Starts /\ leftOn' \in Dates \cup {NoDate}
    <2>1. \/ UNCHANGED <<today, leftOn>>
          \/ \E d \in Dates : leftOn' = d /\ today' = today
          \/ NextDay
      BY <1>1 DEF Next, vars, Process, LeaveUsed, Book, Cancel, TakeOn, CreateBatch, PostBatch, ReverseBatch,
                  DeleteBatch, Settings, UpdatePolicy, Leave
    <2>2. start' = start
      BY <1>1 DEF Next, vars, Process, LeaveUsed, Book, Cancel, TakeOn, CreateBatch, PostBatch, ReverseBatch,
                  DeleteBatch, Settings, UpdatePolicy, Leave, NextDay
    <2>3. NextDay => today' \in Days /\ leftOn' = leftOn
      BY <1>1, DateAssumption DEF NextDay, Days, TypeOK
    <2>4. QED BY <1>1, <2>1, <2>2, <2>3 DEF TypeOK
  <1>3. EngineTypes' BY <1>1 DEF AccruInv, Placed
  <1>4. (\A e \in ledger : e.units \in Int)' BY <1>3 DEF EngineTypes, Ints
  <1>5. (\A b \in DOMAIN batches : batches[b].status \in {"DRAFT", "POSTED", "REVERSED"})'
    <2> DEFINE B == [status : {"DRAFT", "POSTED", "REVERSED"}, cut : Int, figure : Int]
    <2>1. batches' \in Seq(B) BY <1>3 DEF EngineTypes
    <2> HIDE DEF B
    <2>2. \A b \in DOMAIN batches' : batches'[b] \in B BY <2>1
    <2>3. QED BY <2>2 DEF B
  <1>6. QED BY <1>1, <1>2, <1>4, <1>5, TimelyNext DEF TypeOK

-----------------------------------------------------------------------------
(* Leave for events: a request names an event, from when it is made. *)

LEMMA NamedKept ==
  ASSUME EventTypes, EventTyped, NEW r \in EventRequests, NEW new, leave' = [leave EXCEPT ![r] = new],
         new.event \in EventDates, new.first <= new.last
  PROVE  EventTyped'
  <1>1. leave'[r] = new /\ \A o \in EventRequests : o # r => leave'[o] = leave[o] BY DEF EventTypes
  <1>2. QED BY <1>1 DEF EventTyped

LEMMA StepNamed == EventTypes /\ EventTyped /\ [EventNext]_eventVars => EventTyped'
  <1>1. SUFFICES ASSUME EventTypes, EventTyped, [EventNext]_eventVars PROVE EventTyped' OBVIOUS
  <1>2. CASE UNCHANGED eventVars BY <1>1, <1>2 DEF eventVars, EventTyped
  <1>3. ASSUME NEW r \in EventRequests, NEW birth \in Births, NEW span \in Spans, NEW auto \in BOOLEAN,
               RequestEvent(r, birth, span, auto)
        PROVE  EventTyped'
    <2> DEFINE q == [status |-> "PENDING", event |-> birth[1], multiple |-> birth[2],
                     first |-> span[1], last |-> span[2], pay |-> Pay(r, birth[1], span[1])]
               new == [q EXCEPT !.status = "APPROVED", !.pay = Pay(r, q.event, q.first)]
    <2>1. Accepted(r, q) /\ (leave' = [leave EXCEPT ![r] = q] \/ leave' = [leave EXCEPT ![r] = new])
      BY <1>3 DEF RequestEvent, FinalizeEvent
    <2>2. /\ q.event \in EventDates /\ new.event = q.event
          /\ new.first = q.first /\ new.last = q.last
      BY DEF EventDates
    <2> HIDE DEF q, new
    <2>3. q.first <= q.last BY <2>1 DEF Accepted
    <2>4. CASE leave' = [leave EXCEPT ![r] = q] BY <1>1, <2>2, <2>3, <2>4, NamedKept
    <2>5. CASE leave' = [leave EXCEPT ![r] = new] BY <1>1, <2>2, <2>3, <2>5, NamedKept
    <2>6. QED BY <2>1, <2>4, <2>5
  <1>4. ASSUME NEW r \in EventRequests, ApproveEvent(r) \/ DeclineEvent(r) \/ CancelEvent(r) PROVE EventTyped'
    <2> DEFINE q == leave[r]
    <2>1. PICK status, pay : leave' = [leave EXCEPT ![r] = [q EXCEPT !.status = status, !.pay = pay]]
      <3>1. CASE ApproveEvent(r) BY <3>1 DEF ApproveEvent, FinalizeEvent
      <3>2. ASSUME NEW status, leave' = [leave EXCEPT ![r].status = status]
            PROVE  leave' = [leave EXCEPT ![r] = [q EXCEPT !.status = status, !.pay = q.pay]]
        BY <3>2
      <3>3. CASE DeclineEvent(r) \/ CancelEvent(r) BY <3>2, <3>3 DEF DeclineEvent, CancelEvent
      <3>4. QED BY <1>4, <3>1, <3>3
    <2> DEFINE new == [q EXCEPT !.status = status, !.pay = pay]
    <2>2. q.status # "NONE" BY <1>4 DEF ApproveEvent, DeclineEvent, CancelEvent, Stands
    <2>3. q.event \in EventDates /\ q.first <= q.last BY <1>1, <2>2 DEF EventTyped
    <2>4. new.event = q.event /\ new.first = q.first /\ new.last = q.last OBVIOUS
    <2>5. leave' = [leave EXCEPT ![r] = new] BY <2>1
    <2> HIDE DEF q, new
    <2>6. QED BY <1>1, <2>3, <2>4, <2>5, NamedKept
  <1>5. QED BY <1>1, <1>2, <1>3, <1>4 DEF EventNext
LEMMA InitNamed == EventInit => EventTyped
  BY DEF EventInit, EventTyped, NotAsked

-----------------------------------------------------------------------------
(* The engine, sick leave and leave for events *)

LeaveInv == AccruInv /\ TypeOK /\ SickInv /\ DaysAreItsOwn /\ EventInv /\ EventTyped

\* What one of them writes leaves what the others are typed by alone.
LEMMA StepLeave == LeaveInv /\ [LeaveNext]_<<scene, vars, sickVars, eventVars, oVars>> => LeaveInv'
  <1>1. SUFFICES ASSUME LeaveInv, [LeaveNext]_<<scene, vars, sickVars, eventVars, oVars>> PROVE LeaveInv' OBVIOUS
  <1>2. [Next]_vars /\ [SickNext]_sickVars /\ [EventNext]_eventVars BY <1>1 DEF LeaveNext
  <1>3. AccruInv' BY <1>1, <1>2, StepAccru DEF LeaveInv
  <1>4. TypeOK' BY <1>1, <1>2, <1>3, StepTyped DEF LeaveInv
  <1>5. SickInv' /\ DaysAreItsOwn' BY <1>1, <1>2, NextInv, StepDays DEF LeaveInv
  <1>6. EventInv' /\ EventTyped' BY <1>1, <1>2, StepEvent, StepNamed DEF LeaveInv, EventInv
  <1>7. QED BY <1>3, <1>4, <1>5, <1>6 DEF LeaveInv

\* However the engine, HR and people take turns: whole units under dates of
\* which only leave and its return lie ahead, nothing taken from payroll, the
\* days of sick leave those that were asked for, and leave for an event under
\* the date of one.
THEOREM LeaveIsTyped == LeaveSpec => []Typed
  <1>1. LeaveInit => LeaveInv
    <2>1. LeaveInit => Init /\ SickInit /\ EventInit BY DEF LeaveInit
    <2>2. Init => TypeOK BY DateAssumption DEF Init, TypeOK, Days
    <2>3. QED BY <2>1, <2>2, InitAccru, InitInv, InitDays, InitEvent, InitNamed DEF LeaveInv
  <1>2. LeaveInv => Typed BY SickInvTyped DEF LeaveInv, Typed
  <1>3. QED BY <1>1, <1>2, StepLeave, PTL DEF LeaveSpec
====
