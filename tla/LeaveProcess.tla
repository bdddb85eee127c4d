---------------------------- MODULE LeaveProcess ----------------------------
(***************************************************************************)
(* The periodic postings of the leave engine for one employee and one     *)
(* leave type (leave/engine/process.ts), the take-on batches that set a   *)
(* balance from outside (opening.ts), bookings, changes of policy.         *)
(* Process may happen at any time and need not: days on which the server   *)
(* was down, and transactions that were rolled back, are days without it.  *)
(*                                                                         *)
(* Days are numbers and every month has MonthDays days: what uneven months *)
(* do to dates is the business of CalendarDates.                           *)
(***************************************************************************)
EXTENDS Integers, FiniteSetsExt, SequencesExt

CONSTANTS MonthDays, YearMonths,
          LastDay,         \* the day the clock stops at
          Starts,          \* days service may start on
          Dates,           \* dates people name: of leave, of leaving, of a new policy
          Policies,        \* policy versions the type may have
          Cutovers,        \* cut-over dates of take-on batches
          Figures,         \* the figure on a batch's line
          EngineStartedOn, \* leave_settings.engine_started_on
          RatedDays,       \* days on which the employee has a rate of pay on record
          MaxBookings, MaxBatches, MaxVersions

ASSUME CalendarAssumption == MonthDays \in Nat \ {0} /\ YearMonths \in Nat \ {0}
ASSUME DateAssumption ==
  /\ Dates \cup Figures \cup {EngineStartedOn} \subseteq Int /\ LastDay \in Nat
  /\ Starts \cup Cutovers \subseteq Nat \* nobody served, and no batch cut over, before day 0
ASSUME PolicyAssumption ==
  \A p \in Policies :
    {p.perDay, p.maxBalance, p.carryForwardMax, p.firstGrantAfterMonths, p.minServiceMonths} \subseteq Nat

NoDate == -1     \* null in a date column
NoLimit == 9999  \* null in carryForwardMax, payRules.maxBalance

VARIABLES today,
          start,     \* the employee's serviceStart
          leftOn,    \* first day no longer employed, once recorded
          versions,  \* leave_policies of the type, in order of effectiveFrom
          ledger,    \* leave_ledger
          additions, \* days of leave turned into payroll additions
          batches    \* leave_opening_batches, each with one line

vars == <<today, start, leftOn, versions, ledger, additions, batches>>

Days == 0 .. LastDay
YearDays == MonthDays * YearMonths
MonthStart(d) == d - (d % MonthDays)
YearStart(d) == d - (d % YearDays)
Smaller(a, b) == IF a < b THEN a ELSE b
Larger(a, b) == IF a > b THEN a ELSE b
Every(step, first, last) ==
  [i \in 1 .. (IF last < first THEN 0 ELSE (last - first) \div step + 1) |-> first + (i - 1) * step]

\* A loop over dates: each turn works on what the one before it left.
InTurn(Turn(_, _), s, dates) ==
  LET after[i \in 0 .. Len(dates)] == IF i = 0 THEN s ELSE Turn(after[i - 1], dates[i])
  IN after[Len(dates)]

(***************************************************************************)
(* The ledger is append-only. A key is posted at most once: idem_key and   *)
(* reverses_id are unique and post() does nothing on a conflict.           *)
(***************************************************************************)
Entry(key, type, units, on, cycle) ==
  [key |-> key, type |-> type, units |-> units, on |-> on, cycle |-> cycle]
Keys(L) == {e.key : e \in L}
Post(L, e) == IF e.key \in Keys(L) THEN L ELSE L \cup {e}
Total(L) == MapThenSumSet(LAMBDA e : e.units, L)
Balance(L, d) == Total({e \in L : e.on <= d})
Remaining(L, c) == Total({e \in L : e.cycle = c})
LiveOpenings(L) ==
  {e \in L : e.type = "OPENING_BALANCE" /\ <<"REV", e.key[2]>> \notin Keys(L)}
AccrualFloor(L) ==
  IF LiveOpenings(L) = {} THEN start
  ELSE Larger(start, Max({e.on : e \in LiveOpenings(L)}) + 1)

VersionOn(d) ==
  LET inForce == {i \in DOMAIN versions : versions[i].from <= d}
  IN versions[IF inForce = {} THEN 1 ELSE Max(inForce)]
Policy(d) == VersionOn(d).policy
Kind == versions[1].policy.kind
CycleKey(d) ==
  CASE Policy(d).cycle = "CALENDAR_YEAR" -> YearStart(d)
    [] Policy(d).cycle = "CALENDAR_MONTH" -> MonthStart(d)
    [] OTHER -> start + ((d - start) \div YearDays) * YearDays
CycleDays == IF versions[1].policy.cycle = "CALENDAR_MONTH" THEN MonthDays ELSE YearDays
CycleEnd(c) == c + CycleDays - 1

Left == leftOn # NoDate /\ leftOn <= today
EmpLastDay == leftOn - 1
EndLimit == IF Left THEN Smaller(EmpLastDay, today) ELSE today

\* What a posting adds under the policy's highest balance, if it has one.
UpToMax(p, units, held) ==
  IF p.maxBalance = NoLimit THEN units ELSE Smaller(units, Larger(0, p.maxBalance - held))

(***************************************************************************)
(* The operators below take and give a pair of tables, s.ledger and        *)
(* s.additions, as a transaction passes through process.ts: each posting   *)
(* reads what the ones before it wrote.                                    *)
(***************************************************************************)
Posted(s, e) == [s EXCEPT !.ledger = Post(s.ledger, e)]
HasRate == today \in RatedDays
CreatePayout(s, units) == IF HasRate THEN [s EXCEPT !.additions = @ + units] ELSE s

\* As Accrue, at the rate of the policy that is current today.
Accrue_Current(s, m, floor) ==
  LET from == Larger(m, floor)
      monthEnd == m + MonthDays - 1
      to == IF Left /\ EmpLastDay < monthEnd THEN EmpLastDay ELSE monthEnd
      p == Policy(today)
      earned == p.perDay * (IF p.prorate THEN to - from + 1 ELSE MonthDays)
  IN IF from <= to /\ to <= today /\ p.frequency = "MONTHLY" /\ p.perDay > 0
     THEN Posted(s, Entry(<<"ACC", m>>, "ACCRUAL", UpToMax(p, earned, Balance(s.ledger, to)), to, CycleKey(to)))
     ELSE s

Accrue(s, m, floor) ==
  LET from == Larger(m, floor)
      monthEnd == m + MonthDays - 1
      to == IF Left /\ EmpLastDay < monthEnd THEN EmpLastDay ELSE monthEnd
      p == Policy(to)
      earned == p.perDay * (IF p.prorate THEN to - from + 1 ELSE MonthDays)
  IN IF from <= to /\ to <= today /\ p.frequency = "MONTHLY" /\ p.perDay > 0
     THEN Posted(s, Entry(<<"ACC", m>>, "ACCRUAL", UpToMax(p, earned, Balance(s.ledger, to)), to, CycleKey(to)))
     ELSE s

Grant(s, a, floor) ==
  LET p == Policy(a)
  IN IF p.frequency = "UPFRONT" /\ a >= floor
     THEN Posted(s, Entry(<<"ACCUP", a>>, "ALLOTMENT",
                         UpToMax(p, p.perDay * YearDays, Balance(s.ledger, a - 1)), a, a))
     ELSE s

\* As EndCycle, without the test that anything is above the cap.
EndCycle_AnyBalance(s, a) ==
  LET p == Policy(a)
      excess == Balance(s.ledger, a - 1) - p.carryForwardMax
      paid == p.excessAction = "PAYOUT" \/ ~p.belowStatutoryOk
      entry(type, units) == Entry(<<"CYC", a>>, type, units, a - 1, CycleKey(a - 1))
  IN IF \/ p.carryForwardMax = NoLimit
        \/ p.excessAction = "CARRY_ALL"
        \/ a < VersionOn(a).from
        \/ <<"CYC", a>> \in Keys(s.ledger)
     THEN s
     ELSE IF paid THEN Posted(CreatePayout(s, excess), entry("PAYOUT", - excess))
     ELSE Posted(s, entry("FORFEIT", - excess))
EndCycle(s, a) ==
  LET p == Policy(a)
      excess == Balance(s.ledger, a - 1) - p.carryForwardMax
      paid == p.excessAction = "PAYOUT" \/ ~p.belowStatutoryOk
      entry(type, units) == Entry(<<"CYC", a>>, type, units, a - 1, CycleKey(a - 1))
  IN IF \/ p.carryForwardMax = NoLimit
        \/ p.excessAction = "CARRY_ALL"
        \/ a < VersionOn(a).from
        \/ <<"CYC", a>> \in Keys(s.ledger)
     THEN s
     ELSE IF excess <= 0 THEN Posted(s, entry("CARRY_FORWARD", 0))
     ELSE IF paid THEN Posted(CreatePayout(s, excess), entry("PAYOUT", - excess))
     ELSE Posted(s, entry("FORFEIT", - excess))

\* As PayOut, with an addition also for those who left before the engine started.
PayOut_Historic(s) ==
  LET units == Total(s.ledger)
  IN IF /\ Left /\ Policy(today).payoutOnTermination
        /\ <<"TERM", leftOn>> \notin Keys(s.ledger) /\ units > 0
     THEN Posted(CreatePayout(s, units),
                 Entry(<<"TERM", leftOn>>, "PAYOUT", - units, EmpLastDay, CycleKey(EmpLastDay)))
     ELSE s

PayOut(s) ==
  LET units == Total(s.ledger)
      historic == leftOn < EngineStartedOn
  IN IF /\ Left
        /\ Policy(today).payoutOnTermination
        /\ <<"TERM", leftOn>> \notin Keys(s.ledger)
        /\ units > 0
     THEN Posted(IF historic THEN s ELSE CreatePayout(s, units),
                 Entry(<<"TERM", leftOn>>, "PAYOUT", - units, EmpLastDay, CycleKey(EmpLastDay)))
     ELSE s

ProcessAccruing(s) ==
  LET floor == AccrualFloor(s.ledger)
      firstGrant == start + Policy(today).firstGrantAfterMonths * MonthDays
      accrued == InTurn(LAMBDA t, m : Accrue(t, m, floor), s,
                          Every(MonthDays, MonthStart(floor), EndLimit))
      granted == InTurn(LAMBDA t, a : Grant(t, a, floor), accrued,
                          Every(YearDays, firstGrant, EndLimit))
      ended == InTurn(EndCycle, granted, Every(YearDays, start + YearDays, EndLimit))
  IN PayOut(ended)

\* As Allot, with the remainder read before the allotment; and lapsing the
\* remainder on the last day of the cycle.
Allot_Stale(s, c, eligibleFrom) ==
  LET p == Policy(c)
      on == Larger(c, eligibleFrom)
      units == p.perDay * (IF p.prorate THEN CycleEnd(c) - on + 1 ELSE CycleEnd(c) - c + 1)
      allotted == IF p.perDay > 0 THEN Posted(s, Entry(<<"ALLOT", c>>, "ALLOTMENT", units, on, c)) ELSE s
      left == Remaining(s.ledger, c)
  IN IF on > EndLimit \/ on > CycleEnd(c) THEN s
     ELSE IF CycleEnd(c) < today /\ left > 0
          THEN Posted(allotted, Entry(<<"EXP", c>>, "EXPIRY", - left, CycleEnd(c), c))
          ELSE allotted
Allot_LapseEarly(s, c, eligibleFrom) ==
  LET p == Policy(c)
      on == Larger(c, eligibleFrom)
      units == p.perDay * (IF p.prorate THEN CycleEnd(c) - on + 1 ELSE CycleEnd(c) - c + 1)
      allotted == IF p.perDay > 0 THEN Posted(s, Entry(<<"ALLOT", c>>, "ALLOTMENT", units, on, c)) ELSE s
      left == Remaining(allotted.ledger, c)
  IN IF on > EndLimit \/ on > CycleEnd(c) THEN s
     ELSE IF CycleEnd(c) <= today /\ left > 0
          THEN Posted(allotted, Entry(<<"EXP", c>>, "EXPIRY", - left, CycleEnd(c), c))
          ELSE allotted

Allot(s, c, eligibleFrom) ==
  LET p == Policy(c)
      on == Larger(c, eligibleFrom)
      lapsed == CycleEnd(c) < today
      units == p.perDay * (IF p.prorate THEN CycleEnd(c) - on + 1 ELSE CycleEnd(c) - c + 1)
      allotted == IF p.perDay > 0 THEN Posted(s, Entry(<<"ALLOT", c>>, "ALLOTMENT", units, on, c)) ELSE s
      left == Remaining(allotted.ledger, c)
  IN IF on > EndLimit \/ on > CycleEnd(c) THEN s
     ELSE IF lapsed /\ left > 0
          THEN Posted(allotted, Entry(<<"EXP", c>>, "EXPIRY", - left, CycleEnd(c), c))
          ELSE allotted

ProcessAllowance(s) ==
  LET eligibleFrom == start + Policy(today).minServiceMonths * MonthDays
      from == Larger(eligibleFrom, YearStart(today) - YearDays)
  IN InTurn(LAMBDA t, c : Allot(t, c, eligibleFrom), s,
              Every(CycleDays, CycleKey(from), EndLimit))

ProcessEmployee(s) == IF Kind = "ACCRUING" THEN ProcessAccruing(s) ELSE ProcessAllowance(s)

Now == [ledger |-> ledger, additions |-> additions]
Settled == ProcessEmployee(Now)
Commit(s) == ledger' = s.ledger /\ additions' = s.additions

-----------------------------------------------------------------------------
Init ==
  /\ today = 0
  /\ start \in Starts
  /\ leftOn = NoDate
  /\ \E p \in Policies : versions = <<[from |-> 0, policy |-> p]>>
  /\ ledger = {} /\ additions = 0 /\ batches = <<>>

\* The scheduler, at start-up or every six hours, or anybody's reading of the
\* employee's leave; one transaction.
Process ==
  /\ Commit(Settled)
  /\ UNCHANGED <<today, start, leftOn, versions, batches>>

\* decide: the last approval of one day's leave, ahead of time. It processes
\* the employee first. Whether the day fits is the subject of LeaveRequests.
Book(r, d) ==
  /\ ~Left /\ d > today
  /\ <<"USE", r>> \notin Keys(ledger)
  /\ Commit(Posted(Settled, Entry(<<"USE", r>>, "USAGE", -1, d, CycleKey(d))))
  /\ UNCHANGED <<today, start, leftOn, versions, batches>>

\* cancel, before the leave starts; it does not process.
Cancel(r) ==
  /\ ~Left
  /\ \E e \in ledger :
       /\ e.key = <<"USE", r>> /\ e.on > today
       /\ Commit(Posted(Now, Entry(<<"RET", r>>, "USAGE_REVERSAL", - e.units, e.on, e.cycle)))
  /\ UNCHANGED <<today, start, leftOn, versions, batches>>

CreateBatch(cut, figure) ==
  /\ cut <= today
  /\ Len(batches) < MaxBatches
  /\ batches' = Append(batches, [status |-> "DRAFT", cut |-> cut, figure |-> figure])
  /\ UNCHANGED <<today, start, leftOn, versions, ledger, additions>>

\* The line's entry: the difference to the figure at the cut-over.
SetBalance(b, cut, figure) ==
  Posted(Now, Entry(<<"OPEN", b>>, "OPENING_BALANCE", figure - Balance(ledger, cut), cut, CycleKey(cut)))
SetUsed(b, cut, used) ==
  LET rows == {e \in Settled.ledger : e.cycle = CycleKey(cut) /\ e.on <= cut}
      allotted == Total({e \in rows : e.type = "ALLOTMENT"})
  IN Posted(Settled, Entry(<<"OPEN", b>>, "OPENING_USAGE",
                           allotted - used - Total(rows), cut, CycleKey(cut)))

PostBatch(b) ==
  /\ batches[b].status = "DRAFT"
  /\ Commit(IF Kind = "ACCRUING" THEN SetBalance(b, batches[b].cut, batches[b].figure)
                                 ELSE SetUsed(b, batches[b].cut, batches[b].figure))
  /\ batches' = [batches EXCEPT ![b].status = "POSTED"]
  /\ UNCHANGED <<today, start, leftOn, versions>>

ReverseBatch(b) ==
  /\ batches[b].status = "POSTED"
  /\ \E e \in ledger :
       /\ e.key = <<"OPEN", b>>
       /\ Commit(Posted(Now, Entry(<<"REV", b>>,
            IF e.type = "OPENING_USAGE" THEN "USAGE_REVERSAL" ELSE "ADJUSTMENT_REVERSAL",
            - e.units, e.on, e.cycle)))
  /\ batches' = [batches EXCEPT ![b].status = "REVERSED"]
  /\ UNCHANGED <<today, start, leftOn, versions>>

DeleteBatch(b) ==
  /\ b = Len(batches) /\ batches[b].status = "DRAFT"
  /\ batches' = SubSeq(batches, 1, b - 1)
  /\ UNCHANGED <<today, start, leftOn, versions, ledger, additions>>

\* updatePolicy, ahead of time: the latest version is edited if its date is
\* kept, and followed by a new one otherwise. The form changes neither the
\* cycle nor the way units are credited.
UpdatePolicy(p, from) ==
  LET cur == Last(versions)
  IN /\ from > today /\ from >= cur.from /\ p # cur.policy
     /\ \A field \in {"kind", "frequency", "cycle", "prorate", "firstGrantAfterMonths"} :
          p[field] = cur.policy[field]
     /\ versions' = IF from = cur.from THEN [versions EXCEPT ![Len(versions)].policy = p]
                                       ELSE Append(versions, [from |-> from, policy |-> p])
     /\ UNCHANGED <<today, start, leftOn, ledger, additions, batches>>

\* A change of status to ALUMNI is recorded before it takes effect.
Leave(d) ==
  /\ leftOn = NoDate /\ d > today /\ d > start
  /\ leftOn' = d
  /\ UNCHANGED <<today, start, versions, ledger, additions, batches>>

NextDay ==
  /\ today < LastDay
  /\ today' = today + 1
  /\ UNCHANGED <<start, leftOn, versions, ledger, additions, batches>>

LeaveUsed == \E r \in 1 .. MaxBookings : Cancel(r) \/ \E d \in Dates : Book(r, d)
TakeOn ==
  \/ \E cut \in Cutovers, figure \in Figures : CreateBatch(cut, figure)
  \/ \E b \in DOMAIN batches : PostBatch(b) \/ ReverseBatch(b) \/ DeleteBatch(b)
Settings ==
  \/ Len(versions) < MaxVersions /\ \E p \in Policies, d \in Dates : UpdatePolicy(p, d)
  \/ \E d \in Dates : Leave(d)

Next == Process \/ LeaveUsed \/ TakeOn \/ Settings \/ NextDay

Spec == Init /\ [][Next]_vars
-----------------------------------------------------------------------------
\* One type invariant. Every entry has whole units and a date, which lies ahead
\* only for leave that is booked and for its return; payroll takes nothing back.
TypeOK ==
  /\ today \in Days
  /\ start \in Starts /\ leftOn \in Dates \cup {NoDate} /\ additions \in Nat
  /\ \A e \in ledger : e.units \in Int /\ e.on \in Nat /\ (e.on <= today \/ e.on \in Dates)
  /\ \A b \in DOMAIN batches : batches[b].status \in {"DRAFT", "POSTED", "REVERSED"}

UpToDate == Settled = Now

\* Processing what was just processed changes nothing, whatever happened to the
\* ledger, the policies and the employee before (process.ts:3-4).
Idempotent ==
  LET s == Settled IN ProcessEmployee(s) = s

\* Days that PAYOUT postings took, but for people who left before the engine
\* was switched on, who were settled outside.
PaidOutDays ==
  - Total({e \in ledger : e.type = "PAYOUT" /\ ~(e.key[1] = "TERM" /\ e.key[2] < EngineStartedOn)})
RatedSoFar == 0 .. today \subseteq RatedDays

\* Payroll never gets a day that no PAYOUT posting took; and as long as the
\* employee had a rate of pay every day, it gets each of them, once, however
\* late and in whatever order they were posted (createPayout and its callers).
PayoutsOnLedger ==
  /\ additions <= PaidOutDays
  /\ RatedSoFar => additions = PaidOutDays

\* docs/LEAVE-ENGINE.md on process.ts: "termination payout, which creates a
\* payroll ADDITION". Whatever a payout takes from the balance is paid.
PayoutsReachPayroll == additions = PaidOutDays

-----------------------------------------------------------------------------
(***************************************************************************)
(* What the balance should be, as a clerk would keep it who looks at the   *)
(* calendar every evening. The engine works phase by phase instead, over   *)
(* all the months it has missed, whenever it happens to run.               *)
(***************************************************************************)
People(d) == Total({e \in ledger : e.key[1] \in {"USE", "RET"} /\ e.on = d})
Anniversary(d) == d > start /\ (d - start) % YearDays = 0
GrantDate(d) ==
  LET first == start + Policy(today).firstGrantAfterMonths * MonthDays
  IN d >= first /\ (d - first) % YearDays = 0
PeriodEnd(d) == (d + 1) % MonthDays = 0 \/ (Left /\ d = EmpLastDay)
CarriesAll(p) == p.carryForwardMax = NoLimit \/ p.excessAction = "CARRY_ALL"
Clerk(floor, b, d) ==
  LET p == Policy(d)
      from == Larger(MonthStart(d), floor)
      opening == {e \in LiveOpenings(ledger) : e.on = d}
      brought == IF opening = {} THEN b + People(d)
                 ELSE batches[(CHOOSE e \in opening : TRUE).key[2]].figure
      due == IF p.frequency = "MONTHLY" /\ PeriodEnd(d) /\ from <= d
             THEN p.perDay * (IF p.prorate THEN d - from + 1 ELSE MonthDays)
             ELSE IF p.frequency = "UPFRONT" /\ GrantDate(d) /\ d >= floor
             THEN p.perDay * YearDays
             ELSE 0
      held == IF p.frequency = "UPFRONT" THEN b ELSE brought
      earned == IF p.maxBalance = NoLimit THEN due ELSE Larger(0, Smaller(due, p.maxBalance - held))
      next == Policy(d + 1)
      capped == Anniversary(d + 1) /\ d + 1 <= EndLimit
                /\ ~CarriesAll(next)
  IN IF capped THEN Smaller(brought + earned, next.carryForwardMax) ELSE brought + earned

\* Policies in force do not bound both the balance and what is carried over
\* (process.ts posts all the months it missed before it ends a year: a balance
\* that was still to be cut back would have stopped months after it).
InForce == {versions[i].policy : i \in {j \in DOMAIN versions : versions[j].from <= today}}
BalancesFree == \A p \in InForce : p.maxBalance = NoLimit
CarriesFree == \A p \in InForce : CarriesAll(p)
NoBatchPosted == \A b \in DOMAIN batches : batches[b].status = "DRAFT"
\* One batch was posted, at the end of a month or before service began.
OneTakeOn ==
  \A b \in DOMAIN batches : batches[b].status # "DRAFT" =>
    /\ (batches[b].cut + 1) % MonthDays = 0 \/ batches[b].cut < start
    /\ \A c \in DOMAIN batches \ {b} : batches[c].status = "DRAFT"
NothingRewritten ==
  \/ NoBatchPosted /\ (BalancesFree \/ CarriesFree)
  \/ OneTakeOn /\ ~Left /\ BalancesFree /\ CarriesFree

\* The balance an up-to-date ledger shows is the clerk's, however long the
\* server was down and in whatever order months, anniversaries, batches and
\* changes of policy were caught up with; and a leaver is owed nothing more.
AsIfEveryDay ==
  (Kind = "ACCRUING" /\ UpToDate /\ NothingRewritten) =>
    LET floor == AccrualFloor(ledger)
        should == InTurn(LAMBDA b, d : Clerk(floor, b, d), 0, Every(1, 0, EndLimit))
        paidOut == Total({e \in ledger : e.key[1] = "TERM"})
    IN /\ Balance(ledger, EndLimit) = should + paidOut
       /\ Left /\ Policy(today).payoutOnTermination => Total(ledger) <= 0

\* No version in force has another waiting time: what is posted stays prorated
\* from the waiting time of its day (processAllowance reads the current version).
WaitKept ==
  \A i \in DOMAIN versions :
    versions[i].from <= today => versions[i].policy.minServiceMonths = versions[1].policy.minServiceMonths

\* An allowance holds in its own cycle what the policy gives less what was used,
\* and nothing once the cycle is over, unless a batch set it afterwards (nothing
\* reads a cycle that is over); catching up a year late gives the same.
AllowanceRight ==
  (Kind = "ALLOWANCE" /\ UpToDate /\ WaitKept) =>
    LET from == start + Policy(today).minServiceMonths * MonthDays
        cycles == {CycleKey(d) : d \in {x \in from .. EndLimit : x >= YearStart(today) - YearDays}}
    IN \A c \in cycles :
         LET p == Policy(c)
             given == p.perDay * (CycleEnd(c) - (IF p.prorate THEN Larger(c, from) ELSE c) + 1)
             used == Total({e \in ledger : e.cycle = c /\ e.type \notin {"ALLOTMENT", "EXPIRY"}})
         IN IF CycleEnd(c) >= today THEN Remaining(ledger, c) = given + used
            ELSE NoBatchPosted => Remaining(ledger, c) <= 0
=============================================================================
