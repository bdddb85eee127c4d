---------------------------- MODULE LeaveRequests ----------------------------
(***************************************************************************)
(* The leave requests of one employee: booked by the employee or by HR,    *)
(* approved step by step, cancelled, and paid for from the leave ledger.   *)
(* A request is checked by evaluate when it is made and again when it is   *)
(* approved for good; in between, days pass, holidays are declared, the    *)
(* employee's manager changes and leave types are retired.                 *)
(*                                                                         *)
(* As in PayRun, "seen" is what a transaction read and the variables are   *)
(* what it writes; "late" is what finalize reads, later in the same        *)
(* transaction. Here every transaction runs alone (seen = late = Now).     *)
(* Accruing types (Tracked) and types without a balance are modelled;      *)
(* allowances, events and sick-leave episodes are left out, and so are     *)
(* half days, eligibility rules, documents, reasons and mails.             *)
(***************************************************************************)
EXTENDS Integers, FiniteSets, Sequences, Functions

CONSTANTS
  Requests,        \* leave requests that may be made
  Owner,           \* the employee's own login
  HRs,             \* logins with role HR or ADMIN
  Managers,        \* logins of people who may become the employee's manager
  NoManager,       \* the employee has no manager
  Types,           \* leave types offered to the employee
  Tracked,         \* those of kind ACCRUING; the others have no balance
  Retirable,       \* those that are not statutory: HR may retire them
  Flows,           \* approval flows a type can have: sequences of roles
  Horizon,         \* bound: the days are 1 .. Horizon
  Weekend,         \* days that are never counted
  Holidays,        \* days that HR may declare to be holidays, and take back
  MonthEnds,       \* last days of months: the month's leave is credited then
  MonthlyAccrual,  \* what is credited
  AllowNegative,   \* how far the balance may go below zero
  Opening,         \* balance at the start
  Corrections,     \* units HR may add to a balance or remove from it
  MaxCredit        \* bound on the balance before usage

VARIABLES
  req,        \* req[r]: the row of request r in leave_requests
  covered,    \* covered[r]: its days in leave_request_days
  approvals,  \* rows of leave_request_approvals
  usage,      \* usage[r]: units of its USAGE posting, 0 when there is none
  returned,   \* returned[r]: whether that posting was reversed
  credit,     \* credit[t]: sum of all other postings of type t
  closed,     \* days that are not counted: weekends and holidays
  manager,    \* the employee's manager
  offered,    \* active leave types
  today

tables == <<req, covered, approvals, usage, returned, credit>>
vars == <<tables, closed, manager, offered, today>>

Days == 1..Horizon
Roles == {"SUPERVISOR", "HR"}

ASSUME LeaveAssumption ==
  /\ Tracked \subseteq Types
  /\ Retirable \subseteq Types
  /\ Flows \subseteq Seq(Roles)
  /\ Owner \notin Managers
  /\ Horizon \in Nat
  /\ Weekend \subseteq Days
  /\ Holidays \subseteq Days
  /\ MonthEnds \subseteq Days
  /\ MonthlyAccrual \in Nat
  /\ AllowNegative \in Int
  /\ Opening \in Int
  /\ Corrections \subseteq Int
  /\ MaxCredit \in Nat

Statuses == {"PENDING", "APPROVED", "DECLINED", "CANCELLED"}

\* What Now and a transaction's reads look like.
Now == [req |-> req, usage |-> usage, returned |-> returned, credit |-> credit,
        closed |-> closed, manager |-> manager, offered |-> offered]

Absent == [status |-> "NONE"]

----------------------------------------------------------------------------
(* evaluate *)

WorkingDays(first, last, shut) == (first..last) \ shut

Standing(table) == {r \in Requests : table[r].status \in {"PENDING", "APPROVED"}}

OfType(table, t) == {r \in Requests : table[r].status # "NONE" /\ table[r].type = t}

\* The balance is the sum over the ledger.
Balance(t, seen) ==
  seen.credit[t]
    - SumFunctionOnSet(seen.usage, {r \in OfType(seen.req, t) : ~seen.returned[r]})

\* Mutant: the months that are already over are counted too.
Projected_AllMonths(first) ==
  IF first > today
  THEN MonthlyAccrual * Cardinality({m \in MonthEnds : m <= first})
  ELSE 0

\* Month-end accruals counted ahead for leave that starts in the future.
Projected(first) ==
  IF first > today
  THEN MonthlyAccrual * Cardinality({m \in MonthEnds : today <= m /\ m <= first})
  ELSE 0

Promised(table, rows) == SumFunctionOnSet([r \in rows |-> table[r].days], rows)

Available(r, t, first, seen) ==
  Balance(t, seen) + Projected(first)
    - Promised(seen.req, {o \in OfType(seen.req, t) \ {r} : seen.req[o].status = "PENDING"})

\* Mutant: only approved requests are in the way.
Fits_PendingIgnored(r, t, first, last, seen) ==
  LET days == WorkingDays(first, last, seen.closed)
  IN  /\ days # {}
      /\ \A o \in Standing(seen.req) \ {r} :
           seen.req[o].status = "PENDING" \/ seen.req[o].last < first \/ last < seen.req[o].first
      /\ t \in Tracked => Cardinality(days) <= Available(r, t, first, seen) + AllowNegative

\* evaluate finds no error in request r for first..last.
Fits(r, t, first, last, seen) ==
  LET days == WorkingDays(first, last, seen.closed)
  IN  /\ days # {}
      /\ \A o \in Standing(seen.req) \ {r} : seen.req[o].last < first \/ last < seen.req[o].first
      /\ t \in Tracked => Cardinality(days) <= Available(r, t, first, seen) + AllowNegative

----------------------------------------------------------------------------
(* finalize: re-check, write the days again, post the usage, approve *)

\* Mutant: the days written when the request was made are kept.
Finalize_OldDays(r, row, seen) ==
  LET days == WorkingDays(row.first, row.last, seen.closed)
  IN  /\ Fits(r, row.type, row.first, row.last, seen)
      /\ covered' = IF covered[r] = {} THEN [covered EXCEPT ![r] = days] ELSE covered
      /\ usage' = [usage EXCEPT ![r] = IF usage[r] = 0 THEN Cardinality(days) ELSE usage[r]]
      /\ req' = [req EXCEPT ![r] = [row EXCEPT !.status = "APPROVED",
                                               !.days = Cardinality(days),
                                               !.step = Len(row.steps)]]

\* Mutant: the units are kept with the sign they have in the ledger.
Finalize_Sign(r, row, seen) ==
  LET days == WorkingDays(row.first, row.last, seen.closed)
  IN  /\ Fits(r, row.type, row.first, row.last, seen)
      /\ covered' = [covered EXCEPT ![r] = days]
      /\ usage' = [usage EXCEPT ![r] = IF usage[r] = 0 THEN -Cardinality(days) ELSE usage[r]]
      /\ req' = [req EXCEPT ![r] = [row EXCEPT !.status = "APPROVED",
                                               !.days = Cardinality(days),
                                               !.step = Len(row.steps)]]

\* The posting is keyed by the request: a second one is a no-op.
Finalize(r, row, seen) ==
  LET days == WorkingDays(row.first, row.last, seen.closed)
  IN  /\ Fits(r, row.type, row.first, row.last, seen)
      /\ covered' = [covered EXCEPT ![r] = days]
      /\ usage' = [usage EXCEPT ![r] = IF usage[r] = 0 THEN Cardinality(days) ELSE usage[r]]
      /\ req' = [req EXCEPT ![r] = [row EXCEPT !.status = "APPROVED",
                                               !.days = Cardinality(days),
                                               !.step = Len(row.steps)]]

----------------------------------------------------------------------------
(* Requests *)

Decision(r, n, role, by, decision) ==
  [req |-> r, step |-> n, role |-> role, by |-> by, decision |-> decision]

\* A supervisor's steps are left out for somebody without a manager.
StepsFor(flow, boss) ==
  IF boss = NoManager
  THEN [n \in 1..Cardinality({i \in 1..Len(flow) : flow[i] = "HR"}) |-> "HR"]
  ELSE flow

\* u books leave; HR, for somebody else, may have it approved at once (auto).
Create(u, r, t, first, last, flow, auto, seen, late) ==
  LET steps == IF auto /\ u # Owner THEN <<>> ELSE StepsFor(flow, seen.manager)
      days  == WorkingDays(first, last, seen.closed)
      row   == [status |-> "PENDING", type |-> t, first |-> first, last |-> last,
                days |-> Cardinality(days), steps |-> steps, step |-> 0]
  IN  /\ u \in HRs \cup {Owner}
      /\ req[r] = Absent
      /\ t \in seen.offered
      /\ first <= last
      /\ Fits(r, t, first, last, seen)
      /\ IF steps = <<>>
         THEN /\ Finalize(r, row, late)
              /\ approvals' = approvals \cup {Decision(r, 0, "AUTO", u, "AUTO")}
         ELSE /\ req' = [req EXCEPT ![r] = row]
              /\ covered' = [covered EXCEPT ![r] = days]
              /\ UNCHANGED <<approvals, usage>>
      /\ UNCHANGED <<returned, credit, closed, manager, offered, today>>

StepOf(row) == IF row.step < Len(row.steps) THEN row.steps[row.step + 1] ELSE "SUPERVISOR"

CanAct(u, step, boss) == u \in HRs \/ (step = "SUPERVISOR" /\ u = boss)

\* Mutant: any decision is the last one.
Approve_Straight(u, r, seen, late) ==
  LET row  == seen.req[r]
      step == StepOf(row)
  IN  /\ row.status = "PENDING"
      /\ u # Owner
      /\ CanAct(u, step, seen.manager)
      /\ row.type \in seen.offered
      /\ approvals' = approvals \cup {Decision(r, row.step, step, u, "APPROVED")}
      /\ Finalize(r, late.req[r], late)
      /\ UNCHANGED <<returned, credit, closed, manager, offered, today>>

Approve(u, r, seen, late) ==
  LET row  == seen.req[r]
      step == StepOf(row)
  IN  /\ row.status = "PENDING"
      /\ u # Owner
      /\ CanAct(u, step, seen.manager)
      /\ row.type \in seen.offered
      /\ approvals' = approvals \cup {Decision(r, row.step, step, u, "APPROVED")}
      /\ IF row.step + 1 < Len(row.steps)
         THEN /\ req' = [req EXCEPT ![r].step = row.step + 1]
              /\ UNCHANGED <<covered, usage>>
         ELSE Finalize(r, late.req[r], late)
      /\ UNCHANGED <<returned, credit, closed, manager, offered, today>>

\* Mutant: an approved request can still be declined.
Decline_Late(u, r, seen) ==
  LET row  == seen.req[r]
      step == IF row.status = "NONE" THEN "HR" ELSE StepOf(row)
  IN  /\ row.status \in {"PENDING", "APPROVED"}
      /\ u # Owner
      /\ CanAct(u, step, seen.manager)
      /\ row.type \in seen.offered
      /\ approvals' = approvals \cup {Decision(r, row.step, step, u, "DECLINED")}
      /\ req' = [req EXCEPT ![r].status = "DECLINED"]
      /\ UNCHANGED <<covered, usage, returned, credit, closed, manager, offered, today>>

Decline(u, r, seen) ==
  LET row  == seen.req[r]
      step == StepOf(row)
  IN  /\ row.status = "PENDING"
      /\ u # Owner
      /\ CanAct(u, step, seen.manager)
      /\ row.type \in seen.offered
      /\ approvals' = approvals \cup {Decision(r, row.step, step, u, "DECLINED")}
      /\ req' = [req EXCEPT ![r].status = "DECLINED"]
      /\ UNCHANGED <<covered, usage, returned, credit, closed, manager, offered, today>>

\* Mutant: only HR's cancellation gives the leave back.
Cancel_NotReturned(u, r, seen) ==
  LET row == seen.req[r]
  IN  /\ u \in HRs \cup {Owner}
      /\ row.status \in {"PENDING", "APPROVED"}
      /\ row.status = "APPROVED" /\ u \notin HRs => row.first > today
      /\ returned' = [returned EXCEPT ![r] = row.status = "APPROVED" /\ u \in HRs]
      /\ req' = [req EXCEPT ![r].status = "CANCELLED"]
      /\ UNCHANGED <<covered, approvals, usage, credit, closed, manager, offered, today>>

\* The usage found is reversed unless it was before.
Cancel(u, r, seen) ==
  LET row == seen.req[r]
  IN  /\ u \in HRs \cup {Owner}
      /\ row.status \in {"PENDING", "APPROVED"}
      /\ row.status = "APPROVED" /\ u \notin HRs => row.first > today
      /\ IF row.status = "APPROVED" /\ seen.usage[r] # 0
         THEN returned' = [returned EXCEPT ![r] = TRUE]
         ELSE UNCHANGED returned
      /\ req' = [req EXCEPT ![r].status = "CANCELLED"]
      /\ UNCHANGED <<covered, approvals, usage, credit, closed, manager, offered, today>>

----------------------------------------------------------------------------
(* The balance, the calendar and the settings *)

\* HR corrects a balance by hand, or reverses a correction.
Adjust(t, n, seen) ==
  /\ t \in Tracked \cap seen.offered
  /\ n # 0
  /\ credit[t] + n \in -MaxCredit..MaxCredit    \* bound
  /\ credit' = [credit EXCEPT ![t] = credit[t] + n]
  /\ UNCHANGED <<req, covered, approvals, usage, returned, closed, manager, offered, today>>

AddHoliday(d) ==
  /\ closed' = closed \cup {d}
  /\ UNCHANGED <<tables, manager, offered, today>>

RemoveHoliday(d) ==
  /\ d \notin Weekend
  /\ closed' = closed \ {d}
  /\ UNCHANGED <<tables, manager, offered, today>>

ChangeManager(boss) ==
  /\ boss # manager
  /\ manager' = boss
  /\ UNCHANGED <<tables, closed, offered, today>>

RetireType(t) ==
  /\ offered' = offered \ {t}
  /\ UNCHANGED <<tables, closed, manager, today>>

\* The month's accrual is posted before anything else is done with the
\* employee's leave that day (freshCtx).
NextDay ==
  /\ today < Horizon                            \* bound
  /\ today' = today + 1
  /\ credit' = [t \in Tracked |-> IF t \in offered /\ today + 1 \in MonthEnds
                                  THEN credit[t] + MonthlyAccrual ELSE credit[t]]
  /\ UNCHANGED <<req, covered, approvals, usage, returned, closed, manager, offered>>

----------------------------------------------------------------------------

Init ==
  /\ req = [r \in Requests |-> Absent]
  /\ covered = [r \in Requests |-> {}]
  /\ approvals = {}
  /\ usage = [r \in Requests |-> 0]
  /\ returned = [r \in Requests |-> FALSE]
  /\ credit = [t \in Tracked |-> Opening]
  /\ closed = Weekend
  /\ manager \in Managers \cup {NoManager}
  /\ offered = Types
  /\ today = 0

People == HRs \cup Managers \cup {Owner}

RequestStep(r) ==
  \/ \E u \in People, t \in Types, first, last \in Days, flow \in Flows, auto \in BOOLEAN :
       Create(u, r, t, first, last, flow, auto, Now, Now)
  \/ \E u \in People : Approve(u, r, Now, Now)
  \/ \E u \in People : Decline(u, r, Now)
  \/ \E u \in People : Cancel(u, r, Now)

SettingsStep ==
  \/ \E t \in Types, n \in Corrections : Adjust(t, n, Now)
  \/ \E d \in Holidays : AddHoliday(d)
  \/ \E d \in Holidays : RemoveHoliday(d)
  \/ \E boss \in Managers \cup {NoManager} : ChangeManager(boss)
  \/ \E t \in Retirable : RetireType(t)

Next ==
  \/ \E r \in Requests : RequestStep(r)
  \/ SettingsStep
  \/ NextDay

Spec == Init /\ [][Next]_vars

----------------------------------------------------------------------------
(* Properties *)

Rows == [status : Statuses, type : Types, first : Days, last : Days,
         days : Nat, steps : Seq(Roles), step : Nat]

TypeOK ==
  /\ req \in [Requests -> Rows \cup {Absent}]
  /\ covered \in [Requests -> SUBSET Days]
  /\ approvals \subseteq [req : Requests, step : Nat, role : Roles \cup {"AUTO"}, by : People,
                          decision : {"APPROVED", "DECLINED", "AUTO"}]
  /\ usage \in [Requests -> Nat]
  /\ returned \in [Requests -> BOOLEAN]
  /\ credit \in [Tracked -> Int]
  /\ closed \subseteq Days
  /\ manager \in Managers \cup {NoManager}
  /\ offered \subseteq Types
  /\ today \in 0..Horizon

\* No day is booked twice: the days of requests that are pending or approved
\* are disjoint, also after holidays were declared or taken back in between.
NoDoubleBooking ==
  \A r, o \in Standing(req) : r # o => covered[r] \cap covered[o] = {}

\* A request is approved exactly when the ledger holds a usage for it that
\* was not reversed, and then the days that payroll reads, the days on the
\* request and the units taken are the same.
LedgerMatchesCalendar ==
  \A r \in Requests :
    /\ req[r].status = "APPROVED" <=> usage[r] # 0 /\ ~returned[r]
    /\ req[r].status = "APPROVED" => /\ usage[r] = Cardinality(covered[r])
                                     /\ req[r].days = usage[r]

DecisionsOn(r) == {a \in approvals : a.req = r}

\* Leave is approved only when every step of the flow it was made under was
\* approved, none of them by the employee, whoever the manager was meanwhile;
\* without steps it was approved automatically.
AllStepsApproved ==
  \A r \in Requests : req[r].status = "APPROVED" =>
    /\ \A n \in 1..Len(req[r].steps) :
         \E a \in DecisionsOn(r) : /\ a.step = n - 1
                                   /\ a.role = req[r].steps[n]
                                   /\ a.by # Owner
                                   /\ a.decision = "APPROVED"
    /\ req[r].steps = <<>> => \E a \in DecisionsOn(r) : a.decision = "AUTO"

\* A decision is final: after it the request gets no other, and only an
\* approved one can still change, by being cancelled.
DecidedOnce ==
  [][\A r \in Requests : req[r].status \in {"APPROVED", "DECLINED", "CANCELLED"} =>
       /\ DecisionsOn(r)' = DecisionsOn(r)
       /\ req'[r].status = req[r].status
            \/ (req[r].status = "APPROVED" /\ req'[r].status = "CANCELLED")]_vars

\* Units of type t whose leave has started, and what it may cost by now.
Taken(t) ==
  SumFunctionOnSet(usage, {r \in OfType(req, t) : req[r].status = "APPROVED"
                                                  /\ req[r].first <= today})

\* "Accruals still to come between today and the leave start count towards
\* it" (evaluate): leave that has started was earned by then.
LeaveTakenIsEarned == \A t \in Tracked : Taken(t) <= credit[t] + AllowNegative

\* However leave was approved against accruals to come, and as long as HR
\* takes no units away and retires no accruing type: what pending and
\* approved requests starting by day d cost is covered by the balance and by
\* what will have been credited by d. On the last day of a month evaluate
\* counts that day's accrual twice, so the cover may lack one month's accrual,
\* never more.
StartingBy(t, d) ==
  {r \in OfType(req, t) \cap Standing(req) : req[r].first <= d}

Cover(t, d) ==
  credit[t] + AllowNegative
    + MonthlyAccrual * Cardinality({m \in MonthEnds : today < m /\ m <= d})

CoveredButOneMonth ==
  \A t \in Tracked, d \in Days :
    StartingBy(t, d) # {} =>
      Promised(req, StartingBy(t, d)) <= Cover(t, d) + MonthlyAccrual

\* A request is given days of its own and costs what it holds.
Calendar ==
  INSTANCE LeaveCalendar WITH
    booked <- [r \in Requests |-> IF req[r].status = "APPROVED" THEN covered[r] ELSE {}],
    charged <- [r \in Requests |-> IF returned[r] THEN 0 ELSE usage[r]],
    ended <- {r \in Requests : returned[r]}

\* LeaveRequests implements LeaveCalendar.
BooksLeave == Calendar!CSpec
=============================================================================
