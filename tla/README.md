# tmPro in TLA+

tmPro is a multi-tenant HR system: a NestJS API (`src/apps/api`) over PostgreSQL
and a Next.js front end (`src/apps/web`) that shows what the API returns. This
directory models the parts of the API in which money, leave or access depends on
the order of operations, checks them with TLC and proves the central invariants
with TLAPS.

## 1. The system

### How a request runs

Every operation runs in `withTenant` (`apps/api/src/db/client.ts:20-28`): one
PostgreSQL transaction, isolation READ COMMITTED, rows scoped to the tenant. The
services first SELECT, test what they read, then UPDATE by id; no row is locked
and almost no UPDATE repeats its test. Two requests served together can
therefore both pass a test that only one of them should. What does survive
concurrency is what the database enforces: foreign keys, unique indexes, and
single UPDATE statements with their condition in WHERE.

The modules reflect this split. In `PayRun` and `LeaveRequests` each operation is one
action with a parameter `seen`, the rows its transaction read; it tests `seen` and
writes the current tables, exactly the columns the code sets. In the serial modules
`seen` is `Now`; the `...Races` modules hand the same actions rows read some steps
earlier. Where one request makes several transactions, or one transaction reads
long before it writes (`Billing`, `Employment`, `Account`, `Gratuity`), what it has read is
kept in a variable of its own and other requests may commit in between.

### Components

| component | state | operations | correct means |
|---|---|---|---|
| Pay run workflow (`payroll/pay-run-workflow.service.ts`) | `pay_runs`, `payslips`, `pay_run_events`, `payroll_approval_settings`, `payroll_approvers`, `users.can_approve_payroll` | calculate, recalculate, edit, delete, submit, approve, send back, withdraw, reopen, mark paid, settings | approved by as many different people as the submission asked for, none of them its preparer; figures fixed from submission on; paid is final |
| Additions and deductions (`payroll/payroll.service.ts`, `run-helpers.ts`) | `payroll_adjustments`, the snapshot on each payslip | create, edit, cancel; applied and put back by calculations | the counter is what the payslips say; never more than scheduled; a cancellation is final |
| Payroll calculation (`payroll/`, `rulesets/`) | none | day-by-day proration, tax per country | every day of the period is paid at what was in effect that day |
| Leave requests (`leave/leave.service.ts`, `engine/evaluate.ts`) | `leave_requests`, `leave_request_days`, `leave_ledger`, `sick_leave_episodes`, `leave_request_approvals` | create, decide, cancel, adjust, reverse | a request is APPROVED exactly when its days are taken from the balance; no day is booked twice; every approval step decided once |
| Sick leave, leave for events (`evaluate.ts`, `compliance.ts`) | requests, `sick_leave_episodes`, the ledger | the same operations, judged by pay rules | no more pay than the rule allows; one illness is one episode; one birth one entitlement |
| Leave posting engine (`engine/process.ts`, `ledger.ts`) | `leave_ledger`, cycles | accrual, carry-over, expiry, payout, allowance; daily, at start-up and on reads | each due posting exactly once, whoever runs and how often |
| Opening balances (`engine/opening.ts`) | take-on batches | create, post, reverse, adjust | a batch is posted once and a reversal restores the balances |
| Leave policies, calendar, compliance | policies, holidays, assignments | versioned edits, provisioning | a day is judged by the policy version in effect |
| Contracts and gratuity (`contracts/`) | `employee_contracts`, `gratuity_settlements` | add, edit, remove, settle, sync | a contract is settled once and then frozen |
| Billing (`billing/billing.service.ts`) | `tenants` billing columns, `billing_events`; Stripe outside | sign-up, webhooks, plan change, portal | an event is applied once, the tenant ends as its subscription says |
| Authentication (`auth/`) | sessions (JWT), reset tokens, access cache, rate limits | log in, reset password, end access | a token works once; ended access ends sessions within the cache time |
| Seats (`common/seats`, `employees/`) | employees, `tenants.seat_cap` | create an employee, import, change plan | never more seats used than the cap |
| Timesheets, training, requisitions | one status column each | submit, decide, start, complete, publish | decided once; what was decided is what was submitted |
| Employees, settings, performance, marketing, reports, export, platform administration | rows | create, read, update, delete | single rows, no protocol |
| Web application | none | shows and calls | presentation |

Interactions: a calculation settles gratuities and applies adjustments; leave
payouts and gratuities create adjustments; the workflow of a run decides when
its payslips, and with them the adjustments, may change; billing and platform
administration both write a tenant's status; seats link employees and billing.

What is hard: check-then-act on unlocked rows everywhere; histories that decide
later permissions (who prepared a run, which approvals still count); counters
kept beside the facts they count (`appliedCount`, ledger balances); repeated
processing that must post once; webhooks that come twice or out of order.
`PROJECT.json` lists each hazard at its line, with the properties that watch it.

## 2. Plan

Money first, then leave, then access:

1. `PayRun`, `PayRunLifecycle` (abstract), `PayRunRaces`: done, proved.
2. `PayrollAdjustments`: done, proved.
3. `LeaveRequests`, `LeaveCalendar` (abstract), `LeaveRequestsRaces`: done, proved.
4. `LeaveProcess` with take-on batches, against a clerk's day-by-day balance: done,
   all four properties proved.
5. `SickLeave` and `EventLeave`: done, proved.
6. `Employment` and `Account`: access of leavers, reset links, the limiter: done, proved.
7. `Gratuity` on top of `Employment`: done, proved.
8. `Billing` with crashes, retries and a liveness property: done, safety proved.
9. `CalendarDates`: the dates as pure functions, walked day by day: done, proved.

Left: the balance test of allowance requests and half days (with
`LeaveRequests`); two processings of one employee at once (with `LeaveProcess`);
seats, once more than a count and a limit are at stake.

## 3. Modules and code

### PayRun (`payroll/pay-run-workflow.service.ts`, `payroll.service.ts`)

| TLA+ | code |
|---|---|
| `run` | the row of `pay_runs` of one period: status, `preparedByUserId`, `requiredApprovals`, period |
| `slips` | its payslips, as the calculation they come from, its period and its figures (`sheet`) |
| `events` | `pay_run_events`, with the payslips and period a submission saw |
| `settings`, `approvers`, `canApprove` | `payroll_approval_settings`, `payroll_approvers`, `users.can_approve_payroll` |
| `RunPayroll`, `Recalculate`, `UpdateRun`, `DeleteRun` | `runPayroll`, `recalculate`, `updateRun`, `deleteRun` |
| `Submit`, `Approve`, `SendBack`, `Withdraw`, `Reopen`, `MarkPaid` | the methods of those names |
| `SaveSettings`, `SetCanApprove` | `saveSettings`, the user's flag |

A sheet stands for what the workflow tells figures apart by: whether a payslip is
negative (blocks submission) and whether the run is costly (asks for a second
approval). Which of the other checks fail at submission is a free choice.
`PayRunLifecycle` is the diagram: a run is edited as a draft, waits with a fixed
number of approvals to collect, is approved by that many different people, and
is final once paid.

### PayrollAdjustments (`payroll/payroll.service.ts`, `run-helpers.ts`)

`adj[a]` is a row of `payroll_adjustments` (status, `appliedCount`,
`occurrences`), `used[r]` the snapshot on the employee's payslip in run `r`,
`stage[r]` whether that run may still change. `RunPayrollApplies` and
`RecalculateApplies` are what `runPayroll` and `recalculate` do to these rows: they
first put back what the run's payslip lists and then apply what is pending;
`DeleteRunPutsBack` only puts back; `CreateAdjustment`, `UpdateAdjustment` and
`CancelAdjustment` are the three editing operations. The adjustments of one
employee are modelled: employees share nothing but the run.

### LeaveRequests (`leave/leave.service.ts`, `leave/engine`)

| TLA+ | code |
|---|---|
| `req`, `covered` | `leave_requests`, `leave_request_days` of one employee |
| `approvals` | `leave_request_approvals` |
| `usage`, `returned` | the USAGE posting of a request and whether a USAGE_REVERSAL names it |
| `credit[t]` | the sum of all other postings of type `t` |
| `closed` | holidays and non-working days, as `countUnits` sees them |
| `Fits` | `evaluate` finds no error: working days, overlap, balance with projected accruals and pending requests |
| `Finalize` | `finalize`: evaluate again, write the days again, post the usage under its key |
| `Create`, `Approve`, `Decline`, `Cancel`, `Adjust` | `create`, both sides of `decide`, `cancel`, `adjust` |
| `NextDay` | a day begins; `processAccruing` posts the month's accrual before anything else touches the employee's leave |

`LeaveCalendar` knows only booked days, their price and what was given back.

### LeaveProcess (`leave/engine/process.ts`, `ledger.ts`, `opening.ts`)

| TLA+ | code |
|---|---|
| `ledger` | `leave_ledger` of one employee and type; `Post` is `post` with its unique keys |
| `versions` | the versions of the policy, `leftOn` the day after the last one worked |
| `Accrue`, `Grant`, `EndCycle`, `PayOut` | the four phases of `processAccruing`, in that order, each a loop over months or anniversaries (`InTurn`) |
| `Allot` | one turn of `processAllowance` |
| `Process` | `processTenant` for this employee, at any time or never: days without it are days the server was down |
| `CreateBatch`, `PostBatch`, `ReverseBatch`, `DeleteBatch` | take-on batches with one line |
| `Book`, `Cancel`, `UpdatePolicy`, `Leave`, `NextDay` | what the postings react to |
| `additions`, `CreatePayout` | days put on payroll by `createPayout`; nothing on a day without a rate of pay (`RatedDays`), while its caller posts the PAYOUT all the same |

`Clerk` is the reference: the balance of somebody who looks at the calendar every
evening and knows nothing of phases, keys or catching up.

### SickLeave and EventLeave (`evaluate.ts`, `compliance.ts`, `leave.service.ts`)

`SickLeave` has the requests of one employee (`sick`), the pay of each of their
days (`paid`, `leave_request_days`), `episodes`, `postings` and one take-on line.
`PayOf` is `evaluate` for kind EPISODE: a yearly pot with early months and a waiting
time, tiers per illness, or months from the first day of the illness; `Finalize`
judges again at the approval, continues or opens an episode and posts each tier.

`EventLeave` has requests that name an event and whether it was a multiple birth.
`Accepted` and `Pay` are `evaluate` for kind EVENT and `recentEvent`; the allotment
of an event is posted under its date by whichever request is approved first.

### Employment and Account (`employee-history.service.ts`, `auth/`)

| TLA+ | code |
|---|---|
| `history`, `status` | `employee_status_history` by date, and the column copied from it |
| `edit` | an edit between its three steps: history, `Derive` from the latest entry, `WriteStatus` with `forgetAccessCache` |
| `cache`, `lookups` | `employeeAccessEndedCached` of each process, and a request that has read the history and not yet stored the answer |
| `LookUp`, `Remember`, `Login`, `Restart`, `Tick` | requests of a session, sign-in, a process restarting, time |
| `token`, `sent`, `resets` | the reset link of an account, the links that arrived, resets between finding the account and writing the password |
| `hits` | `RateLimitGuard`'s memory of attempts, by time |

`Account` extends `Employment`, because a leaver's request for a link is answered
and ignored, and because restarts and time are common to both.

### Gratuity (`contracts/contracts.service.ts`, `gratuity.ts`)

Also extends `Employment`: a contract falls due at its end or when its employee
leaves, by the status history. `contract`, `pay` and `settled` are the tables,
`job[j]` a settlement that has read the contracts (`SettleBegin`) and not yet
written (`SettleEnd`); `SettleAbort` is its rollback. Everything that changes the
record may commit between the two.

### Billing (`billing/billing.service.ts`, `platform-admin/tenants-admin.service.ts`)

| TLA+ | code |
|---|---|
| `tenants` | status, billing status, band, seat cap and subscription of a row |
| `checkout`, `stripe`, `events` | Stripe: the session, the subscription with a version per change, the events with the subscription as it was |
| `remembered` | `billing_events` |
| `work` | handlers in progress with what they have read; a crash loses them |
| `acked` | events Stripe got its answer for |
| `Signup`, `OpenCheckout`, `Deliver`, `Retrieve`, `Finish`, `Fail` | `signup`, `handleWebhook`, `finalizeCheckout`, `applySubscription`, `onPaymentFailed`, the catch branch; `changePlan` writes twice, the second time as a job of kind `plan` |
| `shown`, `newest` | ghosts: the version of the subscription the row was last written from, and the newest ever written; they differ while something older stands over something newer (`Overtaken`) |
| `Poll`, `ChangePlan` | `checkoutStatus`, `changePlan` |
| `SetStatus`, `UpdateTenant`, `Remove` | the platform owner |

### CalendarDates (`leave/engine/dates.ts`, `ledger.ts`, `process.ts`)

Adding months with clamping, full months between dates, the anniversary cycle of
a date and `cyclesBetween`; `Walk` goes through the calendar day by day. The
other modules count days of equal months and leave what uneven months do here.

### Scenes

The MC modules check several modules, or several settings of one, in one run, one
scene at a time: the scene is chosen in the initial state, its module takes steps
and the others keep their initial state. Nothing a scene leaves out is read by the
module it checks. The scenes are

- `MCPayRun`: `alone` (the workflow, serially), `overlapping` (`PayRunRaces`, on tables
  of its own), `adjustments`;
- `MCLeaveRequests`: `steps` (flows, managers, retired types) and `booking` (holidays,
  month ends, a balance);
- `MCLeaveProcess`: `engine`, `illness`, `event`, and `overlapping`
  (`LeaveRequestsRaces`, on tables of its own);
- `MCRecords`: `history`, `access`, `account`, `gratuity`, `calendar`.

`MCBilling` tells three stories with the one specification: `again` (a second
sign-up), `plans` (changes of plan) and `payments` (payments that fail and are made
good, with an event more).

### Concurrency (`...Races`)

The operations are those of the serial modules, unchanged; the modules add only
when each transaction reads and when it writes. `PayRunRaces` reads twice (the
run row with the time of the transaction, then everything else), because the
methods load the run first and `now()` is the start of the transaction.
`LeaveRequestsRaces` reads at the start and again in `finalize`. Writes happen
together at the commit: READ COMMITTED shows nothing before, and an UPDATE of a
row somebody else has written waits for that commit and then applies to the
current row.

## 4. Runs

| run | asks | states bounded by |
|---|---|---|
| `pay_run` | Three people, two periods, two approval settings and any change of the approver list within the choices: enough approvals, by different people and level by level; the last preparer and the submitter approve nothing; submitted figures, history, refinement of the lifecycle. Any two operations in progress together: nothing left behind by a deleted run. Two adjustments over three runs: counter, schedule, finality of a cancellation. | 6 operations on the run; 5 transactions of two people; adjustments of up to three occurrences |
| `pay_run_race_paid` (violation) | Is PAID final with two requests in progress? | 9 transactions |
| `pay_run_preparer` (violation) | Is everybody who prepared a run kept from approving it? | as `pay_run` |
| `leave_requests` | Flows of no, one and two steps, changing managers, retired types: all steps approved, decisions final. Two requests over four days with two month ends, a holiday declared and taken back, an overdrawn start: double booking, ledger, cover, refinement of the calendar. | 2 days in `steps`; 4 days, balance within 3 in `booking` |
| `leave_earned` (violation) | Is leave that has started always earned? | 5 days |
| `leave_engine` | Does catching up late give the clerk's balance, once, and are payouts on payroll (`Idempotent`, `PayoutsOnLedger`, `AsIfEveryDay`, `AllowanceRight`)? Do episodes, ledger and paid days agree, within the rule (`EpisodesAddUp`, `SickPayWithinEntitlement`)? Do requests for events share their days, and is one of two births near each other unpaid (`EventLeaveRight`)? Do two decisions in progress together ever skip a step (`AllStepsApprovedInRaces`)? | 8 days in two years of two months, one booking, one batch (an empty one late only), one change among 9 policies; 2 sick requests and a batch over 4 days under 4 pay rules; 3 requests for two events under 2 policies; 1 leave request, 2 sessions |
| `payout_without_rate` (violation) | Does every payout reach payroll? | as `leave_engine` |
| `event_in_parts` (violation) | Is leave unpaid only if there was another event? | as `leave_engine` |
| `billing` | Is every event applied once, does the row end as Stripe has it, does who paid get in? | 2 sign-ups or 1 with changes of plan, 4 events, 1 failure; 1 of one size, 5 events, 1 failure |
| `paid_tenant_cleared` (violation) | Does a new sign-up clear away unpaid tenants only? | as `billing` |
| `records` | Is a leaver locked out in time (`LockedOut`), does the column follow the history (`StatusFollowsHistory`), the limiter keep its limit (`AtMostLimit`), a link work once (`LinkServesOnce`), a contract get paid once and rightly (`GratuityPaidOnce`, `GratuityAsDue`), and is every day in one cycle (`AnniversaryCycles`)? | 2 edits, 2 processes, 3 days; 2 links and resets; 1 contract, 2 settlements; 6 years |
| `feb29` (violation) | Does the cycle of a date contain it, if service began on a 29 February? | 5 years |

The passing runs show that the services keep every property stated: one
transaction at a time in the serial modules (`PayRun`, `PayrollAdjustments`,
`LeaveRequests`, `LeaveProcess`, `SickLeave`, `EventLeave`), which say nothing of requests
that overlap; with transactions, handlers and look-ups in progress together in
`PayRunRaces`, `LeaveRequestsRaces`, `Billing`, `Employment`, `Account` and `Gratuity`.
The excuses of the latter are races the code has no defence against, and are listed
under section 7. Deadlock is not checked in the pay run
modules, `leave_engine`, `billing`, `records` and the violation runs: their clocks and events
end, and a paid run or a walked calendar has nothing left to do.

**Why the bounds are enough.** A submission asks for one or two approvals, so
three people (one Admin, two preparers, two approvers, overlapping) give every
combination of preparer, submitter, first and second approver. Six operations hold a
complete approval with a send-back or a recalculation before it, nine the
reopening of a paid run. An adjustment of three occurrences has a first, a middle
and a last application; three runs let one be recalculated while the two others
hold the rest. Two requests are all that overlap and competition for a balance
need; four days hold a month end before, between and at a start of leave, and a
balance starting at -3 makes accruals to come decide. Two transactions are what a
check-then-act race takes.

Eight days of the engine are two years of service with four month ends, an
anniversary caught up on before and after the second, a cut-over inside each year
and a change of policy before and after both. Two illnesses can overlap, link,
swap their approvals and share a cycle with a batch; the third request for an event
is the one made after another was cancelled. Two sign-ups are what clearing out an
earlier one takes; four events are a checkout with its two and one change after
it, or three changes in a wrong order; with five a payment fails, is made good and
the failure arrives last; one failure can hit each step of them. In
`records` the cache time is two ticks and a look-up takes one, so an answer read
before an edit and stored after it expires after the deadline of a wrong model.
The starts of the calendar are the last days of long, short and leap Februaries and
of a year. The proofs (section 6) carry what they state to all sizes.

### What the violations show

- `pay_run_race_paid`: a status tested on a row that is not locked and then written
  by id. The same cause lets payslips be replaced after a submission, one person
  approve twice, two first approvals be given, a one-off addition be paid by two
  calculations, a cancellation of an addition or of leave be overwritten, and two
  leave requests made together take the same days; these have no run of their own.
- `leave_earned`: on the last day of a month the accrual is posted and also still
  counted as to come, so leave may be approved that exceeds what will be earned by
  its start by one month's accrual. `CoveredButOneMonth` (in `leave_requests`) shows
  that it is never more than that one.
- `feb29`: service from a 29 February has its anniversaries clamped to the 28th,
  while months are counted by the day; on that 28th the cycle has ended and the
  next has not begun, and `cyclesBetween` asks for it for ever.
- `pay_run_preparer`: `approvalRight` refuses the last preparer and the last submitter,
  and a recalculation overwrites who prepared the run. Whoever calculated it may
  approve it once somebody else has recalculated and submitted it.
- `payout_without_rate`: `createPayout` returns without an addition if there is nothing to
  pay per day, and its caller posts the PAYOUT: days go and nothing comes for them.
  `PayoutsOnLedger` says how far the two agree: payroll never gets more, and gets all
  if there was a rate every day.
- `event_in_parts`: `recentEvent` does not ask which event a request is for.
- `paid_tenant_cleared`: signing up again deletes the tenant of the earlier sign-up as
  long as it is INCOMPLETE, paid for or not: the webhook may still be on its way.
  `PaidIsOpened` is about tenants that are not removed.

### Seen while modelling, without a run

- `recentEvent` counts every other standing request of the type that starts within
  the years of the window, one for the same birth and a later one included. A
  maternity leave asked for in two parts is paid for one of them only (`event_in_parts`
  shows that much); and if both parts wait together, each approval looks at the
  other and both end unpaid, although `docs/VERSION-LOG.md:2233` promises 56 calendar days on full pay once every
  3 years.
- The allotment of an event is posted once, by the first approval; a later request
  that adds "multiple birth" is granted the extra days but the ledger of the event
  is not enlarged. `EventOnLedger` therefore speaks of events whose requests agree.
- A take-on batch posted with a cut-over inside a month whose accrual was already
  posted keeps that accrual on top of the figure, although `opening.ts:3-8` says the
  result is the same whether or not accruals had been computed.
- `processAccruing` posts all the months it missed and only then ends a year. A type
  with both a highest balance and a carry-over limit therefore gets another balance
  if it is processed late: months after the year end find the balance that was still
  to be cut back, and stop at the highest. No type the system ships has both; the form
  allows it.
- An event is remembered before it is applied: a process that dies in between loses
  it, and the redelivery is answered as a duplicate (`lossy` in `Billing`).
- Two settlements of gratuities at once insert the addition twice, and keep one
  settlement (`overlapped` in `Gratuity`).
- `gratuity.ts:5` promises gratuity "for every month served", but `leftOn` looks at the
  last entry of the status history: an employee who left within the contract and was
  taken on again is paid for the break too, and one entered twice as having left is
  paid up to the later entry (`CameBack` in `GratuityAsDue`).
- `rollbackPayslips` reads the payslips, puts back what they list and then deletes
  all of the run's: payslips another recalculation committed in between go without
  their adjustments being put back (`run-helpers.ts:116`, `:149`).

## 5. Fairness

One module states fairness: `Billing`, with `WF_vars(Handle)` (`Fairness`, in `FairSpec`
and in the `StorySpec` of `MCBilling`, whose stories never hold `Handle` up). `Handle` is
what happens without anybody's decision: Stripe delivers an event until it is
answered, and a handler that has started goes on to its end. Customers, the
platform owner and failures are not in it. Under it `PaidIsOpened` holds: a customer
who has paid does not stay locked out, INCOMPLETE or PAST_DUE, with or without the
success page, unless the subscription ends, the tenant is removed or locked by the
owner, or an event was lost with its process. Failures are bounded by `MaxUpsets`: Stripe does not retry for ever, so a
handler that always fails is outside the promise.

Elsewhere no fairness is assumed and no liveness stated: an HTTP request is made
when somebody makes it, and nothing in these services retries. What must happen
(the month's accrual before leave is looked at) is part of the action it happens
in, as in the code. The daily processing may fail to happen for any time; that is
what `AsIfEveryDay` is about.

## 6. Proofs

Proved with TLAPS for every value of the constants that satisfies the named
assumptions. These ask for finite sets of users and of runs, a set of roles within
the users, numbers where numbers are meant, days within the horizon, no service and no
cut-over before day 0; for sick leave also that a rule per contract is for one year
and early days are earned by some divisor (`SchemeAssumption`: the settings allow
nothing else and `evaluate.ts` puts 26 for a missing divisor), and that the lines of
batches hold no negative figures (`TakeOnAssumption`: `opening.ts` refuses them for
allowances; for sick leave it does not, and nothing is claimed for such a line). For
the bound on gratuity additions the settlements that may be in progress are finitely
many, and `SceneAssumption` says that what the scenes of `MCRecords` name is there.
Sets of requests, adjustments, types, employees, processes, contracts and flows are
arbitrary.

| module | theorems on properties of the runs |
|---|---|
| `PayRun_proofs` | `TypeCorrect`, `ApprovedByEnough`, `NotByLastPreparer`, `PaidAsSubmitted`, `StatusFromHistory`, `LifecycleImplemented`; with requests in progress together `DeletedLeavesNothing` (of `PayRunRaces`, which the scene `overlapping` of `pay_run` instantiates) |
| `PayrollAdjustments_proofs` | `AdjustmentsAreTyped`, `CountersExact`, `NeverMoreThanScheduled`, `CancellationFinal` |
| `LeaveRequests_proofs` | `TypeCorrect`, `NeverBookedTwice`, `LedgerAndCalendarAgree`, `ApprovedStepByStep`, `DecisionIsFinal`, `CalendarImplemented`, `PromisesAreCovered` |
| `SickLeave_proofs` | `EpisodesAreAddedUp`, `SickPayIsWithin` (and `OneEpisodePerIllness`, `DaysAreInside`, which they rest on) |
| `LeaveProcess_proofs` | `ProcessingIsIdempotent`, `PayoutsAreOnLedger`, `AllowancesAreRight`, `LeaveIsAsIfEveryDay`, `EventLeaveIsRight`, `LeaveIsTyped` |
| `Billing_proofs` | `TypeCorrect`, `EventsAppliedOnce`, `RowMirrorsStripe` |
| `Records_proofs` | `StatusIsDerived`, `LeaversAreLockedOut`, `WorksOnce`, `NoMoreThanLimit`, `PaidOnce`, `SettledAsDue`, `CyclesMissNoDay`, `RecordsAreTyped` (and, of each module by itself, `EmploymentIsTyped`, `AccountIsTyped`, `GratuityIsTyped`) |

### Sums and loops

Balances and pay are sums over finite sets (`MapThenSumSet`), loops over dates are
recursive functions, and no induction is available: the library's induction
theorems take an operator. **`Sums_proofs`** therefore works with a smallest
counterexample. Set inclusion is well founded on the subsets of a finite set, so
among the subsets for which a sum has no value, two values, or depends on the
order of its addends there is one all of whose proper subsets behave, and
that is a contradiction. What the other modules cite follows from three facts:
an element adds its figure (`SumAdd`), disjoint sets add up, and equal figures give
equal sums. The loops of the engine (`InTurn`) and the recursion of `PayOf` are treated
the same way, with the least turn at which an invariant would fail and the
greatest day up to which the recursion has a value.

### Pay runs and adjustments

**`PayRun_proofs`**. The properties speak of the latest submission and the approvals
after it. `IInv` adds that every event lies in the past (so a new one is the
latest), that approvals are counted by their approvers, that a waiting run has a
submission which fixed `run.required`, and that no history survives without a run.
Lemmas (`NewSubmission`, `NewApproval`, `OtherEvent`) say what an event does to these
sets; per operation one lemma states its writes, one that the invariant is
kept, one that it refines `PayRunLifecycle`.

`RInv` is the invariant of `PayRunRaces`, where most of `IInv` is false: what a request
read when it began is not what is there when it commits.

**`PayrollAdjustments_proofs`**. `IInv` ties the counter of every row to the number of
payslips that list it and to its status; a calculation is a composition of
putting back and applying, and both change the count of payslips and the counter
by the same amount (`CountAfter`).

### Leave

**`LeaveRequests_proofs`**. Double booking is not inductive as it stands, because
`finalize` writes a request's days again after holidays have changed: `IInv`
keeps the *spans* of standing requests apart (`SpansApart`) and every request's
days within its span (`DaysInSpan`). `LedgerKnowsApproved` says what each status
means for the ledger, and `StepsSoFar` that a waiting request's earlier steps were
approved. `NextKinds` reduces every step to one of four kinds (granted, requested,
advanced, closed) or a step that leaves the requests alone; the invariant, the
action property and the refinement are proved once per kind.

`CInv` adds that finitely many requests have been made and that what is promised by
any day is covered. It has two hypotheses, both about what HR does by hand:
`Corrections \subseteq Nat` (whoever takes units away may take promised ones) and
`Tracked \cap Retirable = {}` (a retired type accrues no more). The run
`leave_requests` has the same setting, and begins overdrawn instead.

**`SickLeave_proofs`**. `SickInv` keeps the open episodes in order (`DatesInOrder`) and approved
days inside theirs (`AllInside`). A request that continues no episode begins
after all of them by more than the link, unless it is backdated; one that
continues an episode continues the last, so stretching it meets nothing. The
counters and the pay are left open by its shape (some numbers, some tiers).

`AddInv` follows every unit of pay through the four places it is written: the counters
of an episode are the figures of its approved requests and of the batch
(`Adds`), and so are its postings (`InLedger`, `BatchInLedger`). `WithinInv` carries the
limits: per cycle and tier for the approved requests together with what a batch
brought (`CyclesIn`), per episode (`Counters`, `MonthsWithin`), and in early months for
the days paid up to any day (`EarlyIn`). Requests are approved in another order than
they are made, but each is judged again at its approval, against everything then in
force, so the last of its days that is paid at a tier counted all the others.
Early months, where the limit grows with the day, are compared by the sets of days
that had been paid (`CoveredBy`).

**`LeaveProcess_proofs`**. `PayInv` says that what is on payroll and the payouts in the
ledger cancel out (`Owes`) as long as there was a rate of pay every day, and otherwise
that payroll has no more. Every turn of every phase is a `Step`: it only adds to
the ledger, keeps the figures whole, leaves the openings alone and owes nothing
new; a chain of steps is a step. For repetition, each turn is shown to find its
key posted, or its guard false, after any further steps; only the payout on leaving
and the expiry of an allowance read a total, and both leave it at most zero.
`AllowInv` is about what an allowance holds: a key is posted once, an allotment is
what the policy of its cycle gives and an expiry is of a cycle that is over
(`Listed`), and as long as no batch is posted nothing is left after an expiry
(`Lapsed`). In an up-to-date ledger no turn of the loop over the cycles has anything
to do (`NothingDue`), and the loop comes to every cycle with a day of eligibility
(`CycleVisited`, by division with remainder), so the cycle has its one allotment and,
once over, its expiry. `AllowanceRight` speaks of policies that keep their waiting time
(`WaitKept`): `processAllowance` reads the version current on the day, and what is
already posted stays prorated from the waiting time of its own day. Without that
condition TLC refutes the property, on a second version with another waiting time.

`AccruInv` is about leave that is earned, where the engine goes by phases and the clerk
by the day. `Due`, `DateOf` and `UnitsFor` say which posting of which phase is due, when it
is dated and what it comes to on the balance it finds. `Booked` keeps the ledger a book
of these: every posting was due and comes to what the entries before it in the order
of the book ask for (`AsDue`), what a posting read is complete (`InOrder`), a payout on leaving
leaves zero and nothing to post (`PaidOff`), and the balance at a cut-over is the figure
of its batch (`TakenOn`). This is what makes it inductive: a posting made late is dated
before entries that are already there, so it must be known that none of them read
the balance it changes. Where no policy has a highest balance, months and grants
read nothing; where none limits what is carried over, year ends read nothing; and
within one phase the loops go by date. That is what `NothingRewritten` asks for. In an
up-to-date ledger everything due is posted, the entries of a day add up to what the clerk
does that evening (`DayBooked`), and the least evening on which book and clerk would differ
is none (`EveryEvening`).

`EventInv` counts, per birth, the days taken against the days granted
(`EventSums`, `EventLines`) and the paid births per window (`PaidOncePerWindow`).

`LeaveIsTyped` is about the whole that `leave_engine` runs, sick leave included. What
the other invariants leave open is where the entries lie: every posting of a loop is
dated up to the day it is made (`Timely`), so that nothing but leave and its return
lies ahead; the days with a pay are those the request asks for (`DaysAreItsOwn`), and
whoever asks for leave for an event has named one.

### Billing and records

**`Billing_proofs`**. `IInv` says that an event is in one handler at most and only while
remembered and unapplied (`OneHandler`, `Remembering`), and that, unless a handler was
lost, what is remembered is applied or in progress and what is acknowledged is
applied (`NothingLost`). Steps are grouped by what they touch: the customer's and the
owner's leave deliveries alone, `Deliver`, `Proceed` and `Trouble` are taken one by
one. `MInv` is about contents: events and handlers carry subscriptions Stripe
really had, by version (`OneTruth`); the present one has been told, or will be
(`LatestTold`, `JobsTell`); and a row that was neither overtaken nor edited
by hand shows the newest event that took effect (`RowFollows`).

**`Records_proofs`**. One invariant for each property. `StatusInv` follows an edit from
transaction to transaction: one that nothing has overtaken is alone with its
employee and about to write the latest entry. `AccessInv`: a look-up that still
answers "employed" began before the access ended (`ReadInTime`), and an answer
remembered was stored no later than the time a look-up takes after it
(`StoredInTime`). A link belongs
to one account, a spent one to none, and of the resets in progress two share a
link only if it is contested. In the limiter's memory, what was forgotten is older
than any window still open. A contract that some settlement has read is unsettled
and read by one settlement, unless two overlapped; what it read is what the
tables still say, unless the record was revised. `CyclesMissNoDay` walks the real
calendar; its hypothesis that service does not start on a 29 February cannot be
dropped, as the run `feb29` shows. The types of the records include a bound that is not
inductive: no contract has more additions than there can be settlements at once.
`Tallied` counts the settlements that still read a contract with them; once it is
settled nobody begins to read it, so their sum no longer grows.

### Only model-checked

- `PaidIsOpened`, with its fairness: liveness is out of the prover's reach.
- `AllStepsApprovedInRaces`.
- The properties refuted by violation runs.

## 7. Not modelled

Whole components:

- *Payroll calculation.* Tax tables, proration and currency are arithmetic on reals per
  country; the workflow depends on signs and thresholds only, which the sheets keep.
- *Seats.* A count compared with a limit; creating, importing and changing plan
  each count in a transaction of their own.
- *Timesheets, training, requisitions, performance, settings, sub-resources of
  employees*: single rows with at most one status, written by one transaction.
- *Marketing, dashboard, reports, export, mail, uploads, guards; the web
  application*: output without state the properties read. The front end holds most
  of the repository's lines and none of its rules.
- *Row-level security and tenants*: every module models one tenant (`Billing` the
  rows of `tenants` themselves); no operation reads or writes another's rows.

Restrictions of the modules:

- `PayRun`: one transaction at a time, where events are created in the order they
  commit. `PayRunRaces` adds the overlaps and states only what they leave true
  (`NothingWithoutRun`) and one thing they do not (`PaidIsFinal`): under overlapping requests
  the properties of `PayRun` fail with the same unlocked writes.
- `PayrollAdjustments`: one transaction at a time; payslips of before v030.A, put back
  by label and amount, and the amounts are left out.
- `LeaveRequests`: one transaction at a time, but for the approval flow (two requests
  submitted or approved together can book the same days and spend the same balance);
  accruing and untracked types; no allowance balances, half days,
  eligibility rules or attachments.
- `LeaveProcess`: one transaction at a time; bookings, changes of policy and leaving
  are dated ahead; nobody books or cancels for somebody who has left; a change of
  policy keeps kind, frequency, cycle, proration and first grant; months are equal;
  of the pay there is only whether a rate is on record on the day.
  `AsIfEveryDay` speaks of ledgers in which nothing was rewritten: either no batch was
  posted and the policies in force do not bound both the balance and what is carried
  over, or they bound neither, the employee stays, and one batch was posted with a
  cut-over at a month end or before service began (section 4 says what happens
  otherwise). `AllowanceRight` speaks of a waiting time that stays.
- `SickLeave`: every day is a working day of one unit, a month is a day; one transaction
  at a time (two approvals at once can open two episodes); the lines of batches
  are sane (`SickAssumption`), which the upload does not test; the policy stays. A
  cancelled request leaves the dates of its episode; an illness approved after one
  that began later opens a second episode (`backdated`).
- `EventLeave`: one transaction at a time, one type, one policy; every day one unit.
- `Billing`: one request of the customer in progress at a time; customer, session and
  row of a sign-up are one step; the clean-up after 30 days and the seat test of a
  plan change are left to chance.
- `Employment`: one entry per date (the form allows more), statuses active and alumni,
  no eviction at 5000 cached answers; edits of one employee's history that overlap, or
  an addition of an older entry, are excused (`astray`); `employees.update` and `forgetAccessCache` are
  one step.
- `Account`: the look-up, test and issue of "Forgot password?" are one step; passwords,
  session tokens and roles are left out; so is the limiter's use on other routes,
  which is the same code. Its key is the e-mail address, the code's address and IP.
  `contested` excuses two requests that find one link at once.
- `Gratuity`: fixed-term contracts; a month of service is a day; the columns
  `syncEmployee` copies onto the employee's row are left out. `overlapped` and `revised`
  excuse settlements that overlap and records changed after they were read, `CameBack`
  employees who left within the contract and whose history goes on.
- `CalendarDates`: starts on 29 February are in `feb29` only.
