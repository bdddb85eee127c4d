------------------------------- MODULE PayRun -------------------------------
(***************************************************************************)
(* One pay run of one payroll country, from its calculation to its payment *)
(* (PayRunWorkflowService and the run operations of PayrollService).       *)
(*                                                                         *)
(* Every operation is one database transaction: it reads the rows it needs *)
(* and then writes. An action here takes what its transaction READ as the  *)
(* record "seen" and WRITES the current tables, column by column as the    *)
(* UPDATE statements do. In this module the two coincide (seen = Now: one  *)
(* transaction at a time); PayRunRaces gives the same actions the rows     *)
(* they read some steps earlier.                                           *)
(***************************************************************************)
EXTENDS Naturals, FiniteSets

CONSTANTS
  Users,            \* logins of the tenant
  Admins,           \* those whose role is ADMIN
  Preparers,        \* those whose role is ADMIN or HR
  NoUser,
  Periods,          \* pay periods a run can be given
  Sheets,           \* results of calculating every payslip of a run
  Negative,         \* sheets in which someone's net pay is negative
  Costly,           \* sheets whose total cost is above the tenant's limit
  SettingsChoices,  \* approval settings an Admin may save
  ApproverChoices,  \* approver lists an Admin may save
  Grantable,        \* logins the Permission tab gives or refuses "Can approve payroll"
  MaxClock          \* bound: transactions that write to the run

Levels == {"1", "2", "ANY"}
NotListed == "none"
Statuses == {"NONE", "DRAFT", "SUBMITTED", "APPROVED", "PAID"}
Actions == {"CREATED", "RECALCULATED", "SUBMITTED", "APPROVED", "SENT_BACK", "REOPENED", "PAID"}

\* payroll_approval_settings, with the two optional cost rules as switches.
Settings == [required : 1..2, costLimit : BOOLEAN, increaseLimit : BOOLEAN,
             override : BOOLEAN, preparerRule : BOOLEAN]

ApproverLists == [Users -> Levels \cup {NotListed}]

\* The payslips one calculation made, as one row.
Batches == [calc : Nat, period : Periods, sheet : Sheets]

Runs == [status : Statuses, preparedBy : Users \cup {NoUser},
         required : 0..2, period : Periods]

ASSUME UsersAssumption ==
  /\ IsFiniteSet(Users)
  /\ NoUser \notin Users
  /\ Admins \subseteq Preparers
  /\ Preparers \subseteq Users

ASSUME SheetsAssumption ==
  /\ Periods # {}
  /\ Negative \subseteq Sheets
  /\ Costly \subseteq Sheets

ASSUME ChoicesAssumption ==
  /\ SettingsChoices \subseteq Settings
  /\ ApproverChoices \subseteq ApproverLists
  /\ Grantable \subseteq Users
  /\ MaxClock \in Nat

VARIABLES
  run,         \* the pay_runs row; status "NONE" while there is no such row
  slips,       \* its payslips
  events,      \* its pay_run_events
  settings,    \* payroll_approval_settings of its country
  approvers,   \* payroll_approvers of its country
  canApprove,  \* users.can_approve_payroll
  clock        \* now() of the latest transaction: created_at of its event

rows == <<run, slips, events>>
config == <<settings, approvers, canApprove>>
vars == <<run, slips, events, settings, approvers, canApprove, clock>>

\* Everything a transaction that starts now and meets no other would read.
Now == [at |-> clock + 1, run |-> run, slips |-> slips, events |-> events,
        settings |-> settings, approvers |-> approvers, canApprove |-> canApprove]

----------------------------------------------------------------------------
(* Helpers of the service *)

NoRun(p) == [status |-> "NONE", preparedBy |-> NoUser, required |-> 0, period |-> p]

\* A pay_run_events row. For a submission it also keeps what was submitted
\* and the approvals it asked for, for an approval whether the preparer rule
\* was on: the properties need them, the code does not read them.
Event(seen, action, u) ==
  [at |-> seen.at, action |-> action, by |-> u, level |-> 0, required |-> 0,
   rule |-> FALSE, slips |-> {}, period |-> seen.run.period]

\* Named approvers who still have the permission; with none, every Admin.
ApproversFor(seen) ==
  LET named == {u \in Users : seen.approvers[u] # NotListed /\ seen.canApprove[u]}
  IN  IF named # {} THEN [u \in named |-> seen.approvers[u]]
                    ELSE [u \in Admins |-> "ANY"]

Submissions(ev) == {e \in ev : e.action = "SUBMITTED"}

\* The latest submission, as a set of at most one event.
LastSubmission(ev) ==
  {s \in Submissions(ev) : \A t \in Submissions(ev) : t.at <= s.at}

\* currentApprovals: approvals recorded after the latest submission.
CurrentApprovals(ev) ==
  {e \in ev : /\ e.action = "APPROVED"
              /\ \E s \in LastSubmission(ev) : s.at < e.at}

Approved(ev) == {e.by : e \in CurrentApprovals(ev)}

\* Mutant: approvals of earlier submissions count as well.
NextLevel_All(seen) == Cardinality({e \in seen.events : e.action = "APPROVED"}) + 1

\* approvals.length + 1
NextLevel(seen) == Cardinality(CurrentApprovals(seen.events)) + 1

\* Mutant: the settings of the day instead of what the submission fixed.
Required_Live(seen) == seen.settings.required

\* run.approvalsRequired ?? settings.approvalsRequired
Required(seen) ==
  IF seen.run.required = 0 THEN seen.settings.required ELSE seen.run.required

\* Mutant: whoever submitted the run may approve it.
Prepared_NotSubmitter(seen, u) == seen.run.preparedBy = u

Prepared(seen, u) ==
  \/ seen.run.preparedBy = u
  \/ \E s \in LastSubmission(seen.events) : s.by = u

\* Mutant: a submitted run is still open to changes.
IsDraft_OrSubmitted(seen) == seen.run.status \in {"DRAFT", "SUBMITTED"}

\* The guard of every operation that changes what a run says.
IsDraft(seen) == seen.run.status = "DRAFT"

\* The guard of every operation that decides on a submission.
IsSubmitted(seen) == seen.run.status = "SUBMITTED"

\* Mutant: a paid run can be reopened.
IsApproved_OrPaid(seen) == seen.run.status \in {"APPROVED", "PAID"}

IsApproved(seen) == seen.run.status = "APPROVED"

LevelName(n) == IF n = 1 THEN "1" ELSE IF n = 2 THEN "2" ELSE "above"

MayApprove(seen, u) ==
  /\ IsSubmitted(seen)
  /\ u \in DOMAIN ApproversFor(seen)
  /\ u \notin Approved(seen.events)
  /\ ~(seen.settings.preparerRule /\ Prepared(seen, u))
  /\ Required(seen) > 1 => ApproversFor(seen)[u] \in {"ANY", LevelName(NextLevel(seen))}

\* What calculate may make of the employees' records of the day: payslips, or none.
Calculations(seen, period) ==
  {{}} \cup {{[calc |-> seen.at, period |-> period, sheet |-> s]} : s \in Sheets}

\* The blocking check: somebody's net pay is negative.
Blocked(seen) == \E b \in seen.slips : b.sheet \in Negative

\* Mutant: an accepted check asks for one more approval, without the limit of two.
RequiredOnSubmit_Added(seen, checks, increase) ==
  seen.settings.required + (IF checks THEN 1 ELSE 0)

\* Approvals a submission asks for: checks (items to accept, some of them
\* about employee records) and increase (cost against the previous run) come
\* from outside this run.
RequiredOnSubmit(seen, checks, increase) ==
  IF \/ seen.settings.required >= 2
     \/ seen.settings.costLimit /\ \E b \in seen.slips : b.sheet \in Costly
     \/ seen.settings.increaseLimit /\ increase
     \/ seen.settings.override /\ checks
  THEN 2 ELSE 1

----------------------------------------------------------------------------
(* Operations on the run *)

RunPayroll(u, seen, p, made) ==
  /\ u \in Preparers
  /\ run.status = "NONE"
  /\ run' = [status |-> "DRAFT", preparedBy |-> u, required |-> 0, period |-> p]
  /\ slips' = made
  /\ events' = {[Event(seen, "CREATED", u) EXCEPT !.period = p]}
  /\ UNCHANGED config

\* Mutant: payslips and events without their foreign key to the run.
Recalculate_Unbound(u, seen, made) ==
  /\ u \in Preparers
  /\ IsDraft(seen)
  /\ run' = IF run.status = "NONE" THEN run ELSE [run EXCEPT !.preparedBy = u]
  /\ slips' = (slips \ seen.slips) \cup made
  /\ events' = events \cup {Event(seen, "RECALCULATED", u)}
  /\ UNCHANGED config

\* The payslips that were read are put back and deleted. Of those committed
\* since (late), the DELETE also takes the ones it finds, which are not put
\* back; the others stay. Without the run's row the new payslips and the event
\* have nothing to refer to, and the transaction fails.
Recalculate(u, seen, made) ==
  /\ u \in Preparers
  /\ IsDraft(seen)
  /\ run.status # "NONE"
  /\ run' = [run EXCEPT !.preparedBy = u]
  /\ \E late \in SUBSET (slips \ seen.slips) : slips' = (slips \ (seen.slips \cup late)) \cup made
  /\ events' = events \cup {Event(seen, "RECALCULATED", u)}
  /\ UNCHANGED config

UpdateRun(u, seen, p) ==
  /\ u \in Preparers
  /\ IsDraft(seen)
  /\ run.status # "NONE"
  /\ run' = [run EXCEPT !.period = p]
  /\ UNCHANGED <<slips, events, config>>

\* Deletes every payslip it finds, read or not. One that is committed too late
\* to be found keeps the row from being deleted (foreign key), and the
\* transaction fails: otherwise all are gone.
DeleteRun(u, seen) ==
  /\ u \in Preparers
  /\ IsDraft(seen)
  /\ run.status # "NONE"
  /\ run' = NoRun(run.period)
  /\ slips' = {}
  /\ events' = {}
  /\ UNCHANGED config

Submit(u, seen, checks, increase) ==
  LET n == RequiredOnSubmit(seen, checks, increase) IN
  /\ u \in Preparers
  /\ IsDraft(seen)
  /\ seen.slips # {}
  /\ ~Blocked(seen)
  /\ run.status # "NONE"
  /\ run' = [run EXCEPT !.status = "SUBMITTED", !.required = n]
  /\ events' = events \cup
       {[Event(seen, "SUBMITTED", u) EXCEPT !.required = n, !.slips = seen.slips]}
  /\ UNCHANGED <<slips, config>>

Approve(u, seen) ==
  /\ MayApprove(seen, u)
  /\ run.status # "NONE"
  /\ events' = events \cup
       {[Event(seen, "APPROVED", u) EXCEPT !.level = NextLevel(seen), !.rule = seen.settings.preparerRule]}
  /\ run' = IF NextLevel(seen) >= Required(seen) THEN [run EXCEPT !.status = "APPROVED"] ELSE run
  /\ UNCHANGED <<slips, config>>

SendBack(u, seen) ==
  /\ IsSubmitted(seen)
  /\ u \in DOMAIN ApproversFor(seen) \cup Admins
  /\ run.status # "NONE"
  /\ run' = [run EXCEPT !.status = "DRAFT"]
  /\ events' = events \cup {Event(seen, "SENT_BACK", u)}
  /\ UNCHANGED <<slips, config>>

Withdraw(u, seen) ==
  /\ u \in Preparers
  /\ IsSubmitted(seen)
  /\ run.status # "NONE"
  /\ run' = [run EXCEPT !.status = "DRAFT"]
  /\ events' = events \cup {Event(seen, "REOPENED", u)}
  /\ UNCHANGED <<slips, config>>

Reopen(u, seen) ==
  /\ IsApproved(seen)
  /\ u \in DOMAIN ApproversFor(seen) \cup Admins
  /\ run.status # "NONE"
  /\ run' = [run EXCEPT !.status = "DRAFT", !.required = 0]
  /\ events' = events \cup {Event(seen, "REOPENED", u)}
  /\ UNCHANGED <<slips, config>>

MarkPaid(u, seen) ==
  /\ u \in Preparers
  /\ IsApproved(seen)
  /\ run.status # "NONE"
  /\ run' = [run EXCEPT !.status = "PAID"]
  /\ events' = events \cup {Event(seen, "PAID", u)}
  /\ UNCHANGED <<slips, config>>

----------------------------------------------------------------------------
(* Who may approve: Settings -> Payroll and the Permission tab, Admin only *)

SaveSettings(s, list) ==
  /\ \A u \in Users : list[u] # NotListed => canApprove[u]
  /\ settings' = s
  /\ approvers' = list
  /\ UNCHANGED <<rows, canApprove, clock>>

\* Switching it off also takes the person off the approver list.
SetCanApprove(u, value) ==
  /\ canApprove' = [canApprove EXCEPT ![u] = value]
  /\ approvers' = IF value THEN approvers ELSE [approvers EXCEPT ![u] = NotListed]
  /\ UNCHANGED <<rows, settings, clock>>

----------------------------------------------------------------------------

\* The tenant comes with any settings and approver list it may have saved. A
\* run made before approvals existed is APPROVED or PAID with no history.
Init ==
  /\ settings \in SettingsChoices
  /\ approvers \in ApproverChoices
  /\ canApprove = [u \in Users |-> approvers[u] # NotListed]
  /\ clock = 0
  /\ events = {}
  /\ \E p \in Periods :
       \/ /\ run = NoRun(p)
          /\ slips = {}
       \/ \E status \in {"APPROVED", "PAID"}, s \in Sheets :
            /\ run = [NoRun(p) EXCEPT !.status = status]
            /\ slips = {[calc |-> 0, period |-> p, sheet |-> s]}

\* One transaction of user u, alone.
Operation(u) ==
  \/ \E p \in Periods : \E made \in Calculations(Now, p) : RunPayroll(u, Now, p, made)
  \/ \E made \in Calculations(Now, run.period) : Recalculate(u, Now, made)
  \/ \E p \in Periods : UpdateRun(u, Now, p)
  \/ DeleteRun(u, Now)
  \/ \E checks, increase \in BOOLEAN : Submit(u, Now, checks, increase)
  \/ Approve(u, Now)
  \/ SendBack(u, Now)
  \/ Withdraw(u, Now)
  \/ Reopen(u, Now)
  \/ MarkPaid(u, Now)

Serve(u) ==
  /\ clock < MaxClock
  /\ clock' = clock + 1
  /\ Operation(u)

Next ==
  \/ \E u \in Users : Serve(u)
  \/ \E s \in SettingsChoices : \E list \in ApproverChoices \cup {approvers} : SaveSettings(s, list)
  \/ \E u \in Grantable, value \in BOOLEAN : SetCanApprove(u, value)

Spec == Init /\ [][Next]_vars

----------------------------------------------------------------------------
(* Properties *)

TypeOK ==
  /\ run \in Runs
  /\ slips \in SUBSET Batches
  /\ events \in SUBSET [at : Nat, action : Actions, by : Users, level : Nat, required : 0..2,
                        rule : BOOLEAN, slips : SUBSET Batches, period : Periods]
  /\ settings \in Settings
  /\ approvers \in ApproverLists
  /\ canApprove \in [Users -> BOOLEAN]
  /\ clock \in Nat

Locked == run.status \in {"SUBMITTED", "APPROVED", "PAID"}

\* While it waits, a run has fewer approvers than its submission asked for;
\* once APPROVED or PAID it has exactly that many, each a different person,
\* whatever happened to the settings and the approver list in between.
EnoughApprovers ==
  \A s \in LastSubmission(events) :
    /\ run.status = "SUBMITTED" => Cardinality(Approved(events)) < s.required
    /\ run.status \in {"APPROVED", "PAID"} => Cardinality(Approved(events)) = s.required

\* The approvals of a run are numbered 1, 2: nobody's approval is counted
\* twice and none fills the place of another.
LevelsInOrder ==
  LET current == CurrentApprovals(events) IN
  Locked => /\ {e.level : e \in current} = 1..Cardinality(current)
            /\ \A e, f \in current : e.by = f.by => e = f

\* As many different people as were asked for have approved, each at a level
\* of their own, and the run left SUBMITTED exactly when the last of them did.
FullyApproved == EnoughApprovers /\ LevelsInOrder

\* Two hands, at least: no approval that stands, given with the preparer rule
\* on, comes from the last person who calculated the run or from the one whose
\* submission it approves, whatever sequence of recalculations, submissions
\* and withdrawals by several preparers came before.
LastPreparerNeverApproves ==
  Locked => \A e \in CurrentApprovals(events) : e.rule =>
              /\ e.by # run.preparedBy
              /\ \A s \in LastSubmission(events) : e.by # s.by

\* docs/VERSION-LOG.md v030.A: "the preparer (whoever calculated, recalculated
\* or submitted the run) can't approve it". Whoever did any of that before an
\* approval that stands, given with the rule on, is not the one who gave it.
NoPreparerApproves ==
  \A e \in CurrentApprovals(events), w \in events :
    e.rule /\ w.at < e.at /\ w.action \in {"CREATED", "RECALCULATED", "SUBMITTED"} => w.by # e.by

\* A run that waits, is approved or is paid says exactly what was checked at
\* its submission: same period, same payslips, none of them negative.
FiguresAsSubmitted ==
  Locked => \A s \in LastSubmission(events) :
              /\ run.period = s.period
              /\ slips = s.slips
              /\ slips # {}
              /\ \A b \in slips : b.sheet \notin Negative

\* The history explains the status: the latest event leads to it.
StatusAfter(e) ==
  CASE e.action = "SUBMITTED" -> "SUBMITTED"
    [] e.action = "PAID" -> "PAID"
    [] e.action = "APPROVED" ->
         IF \A s \in LastSubmission(events) : e.level >= s.required THEN "APPROVED" ELSE "SUBMITTED"
    [] OTHER -> "DRAFT"

HistoryExplainsStatus ==
  \A e \in events : (\A f \in events : f.at <= e.at) => run.status = StatusAfter(e)

\* The workflow implements its diagram: a run changes only as a draft, is
\* approved by as many different people as its submission asked for, and is
\* final once paid.
Lifecycle == INSTANCE PayRunLifecycle WITH
  Figures <- [period : Periods, slips : SUBSET Batches],
  stage   <- run.status,
  figures <- [period |-> run.period, slips |-> slips],
  needed  <- IF Locked THEN run.required ELSE 0,
  given   <- IF Locked THEN Approved(events) ELSE {}

ImplementsLifecycle == Lifecycle!LSpec
=============================================================================
