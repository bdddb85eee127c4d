-------------------------- MODULE PayrollAdjustments --------------------------
(***************************************************************************)
(* The additions and deductions waiting for one employee (a bonus paid     *)
(* once, an advance taken back over several runs) and the pay runs that    *)
(* use them. A calculation applies every PENDING one and lists it on the   *)
(* payslip; recalculating or deleting the run puts it back.                *)
(*                                                                         *)
(* As in PayRun, "seen" is what a transaction read and the tables are what *)
(* it writes to; here every transaction runs alone (seen = AdjNow).        *)
(* Payslips made before v030.A, which do not name the adjustments they     *)
(* used, are left out, and so are amounts and labels.                      *)
(***************************************************************************)
EXTENDS Naturals, FiniteSets

CONSTANTS
  Adjustments,      \* rows of payroll_adjustments that may be created
  PayRuns,          \* pay runs that may be calculated
  MaxOccurrences    \* bound: pay runs an adjustment may be spread over

ASSUME AdjustmentsAssumption ==
  /\ IsFiniteSet(PayRuns)
  /\ MaxOccurrences \in Nat \ {0}

VARIABLES
  adj,      \* adj[a]: the row of adjustment a
  stage,    \* stage[r]: whether run r exists, and as a draft or locked
  used      \* used[r]: adjustments listed on the employee's payslip in r

adjVars == <<adj, stage, used>>

Rows == [status : {"NONE", "PENDING", "COMPLETED", "CANCELLED"},
         applied : Nat, occurrences : Nat]

AdjNow == [adj |-> adj, stage |-> stage, used |-> used]

----------------------------------------------------------------------------
(* What a calculation and its undoing do to one row *)

Apply(row) ==
  [row EXCEPT !.applied = row.applied + 1,
              !.status = IF row.applied + 1 >= row.occurrences THEN "COMPLETED" ELSE "PENDING"]

\* Mutant: whatever is put back waits again, cancelled or not.
PutBack_Revive(row) ==
  IF row.applied = 0 THEN row ELSE [row EXCEPT !.applied = row.applied - 1, !.status = "PENDING"]

\* Mutant: a completed adjustment is left as it is.
PutBack_NotCompleted(row) ==
  IF row.applied = 0 \/ row.status = "COMPLETED" THEN row
  ELSE [row EXCEPT !.applied = row.applied - 1]

\* Mutant: every application is put back, not the one of this payslip.
PutBack_All(row) ==
  [row EXCEPT !.applied = row.applied - row.occurrences, !.status = "PENDING"]

\* A put-back adjustment waits again unless it was cancelled meanwhile.
PutBack(row) ==
  IF row.applied = 0 THEN row
  ELSE [row EXCEPT !.applied = row.applied - 1,
                   !.status = IF row.status # "CANCELLED" /\ row.applied - 1 < row.occurrences
                              THEN "PENDING" ELSE row.status]

Pending(table) == {a \in Adjustments : table[a].status = "PENDING"}

RolledBack(table, entries) ==
  [a \in Adjustments |-> IF a \in entries THEN PutBack(table[a]) ELSE table[a]]

Calculated(table) ==
  [a \in Adjustments |-> IF a \in Pending(table) THEN Apply(table[a]) ELSE table[a]]

\* The counters and statuses computed from what was read are stored by id.
Store(ids, table) ==
  [a \in Adjustments |->
     IF a \in ids THEN [adj[a] EXCEPT !.applied = table[a].applied, !.status = table[a].status]
                   ELSE adj[a]]

\* Rolls run r back, then calculates it; paid is whether the employee is in
\* the country of the run.
Calculate(r, seen, paid) ==
  LET back    == RolledBack(seen.adj, seen.used[r])
      applied == IF paid THEN Pending(back) ELSE {}
      after   == IF paid THEN Calculated(back) ELSE back
  IN  /\ adj' = Store(seen.used[r] \cup applied, after)
      /\ used' = [used EXCEPT ![r] = applied]

----------------------------------------------------------------------------
(* Operations *)

RunPayrollApplies(r, seen, paid) ==
  /\ stage[r] = "NONE"
  /\ Calculate(r, seen, paid)
  /\ stage' = [stage EXCEPT ![r] = "DRAFT"]

RecalculateApplies(r, seen, paid) ==
  /\ seen.stage[r] = "DRAFT"
  /\ Calculate(r, seen, paid)
  /\ UNCHANGED stage

DeleteRunPutsBack(r, seen) ==
  /\ seen.stage[r] = "DRAFT"
  /\ adj' = Store(seen.used[r], RolledBack(seen.adj, seen.used[r]))
  /\ used' = [used EXCEPT ![r] = {}]
  /\ stage' = [stage EXCEPT ![r] = "NONE"]

\* Submission, approval and payment lock a run (PayRun).
Lock(r) ==
  /\ stage[r] = "DRAFT"
  /\ stage' = [stage EXCEPT ![r] = "LOCKED"]
  /\ UNCHANGED <<adj, used>>

\* Sent back, withdrawn or reopened.
Unlock(r) ==
  /\ stage[r] = "LOCKED"
  /\ stage' = [stage EXCEPT ![r] = "DRAFT"]
  /\ UNCHANGED <<adj, used>>

CreateAdjustment(a, n) ==
  /\ adj[a].status = "NONE"
  /\ adj' = [adj EXCEPT ![a] = [status |-> "PENDING", applied |-> 0, occurrences |-> n]]
  /\ UNCHANGED <<stage, used>>

\* One UPDATE ... WHERE status = 'PENDING'.
CancelAdjustment(a) ==
  /\ adj[a].status = "PENDING"
  /\ adj' = [adj EXCEPT ![a].status = "CANCELLED"]
  /\ UNCHANGED <<stage, used>>

\* Mutant: occurrences may drop below what was already applied.
UpdateAdjustment_Unchecked(a, seen, n) ==
  /\ seen.adj[a].status = "PENDING"
  /\ adj' = [adj EXCEPT ![a].occurrences = n,
                        ![a].status = IF n <= seen.adj[a].applied THEN "COMPLETED" ELSE "PENDING"]
  /\ UNCHANGED <<stage, used>>

UpdateAdjustment(a, seen, n) ==
  /\ seen.adj[a].status = "PENDING"
  /\ n >= seen.adj[a].applied
  /\ adj' = [adj EXCEPT ![a].occurrences = n,
                        ![a].status = IF n <= seen.adj[a].applied THEN "COMPLETED" ELSE "PENDING"]
  /\ UNCHANGED <<stage, used>>

----------------------------------------------------------------------------

AdjInit ==
  /\ adj = [a \in Adjustments |-> [status |-> "NONE", applied |-> 0, occurrences |-> 0]]
  /\ stage = [r \in PayRuns |-> "NONE"]
  /\ used = [r \in PayRuns |-> {}]

RunStep(r) ==
  \/ \E paid \in BOOLEAN : RunPayrollApplies(r, AdjNow, paid)
  \/ \E paid \in BOOLEAN : RecalculateApplies(r, AdjNow, paid)
  \/ DeleteRunPutsBack(r, AdjNow)
  \/ Lock(r)
  \/ Unlock(r)

AdjustmentStep(a) ==
  \/ \E n \in 1..MaxOccurrences : CreateAdjustment(a, n)
  \/ CancelAdjustment(a)
  \/ \E n \in 1..MaxOccurrences : UpdateAdjustment(a, AdjNow, n)

AdjNext ==
  \/ \E r \in PayRuns : RunStep(r)
  \/ \E a \in Adjustments : AdjustmentStep(a)

AdjSpec == AdjInit /\ [][AdjNext]_adjVars

----------------------------------------------------------------------------
(* Properties *)

AdjustmentsTyped ==
  /\ adj \in [Adjustments -> Rows]
  /\ stage \in [PayRuns -> {"NONE", "DRAFT", "LOCKED"}]
  /\ used \in [PayRuns -> SUBSET Adjustments]

RunsWith(a) == {r \in PayRuns : a \in used[r]}

\* The counter of an adjustment is the number of payslips that list it,
\* whatever was recalculated, deleted, cancelled or edited: nothing is paid
\* that is not counted and nothing is counted that is not paid.
AppliedMatchesPayslips ==
  \A a \in Adjustments : adj[a].applied = Cardinality(RunsWith(a))

\* "How many pay runs this should be applied over (1 = a one-off bonus or
\* single deduction": never more than that.
NeverOverApplied ==
  \A a \in Adjustments : Cardinality(RunsWith(a)) <= adj[a].occurrences

\* PENDING is what is still owed: a pending adjustment has applications left,
\* a completed one has none.
PendingIsOwed ==
  \A a \in Adjustments :
    /\ adj[a].status = "PENDING" => adj[a].applied < adj[a].occurrences
    /\ adj[a].status = "COMPLETED" => adj[a].applied = adj[a].occurrences

\* The schedule is kept, whatever is edited while runs are undone and redone:
\* never more than was asked for, and what is left is what is pending.
ScheduleKept == NeverOverApplied /\ PendingIsOwed

\* Once cancelled an adjustment stays cancelled and reaches no further
\* payslip, even if a run that used it is recalculated.
CancelledIsFinal ==
  [][\A a \in Adjustments : adj[a].status = "CANCELLED" =>
       /\ adj'[a].status = "CANCELLED"
       /\ RunsWith(a)' \subseteq RunsWith(a)]_adjVars
=============================================================================
