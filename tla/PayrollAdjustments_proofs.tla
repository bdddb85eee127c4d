---------------------- MODULE PayrollAdjustments_proofs ----------------------
(***************************************************************************)
(* Proofs about PayrollAdjustments, for any adjustments, any finite set of *)
(* pay runs and any number of occurrences. The counter of an adjustment is *)
(* the number of payslips that list it; with what each status says of the  *)
(* counter this is inductive.                                              *)
(***************************************************************************)
EXTENDS PayrollAdjustments, FiniteSetTheorems, TLAPS

\* A row that does not exist yet has not been applied.
FreshIsUnused == \A a \in Adjustments : adj[a].status = "NONE" => adj[a].applied = 0

\* No row counts more than it should be applied.
CountWithinOccurrences == \A a \in Adjustments : adj[a].applied <= adj[a].occurrences

IInv ==
  /\ AdjustmentsTyped
  /\ FreshIsUnused
  /\ CountWithinOccurrences
  /\ PendingIsOwed
  /\ AppliedMatchesPayslips

\* What the invariant says of one row.
GoodRow(row) ==
  /\ row \in Rows
  /\ row.status = "NONE" => row.applied = 0
  /\ row.applied <= row.occurrences
  /\ row.status = "PENDING" => row.applied < row.occurrences
  /\ row.status = "COMPLETED" => row.applied = row.occurrences

LEMMA RowsAreGood ==
  IInv <=> /\ AdjustmentsTyped
           /\ \A a \in Adjustments : GoodRow(adj[a])
           /\ AppliedMatchesPayslips
  BY DEF IInv, GoodRow, AdjustmentsTyped, FreshIsUnused, CountWithinOccurrences, PendingIsOwed

----------------------------------------------------------------------------
(* Rows *)

\* Applying a pending row keeps it good and counts one more.
LEMMA ApplyRow ==
  ASSUME NEW row, GoodRow(row), row.status = "PENDING", NEW new, new = Apply(row)
  PROVE  GoodRow(new) /\ new.applied = row.applied + 1 /\ new.occurrences = row.occurrences
         /\ new.status \in {"PENDING", "COMPLETED"}
<1>1. /\ new \in Rows /\ new.applied = row.applied + 1 /\ new.occurrences = row.occurrences
      /\ new.status = IF row.applied + 1 >= row.occurrences THEN "COMPLETED" ELSE "PENDING"
  <2>1. PICK n : n = row.applied + 1
    OBVIOUS
  <2>2. PICK status : status = IF n >= row.occurrences THEN "COMPLETED" ELSE "PENDING"
    OBVIOUS
  <2>3. row \in Rows /\ n \in Nat
    BY <2>1 DEF GoodRow, Rows
  <2>4. new = [row EXCEPT !.applied = n, !.status = status]
    BY <2>1, <2>2 DEF Apply
  <2>5. new \in Rows /\ new.applied = n /\ new.status = status /\ new.occurrences = row.occurrences
    BY <2>2, <2>3, <2>4 DEF Rows
  <2> QED
    BY <2>1, <2>2, <2>5
<1> QED
  BY <1>1 DEF GoodRow, Rows

\* Putting a used row back keeps it good, counts one less and never revives
\* a cancelled one.
LEMMA PutBackRow ==
  ASSUME NEW row, GoodRow(row), row.applied > 0, NEW new, new = PutBack(row)
  PROVE  GoodRow(new) /\ new.applied = row.applied - 1 /\ new.occurrences = row.occurrences
         /\ new.status = IF row.status = "CANCELLED" THEN "CANCELLED" ELSE "PENDING"
<1>1. row.applied \in Nat /\ row.occurrences \in Nat /\ row.applied <= row.occurrences
      /\ row.status \in {"PENDING", "COMPLETED", "CANCELLED"}
  BY DEF GoodRow, Rows
<1>2. row.applied - 1 \in Nat /\ row.applied - 1 < row.occurrences /\ row.applied # 0
  BY <1>1
<1>3. PICK status : status = IF row.status # "CANCELLED" /\ row.applied - 1 < row.occurrences
                             THEN "PENDING" ELSE row.status
  OBVIOUS
<1>4. status = IF row.status = "CANCELLED" THEN "CANCELLED" ELSE "PENDING"
  BY <1>2, <1>3
<1>5. PICK n : n = row.applied - 1
  OBVIOUS
<1>6. new = [row EXCEPT !.applied = n, !.status = status]
  BY <1>2, <1>3, <1>5 DEF PutBack
<1>7. /\ new \in Rows /\ new.applied = n /\ new.occurrences = row.occurrences
      /\ new.status = status
  BY <1>2, <1>4, <1>5, <1>6 DEF GoodRow, Rows
<1> QED
  BY <1>1, <1>2, <1>4, <1>5, <1>7 DEF GoodRow

\* Storing the counter and status computed for a row stores that row.
LEMMA StoredRow ==
  ASSUME NEW row \in Rows, NEW to \in Rows, to.occurrences = row.occurrences,
         NEW new, new = [row EXCEPT !.applied = to.applied, !.status = to.status]
  PROVE  new = to
<1>1. PICK n : n = to.applied
  OBVIOUS
<1>2. PICK status : status = to.status
  OBVIOUS
<1>3. /\ new \in Rows /\ new.applied = n /\ new.status = status /\ new.occurrences = row.occurrences
  BY <1>1, <1>2 DEF Rows
<1> QED
  BY <1>1, <1>2, <1>3 DEF Rows

----------------------------------------------------------------------------
(* Calculations *)

\* A listed adjustment has been applied.
LEMMA ListedIsApplied ==
  ASSUME IInv, NEW r \in PayRuns, NEW a \in used[r], a \in Adjustments
  PROVE  adj[a].applied > 0
<1>1. r \in RunsWith(a) /\ IsFiniteSet(RunsWith(a))
  BY FS_Subset, AdjustmentsAssumption DEF RunsWith
<1>2. Cardinality(RunsWith(a)) \in Nat /\ Cardinality(RunsWith(a)) # 0
  BY <1>1, FS_CardinalityType, FS_EmptySet
<1> QED
  BY <1>2 DEF IInv, AppliedMatchesPayslips

\* The row of a after run r was rolled back.
Undone(r, a) == IF a \in used[r] THEN PutBack(adj[a]) ELSE adj[a]

LEMMA UndoneRow ==
  ASSUME IInv, NEW r \in PayRuns, NEW a \in Adjustments
  PROVE  /\ GoodRow(Undone(r, a))
         /\ Undone(r, a).applied = IF a \in used[r] THEN adj[a].applied - 1 ELSE adj[a].applied
         /\ Undone(r, a).occurrences = adj[a].occurrences
         /\ adj[a].status = "CANCELLED" => Undone(r, a).status = "CANCELLED"
<1>1. GoodRow(adj[a])
  BY RowsAreGood
<1>2. CASE a \in used[r]
  BY <1>1, <1>2, ListedIsApplied, PutBackRow DEF Undone
<1>3. CASE a \notin used[r]
  BY <1>1, <1>3 DEF Undone
<1> QED
  BY <1>2, <1>3

\* What rolling a run back and calculating it does to one adjustment.
LEMMA CalculateRow ==
  ASSUME IInv, NEW r \in PayRuns, NEW paid \in BOOLEAN, Calculate(r, AdjNow, paid),
         NEW a \in Adjustments
  PROVE  LET uses == paid /\ Undone(r, a).status = "PENDING"
         IN  /\ GoodRow(adj'[a])
             /\ adj'[a].applied = IF uses THEN Undone(r, a).applied + 1 ELSE Undone(r, a).applied
             /\ adj[a].status = "CANCELLED" => adj'[a].status = "CANCELLED" /\ ~uses
             /\ a \in used'[r] <=> uses
<1> DEFINE back == RolledBack(adj, used[r])
           applied == IF paid THEN Pending(back) ELSE {}
           after == IF paid THEN Calculated(back) ELSE back
           uses == paid /\ Undone(r, a).status = "PENDING"
<1>1. adj' = Store(used[r] \cup applied, after) /\ used' = [used EXCEPT ![r] = applied]
  BY DEF Calculate, AdjNow
<1>2. \A b \in Adjustments : back[b] = Undone(r, b)
  BY DEF RolledBack, Undone
<1>3. a \in applied <=> uses
  BY <1>2 DEF Pending
<1>4. after[a] = IF uses THEN Apply(Undone(r, a)) ELSE Undone(r, a)
  BY <1>2 DEF Calculated, Pending
<1>5. adj'[a] = IF a \in used[r] \cup applied
                THEN [adj[a] EXCEPT !.applied = after[a].applied, !.status = after[a].status]
                ELSE adj[a]
  BY <1>1 DEF Store
<1>6. used'[r] = applied
  BY <1>1 DEF IInv, AdjustmentsTyped
<1> HIDE DEF after, applied, back
<1>7. GoodRow(Undone(r, a)) /\ Undone(r, a).occurrences = adj[a].occurrences
  BY UndoneRow
<1>8. /\ GoodRow(after[a]) /\ after[a].occurrences = adj[a].occurrences
      /\ after[a].applied = IF uses THEN Undone(r, a).applied + 1 ELSE Undone(r, a).applied
      /\ ~uses => after[a] = Undone(r, a)
  <2>1. CASE uses
    BY <1>4, <1>7, <2>1, ApplyRow
  <2>2. CASE ~uses
    BY <1>4, <1>7, <2>2
  <2> QED
    BY <2>1, <2>2
<1>9. adj'[a] = after[a]
  <2>1. CASE a \in used[r] \cup applied
    <3>1. adj[a] \in Rows /\ after[a] \in Rows
      BY <1>8 DEF IInv, AdjustmentsTyped, GoodRow
    <3> QED
      BY <1>5, <1>8, <2>1, <3>1, StoredRow
  <2>2. CASE a \notin used[r] \cup applied
    BY <1>3, <1>4, <1>5, <2>2 DEF Undone
  <2> QED
    BY <2>1, <2>2
<1>10. adj[a].status = "CANCELLED" => Undone(r, a).status = "CANCELLED"
  BY UndoneRow
<1> QED
  BY <1>3, <1>6, <1>8, <1>9, <1>10

\* Replacing what one run uses changes the payslips of an adjustment by one
\* at most, as its counter does.
LEMMA CountAfter ==
  ASSUME AdjustmentsTyped, NEW r \in PayRuns, NEW a \in Adjustments,
         used' = [used EXCEPT ![r] = used'[r]]
  PROVE  /\ Cardinality(RunsWith(a)) \in Nat
         /\ Cardinality(RunsWith(a)') =
              Cardinality(RunsWith(a)) + (IF a \in used'[r] THEN 1 ELSE 0)
                                       - (IF a \in used[r] THEN 1 ELSE 0)
<1>1. /\ RunsWith(a)' = IF a \in used'[r] THEN RunsWith(a) \cup {r} ELSE RunsWith(a) \ {r}
      /\ r \in RunsWith(a) <=> a \in used[r]
  <2>1. \A q \in PayRuns : q # r => used'[q] = used[q]
    BY DEF AdjustmentsTyped
  <2> QED
    BY <2>1 DEF RunsWith
<1>2. IsFiniteSet(RunsWith(a)) /\ Cardinality(RunsWith(a)) \in Nat
  BY FS_Subset, FS_CardinalityType, AdjustmentsAssumption DEF RunsWith
<1>3. CASE a \in used'[r] /\ a \notin used[r]
  BY <1>1, <1>2, <1>3, FS_AddElement
<1>4. CASE a \notin used'[r] /\ a \in used[r]
  <2>1. RunsWith(a)' = RunsWith(a) \ {r} /\ r \in RunsWith(a)
    BY <1>1, <1>4
  <2>2. Cardinality(RunsWith(a) \ {r}) = Cardinality(RunsWith(a)) - 1
    BY <1>2, <2>1, FS_RemoveElement
  <2> QED
    BY <1>2, <1>4, <2>1, <2>2
<1>5. CASE a \in used'[r] /\ a \in used[r]
  <2>1. RunsWith(a)' = RunsWith(a)
    BY <1>1, <1>5
  <2> QED
    BY <1>2, <1>5, <2>1
<1>6. CASE a \notin used'[r] /\ a \notin used[r]
  <2>1. RunsWith(a)' = RunsWith(a)
    BY <1>1, <1>6
  <2> QED
    BY <1>2, <1>6, <2>1
<1> QED
  BY <1>3, <1>4, <1>5, <1>6

\* A table whose rows count as one run's payslip changed is good again.
LEMMA RunStepIInv ==
  ASSUME IInv, NEW r \in PayRuns, AdjustmentsTyped', used' = [used EXCEPT ![r] = used'[r]],
         \A a \in Adjustments :
           /\ GoodRow(adj'[a])
           /\ adj'[a].applied = adj[a].applied + (IF a \in used'[r] THEN 1 ELSE 0)
                                               - (IF a \in used[r] THEN 1 ELSE 0)
  PROVE  IInv'
<1>1. AdjustmentsTyped
  BY DEF IInv
<1>2. \A a \in Adjustments : adj'[a].applied = Cardinality(RunsWith(a)')
  BY <1>1, CountAfter DEF IInv, AppliedMatchesPayslips
<1>3. AppliedMatchesPayslips'
  BY <1>2 DEF AppliedMatchesPayslips
<1>4. FreshIsUnused' /\ CountWithinOccurrences' /\ PendingIsOwed'
  BY DEF GoodRow, FreshIsUnused, CountWithinOccurrences, PendingIsOwed
<1> QED
  BY <1>3, <1>4 DEF IInv

LEMMA CalculateIInv ==
  ASSUME IInv, NEW r \in PayRuns, NEW paid \in BOOLEAN, Calculate(r, AdjNow, paid),
         stage' \in [PayRuns -> {"NONE", "DRAFT", "LOCKED"}]
  PROVE  /\ IInv'
         /\ \A a \in Adjustments : adj[a].status = "CANCELLED" =>
              adj'[a].status = "CANCELLED" /\ RunsWith(a)' \subseteq RunsWith(a)
<1>1. /\ used' = [used EXCEPT ![r] = used'[r]] /\ used'[r] \in SUBSET Adjustments
      /\ adj' = [a \in Adjustments |-> adj'[a]]
  BY DEF Calculate, Store, Pending, IInv, AdjustmentsTyped
<1>2. \A a \in Adjustments :
        /\ GoodRow(adj'[a])
        /\ adj'[a].applied = adj[a].applied + (IF a \in used'[r] THEN 1 ELSE 0)
                                            - (IF a \in used[r] THEN 1 ELSE 0)
        /\ adj[a].status = "CANCELLED" => adj'[a].status = "CANCELLED" /\ a \notin used'[r]
  <2> SUFFICES ASSUME NEW a \in Adjustments
               PROVE  /\ GoodRow(adj'[a])
                      /\ adj'[a].applied = adj[a].applied + (IF a \in used'[r] THEN 1 ELSE 0)
                                                          - (IF a \in used[r] THEN 1 ELSE 0)
                      /\ adj[a].status = "CANCELLED" => adj'[a].status = "CANCELLED" /\ a \notin used'[r]
    OBVIOUS
  <2>1. PICK uses \in BOOLEAN : uses <=> paid /\ Undone(r, a).status = "PENDING"
    OBVIOUS
  <2>2. /\ GoodRow(adj'[a])
        /\ adj'[a].applied = IF uses THEN Undone(r, a).applied + 1 ELSE Undone(r, a).applied
        /\ adj[a].status = "CANCELLED" => adj'[a].status = "CANCELLED" /\ ~uses
        /\ a \in used'[r] <=> uses
    BY <2>1, CalculateRow
  <2>3. Undone(r, a).applied = IF a \in used[r] THEN adj[a].applied - 1 ELSE adj[a].applied
    BY UndoneRow
  <2>4. adj[a].applied \in Nat
    BY DEF IInv, AdjustmentsTyped, Rows
  <2> QED
    BY <2>2, <2>3, <2>4
<1>3. AdjustmentsTyped'
  <2>1. adj' \in [Adjustments -> Rows]
    BY <1>1, <1>2 DEF GoodRow
  <2>2. used' \in [PayRuns -> SUBSET Adjustments]
    BY <1>1 DEF IInv, AdjustmentsTyped
  <2> QED
    BY <2>1, <2>2 DEF AdjustmentsTyped
<1>4. IInv'
  BY <1>1, <1>2, <1>3, RunStepIInv
<1> QED
  BY <1>1, <1>2, <1>4 DEF RunsWith, IInv, AdjustmentsTyped

----------------------------------------------------------------------------
(* The invariant *)

LEMMA InitIInv == AdjInit => IInv
<1> SUFFICES ASSUME AdjInit PROVE IInv
  OBVIOUS
<1>1. AdjustmentsTyped
  BY DEF AdjInit, AdjustmentsTyped, Rows
<1>2. \A a \in Adjustments : RunsWith(a) = {}
  BY DEF AdjInit, RunsWith
<1>3. AppliedMatchesPayslips
  BY <1>2, FS_EmptySet DEF AdjInit, AppliedMatchesPayslips
<1> QED
  BY <1>1, <1>3 DEF AdjInit, IInv, FreshIsUnused, CountWithinOccurrences, PendingIsOwed

\* A step that writes one adjustment and no payslip, and keeps its counter.
LEMMA AdjustmentIInv ==
  ASSUME IInv, NEW a \in Adjustments, NEW row, adj' = [adj EXCEPT ![a] = row],
         GoodRow(row), row.applied = adj[a].applied, UNCHANGED <<stage, used>>
  PROVE  IInv'
<1>1. \A b \in Adjustments : adj'[b] = IF b = a THEN row ELSE adj[b]
  BY DEF IInv, AdjustmentsTyped
<1>2. AdjustmentsTyped'
  BY DEF IInv, AdjustmentsTyped, GoodRow
<1>3. \A b \in Adjustments : GoodRow(adj'[b])
  BY <1>1, RowsAreGood
<1>4. FreshIsUnused' /\ CountWithinOccurrences' /\ PendingIsOwed'
  BY <1>3 DEF GoodRow, FreshIsUnused, CountWithinOccurrences, PendingIsOwed
<1>5. \A b \in Adjustments : RunsWith(b)' = RunsWith(b)
  BY DEF RunsWith
<1>6. AppliedMatchesPayslips'
  BY <1>1, <1>5 DEF IInv, AppliedMatchesPayslips
<1> QED
  BY <1>2, <1>4, <1>6 DEF IInv

\* What cancelling guarantees in one step.
CancelledKept ==
  \A a \in Adjustments : adj[a].status = "CANCELLED" =>
    adj'[a].status = "CANCELLED" /\ RunsWith(a)' \subseteq RunsWith(a)

LEMMA RunStepCorrect ==
  ASSUME IInv, NEW r \in PayRuns, RunStep(r)
  PROVE  IInv' /\ CancelledKept
<1>0. AdjustmentsTyped
  BY DEF IInv
<1>1. ASSUME NEW paid \in BOOLEAN, RunPayrollApplies(r, AdjNow, paid)
      PROVE  IInv' /\ CancelledKept
  <2>1. Calculate(r, AdjNow, paid) /\ stage' \in [PayRuns -> {"NONE", "DRAFT", "LOCKED"}]
    BY <1>0, <1>1 DEF RunPayrollApplies, AdjustmentsTyped
  <2> QED
    BY <2>1, CalculateIInv DEF CancelledKept
<1>2. ASSUME NEW paid \in BOOLEAN, RecalculateApplies(r, AdjNow, paid)
      PROVE  IInv' /\ CancelledKept
  <2>1. Calculate(r, AdjNow, paid) /\ stage' \in [PayRuns -> {"NONE", "DRAFT", "LOCKED"}]
    BY <1>0, <1>2 DEF RecalculateApplies, AdjustmentsTyped
  <2> QED
    BY <2>1, CalculateIInv DEF CancelledKept
<1>3. CASE DeleteRunPutsBack(r, AdjNow)
  \* Deleting a run is calculating it for nobody.
  <2>1. Calculate(r, AdjNow, FALSE) /\ stage' \in [PayRuns -> {"NONE", "DRAFT", "LOCKED"}]
    BY <1>0, <1>3 DEF DeleteRunPutsBack, Calculate, AdjNow, AdjustmentsTyped
  <2> QED
    BY <2>1, CalculateIInv DEF CancelledKept
<1>4. CASE Lock(r) \/ Unlock(r)
  <2>1. UNCHANGED <<adj, used>> /\ stage' \in [PayRuns -> {"NONE", "DRAFT", "LOCKED"}]
    BY <1>0, <1>4 DEF Lock, Unlock, AdjustmentsTyped
  <2> QED
    BY <2>1 DEF IInv, AdjustmentsTyped, FreshIsUnused, CountWithinOccurrences, PendingIsOwed,
                AppliedMatchesPayslips, RunsWith, CancelledKept
<1> QED
  BY <1>1, <1>2, <1>3, <1>4 DEF RunStep

LEMMA AdjustmentStepCorrect ==
  ASSUME IInv, NEW a \in Adjustments, AdjustmentStep(a)
  PROVE  IInv' /\ CancelledKept
<1>0. AdjustmentsTyped /\ GoodRow(adj[a])
  BY RowsAreGood
<1>1. ASSUME NEW row, adj' = [adj EXCEPT ![a] = row], GoodRow(row), row.applied = adj[a].applied,
             adj[a].status # "CANCELLED", UNCHANGED <<stage, used>>
      PROVE  IInv' /\ CancelledKept
  <2>1. IInv'
    BY <1>1, AdjustmentIInv
  <2>2. CancelledKept
    BY <1>0, <1>1 DEF CancelledKept, RunsWith, AdjustmentsTyped
  <2> QED
    BY <2>1, <2>2
<1>2. ASSUME NEW n \in 1..MaxOccurrences, CreateAdjustment(a, n)
      PROVE  IInv' /\ CancelledKept
  <2>1. PICK row : row = [status |-> "PENDING", applied |-> 0, occurrences |-> n]
    OBVIOUS
  <2>2. adj[a].applied = 0 /\ adj[a].status # "CANCELLED"
    BY <1>0, <1>2 DEF CreateAdjustment, GoodRow
  <2>3. GoodRow(row) /\ row.applied = 0
    BY <2>1, AdjustmentsAssumption DEF GoodRow, Rows
  <2> QED
    BY <1>1, <1>2, <2>1, <2>2, <2>3 DEF CreateAdjustment
<1>3. CASE CancelAdjustment(a)
  <2>1. PICK row : row = [adj[a] EXCEPT !.status = "CANCELLED"]
    OBVIOUS
  <2>2. GoodRow(row) /\ row.applied = adj[a].applied
    BY <1>0, <2>1 DEF GoodRow, Rows
  <2>3. adj' = [adj EXCEPT ![a] = row] /\ adj[a].status # "CANCELLED" /\ UNCHANGED <<stage, used>>
    BY <1>3, <2>1 DEF CancelAdjustment
  <2> QED
    BY <1>1, <2>2, <2>3
<1>4. ASSUME NEW n \in 1..MaxOccurrences, UpdateAdjustment(a, AdjNow, n)
      PROVE  IInv' /\ CancelledKept
  <2>1. n >= adj[a].applied /\ adj[a].status = "PENDING"
    BY <1>4 DEF UpdateAdjustment, AdjNow
  <2>2. PICK status : status = IF n <= adj[a].applied THEN "COMPLETED" ELSE "PENDING"
    OBVIOUS
  <2>0. PICK old : old = adj[a]
    OBVIOUS
  <2>3. PICK row : row = [old EXCEPT !.occurrences = n, !.status = status]
    OBVIOUS
  <2>4. /\ row \in Rows /\ row.applied = adj[a].applied /\ row.occurrences = n
        /\ row.status = status
    <3>1. old \in Rows
      BY <1>0, <2>0 DEF GoodRow
    <3>2. n \in Nat /\ status \in {"NONE", "PENDING", "COMPLETED", "CANCELLED"}
      BY <2>2, AdjustmentsAssumption
    <3> QED
      BY <2>0, <2>3, <3>1, <3>2 DEF Rows
  <2>5. GoodRow(row)
    <3>1. adj[a].applied \in Nat /\ n \in Nat
      BY <1>0, AdjustmentsAssumption DEF GoodRow, Rows
    <3> QED
      BY <2>1, <2>2, <2>4, <3>1 DEF GoodRow
  <2>6. adj' = [adj EXCEPT ![a] = row] /\ UNCHANGED <<stage, used>>
    BY <1>4, <2>0, <2>2, <2>3 DEF UpdateAdjustment, AdjNow
  <2> QED
    BY <1>1, <2>1, <2>4, <2>5, <2>6
<1> QED
  BY <1>2, <1>3, <1>4 DEF AdjustmentStep

LEMMA NextCorrect == IInv /\ [AdjNext]_adjVars => IInv' /\ (CancelledKept \/ UNCHANGED adjVars)
<1> SUFFICES ASSUME IInv, [AdjNext]_adjVars PROVE IInv' /\ (CancelledKept \/ UNCHANGED adjVars)
  OBVIOUS
<1>1. CASE UNCHANGED adjVars
  BY <1>1 DEF adjVars, IInv, AdjustmentsTyped, FreshIsUnused, CountWithinOccurrences, PendingIsOwed,
              AppliedMatchesPayslips, RunsWith
<1> QED
  BY <1>1, RunStepCorrect, AdjustmentStepCorrect DEF AdjNext

----------------------------------------------------------------------------
(* Theorems *)

\* The tables hold rows of their declared columns; counters never go negative.
THEOREM AdjustmentsAreTyped == AdjSpec => []AdjustmentsTyped
<1>1. IInv => AdjustmentsTyped
  BY DEF IInv
<1>2. IInv /\ [AdjNext]_adjVars => IInv'
  BY NextCorrect
<1> QED
  BY <1>1, <1>2, InitIInv, PTL DEF AdjSpec

\* Every counter is the number of payslips that list its adjustment.
THEOREM CountersExact == AdjSpec => []AppliedMatchesPayslips
<1>1. IInv => AppliedMatchesPayslips
  BY DEF IInv
<1>2. IInv /\ [AdjNext]_adjVars => IInv'
  BY NextCorrect
<1> QED
  BY <1>1, <1>2, InitIInv, PTL DEF AdjSpec

\* No adjustment is on more payslips than the pay runs it was scheduled for,
\* and its status says what is left.
THEOREM NeverMoreThanScheduled == AdjSpec => []ScheduleKept
<1>1. IInv => ScheduleKept
  BY DEF IInv, ScheduleKept, NeverOverApplied, AppliedMatchesPayslips, CountWithinOccurrences
<1>2. IInv /\ [AdjNext]_adjVars => IInv'
  BY NextCorrect
<1> QED
  BY <1>1, <1>2, InitIInv, PTL DEF AdjSpec

\* Nothing brings a cancelled adjustment back.
THEOREM CancellationFinal == AdjSpec => CancelledIsFinal
<1>1. IInv /\ [AdjNext]_adjVars => IInv'
  BY NextCorrect
<1>2. IInv /\ [AdjNext]_adjVars =>
        [\A a \in Adjustments : adj[a].status = "CANCELLED" =>
           /\ adj'[a].status = "CANCELLED"
           /\ RunsWith(a)' \subseteq RunsWith(a)]_adjVars
  BY NextCorrect DEF CancelledKept
<1> QED
  BY <1>1, <1>2, InitIInv, PTL DEF AdjSpec, CancelledIsFinal
=============================================================================
