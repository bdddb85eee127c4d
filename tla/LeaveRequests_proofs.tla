------------------------ MODULE LeaveRequests_proofs ------------------------
(***************************************************************************)
(* Proofs about LeaveRequests, for any requests, people, leave types,      *)
(* flows, calendars, accruals and balances. The invariant IInv adds to the *)
(* properties what makes them inductive: the spans of standing requests    *)
(* are apart, a request covers days of its span, the ledger knows a        *)
(* request exactly from its approval on, and the steps a waiting request   *)
(* has passed were approved. CInv adds that only finitely many requests    *)
(* have been made and that what they promise is covered, for installations *)
(* where HR only adds units and retires no accruing type.                  *)
(***************************************************************************)
EXTENDS LeaveRequests, Sums_proofs, FiniteSetTheorems, TLAPS

Apart(f, l, g, m) == l < g \/ m < f

SpansApart ==
  \A r, o \in Standing(req) : r # o => Apart(req[r].first, req[r].last, req[o].first, req[o].last)

DaysInSpan ==
  \A r \in Requests : req[r].status # "NONE" =>
    /\ covered[r] # {}
    /\ covered[r] \subseteq req[r].first..req[r].last

LedgerKnowsApproved ==
  \A r \in Requests :
    /\ req[r].status \in {"NONE", "PENDING", "DECLINED"} => usage[r] = 0 /\ ~returned[r]
    /\ req[r].status = "CANCELLED" => (usage[r] # 0 <=> returned[r])
    /\ req[r].status = "APPROVED" => /\ ~returned[r]
                                     /\ usage[r] # 0
                                     /\ usage[r] = Cardinality(covered[r])
                                     /\ req[r].days = usage[r]

\* The decisions in table approve step n of the request in row.
StepApproved(table, r, row, n) ==
  \E a \in table : /\ a.req = r
                   /\ a.step = n - 1
                   /\ a.role = row.steps[n]
                   /\ a.by # Owner
                   /\ a.decision = "APPROVED"

StepsSoFar ==
  \A r \in Requests : req[r].status = "PENDING" =>
    /\ req[r].step < Len(req[r].steps)
    /\ \A n \in 1..req[r].step : StepApproved(approvals, r, req[r], n)

ApprovedByAll(table, r, row) ==
  /\ \A n \in 1..Len(row.steps) : StepApproved(table, r, row, n)
  /\ row.steps = <<>> => \E a \in table : a.req = r /\ a.decision = "AUTO"

ApprovedThroughout ==
  \A r \in Requests : req[r].status = "APPROVED" => ApprovedByAll(approvals, r, req[r])

IInv ==
  /\ TypeOK
  /\ SpansApart
  /\ DaysInSpan
  /\ LedgerKnowsApproved
  /\ StepsSoFar
  /\ ApprovedThroughout

ApprovalRows ==
  [req : Requests, step : Nat, role : Roles \cup {"AUTO"}, by : People,
   decision : {"APPROVED", "DECLINED", "AUTO"}]

----------------------------------------------------------------------------
(* What a step does to the requests, in four kinds *)

AddsDecisionOn(r) ==
  /\ approvals \subseteq approvals'
  /\ approvals' \subseteq ApprovalRows
  /\ \A a \in approvals' : a \in approvals \/ a.req = r

\* Request r becomes new, out of the way of the others, and covers days.
Placed(r, new, days) ==
  /\ \A o \in Standing(req) \ {r} : Apart(new.first, new.last, req[o].first, req[o].last)
  /\ days # {}
  /\ days \subseteq new.first..new.last
  /\ Cardinality(days) \in Nat \ {0}
  /\ req' = [req EXCEPT ![r] = new]
  /\ covered' = [covered EXCEPT ![r] = days]

\* r is approved for good.
Granted(r, new, days) ==
  /\ req[r].status \in {"NONE", "PENDING"}
  /\ new.status = "APPROVED"
  /\ new.days = Cardinality(days)
  /\ Placed(r, new, days)
  /\ usage' = [usage EXCEPT ![r] = Cardinality(days)]
  /\ UNCHANGED returned
  /\ AddsDecisionOn(r)
  /\ ApprovedByAll(approvals', r, new)

\* r is made and waits for its first step.
Requested(r, new, days) ==
  /\ req[r].status = "NONE"
  /\ new.status = "PENDING"
  /\ new.step = 0
  /\ 0 < Len(new.steps)
  /\ Placed(r, new, days)
  /\ UNCHANGED <<usage, returned, approvals>>

\* One step of r is approved and another is left.
Advanced(r, new) ==
  /\ req[r].status = "PENDING"
  /\ new.status = "PENDING"
  /\ new.first = req[r].first
  /\ new.last = req[r].last
  /\ new.steps = req[r].steps
  /\ new.step = req[r].step + 1
  /\ new.step < Len(new.steps)
  /\ req' = [req EXCEPT ![r] = new]
  /\ UNCHANGED <<covered, usage, returned>>
  /\ AddsDecisionOn(r)
  /\ StepApproved(approvals', r, new, new.step)

\* r is declined or cancelled; only what was approved is returned.
Closed(r, new) ==
  /\ \/ req[r].status = "PENDING" /\ new.status \in {"DECLINED", "CANCELLED"} /\ UNCHANGED returned
     \/ /\ req[r].status = "APPROVED"
        /\ new.status = "CANCELLED"
        /\ returned' = [returned EXCEPT ![r] = TRUE]
        /\ UNCHANGED approvals
  /\ new.first = req[r].first
  /\ new.last = req[r].last
  /\ req' = [req EXCEPT ![r] = new]
  /\ UNCHANGED <<covered, usage>>
  /\ AddsDecisionOn(r)

----------------------------------------------------------------------------
(* Rows, days and steps *)

LEMMA AbsentIsNoRow ==
  /\ Absent.status = "NONE"
  /\ \A row \in Rows : row.status \in Statuses /\ row.status # "NONE"
  BY DEF Absent, Rows, Statuses

LEMMA RowWithStatus ==
  ASSUME NEW row \in Rows, NEW status \in Statuses, NEW new,
         new = [row EXCEPT !.status = status]
  PROVE  /\ new \in Rows /\ new.status = status /\ new.days = row.days
         /\ new.first = row.first /\ new.last = row.last
         /\ new.steps = row.steps /\ new.step = row.step
  BY DEF Rows

LEMMA RowWithStep ==
  ASSUME NEW row \in Rows, NEW n \in Nat, NEW new, new = [row EXCEPT !.step = n]
  PROVE  /\ new \in Rows /\ new.status = row.status /\ new.days = row.days
         /\ new.first = row.first /\ new.last = row.last
         /\ new.steps = row.steps /\ new.step = n
  BY DEF Rows

LEMMA DaysCounted ==
  ASSUME NEW first \in Days, NEW last \in Days, NEW shut
  PROVE  LET days == WorkingDays(first, last, shut) IN
           /\ days \in SUBSET Days
           /\ days \subseteq first..last
           /\ IsFiniteSet(days)
           /\ Cardinality(days) \in Nat
           /\ days # {} => Cardinality(days) # 0
<1> DEFINE days == WorkingDays(first, last, shut)
<1>1. days \subseteq first..last /\ days \in SUBSET Days
  BY LeaveAssumption DEF WorkingDays, Days
<1>2. IsFiniteSet(first..last)
  BY FS_Interval DEF Days
<1>3. IsFiniteSet(days)
  BY <1>1, <1>2, FS_Subset
<1> QED
  BY <1>1, <1>3, FS_CardinalityType, FS_EmptySet

LEMMA StepsAreRoles ==
  ASSUME NEW flow \in Flows, NEW boss
  PROVE  StepsFor(flow, boss) \in Seq(Roles)
<1> DEFINE S == {i \in 1..Len(flow) : flow[i] = "HR"}
<1>1. flow \in Seq(Roles)
  BY LeaveAssumption
<1>2. IsFiniteSet(1..Len(flow))
  BY <1>1, FS_Interval
<1>3. IsFiniteSet(S)
  BY <1>2, FS_Subset
<1>4. Cardinality(S) \in Nat
  BY <1>3, FS_CardinalityType
<1>5. "HR" \in Roles
  BY DEF Roles
<1>6. [n \in 1..Cardinality(S) |-> "HR"] \in Seq(Roles)
  BY <1>4, <1>5
<1> QED
  BY <1>1, <1>6 DEF StepsFor

----------------------------------------------------------------------------
(* Every step is of one of the kinds *)

LEMMA FinalizePlaces ==
  ASSUME TypeOK, NEW r \in Requests, NEW row \in Rows, usage[r] = 0, Finalize(r, row, Now)
  PROVE  \E new \in Rows, days \in SUBSET Days :
           /\ new.status = "APPROVED"
           /\ new.days = Cardinality(days)
           /\ new.steps = row.steps
           /\ Placed(r, new, days)
           /\ usage' = [usage EXCEPT ![r] = Cardinality(days)]
<1> DEFINE days == WorkingDays(row.first, row.last, closed)
<1>1. row.first \in Days /\ row.last \in Days
  BY DEF Rows
<1>2. /\ days \in SUBSET Days
      /\ days \subseteq row.first..row.last
      /\ Cardinality(days) \in Nat
      /\ days # {} => Cardinality(days) # 0
  BY <1>1, DaysCounted
<1>3. /\ Now.closed = closed
      /\ Now.req = req
  BY DEF Now
<1>4. /\ days # {}
      /\ \A o \in Standing(req) \ {r} : Apart(row.first, row.last, req[o].first, req[o].last)
  BY <1>3, <1>1, TypeOK, AbsentIsNoRow DEF Finalize, Fits, Apart, Standing, TypeOK
<1>5. PICK new : new = [row EXCEPT !.status = "APPROVED", !.days = Cardinality(days),
                                  !.step = Len(row.steps)]
  OBVIOUS
<1>6. /\ covered' = [covered EXCEPT ![r] = days]
      /\ usage' = [usage EXCEPT ![r] = Cardinality(days)]
      /\ req' = [req EXCEPT ![r] = new]
  BY <1>3, <1>5 DEF Finalize
<1> HIDE DEF days
<1>7. /\ new \in Rows /\ new.status = "APPROVED" /\ new.days = Cardinality(days)
      /\ new.first = row.first /\ new.last = row.last
      /\ new.steps = row.steps
  <2> DEFINE n == Cardinality(days)
  <2>1. n \in Nat /\ new = [row EXCEPT !.status = "APPROVED", !.days = n, !.step = Len(row.steps)]
    BY <1>2, <1>5
  <2> HIDE DEF n
  <2>2. /\ new \in Rows /\ new.status = "APPROVED" /\ new.days = n
        /\ new.first = row.first /\ new.last = row.last
        /\ new.steps = row.steps
    <3>1. Len(row.steps) \in Nat
      BY DEF Rows
    <3> QED
      BY <2>1, <3>1 DEF Rows, Statuses
  <2> QED
    BY <2>2 DEF n
<1>8. Placed(r, new, days)
  BY <1>2, <1>4, <1>6, <1>7 DEF Placed
<1> QED
  BY <1>2, <1>6, <1>7, <1>8

LEMMA DecisionAdded ==
  ASSUME TypeOK, NEW r \in Requests, NEW n \in Nat, NEW role \in Roles \cup {"AUTO"},
         NEW u \in People, NEW decision \in {"APPROVED", "DECLINED", "AUTO"},
         approvals' = approvals \cup {Decision(r, n, role, u, decision)}
  PROVE  AddsDecisionOn(r)
<1>1. Decision(r, n, role, u, decision) \in ApprovalRows
  BY DEF Decision, ApprovalRows
<1>2. Decision(r, n, role, u, decision).req = r
  BY DEF Decision
<1>3. approvals \subseteq ApprovalRows
  BY DEF TypeOK, ApprovalRows
<1> QED
  BY <1>1, <1>2, <1>3 DEF AddsDecisionOn

LEMMA CreateKind ==
  ASSUME IInv, NEW r \in Requests, NEW u \in People, NEW t \in Types,
         NEW first \in Days, NEW last \in Days, NEW flow \in Flows, NEW auto \in BOOLEAN,
         Create(u, r, t, first, last, flow, auto, Now, Now)
  PROVE  \E new \in Rows, days \in SUBSET Days : Granted(r, new, days) \/ Requested(r, new, days)
<1> DEFINE steps == IF auto /\ u # Owner THEN <<>> ELSE StepsFor(flow, manager)
           days  == WorkingDays(first, last, closed)
           row   == [status |-> "PENDING", type |-> t, first |-> first, last |-> last,
                     days |-> Cardinality(days), steps |-> steps, step |-> 0]
<1>1. /\ Now.closed = closed
      /\ Now.req = req
      /\ Now.manager = manager
  BY DEF Now
<1>2. /\ req[r] = Absent
      /\ Fits(r, t, first, last, Now)
      /\ UNCHANGED returned
      /\ \/ /\ steps = <<>>
            /\ Finalize(r, row, Now)
            /\ approvals' = approvals \cup {Decision(r, 0, "AUTO", u, "AUTO")}
         \/ /\ steps # <<>>
            /\ req' = [req EXCEPT ![r] = row]
            /\ covered' = [covered EXCEPT ![r] = days]
            /\ UNCHANGED <<approvals, usage>>
  BY <1>1 DEF Create
<1>3. /\ days \in SUBSET Days
      /\ days \subseteq first..last
      /\ Cardinality(days) \in Nat
      /\ days # {} => Cardinality(days) # 0
  BY DaysCounted
<1>4. steps \in Seq(Roles)
  BY StepsAreRoles
<1>5. /\ days # {}
      /\ \A o \in Standing(req) \ {r} : Apart(first, last, req[o].first, req[o].last)
  BY <1>1, <1>2 DEF Fits, Apart
<1>6. req[r].status = "NONE" /\ usage[r] = 0
  BY <1>2, AbsentIsNoRow DEF IInv, LedgerKnowsApproved
<1> HIDE DEF steps, days
<1>7. row \in Rows
  BY <1>3, <1>4 DEF Rows, Statuses
<1>8. /\ row.status = "PENDING" /\ row.step = 0 /\ row.steps = steps
      /\ row.first = first /\ row.last = last
  OBVIOUS
<1> HIDE DEF row
<1>9. CASE /\ steps = <<>>
           /\ Finalize(r, row, Now)
           /\ approvals' = approvals \cup {Decision(r, 0, "AUTO", u, "AUTO")}
  <2>1. PICK new \in Rows, held \in SUBSET Days :
           /\ new.status = "APPROVED"
           /\ new.days = Cardinality(held)
           /\ new.steps = row.steps
           /\ Placed(r, new, held)
           /\ usage' = [usage EXCEPT ![r] = Cardinality(held)]
    BY <1>6, <1>7, <1>9, FinalizePlaces DEF IInv
  <2>2. AddsDecisionOn(r)
    BY <1>9, DecisionAdded DEF IInv
  <2>3. ApprovedByAll(approvals', r, new)
    <3> DEFINE a == Decision(r, 0, "AUTO", u, "AUTO")
    <3>1. a.req = r /\ a.decision = "AUTO"
      BY DEF Decision
    <3>2. a \in approvals'
      BY <1>9
    <3>3. new.steps = <<>>
      BY <1>8, <1>9, <2>1
    <3> QED
      BY <3>1, <3>2, <3>3 DEF ApprovedByAll
  <2>4. Granted(r, new, held)
    BY <1>2, <1>6, <2>1, <2>2, <2>3 DEF Granted
  <2> QED
    BY <2>4
<1>10. CASE /\ steps # <<>>
            /\ req' = [req EXCEPT ![r] = row]
            /\ covered' = [covered EXCEPT ![r] = days]
            /\ UNCHANGED <<approvals, usage>>
  <2>1. 0 < Len(row.steps)
    BY <1>4, <1>8, <1>10
  <2>2. Placed(r, row, days)
    BY <1>3, <1>5, <1>8, <1>10 DEF Placed
  <2>3. Requested(r, row, days)
    BY <1>2, <1>6, <1>8, <1>10, <2>1, <2>2 DEF Requested
  <2> QED
    BY <1>3, <1>7, <2>3
<1> QED
  BY <1>2, <1>9, <1>10
LEMMA ApproveKind ==
  ASSUME IInv, NEW r \in Requests, NEW u \in People, Approve(u, r, Now, Now)
  PROVE  \E new \in Rows :
           \/ \E days \in SUBSET Days : Granted(r, new, days)
           \/ Advanced(r, new)
<1> DEFINE row  == req[r]
           role == StepOf(row)
<1>1. Now.req = req
  BY DEF Now
<1>2. /\ row.status = "PENDING"
      /\ u # Owner
      /\ UNCHANGED returned
      /\ approvals' = approvals \cup {Decision(r, row.step, role, u, "APPROVED")}
      /\ \/ /\ row.step + 1 < Len(row.steps)
            /\ req' = [req EXCEPT ![r].step = row.step + 1]
            /\ UNCHANGED <<covered, usage>>
         \/ /\ ~(row.step + 1 < Len(row.steps))
            /\ Finalize(r, row, Now)
  BY <1>1 DEF Approve
<1>3. row \in Rows
  BY <1>2, AbsentIsNoRow DEF IInv, TypeOK
<1>4. /\ row.step \in Nat
      /\ row.steps \in Seq(Roles)
      /\ row.step < Len(row.steps)
      /\ \A n \in 1..row.step : StepApproved(approvals, r, row, n)
  BY <1>2, <1>3 DEF IInv, StepsSoFar, Rows
<1>5. role = row.steps[row.step + 1] /\ role \in Roles
  BY <1>4 DEF StepOf
<1>6. AddsDecisionOn(r)
  BY <1>2, <1>4, <1>5, DecisionAdded DEF IInv
<1>7. \A n \in 1..(row.step + 1) : StepApproved(approvals', r, row, n)
  <2>1. \A n \in 1..row.step : StepApproved(approvals', r, row, n)
    BY <1>4, <1>6 DEF StepApproved, AddsDecisionOn
  <2>2. StepApproved(approvals', r, row, row.step + 1)
    <3> DEFINE a == Decision(r, row.step, role, u, "APPROVED")
    <3>1. a \in approvals'
      BY <1>2
    <3>2. /\ a.req = r /\ a.step = row.step /\ a.role = role
          /\ a.by = u /\ a.decision = "APPROVED"
      BY DEF Decision
    <3>3. a.step = (row.step + 1) - 1 /\ a.role = row.steps[row.step + 1]
      BY <3>2, <1>4, <1>5
    <3> HIDE DEF a
    <3> QED
      BY <3>1, <3>2, <3>3, <1>2 DEF StepApproved
  <2> QED
    BY <2>1, <2>2, <1>4
<1>8. CASE /\ row.step + 1 < Len(row.steps)
           /\ req' = [req EXCEPT ![r].step = row.step + 1]
           /\ UNCHANGED <<covered, usage>>
  <2>1. PICK new : new = [row EXCEPT !.step = row.step + 1]
    OBVIOUS
  <2>2. /\ new \in Rows /\ new.status = row.status
        /\ new.first = row.first /\ new.last = row.last
        /\ new.steps = row.steps /\ new.step = row.step + 1
    <3>1. row.step + 1 \in Nat
      BY <1>4
    <3> QED
      BY <1>3, <2>1, <3>1, RowWithStep
  <2>3. req' = [req EXCEPT ![r] = new]
    BY <1>8, <2>1 DEF IInv, TypeOK
  <2>4. StepApproved(approvals', r, new, new.step)
    <3>1. StepApproved(approvals', r, row, row.step + 1)
      BY <1>4, <1>7
    <3> QED
      BY <3>1, <2>2 DEF StepApproved
  <2>5. Advanced(r, new)
    BY <1>2, <1>6, <1>8, <2>2, <2>3, <2>4 DEF Advanced
  <2> QED
    BY <2>2, <2>5
<1>9. CASE ~(row.step + 1 < Len(row.steps)) /\ Finalize(r, row, Now)
  <2>1. usage[r] = 0
    BY <1>2 DEF IInv, LedgerKnowsApproved
  <2>2. PICK new \in Rows, held \in SUBSET Days :
           /\ new.status = "APPROVED"
           /\ new.days = Cardinality(held)
           /\ new.steps = row.steps
           /\ Placed(r, new, held)
           /\ usage' = [usage EXCEPT ![r] = Cardinality(held)]
    BY <1>3, <1>9, <2>1, FinalizePlaces DEF IInv
  <2>3. Len(row.steps) = row.step + 1 /\ row.steps # <<>>
    BY <1>4, <1>9
  <2>4. ApprovedByAll(approvals', r, new)
    BY <1>7, <2>2, <2>3 DEF ApprovedByAll, StepApproved
  <2>5. Granted(r, new, held)
    BY <1>2, <1>6, <2>2, <2>4 DEF Granted
  <2> QED
    BY <2>5
<1> QED
  BY <1>2, <1>8, <1>9

LEMMA DeclineKind ==
  ASSUME IInv, NEW r \in Requests, NEW u \in People, Decline(u, r, Now)
  PROVE  \E new \in Rows : Closed(r, new)
<1> DEFINE row  == req[r]
           role == StepOf(row)
<1>1. Now.req = req
  BY DEF Now
<1>2. /\ row.status = "PENDING"
      /\ approvals' = approvals \cup {Decision(r, row.step, role, u, "DECLINED")}
      /\ req' = [req EXCEPT ![r].status = "DECLINED"]
      /\ UNCHANGED <<covered, usage, returned>>
  BY <1>1 DEF Decline
<1>3. row \in Rows
  BY <1>2, AbsentIsNoRow DEF IInv, TypeOK
<1>4. row.step \in Nat /\ role \in Roles
  <2>1. row.step \in Nat /\ row.steps \in Seq(Roles) /\ row.step < Len(row.steps)
    BY <1>2, <1>3 DEF IInv, StepsSoFar, Rows
  <2> QED
    BY <2>1 DEF StepOf
<1>5. AddsDecisionOn(r)
  BY <1>2, <1>4, DecisionAdded DEF IInv
<1>6. PICK new : new = [row EXCEPT !.status = "DECLINED"]
  OBVIOUS
<1>7. new \in Rows /\ new.status = "DECLINED" /\ new.first = row.first /\ new.last = row.last
  BY <1>3, <1>6, RowWithStatus DEF Statuses
<1>8. req' = [req EXCEPT ![r] = new]
  BY <1>2, <1>6 DEF IInv, TypeOK
<1>9. Closed(r, new)
  BY <1>2, <1>5, <1>7, <1>8 DEF Closed
<1> QED
  BY <1>7, <1>9

LEMMA CancelKind ==
  ASSUME IInv, NEW r \in Requests, NEW u \in People, Cancel(u, r, Now)
  PROVE  \E new \in Rows : Closed(r, new)
<1> DEFINE row == req[r]
<1>1. Now.req = req /\ Now.usage = usage
  BY DEF Now
<1>2. /\ row.status \in {"PENDING", "APPROVED"}
      /\ IF row.status = "APPROVED" /\ usage[r] # 0
         THEN returned' = [returned EXCEPT ![r] = TRUE]
         ELSE UNCHANGED returned
      /\ req' = [req EXCEPT ![r].status = "CANCELLED"]
      /\ UNCHANGED <<covered, usage, approvals>>
  BY <1>1 DEF Cancel
<1>3. row \in Rows
  BY <1>2, AbsentIsNoRow DEF IInv, TypeOK
<1>4. row.status = "APPROVED" => usage[r] # 0
  BY DEF IInv, LedgerKnowsApproved
<1>5. AddsDecisionOn(r)
  BY <1>2 DEF AddsDecisionOn, IInv, TypeOK, ApprovalRows
<1>6. PICK new : new = [row EXCEPT !.status = "CANCELLED"]
  OBVIOUS
<1>7. new \in Rows /\ new.status = "CANCELLED" /\ new.first = row.first /\ new.last = row.last
  BY <1>3, <1>6, RowWithStatus DEF Statuses
<1>8. req' = [req EXCEPT ![r] = new]
  BY <1>2, <1>6 DEF IInv, TypeOK
<1>9. Closed(r, new)
  BY <1>2, <1>4, <1>5, <1>7, <1>8 DEF Closed
<1> QED
  BY <1>7, <1>9
StepKind(r) ==
  \E new \in Rows :
    \/ \E days \in SUBSET Days : Granted(r, new, days) \/ Requested(r, new, days)
    \/ Advanced(r, new)
    \/ Closed(r, new)

Frame == UNCHANGED <<req, covered, usage, returned, approvals>>

LEMMA NextKinds ==
  ASSUME IInv, [Next]_vars
  PROVE  Frame \/ \E r \in Requests : StepKind(r)
<1>1. ASSUME NEW r \in Requests, RequestStep(r)
      PROVE  StepKind(r)
  <2>1. ASSUME NEW u \in People, NEW t \in Types, NEW first \in Days, NEW last \in Days,
               NEW flow \in Flows, NEW auto \in BOOLEAN,
               Create(u, r, t, first, last, flow, auto, Now, Now)
        PROVE  StepKind(r)
    <3>1. \E new \in Rows, days \in SUBSET Days : Granted(r, new, days) \/ Requested(r, new, days)
      BY <2>1, CreateKind
    <3> QED
      BY <3>1 DEF StepKind
  <2>2. ASSUME NEW u \in People, Approve(u, r, Now, Now)
        PROVE  StepKind(r)
    BY <2>2, ApproveKind DEF StepKind
  <2>3. ASSUME NEW u \in People, Decline(u, r, Now)
        PROVE  StepKind(r)
    BY <2>3, DeclineKind DEF StepKind
  <2>4. ASSUME NEW u \in People, Cancel(u, r, Now)
        PROVE  StepKind(r)
    BY <2>4, CancelKind DEF StepKind
  <2> QED
    BY <1>1, <2>1, <2>2, <2>3, <2>4 DEF RequestStep
<1>2. SettingsStep => Frame
  BY DEF SettingsStep, Adjust, AddHoliday, RemoveHoliday, ChangeManager, RetireType, tables, Frame
<1>3. NextDay => Frame
  BY DEF NextDay, Frame
<1>4. UNCHANGED vars => Frame
  BY DEF vars, tables, Frame
<1> QED
  BY <1>1, <1>2, <1>3, <1>4 DEF Next

----------------------------------------------------------------------------
(* The invariant *)

LEMMA InitIInv == Init => IInv
<1> SUFFICES ASSUME Init PROVE IInv
  OBVIOUS
<1>1. \A r \in Requests : req[r].status = "NONE"
  BY AbsentIsNoRow DEF Init
<1>2. TypeOK
  <2>1. credit \in [Tracked -> Int]
    BY LeaveAssumption DEF Init
  <2>2. closed \subseteq Days /\ today \in 0..Horizon
    BY LeaveAssumption DEF Init
  <2> QED
    BY <2>1, <2>2 DEF Init, TypeOK
<1>3. \A r \in Requests : usage[r] = 0 /\ returned[r] = FALSE
  BY DEF Init
<1> QED
  BY <1>1, <1>2, <1>3
     DEF IInv, SpansApart, Standing, DaysInSpan, LedgerKnowsApproved, StepsSoFar, ApprovedThroughout

\* The variables no request touches.
LEMMA SettingsTyped ==
  ASSUME TypeOK, [Next]_vars
  PROVE  /\ credit' \in [Tracked -> Int]
         /\ closed' \subseteq Days
         /\ manager' \in Managers \cup {NoManager}
         /\ offered' \subseteq Types
         /\ today' \in 0..Horizon
<1>1. ASSUME UNCHANGED <<credit, closed, manager, offered, today>>
      PROVE  /\ credit' \in [Tracked -> Int]
             /\ closed' \subseteq Days
             /\ manager' \in Managers \cup {NoManager}
             /\ offered' \subseteq Types
             /\ today' \in 0..Horizon
  BY <1>1 DEF TypeOK
<1>2. ASSUME NEW r \in Requests, RequestStep(r)
      PROVE  UNCHANGED <<credit, closed, manager, offered, today>>
  <2>1. ASSUME NEW u, NEW t, NEW first, NEW last, NEW flow, NEW auto,
               Create(u, r, t, first, last, flow, auto, Now, Now)
        PROVE  UNCHANGED <<credit, closed, manager, offered, today>>
    BY <2>1 DEF Create
  <2>2. ASSUME NEW u, Approve(u, r, Now, Now) \/ Decline(u, r, Now) \/ Cancel(u, r, Now)
        PROVE  UNCHANGED <<credit, closed, manager, offered, today>>
    BY <2>2 DEF Approve, Decline, Cancel
  <2> QED
    BY <1>2, <2>1, <2>2 DEF RequestStep
<1>3. ASSUME NEW t \in Types, NEW n \in Corrections, Adjust(t, n, Now)
      PROVE  credit' \in [Tracked -> Int] /\ UNCHANGED <<closed, manager, offered, today>>
  BY <1>3, LeaveAssumption DEF Adjust, TypeOK
<1>4. ASSUME NEW d \in Holidays, AddHoliday(d)
      PROVE  closed' \subseteq Days /\ UNCHANGED <<credit, manager, offered, today>>
  BY <1>4, LeaveAssumption DEF AddHoliday, TypeOK, tables
<1>5. ASSUME NEW d \in Holidays, RemoveHoliday(d)
      PROVE  closed' \subseteq Days /\ UNCHANGED <<credit, manager, offered, today>>
  BY <1>5 DEF RemoveHoliday, TypeOK, tables
<1>6. ASSUME NEW boss \in Managers \cup {NoManager}, ChangeManager(boss)
      PROVE  manager' \in Managers \cup {NoManager} /\ UNCHANGED <<credit, closed, offered, today>>
  BY <1>6 DEF ChangeManager, tables
<1>7. ASSUME NEW t \in Retirable, RetireType(t)
      PROVE  offered' \subseteq Types /\ UNCHANGED <<credit, closed, manager, today>>
  BY <1>7 DEF RetireType, TypeOK, tables
<1>8. ASSUME NextDay
      PROVE  /\ credit' \in [Tracked -> Int]
             /\ today' \in 0..Horizon
             /\ UNCHANGED <<closed, manager, offered>>
  BY <1>8, LeaveAssumption DEF NextDay, TypeOK
<1>9. UNCHANGED vars => UNCHANGED <<credit, closed, manager, offered, today>>
  BY DEF vars, tables
<1> QED
  BY <1>1, <1>2, <1>3, <1>4, <1>5, <1>6, <1>7, <1>8, <1>9 DEF Next, SettingsStep, TypeOK

LEMMA NextTypeOK ==
  ASSUME IInv, [Next]_vars
  PROVE  TypeOK'
<1>1. /\ TypeOK
      /\ approvals \subseteq ApprovalRows
  BY DEF IInv, TypeOK, ApprovalRows
<1>2. ASSUME Frame
      PROVE  /\ req' \in [Requests -> Rows \cup {Absent}]
             /\ covered' \in [Requests -> SUBSET Days]
             /\ approvals' \subseteq ApprovalRows
             /\ usage' \in [Requests -> Nat]
             /\ returned' \in [Requests -> BOOLEAN]
  BY <1>1, <1>2 DEF Frame, TypeOK
<1>3. ASSUME NEW r \in Requests, StepKind(r)
      PROVE  /\ req' \in [Requests -> Rows \cup {Absent}]
             /\ covered' \in [Requests -> SUBSET Days]
             /\ approvals' \subseteq ApprovalRows
             /\ usage' \in [Requests -> Nat]
             /\ returned' \in [Requests -> BOOLEAN]
  <2>1. PICK new \in Rows :
          \/ \E days \in SUBSET Days : Granted(r, new, days) \/ Requested(r, new, days)
          \/ Advanced(r, new)
          \/ Closed(r, new)
    BY <1>3 DEF StepKind
  <2>2. ASSUME NEW days \in SUBSET Days, Granted(r, new, days)
        PROVE  /\ req' = [req EXCEPT ![r] = new]
               /\ covered' \in [Requests -> SUBSET Days]
               /\ approvals' \subseteq ApprovalRows
               /\ usage' \in [Requests -> Nat]
               /\ returned' \in [Requests -> BOOLEAN]
    BY <1>1, <2>2 DEF Granted, Placed, AddsDecisionOn, TypeOK
  <2>3. ASSUME NEW days \in SUBSET Days, Requested(r, new, days)
        PROVE  /\ req' = [req EXCEPT ![r] = new]
               /\ covered' \in [Requests -> SUBSET Days]
               /\ approvals' \subseteq ApprovalRows
               /\ usage' \in [Requests -> Nat]
               /\ returned' \in [Requests -> BOOLEAN]
    BY <1>1, <2>3 DEF Requested, Placed, TypeOK
  <2>4. ASSUME Advanced(r, new) \/ Closed(r, new)
        PROVE  /\ req' = [req EXCEPT ![r] = new]
               /\ covered' \in [Requests -> SUBSET Days]
               /\ approvals' \subseteq ApprovalRows
               /\ usage' \in [Requests -> Nat]
               /\ returned' \in [Requests -> BOOLEAN]
    BY <1>1, <2>4 DEF Advanced, Closed, AddsDecisionOn, TypeOK
  <2>5. [req EXCEPT ![r] = new] \in [Requests -> Rows \cup {Absent}]
    BY <1>1 DEF TypeOK
  <2> QED
    BY <2>1, <2>2, <2>3, <2>4, <2>5
<1>4. /\ req' \in [Requests -> Rows \cup {Absent}]
      /\ covered' \in [Requests -> SUBSET Days]
      /\ approvals' \subseteq ApprovalRows
      /\ usage' \in [Requests -> Nat]
      /\ returned' \in [Requests -> BOOLEAN]
  BY <1>2, <1>3, NextKinds
<1> QED
  BY <1>1, <1>4, SettingsTyped DEF TypeOK, ApprovalRows

LEMMA FrameIInv ==
  ASSUME IInv, Frame, TypeOK'
  PROVE  IInv'
  BY DEF IInv, Frame, SpansApart, Standing, DaysInSpan, LedgerKnowsApproved, StepsSoFar,
         StepApproved, ApprovedThroughout, ApprovedByAll
\* Steps that were approved stay approved.
LEMMA StepsKept ==
  ASSUME NEW r, NEW table, NEW more, table \subseteq more
  PROVE  /\ \A row, n : StepApproved(table, r, row, n) => StepApproved(more, r, row, n)
         /\ \A row : ApprovedByAll(table, r, row) => ApprovedByAll(more, r, row)
  BY DEF StepApproved, ApprovedByAll

LEMMA GrantedIInv ==
  ASSUME IInv, TypeOK', NEW r \in Requests, NEW new \in Rows, NEW days \in SUBSET Days,
         Granted(r, new, days)
  PROVE  IInv'
<1>1. /\ req'[r] = new /\ covered'[r] = days /\ usage'[r] = Cardinality(days)
      /\ returned'[r] = returned[r]
      /\ \A o \in Requests \ {r} : /\ req'[o] = req[o]
                                  /\ covered'[o] = covered[o]
                                  /\ usage'[o] = usage[o]
                                  /\ returned'[o] = returned[o]
  BY DEF Granted, Placed, IInv, TypeOK
<1>2. /\ req[r].status \in {"NONE", "PENDING"}
      /\ new.status = "APPROVED"
      /\ new.days = Cardinality(days)
      /\ \A o \in Standing(req) \ {r} : Apart(new.first, new.last, req[o].first, req[o].last)
      /\ days # {}
      /\ days \subseteq new.first..new.last
      /\ Cardinality(days) \in Nat \ {0}
      /\ approvals \subseteq approvals'
      /\ ApprovedByAll(approvals', r, new)
  BY DEF Granted, Placed, AddsDecisionOn
<1>3. SpansApart'
  BY <1>1, <1>2 DEF IInv, SpansApart, Standing, Apart
<1>4. DaysInSpan'
  BY <1>1, <1>2 DEF IInv, DaysInSpan
<1>5. LedgerKnowsApproved'
  BY <1>1, <1>2 DEF IInv, LedgerKnowsApproved
<1>6. StepsSoFar'
  BY <1>1, <1>2, StepsKept DEF IInv, StepsSoFar
<1>7. ApprovedThroughout'
  BY <1>1, <1>2, StepsKept DEF IInv, ApprovedThroughout
<1> QED
  BY <1>3, <1>4, <1>5, <1>6, <1>7 DEF IInv

LEMMA RequestedIInv ==
  ASSUME IInv, TypeOK', NEW r \in Requests, NEW new \in Rows, NEW days \in SUBSET Days,
         Requested(r, new, days)
  PROVE  IInv'
<1>1. /\ req'[r] = new /\ covered'[r] = days
      /\ \A o \in Requests \ {r} : req'[o] = req[o] /\ covered'[o] = covered[o]
      /\ usage' = usage /\ returned' = returned /\ approvals' = approvals
  BY DEF Requested, Placed, IInv, TypeOK
<1>2. /\ req[r].status = "NONE"
      /\ new.status = "PENDING"
      /\ new.step = 0 /\ 0 < Len(new.steps)
      /\ \A o \in Standing(req) \ {r} : Apart(new.first, new.last, req[o].first, req[o].last)
      /\ days # {}
      /\ days \subseteq new.first..new.last
  BY DEF Requested, Placed
<1>3. SpansApart'
  BY <1>1, <1>2 DEF IInv, SpansApart, Standing, Apart
<1>4. DaysInSpan'
  BY <1>1, <1>2 DEF IInv, DaysInSpan
<1>5. LedgerKnowsApproved'
  BY <1>1, <1>2 DEF IInv, LedgerKnowsApproved
<1>6. StepsSoFar'
  BY <1>1, <1>2 DEF IInv, StepsSoFar
<1>7. ApprovedThroughout'
  BY <1>1, <1>2 DEF IInv, ApprovedThroughout
<1> QED
  BY <1>3, <1>4, <1>5, <1>6, <1>7 DEF IInv

LEMMA AdvancedIInv ==
  ASSUME IInv, TypeOK', NEW r \in Requests, NEW new \in Rows, Advanced(r, new)
  PROVE  IInv'
<1>1. /\ req'[r] = new
      /\ \A o \in Requests \ {r} : req'[o] = req[o]
      /\ covered' = covered /\ usage' = usage /\ returned' = returned
  BY DEF Advanced, IInv, TypeOK
<1>2. /\ req[r].status = "PENDING" /\ new.status = "PENDING"
      /\ new.first = req[r].first /\ new.last = req[r].last /\ new.steps = req[r].steps
      /\ new.step = req[r].step + 1 /\ new.step < Len(new.steps)
      /\ approvals \subseteq approvals'
      /\ StepApproved(approvals', r, new, new.step)
  BY DEF Advanced, AddsDecisionOn
<1>3. req[r] \in Rows
  BY <1>2, AbsentIsNoRow DEF IInv, TypeOK
<1>4. SpansApart'
  BY <1>1, <1>2 DEF IInv, SpansApart, Standing
<1>5. DaysInSpan'
  BY <1>1, <1>2 DEF IInv, DaysInSpan
<1>6. LedgerKnowsApproved'
  BY <1>1, <1>2 DEF IInv, LedgerKnowsApproved
<1>7. StepsSoFar'
  <2>1. \A n \in 1..req[r].step : StepApproved(approvals', r, req[r], n)
    BY <1>2, StepsKept DEF IInv, StepsSoFar
  <2>2. \A n \in 1..req[r].step : StepApproved(approvals', r, new, n)
    BY <1>2, <2>1 DEF StepApproved
  <2>3. \A n \in 1..new.step : StepApproved(approvals', r, new, n)
    <3>1. req[r].step \in Nat
      BY <1>3 DEF Rows
    <3> QED
      BY <1>2, <2>2, <3>1
  <2>4. \A o \in Requests \ {r} : req'[o].status = "PENDING" =>
          /\ req'[o].step < Len(req'[o].steps)
          /\ \A n \in 1..req'[o].step : StepApproved(approvals', o, req'[o], n)
    BY <1>1, <1>2, StepsKept DEF IInv, StepsSoFar
  <2> QED
    BY <1>1, <1>2, <2>3, <2>4 DEF StepsSoFar
<1>8. ApprovedThroughout'
  BY <1>1, <1>2, StepsKept DEF IInv, ApprovedThroughout
<1> QED
  BY <1>4, <1>5, <1>6, <1>7, <1>8 DEF IInv

LEMMA ClosedIInv ==
  ASSUME IInv, TypeOK', NEW r \in Requests, NEW new \in Rows, Closed(r, new)
  PROVE  IInv'
<1>1. /\ req'[r] = new
      /\ \A o \in Requests \ {r} : req'[o] = req[o] /\ returned'[o] = returned[o]
      /\ covered' = covered /\ usage' = usage
      /\ approvals \subseteq approvals'
  BY DEF Closed, AddsDecisionOn, IInv, TypeOK
<1>2. /\ new.first = req[r].first /\ new.last = req[r].last
      /\ new.status \in {"DECLINED", "CANCELLED"}
      /\ \/ req[r].status = "PENDING" /\ returned'[r] = returned[r]
         \/ req[r].status = "APPROVED" /\ new.status = "CANCELLED" /\ returned'[r] = TRUE
  BY DEF Closed, IInv, TypeOK
<1>3. SpansApart'
  BY <1>1, <1>2 DEF IInv, SpansApart, Standing
<1>4. DaysInSpan'
  BY <1>1, <1>2 DEF IInv, DaysInSpan
<1>5. LedgerKnowsApproved'
  BY <1>1, <1>2 DEF IInv, LedgerKnowsApproved
<1>6. StepsSoFar'
  BY <1>1, <1>2, StepsKept DEF IInv, StepsSoFar
<1>7. ApprovedThroughout'
  BY <1>1, <1>2, StepsKept DEF IInv, ApprovedThroughout
<1> QED
  BY <1>3, <1>4, <1>5, <1>6, <1>7 DEF IInv

LEMMA NextIInv ==
  ASSUME IInv, [Next]_vars
  PROVE  IInv'
<1>1. TypeOK'
  BY NextTypeOK
<1>2. CASE Frame
  BY <1>1, <1>2, FrameIInv
<1>3. ASSUME NEW r \in Requests, StepKind(r)
      PROVE  IInv'
  BY <1>1, <1>3, GrantedIInv, RequestedIInv, AdvancedIInv, ClosedIInv DEF StepKind
<1> QED
  BY <1>2, <1>3, NextKinds
LEMMA Invariance == Spec => []IInv
<1>1. IInv /\ [Next]_vars => IInv'
  BY NextIInv
<1> QED
  BY InitIInv, <1>1, PTL DEF Spec

----------------------------------------------------------------------------
(* Theorems *)

\* The rows, days, decisions, postings and settings stay of their types.
THEOREM TypeCorrect == Spec => []TypeOK
<1>1. IInv => TypeOK
  BY DEF IInv
<1> QED
  BY Invariance, <1>1, PTL

\* No day is booked twice, however many requests are made, decided and
\* cancelled: finalize writes the days of a request anew from the holidays of
\* that moment, but never outside its span, and spans are kept apart.
THEOREM NeverBookedTwice == Spec => []NoDoubleBooking
<1>1. IInv => NoDoubleBooking
  <2> SUFFICES ASSUME IInv, NEW r \in Standing(req), NEW o \in Standing(req), r # o
               PROVE  covered[r] \cap covered[o] = {}
    BY DEF NoDoubleBooking
  <2>1. r \in Requests /\ o \in Requests /\ req[r].status # "NONE" /\ req[o].status # "NONE"
    BY DEF Standing
  <2>2. /\ covered[r] \subseteq req[r].first..req[r].last
        /\ covered[o] \subseteq req[o].first..req[o].last
    BY <2>1 DEF IInv, DaysInSpan
  <2>3. Apart(req[r].first, req[r].last, req[o].first, req[o].last)
    BY DEF IInv, SpansApart
  <2>4. /\ req[r].first \in Int /\ req[r].last \in Int
        /\ req[o].first \in Int /\ req[o].last \in Int
    <3>1. req[r] \in Rows /\ req[o] \in Rows
      BY <2>1, AbsentIsNoRow DEF IInv, TypeOK
    <3>2. Days \subseteq Int
      BY DEF Days
    <3> QED
      BY <3>1, <3>2 DEF Rows
  <2> QED
    BY <2>2, <2>3, <2>4 DEF Apart
<1> QED
  BY Invariance, <1>1, PTL

\* Status, ledger and calendar agree after every sequence of requests,
\* decisions, cancellations and changes of the holidays.
THEOREM LedgerAndCalendarAgree == Spec => []LedgerMatchesCalendar
<1>1. IInv => LedgerMatchesCalendar
  <2> SUFFICES ASSUME IInv, NEW r \in Requests
               PROVE  /\ req[r].status = "APPROVED" <=> usage[r] # 0 /\ ~returned[r]
                      /\ req[r].status = "APPROVED" => /\ usage[r] = Cardinality(covered[r])
                                                       /\ req[r].days = usage[r]
    BY DEF LedgerMatchesCalendar
  <2>1. req[r].status \in {"NONE"} \cup Statuses
    BY AbsentIsNoRow DEF IInv, TypeOK
  <2> QED
    BY <2>1 DEF IInv, LedgerKnowsApproved, Statuses
<1> QED
  BY Invariance, <1>1, PTL

\* Nothing is approved without every step of its flow, whoever became the
\* manager in between, and never by the employee.
THEOREM ApprovedStepByStep == Spec => []AllStepsApproved
<1>1. IInv => AllStepsApproved
  <2> SUFFICES ASSUME IInv, NEW r \in Requests, req[r].status = "APPROVED"
               PROVE  /\ \A n \in 1..Len(req[r].steps) :
                           \E a \in DecisionsOn(r) : /\ a.step = n - 1
                                                     /\ a.role = req[r].steps[n]
                                                     /\ a.by # Owner
                                                     /\ a.decision = "APPROVED"
                      /\ req[r].steps = <<>> =>
                           \E a \in DecisionsOn(r) : a.decision = "AUTO"
    BY DEF AllStepsApproved
  <2> QED
    BY DEF IInv, ApprovedThroughout, ApprovedByAll, StepApproved, DecisionsOn
<1> QED
  BY Invariance, <1>1, PTL

\* A decided request gets no further decision, and changes only from approved
\* to cancelled.
THEOREM DecisionIsFinal == Spec => DecidedOnce
<1>1. ASSUME IInv, [Next]_vars, NEW r \in Requests,
             req[r].status \in {"APPROVED", "DECLINED", "CANCELLED"}
      PROVE  /\ DecisionsOn(r)' = DecisionsOn(r)
             /\ req'[r].status = req[r].status
                  \/ (req[r].status = "APPROVED" /\ req'[r].status = "CANCELLED")
  <2>1. CASE Frame
    BY <2>1 DEF Frame, DecisionsOn
  <2>2. ASSUME NEW o \in Requests, StepKind(o)
        PROVE  /\ DecisionsOn(r)' = DecisionsOn(r)
               /\ req'[r].status = req[r].status
                    \/ (req[r].status = "APPROVED" /\ req'[r].status = "CANCELLED")
    <3>1. PICK new \in Rows :
            \/ \E days \in SUBSET Days : Granted(o, new, days) \/ Requested(o, new, days)
            \/ Advanced(o, new)
            \/ Closed(o, new)
      BY <2>2 DEF StepKind
    <3>2. /\ req' = [req EXCEPT ![o] = new]
          /\ UNCHANGED approvals \/ AddsDecisionOn(o)
      BY <3>1 DEF Granted, Requested, Advanced, Closed, Placed
    <3>3. CASE o # r
      <4>1. req'[r] = req[r]
        BY <3>2, <3>3 DEF IInv, TypeOK
      <4>2. DecisionsOn(r)' = DecisionsOn(r)
        BY <3>2, <3>3 DEF AddsDecisionOn, DecisionsOn
      <4> QED
        BY <4>1, <4>2
    <3>4. CASE o = r
      <4>1. /\ req[r].status = "APPROVED"
            /\ new.status = "CANCELLED"
            /\ UNCHANGED approvals
        <5>1. \A days : ~Granted(r, new, days) /\ ~Requested(r, new, days)
          BY <1>1 DEF Granted, Requested
        <5>2. ~Advanced(r, new)
          BY <1>1 DEF Advanced
        <5>3. Closed(r, new)
          BY <3>1, <3>4, <5>1, <5>2
        <5> QED
          BY <1>1, <5>3 DEF Closed
      <4>2. req'[r] = new
        BY <1>1, <3>2, <3>4 DEF IInv, TypeOK
      <4> QED
        BY <4>1, <4>2 DEF DecisionsOn
    <3> QED
      BY <3>3, <3>4
  <2> QED
    BY <1>1, <2>1, <2>2, NextKinds
<1>2. IInv /\ [Next]_vars =>
        [\A r \in Requests : req[r].status \in {"APPROVED", "DECLINED", "CANCELLED"} =>
           /\ DecisionsOn(r)' = DecisionsOn(r)
           /\ req'[r].status = req[r].status
                \/ (req[r].status = "APPROVED" /\ req'[r].status = "CANCELLED")]_vars
  BY <1>1
<1> QED
  BY Invariance, <1>2, PTL DEF Spec, DecidedOnce
----------------------------------------------------------------------------
(* Refinement of LeaveCalendar *)

Held(r) == IF req[r].status = "APPROVED" THEN covered[r] ELSE {}
Cost(r) == IF returned[r] THEN 0 ELSE usage[r]

LEMMA InitRefines == Init => Calendar!CInit
<1> SUFFICES ASSUME Init PROVE Calendar!CInit
  OBVIOUS
<1>1. \A r \in Requests : req[r].status # "APPROVED" /\ usage[r] = 0 /\ returned[r] = FALSE
  BY AbsentIsNoRow DEF Init
<1> QED
  BY <1>1 DEF Calendar!CInit

\* A step leaves the calendar alone when it leaves what every request holds,
\* costs and returned alone.
LEMMA CalendarKept ==
  ASSUME \A r \in Requests : Held(r)' = Held(r) /\ Cost(r)' = Cost(r) /\ returned'[r] = returned[r]
  PROVE  UNCHANGED Calendar!cvars
  BY DEF Calendar!cvars, Held, Cost

LEMMA GrantedBooks ==
  ASSUME IInv, NEW r \in Requests, NEW new \in Rows, NEW days \in SUBSET Days,
         Granted(r, new, days)
  PROVE  Calendar!Book(r, days)
<1>1. /\ req'[r] = new /\ covered'[r] = days /\ usage'[r] = Cardinality(days)
      /\ returned' = returned
      /\ \A o \in Requests \ {r} : /\ req'[o] = req[o]
                                  /\ covered'[o] = covered[o]
                                  /\ usage'[o] = usage[o]
  BY DEF Granted, Placed, IInv, TypeOK
<1>2. /\ req[r].status \in {"NONE", "PENDING"}
      /\ new.status = "APPROVED"
      /\ days # {}
      /\ days \subseteq new.first..new.last
      /\ \A o \in Standing(req) \ {r} : Apart(new.first, new.last, req[o].first, req[o].last)
  BY DEF Granted, Placed
<1>3. ~returned[r]
  BY <1>2 DEF IInv, LedgerKnowsApproved
<1>4. ASSUME NEW o \in Requests
      PROVE  Held(o) \cap days = {}
  <2>1. CASE req[o].status # "APPROVED"
    BY <2>1 DEF Held
  <2>2. CASE req[o].status = "APPROVED"
    <3>1. o \in Standing(req) \ {r}
      BY <1>2, <2>2 DEF Standing
    <3>2. Apart(new.first, new.last, req[o].first, req[o].last)
      BY <1>2, <3>1
    <3>3. covered[o] \subseteq req[o].first..req[o].last
      BY <2>2 DEF IInv, DaysInSpan
    <3>4. /\ new.first \in Int /\ new.last \in Int
          /\ req[o].first \in Int /\ req[o].last \in Int
      <4>1. req[o] \in Rows
        BY <2>2, AbsentIsNoRow DEF IInv, TypeOK
      <4>2. Days \subseteq Int
        BY DEF Days
      <4> QED
        BY <4>1, <4>2 DEF Rows
    <3>5. covered[o] \cap days = {}
      BY <1>2, <3>2, <3>3, <3>4 DEF Apart
    <3> QED
      BY <2>2, <3>5 DEF Held
  <2> QED
    BY <2>1, <2>2
<1>5. Held(r)' = days /\ Cost(r)' = Cardinality(days)
  BY <1>1, <1>2, <1>3 DEF Held, Cost
<1>6. \A o \in Requests \ {r} : Held(o)' = Held(o) /\ Cost(o)' = Cost(o)
  BY <1>1 DEF Held, Cost
<1>7. Held(r) = {}
  BY <1>2 DEF Held
<1>8. [o \in Requests |-> Held(o)]' = [[o \in Requests |-> Held(o)] EXCEPT ![r] = days]
  BY <1>5, <1>6
<1>9. [o \in Requests |-> Cost(o)]' = [[o \in Requests |-> Cost(o)] EXCEPT ![r] = Cardinality(days)]
  BY <1>5, <1>6
<1> QED
  <2>1. r \notin {o \in Requests : returned[o]}
    BY <1>3
  <2>2. UNCHANGED {o \in Requests : returned[o]}
    BY <1>1
  <2>3. [o \in Requests |-> Held(o)][r] = {}
    BY <1>7
  <2>4. \A o \in Requests : [p \in Requests |-> Held(p)][o] \cap days = {}
    BY <1>4
  <2>5. Calendar!Cardinality(days) = Cardinality(days)
    BY DEF Calendar!Cardinality, Cardinality
  <2> QED
    BY <1>2, <1>8, <1>9, <2>1, <2>2, <2>3, <2>4, <2>5 DEF Calendar!Book, Held, Cost

LEMMA ClosedReleases ==
  ASSUME IInv, NEW r \in Requests, NEW new \in Rows, Closed(r, new)
  PROVE  Calendar!Release(r) \/ UNCHANGED Calendar!cvars
<1>1. /\ req'[r] = new
      /\ \A o \in Requests \ {r} : req'[o] = req[o] /\ returned'[o] = returned[o]
      /\ covered' = covered /\ usage' = usage
      /\ new.status # "APPROVED"
  BY DEF Closed, IInv, TypeOK
<1>2. CASE req[r].status = "PENDING" /\ UNCHANGED returned
  <2>1. \A o \in Requests : Held(o)' = Held(o) /\ Cost(o)' = Cost(o) /\ returned'[o] = returned[o]
    BY <1>1, <1>2 DEF Held, Cost
  <2> QED
    BY <2>1, CalendarKept
<1>3. CASE req[r].status = "APPROVED" /\ returned' = [returned EXCEPT ![r] = TRUE]
  <2>1. returned'[r] = TRUE /\ returned' \in [Requests -> BOOLEAN]
    BY <1>3 DEF IInv, TypeOK
  <2>2. Held(r)' = {} /\ Cost(r)' = 0
    BY <1>1, <2>1 DEF Held, Cost
  <2>3. \A o \in Requests \ {r} : Held(o)' = Held(o) /\ Cost(o)' = Cost(o)
    BY <1>1 DEF Held, Cost
  <2>4. Held(r) # {}
    BY <1>3 DEF Held, IInv, DaysInSpan
  <2>5. [o \in Requests |-> Held(o)]' = [[o \in Requests |-> Held(o)] EXCEPT ![r] = {}]
    BY <2>2, <2>3
  <2>6. [o \in Requests |-> Cost(o)]' = [[o \in Requests |-> Cost(o)] EXCEPT ![r] = 0]
    BY <2>2, <2>3
  <2>7. {o \in Requests : returned[o]}' = {o \in Requests : returned[o]} \cup {r}
    BY <1>1, <2>1
  <2> QED
    BY <2>4, <2>5, <2>6, <2>7 DEF Calendar!Release, Held, Cost
<1> QED
  BY <1>2, <1>3 DEF Closed

LEMMA NextRefines == IInv /\ [Next]_vars => [Calendar!CNext]_(Calendar!cvars)
<1> SUFFICES ASSUME IInv, [Next]_vars PROVE [Calendar!CNext]_(Calendar!cvars)
  OBVIOUS
<1>1. CASE Frame
  <2>1. \A r \in Requests : Held(r)' = Held(r) /\ Cost(r)' = Cost(r) /\ returned'[r] = returned[r]
    BY <1>1 DEF Frame, Held, Cost
  <2> QED
    BY <2>1, CalendarKept
<1>2. ASSUME NEW r \in Requests, NEW new \in Rows, NEW days \in SUBSET Days,
             Granted(r, new, days)
      PROVE  Calendar!CNext
  BY <1>2, GrantedBooks DEF Calendar!CNext
<1>3. ASSUME NEW r \in Requests, NEW new \in Rows, NEW days \in SUBSET Days,
             Requested(r, new, days)
      PROVE  UNCHANGED Calendar!cvars
  <2>1. /\ req[r].status = "NONE" /\ req'[r].status = "PENDING"
        /\ \A o \in Requests \ {r} : req'[o] = req[o] /\ covered'[o] = covered[o]
        /\ UNCHANGED <<usage, returned>>
    BY <1>3 DEF Requested, Placed, IInv, TypeOK
  <2>2. \A o \in Requests : Held(o)' = Held(o) /\ Cost(o)' = Cost(o) /\ returned'[o] = returned[o]
    BY <2>1 DEF Held, Cost
  <2> QED
    BY <2>2, CalendarKept
<1>4. ASSUME NEW r \in Requests, NEW new \in Rows, Advanced(r, new)
      PROVE  UNCHANGED Calendar!cvars
  <2>1. /\ req[r].status = "PENDING" /\ req'[r].status = "PENDING"
        /\ \A o \in Requests \ {r} : req'[o] = req[o]
        /\ UNCHANGED <<covered, usage, returned>>
    BY <1>4 DEF Advanced, IInv, TypeOK
  <2>2. \A o \in Requests : Held(o)' = Held(o) /\ Cost(o)' = Cost(o) /\ returned'[o] = returned[o]
    BY <2>1 DEF Held, Cost
  <2> QED
    BY <2>2, CalendarKept
<1>5. ASSUME NEW r \in Requests, NEW new \in Rows, Closed(r, new)
      PROVE  Calendar!CNext \/ UNCHANGED Calendar!cvars
  BY <1>5, ClosedReleases DEF Calendar!CNext
<1>6. CASE \E r \in Requests : StepKind(r)
  BY <1>2, <1>3, <1>4, <1>5, <1>6 DEF StepKind
<1> QED
  BY <1>1, <1>6, NextKinds

\* LeaveRequests implements LeaveCalendar: a request is given days of its own,
\* costs what it holds, and what is cancelled costs nothing ever after.
THEOREM CalendarImplemented == Spec => BooksLeave
<1>1. IInv /\ [Next]_vars => [Calendar!CNext]_(Calendar!cvars)
  BY NextRefines
<1>2. IInv /\ [Next]_vars => IInv'
  BY NextIInv
<1> QED
  BY <1>1, <1>2, InitRefines, InitIInv, PTL DEF Spec, BooksLeave, Calendar!CSpec

----------------------------------------------------------------------------
(* Leave booked against the balance *)

\* What each request costs.
Work(table) == [r \in Requests |-> table[r].days]

\* Requests of type t that are pending or approved.
Promises(t) == OfType(req, t) \cap Standing(req)

\* Only so many requests have been made.
FiniteRequests == IsFiniteSet({r \in Requests : req[r].status # "NONE"})

CInv ==
  /\ IInv
  /\ FiniteRequests
  /\ Tracked \subseteq offered
  /\ CoveredButOneMonth

\* r is made or approved for good, and the balance allows it.
Booked(r, new) ==
  /\ req[r].status \in {"NONE", "PENDING"}
  /\ new.status \in {"PENDING", "APPROVED"}
  /\ req' = [req EXCEPT ![r] = new]
  /\ new.type \in Tracked =>
       new.days <= Available(r, new.type, new.first, Now) + AllowNegative

\* r goes on, or ends, at the cost it had.
Kept(r, new) ==
  /\ req[r].status \in {"PENDING", "APPROVED"}
  /\ new.type = req[r].type
  /\ new.first = req[r].first
  /\ new.days = req[r].days
  /\ req' = [req EXCEPT ![r] = new]

LEMMA FinalizeBooks ==
  ASSUME TypeOK, NEW r \in Requests, NEW row \in Rows,
         req[r].status \in {"NONE", "PENDING"}, Finalize(r, row, Now)
  PROVE  \E new \in Rows : Booked(r, new)
  <1> DEFINE days == WorkingDays(row.first, row.last, closed)
             n == Cardinality(days)
  <1>1. Now.closed = closed BY DEF Now
  <1>2. row.first \in Days /\ row.last \in Days BY DEF Rows
  <1>3. n \in Nat BY <1>2, DaysCounted
  <1>4. row.type \in Tracked => n <= Available(r, row.type, row.first, Now) + AllowNegative
    BY <1>1 DEF Finalize, Fits
  <1>5. req' = [req EXCEPT ![r] = [row EXCEPT !.status = "APPROVED", !.days = n, !.step = Len(row.steps)]]
    BY <1>1 DEF Finalize
  <1> HIDE DEF n
  <1>6. PICK new : new = [row EXCEPT !.status = "APPROVED", !.days = n, !.step = Len(row.steps)] OBVIOUS
  <1>7. Len(row.steps) \in Nat BY DEF Rows
  <1>8. /\ new \in Rows /\ new.status = "APPROVED" /\ new.days = n
        /\ new.first = row.first /\ new.type = row.type
    BY <1>3, <1>6, <1>7 DEF Rows, Statuses
  <1>9. req' = [req EXCEPT ![r] = new] BY <1>5, <1>6
  <1>10. QED BY <1>4, <1>8, <1>9 DEF Booked

LEMMA CreateBooks ==
  ASSUME IInv, NEW r \in Requests, NEW u \in People, NEW t \in Types,
         NEW first \in Days, NEW last \in Days, NEW flow \in Flows, NEW auto \in BOOLEAN,
         Create(u, r, t, first, last, flow, auto, Now, Now)
  PROVE  \E new \in Rows : Booked(r, new)
  <1> DEFINE steps == IF auto /\ u # Owner THEN <<>> ELSE StepsFor(flow, manager)
             n == Cardinality(WorkingDays(first, last, closed))
             row == [status |-> "PENDING", type |-> t, first |-> first, last |-> last,
                     days |-> n, steps |-> steps, step |-> 0]
  <1>1. Now.closed = closed /\ Now.manager = manager BY DEF Now
  <1>2. /\ req[r] = Absent
        /\ Fits(r, t, first, last, Now)
        /\ Finalize(r, row, Now) \/ req' = [req EXCEPT ![r] = row]
    BY <1>1 DEF Create
  <1>3. t \in Tracked => n <= Available(r, t, first, Now) + AllowNegative BY <1>1, <1>2 DEF Fits
  <1>4. n \in Nat BY DaysCounted
  <1>5. steps \in Seq(Roles) BY StepsAreRoles
  <1>6. req[r].status = "NONE" BY <1>2, AbsentIsNoRow
  <1> HIDE DEF n, steps
  <1>7. row \in Rows BY <1>4, <1>5 DEF Rows, Statuses
  <1>8. row.status = "PENDING" /\ row.type = t /\ row.first = first /\ row.days = n OBVIOUS
  <1> HIDE DEF row
  <1>9. CASE Finalize(r, row, Now) BY <1>6, <1>7, <1>9, FinalizeBooks DEF IInv
  <1>10. CASE req' = [req EXCEPT ![r] = row]
    <2>1. Booked(r, row) BY <1>3, <1>6, <1>8, <1>10 DEF Booked
    <2>2. QED BY <1>7, <2>1
  <1>11. QED BY <1>2, <1>9, <1>10

LEMMA ApproveBooks ==
  ASSUME IInv, NEW r \in Requests, NEW u \in People, Approve(u, r, Now, Now)
  PROVE  \E new \in Rows : Booked(r, new) \/ Kept(r, new)
  <1> DEFINE row == req[r]
  <1>1. Now.req = req BY DEF Now
  <1>2. /\ row.status = "PENDING"
        /\ Finalize(r, row, Now) \/ req' = [req EXCEPT ![r].step = row.step + 1]
    BY <1>1 DEF Approve
  <1>3. row \in Rows BY <1>2, AbsentIsNoRow DEF IInv, TypeOK
  <1>4. CASE Finalize(r, row, Now) BY <1>2, <1>3, <1>4, FinalizeBooks DEF IInv
  <1>5. CASE req' = [req EXCEPT ![r].step = row.step + 1]
    <2>1. PICK new : new = [row EXCEPT !.step = row.step + 1] OBVIOUS
    <2>2. row.step + 1 \in Nat BY <1>3 DEF Rows
    <2>3. new \in Rows /\ new.type = row.type /\ new.first = row.first /\ new.days = row.days
      BY <1>3, <2>1, <2>2 DEF Rows
    <2>4. req' = [req EXCEPT ![r] = new] BY <1>5, <2>1 DEF IInv, TypeOK
    <2>5. Kept(r, new) BY <1>2, <2>3, <2>4 DEF Kept
    <2>6. QED BY <2>3, <2>5
  <1>6. QED BY <1>2, <1>4, <1>5

LEMMA EndKeeps ==
  ASSUME IInv, NEW r \in Requests, NEW u \in People, Decline(u, r, Now) \/ Cancel(u, r, Now)
  PROVE  \E new \in Rows : Kept(r, new)
  <1> DEFINE row == req[r]
  <1>1. Now.req = req BY DEF Now
  <1>2. PICK status \in Statuses :
          row.status \in {"PENDING", "APPROVED"} /\ req' = [req EXCEPT ![r].status = status]
    BY <1>1 DEF Decline, Cancel, Statuses
  <1>3. row \in Rows BY <1>2, AbsentIsNoRow DEF IInv, TypeOK
  <1>4. PICK new : new = [row EXCEPT !.status = status] OBVIOUS
  <1>5. new \in Rows /\ new.type = row.type /\ new.first = row.first /\ new.days = row.days
    BY <1>3, <1>4 DEF Rows
  <1>6. req' = [req EXCEPT ![r] = new] BY <1>2, <1>4 DEF IInv, TypeOK
  <1>7. Kept(r, new) BY <1>2, <1>5, <1>6 DEF Kept
  <1>8. QED BY <1>5, <1>7

LEMMA RequestStepCosts ==
  ASSUME IInv, NEW r \in Requests, RequestStep(r)
  PROVE  /\ \E new \in Rows : Booked(r, new) \/ Kept(r, new)
         /\ UNCHANGED <<credit, offered, today>>
  <1>1. ASSUME NEW u \in People, NEW t \in Types, NEW first \in Days, NEW last \in Days,
               NEW flow \in Flows, NEW auto \in BOOLEAN,
               Create(u, r, t, first, last, flow, auto, Now, Now)
        PROVE  /\ \E new \in Rows : Booked(r, new) \/ Kept(r, new)
               /\ UNCHANGED <<credit, offered, today>>
    <2>1. UNCHANGED <<credit, offered, today>> BY <1>1 DEF Create
    <2>2. \E new \in Rows : Booked(r, new) BY <1>1, CreateBooks
    <2>3. QED BY <2>1, <2>2
  <1>2. ASSUME NEW u \in People, Approve(u, r, Now, Now)
        PROVE  /\ \E new \in Rows : Booked(r, new) \/ Kept(r, new)
               /\ UNCHANGED <<credit, offered, today>>
    <2>1. UNCHANGED <<credit, offered, today>> BY <1>2 DEF Approve
    <2>2. QED BY <1>2, <2>1, ApproveBooks
  <1>3. ASSUME NEW u \in People, Decline(u, r, Now) \/ Cancel(u, r, Now)
        PROVE  /\ \E new \in Rows : Booked(r, new) \/ Kept(r, new)
               /\ UNCHANGED <<credit, offered, today>>
    <2>1. UNCHANGED <<credit, offered, today>> BY <1>3 DEF Decline, Cancel
    <2>2. \E new \in Rows : Kept(r, new) BY <1>3, EndKeeps
    <2>3. QED BY <2>1, <2>2
  <1>4. QED BY <1>1, <1>2, <1>3 DEF RequestStep

----------------------------------------------------------------------------
(* The balance *)

LEMMA Counted ==
  ASSUME NEW x, NEW y
  PROVE  /\ IsFiniteSet({m \in MonthEnds : x < m /\ m <= y})
         /\ IsFiniteSet({m \in MonthEnds : x <= m /\ m <= y})
         /\ Cardinality({m \in MonthEnds : x < m /\ m <= y}) \in Nat
         /\ Cardinality({m \in MonthEnds : x <= m /\ m <= y}) \in Nat
  <1>1. IsFiniteSet(Days) BY FS_Interval, LeaveAssumption DEF Days
  <1>2. MonthEnds \subseteq Days BY LeaveAssumption
  <1>3. /\ IsFiniteSet({m \in MonthEnds : x < m /\ m <= y})
        /\ IsFiniteSet({m \in MonthEnds : x <= m /\ m <= y})
    BY <1>1, <1>2, FS_Subset
  <1>4. QED BY <1>3, FS_CardinalityType

LEMMA Times ==
  ASSUME NEW n \in Nat
  PROVE  /\ MonthlyAccrual * n \in Nat
         /\ \A k \in Nat : n <= k => MonthlyAccrual * n <= MonthlyAccrual * k
         /\ MonthlyAccrual * (n + 1) = MonthlyAccrual * n + MonthlyAccrual
  BY LeaveAssumption

\* What is counted ahead for leave from day f is credited by then, but for
\* one month.
LEMMA AheadByOne ==
  ASSUME TypeOK, NEW f \in Days, NEW d \in Days, f <= d
  PROVE  LET n == Cardinality({m \in MonthEnds : today < m /\ m <= d}) IN
         /\ n \in Nat
         /\ Projected(f) \in Nat
         /\ Projected(f) <= MonthlyAccrual * n + MonthlyAccrual
  <1> DEFINE N == {m \in MonthEnds : today < m /\ m <= d}
             P == {m \in MonthEnds : today <= m /\ m <= f}
             n == Cardinality(N)
             p == Cardinality(P)
  <1>1. /\ IsFiniteSet(N) /\ n \in Nat /\ p \in Nat BY Counted
  <1>2. P \subseteq N \cup {today}
    <2>1. today \in Int /\ f \in Int /\ d \in Int /\ Days \subseteq Int BY LeaveAssumption DEF TypeOK, Days
    <2>2. MonthEnds \subseteq Int BY <2>1, LeaveAssumption
    <2>3. ASSUME NEW m \in P PROVE m \in N \cup {today}
      <3>1. m \in MonthEnds /\ m \in Int /\ today <= m /\ m <= f BY <2>2
      <3>2. m = today \/ (today < m /\ m <= d) BY <2>1, <3>1
      <3>3. QED BY <3>1, <3>2
    <2>4. QED BY <2>3
  <1>3. IsFiniteSet(N \cup {today}) /\ Cardinality(N \cup {today}) <= n + 1
    <2> HIDE DEF N
    <2>1. QED BY <1>1, FS_AddElement
  <1>4. p <= n + 1
    <2> HIDE DEF N, P
    <2>1. Cardinality(P) <= Cardinality(N \cup {today}) BY <1>2, <1>3, FS_Subset
    <2>2. Cardinality(N \cup {today}) \in Nat BY <1>3, FS_CardinalityType
    <2>3. QED BY <1>1, <1>3, <2>1, <2>2
  <1>5. Projected(f) = 0 \/ Projected(f) = MonthlyAccrual * p BY DEF Projected
  <1> HIDE DEF n, p, N, P
  <1>6. n + 1 \in Nat BY <1>1
  <1>7. MonthlyAccrual * p \in Nat /\ MonthlyAccrual * p <= MonthlyAccrual * (n + 1) BY <1>1, <1>4, <1>6, Times
  <1>8. MonthlyAccrual * (n + 1) = MonthlyAccrual * n + MonthlyAccrual /\ MonthlyAccrual * n \in Nat BY <1>1, Times
  <1>9. MonthlyAccrual \in Nat BY LeaveAssumption
  <1>10. n \in Nat /\ Projected(f) \in Nat /\ Projected(f) <= MonthlyAccrual * n + MonthlyAccrual
    BY <1>1, <1>5, <1>7, <1>8, <1>9
  <1>11. QED BY <1>10 DEF n, N

\* Days that requests cost are numbers.
LEMMA WorkIsNat ==
  ASSUME IInv PROVE \A r \in Requests : req[r].status # "NONE" => Work(req)[r] \in Nat
  <1>1. ASSUME NEW r \in Requests, req[r].status # "NONE" PROVE req[r].days \in Nat
    <2>1. req[r] \in Rows BY <1>1, AbsentIsNoRow DEF IInv, TypeOK
    <2>2. QED BY <2>1 DEF Rows
  <1>2. QED BY <1>1 DEF Work

LEMMA MadeIsFinite ==
  ASSUME IInv, FiniteRequests, NEW t
  PROVE  /\ IsFiniteSet(OfType(req, t))
         /\ Promises(t) \subseteq OfType(req, t)
         /\ IsFiniteSet(Promises(t))
         /\ Promises(t) \subseteq {r \in Requests : req[r].status # "NONE"}
         /\ \A r \in Promises(t) : Work(req)[r] \in Nat
  <1>1. OfType(req, t) \subseteq {r \in Requests : req[r].status # "NONE"} BY DEF OfType
  <1>2. Promises(t) \subseteq OfType(req, t) BY DEF Promises
  <1>3. IsFiniteSet(OfType(req, t)) /\ IsFiniteSet(Promises(t)) BY <1>1, <1>2, FS_Subset DEF FiniteRequests
  <1>4. QED BY <1>1, <1>2, <1>3, WorkIsNat

LEMMA PromisedIs ==
  ASSUME NEW table, NEW rows \in SUBSET Requests, IsFiniteSet(rows)
  PROVE  Promised(table, rows) = SumFunctionOnSet(Work(table), rows)
  <1> DEFINE f == [r \in rows |-> table[r].days]
  <1>1. \A r \in rows : f[r] = Work(table)[r] BY DEF Work
  <1> HIDE DEF f
  <1>2. SumFunctionOnSet(f, rows) = SumFunctionOnSet(Work(table), rows) BY <1>1, SumSame
  <1>3. QED BY <1>2 DEF Promised, f

\* The balance less what is pending is the credit less all that is promised.
LEMMA AvailableIs ==
  ASSUME IInv, FiniteRequests, NEW r \in Requests, NEW t \in Tracked, NEW f,
         req[r].status \in {"NONE", "PENDING"}
  PROVE  Available(r, t, f, Now)
           = (credit[t] - SumFunctionOnSet(Work(req), Promises(t) \ {r})) + Projected(f)
  <1> DEFINE L == {o \in OfType(req, t) : ~returned[o]}
             A == {o \in OfType(req, t) : req[o].status = "APPROVED"}
             P == {o \in OfType(req, t) \ {r} : req[o].status = "PENDING"}
             W == Work(req)
  <1>0. OfType(req, t) \subseteq Requests /\ IsFiniteSet(OfType(req, t)) BY MadeIsFinite DEF OfType
  <1>1. L \subseteq OfType(req, t) /\ A \subseteq OfType(req, t) /\ P \subseteq OfType(req, t) OBVIOUS
  <1>2. IsFiniteSet(L) /\ IsFiniteSet(A) /\ IsFiniteSet(P) BY <1>0, <1>1, FS_Subset
  <1>3. A \subseteq L /\ \A o \in L \ A : usage[o] = 0
    <2>1. ASSUME NEW o \in A PROVE o \in L BY <1>0 DEF IInv, LedgerKnowsApproved
    <2>2. ASSUME NEW o \in L \ A PROVE usage[o] = 0
      <3>1. o \in Requests /\ req[o].status \in Statuses /\ req[o].status # "APPROVED" /\ ~returned[o]
        <4>1. o \in Requests /\ req[o].status # "NONE" BY DEF OfType
        <4>2. req[o] \in Rows BY <4>1, AbsentIsNoRow DEF IInv, TypeOK
        <4>3. QED BY <4>1, <4>2 DEF Rows
      <3>2. QED BY <3>1 DEF IInv, LedgerKnowsApproved, Statuses
    <2>3. QED BY <2>1, <2>2
  <1>4. \A o \in L : usage[o] \in Int BY <1>0 DEF IInv, TypeOK
  <1>5. \A o \in A : usage[o] = W[o]
    <2>1. ASSUME NEW o \in A PROVE usage[o] = req[o].days BY <1>0 DEF IInv, LedgerKnowsApproved
    <2>2. QED BY <1>0, <2>1 DEF Work
  <1>6. \A o \in A \cup P : W[o] \in Int
    <2>1. \A o \in OfType(req, t) : W[o] \in Nat BY WorkIsNat DEF OfType
    <2>2. QED BY <2>1
  <1>7. A \cap P = {} /\ Promises(t) \ {r} = A \cup P
    <2>1. r \notin A OBVIOUS
    <2>2. \A o \in OfType(req, t) : o \in Standing(req) <=> req[o].status \in {"PENDING", "APPROVED"}
      BY DEF Standing, OfType
    <2>3. Promises(t) \ {r} = A \cup P
      <3> HIDE DEF A, P
      <3>1. \A o : o \in A <=> o \in OfType(req, t) /\ req[o].status = "APPROVED" BY DEF A
      <3>2. \A o : o \in P <=> o \in OfType(req, t) /\ o # r /\ req[o].status = "PENDING" BY DEF P
      <3>3. \A o : o \in Promises(t) <=> o \in OfType(req, t) /\ req[o].status \in {"PENDING", "APPROVED"}
        BY <2>2 DEF Promises
      <3>4. QED BY <2>1, <3>1, <3>2, <3>3
    <2>4. QED BY <2>3
  <1>8. /\ Balance(t, Now) = credit[t] - SumFunctionOnSet(usage, L)
        /\ Available(r, t, f, Now) = Balance(t, Now) + Projected(f) - Promised(req, P)
    BY DEF Balance, Available, Now
  <1>9. P \subseteq Requests BY <1>0
  <1> DEFINE l == SumFunctionOnSet(usage, L)
             a == SumFunctionOnSet(usage, A)
             b == SumFunctionOnSet(W, A)
             p == SumFunctionOnSet(W, P)
             s == SumFunctionOnSet(W, Promises(t) \ {r})
  <1> HIDE DEF L, A, P, W
  <1>10. l = a
    <2>1. L = A \cup (L \ A) /\ A \cap (L \ A) = {} /\ \A o \in A \cup (L \ A) : usage[o] \in Int BY <1>3, <1>4
    <2>2. IsFiniteSet(L \ A) BY <1>2, FS_Subset
    <2>3. SumFunctionOnSet(usage, A \cup (L \ A)) = SumFunctionOnSet(usage, A) + SumFunctionOnSet(usage, L \ A)
      BY <1>2, <2>1, <2>2, SumUnion
    <2>4. SumFunctionOnSet(usage, L \ A) = 0 BY <1>3, <2>2, SumZeros
    <2>5. SumFunctionOnSet(usage, A) \in Int BY <1>2, <2>1, SumType
    <2>6. SumFunctionOnSet(usage, A \cup (L \ A)) = SumFunctionOnSet(usage, A) BY <2>3, <2>4, <2>5
    <2>7. QED BY <2>1, <2>6, Zenon
  <1>11. a = b BY <1>2, <1>5, SumSame
  <1>12. s = b + p
    <2>1. SumFunctionOnSet(W, A \cup P) = b + p BY <1>2, <1>6, <1>7, SumUnion
    <2>2. QED BY <1>7, <2>1, Zenon
  <1>13. b \in Int /\ p \in Int BY <1>2, <1>6, SumType
  <1>14. Promised(req, P) = p BY <1>2, <1>9, PromisedIs DEF W
  <1>15. credit[t] \in Int /\ Projected(f) \in Int
    <2>1. credit[t] \in Int BY DEF IInv, TypeOK
    <2>2. MonthlyAccrual * Cardinality({m \in MonthEnds : today <= m /\ m <= f}) \in Nat BY Counted, Times
    <2>3. QED BY <2>1, <2>2 DEF Projected
  <1>16. Balance(t, Now) = credit[t] - b BY <1>8, <1>10, <1>11
  <1>17. Available(r, t, f, Now) = (credit[t] - b) + Projected(f) - p BY <1>8, <1>14, <1>16
  <1> HIDE DEF l, a, b, p, s
  <1>18. Available(r, t, f, Now) = (credit[t] - s) + Projected(f) BY <1>12, <1>13, <1>15, <1>17
  <1>19. QED BY <1>18 DEF s, W

----------------------------------------------------------------------------
(* Every step leaves the promises covered *)

\* What can be said of the promises by day d that count towards t.
LEMMA StartingByIs ==
  ASSUME IInv, FiniteRequests, NEW t, NEW d
  PROVE  /\ StartingBy(t, d) \subseteq Promises(t)
         /\ StartingBy(t, d) \subseteq Requests
         /\ IsFiniteSet(StartingBy(t, d))
         /\ Promised(req, StartingBy(t, d)) = SumFunctionOnSet(Work(req), StartingBy(t, d))
         /\ \A r \in StartingBy(t, d) : Work(req)[r] \in Nat
  <1>1. StartingBy(t, d) \subseteq Promises(t) BY DEF StartingBy, Promises
  <1>2. Promises(t) \subseteq Requests BY MadeIsFinite
  <1>3. IsFiniteSet(StartingBy(t, d)) BY <1>1, MadeIsFinite, FS_Subset
  <1>4. StartingBy(t, d) \subseteq Requests BY <1>1, <1>2
  <1>5. QED BY <1>1, <1>3, <1>4, MadeIsFinite, PromisedIs

\* One row changes: what the others promise is what it was.
LEMMA OthersPromise ==
  ASSUME IInv, FiniteRequests, NEW r \in Requests, NEW new \in Rows,
         req' = [req EXCEPT ![r] = new], NEW t, NEW d
  PROVE  /\ \A o \in Requests \ {r} : o \in StartingBy(t, d)' <=> o \in StartingBy(t, d)
         /\ \A o \in Requests \ {r} : Work(req)'[o] = Work(req)[o]
         /\ r \in StartingBy(t, d)' <=>
              new.type = t /\ new.status \in {"PENDING", "APPROVED"} /\ new.first <= d
         /\ Work(req)'[r] = new.days
         /\ StartingBy(t, d)' \subseteq Requests
  <1>1. req'[r] = new /\ \A o \in Requests \ {r} : req'[o] = req[o] BY DEF IInv, TypeOK
  <1>2. new.status # "NONE" BY AbsentIsNoRow
  <1>3. QED BY <1>1, <1>2 DEF StartingBy, OfType, Standing, Work

LEMMA FiniteKept ==
  ASSUME IInv, FiniteRequests, NEW r \in Requests, NEW new, req' = [req EXCEPT ![r] = new]
  PROVE  FiniteRequests'
  <1> DEFINE M == {o \in Requests : req[o].status # "NONE"}
             N == {o \in Requests : req'[o].status # "NONE"}
  <1>1. N \subseteq M \cup {r} BY DEF IInv, TypeOK
  <1>2. IsFiniteSet(M \cup {r}) BY FS_AddElement DEF FiniteRequests
  <1>3. IsFiniteSet(N) BY <1>1, <1>2, FS_Subset
  <1>4. QED BY <1>3 DEF FiniteRequests

LEMMA BookedCovered ==
  ASSUME CInv, IInv', NEW r \in Requests, NEW new \in Rows, Booked(r, new),
         UNCHANGED <<credit, today>>, FiniteRequests',
         NEW t \in Tracked, NEW d \in Days, StartingBy(t, d)' # {}
  PROVE  Promised(req, StartingBy(t, d))' <= Cover(t, d)' + MonthlyAccrual
  <1> DEFINE S == StartingBy(t, d)
             T == StartingBy(t, d)'
             W == Work(req)
             V == Work(req)'
             n == Cardinality({m \in MonthEnds : today < m /\ m <= d})
             c == credit[t] + AllowNegative + MonthlyAccrual * n
  <1>0. IInv /\ FiniteRequests /\ req' = [req EXCEPT ![r] = new] BY DEF CInv, Booked
  <1>1. /\ \A o \in Requests \ {r} : o \in T <=> o \in S
        /\ \A o \in Requests \ {r} : V[o] = W[o]
        /\ r \in T <=> new.type = t /\ new.status \in {"PENDING", "APPROVED"} /\ new.first <= d
        /\ V[r] = new.days
        /\ T \subseteq Requests
    BY <1>0, OthersPromise
  <1>2. /\ S \subseteq Promises(t) /\ S \subseteq Requests /\ IsFiniteSet(S)
        /\ Promised(req, S) = SumFunctionOnSet(W, S)
        /\ \A o \in S : W[o] \in Nat
    BY <1>0, StartingByIs
  <1>3. Cover(t, d)' = c /\ Cover(t, d) = c BY DEF Cover
  <1>4. n \in Nat BY Counted
  <1>5. c \in Int /\ credit[t] \in Int /\ MonthlyAccrual * n \in Nat /\ AllowNegative \in Int /\ MonthlyAccrual \in Nat
    BY <1>0, <1>4, LeaveAssumption, Times DEF IInv, TypeOK
  <1>6. /\ IsFiniteSet(T)
        /\ Promised(req', T) = SumFunctionOnSet(V, T)
    <2>1. T \subseteq S \cup {r} BY <1>1
    <2>2. IsFiniteSet(T) BY <1>2, <2>1, FS_AddElement, FS_Subset
    <2>3. Promised(req', T) = SumFunctionOnSet(Work(req'), T) BY <1>1, <2>2, PromisedIs
    <2>4. QED BY <2>2, <2>3
  <1>7. IsFiniteSet(S \ {r}) /\ (S \ {r}) \in SUBSET S BY <1>2, FS_Subset
  <1>8. SumFunctionOnSet(V, S \ {r}) = SumFunctionOnSet(W, S \ {r})
    <2> HIDE DEF S, V, W
    <2>1. \A o \in S \ {r} : V[o] = W[o] BY <1>1, <1>2
    <2>2. QED BY <1>7, <2>1, SumSame
  <1>9. CASE r \notin T
    <2>1. T = S \ {r} BY <1>1, <1>2, <1>9
    <2>2. S # {} BY <2>1
    <2>3. Promised(req, S) <= c + MonthlyAccrual BY <2>2, <1>3 DEF CInv, CoveredButOneMonth
    <2> HIDE DEF S, T, V, W, c
    <2>4. SumFunctionOnSet(W, S \ {r}) <= SumFunctionOnSet(W, S) BY <1>2, <1>7, SumPart
    <2>5. SumFunctionOnSet(W, S \ {r}) \in Int /\ SumFunctionOnSet(W, S) \in Int BY <1>2, <1>7, SumType
    <2>6. Promised(req', T) = SumFunctionOnSet(W, S \ {r}) BY <1>6, <1>8, <2>1, Zenon
    <2>7. Promised(req', T) <= c + MonthlyAccrual BY <1>2, <1>5, <2>3, <2>4, <2>5, <2>6
    <2>8. QED BY <1>3, <2>7 DEF T
  <1>10. CASE r \in T
    <2> DEFINE R == Promises(t) \ {r}
    <2>1. new.type = t /\ new.first <= d /\ T = (S \ {r}) \cup {r} BY <1>1, <1>2, <1>10
    <2>2. new.days <= Available(r, t, new.first, Now) + AllowNegative BY <2>1 DEF Booked
    <2>3. Available(r, t, new.first, Now) = (credit[t] - SumFunctionOnSet(W, R)) + Projected(new.first)
      BY <1>0, AvailableIs DEF Booked
    <2>4. new.first \in Days /\ new.days \in Nat BY DEF Rows
    <2>5. Projected(new.first) \in Nat /\ Projected(new.first) <= MonthlyAccrual * n + MonthlyAccrual
      BY <1>0, <2>1, <2>4, AheadByOne DEF IInv
    <2>6. IsFiniteSet(R) /\ S \ {r} \in SUBSET R /\ \A o \in R : W[o] \in Nat
      BY <1>0, <1>2, MadeIsFinite, FS_Subset
    <2> HIDE DEF S, T, V, W, R, n
    <2>7. SumFunctionOnSet(W, S \ {r}) <= SumFunctionOnSet(W, R) BY <2>6, SumPart
    <2>8. SumFunctionOnSet(W, S \ {r}) \in Int /\ SumFunctionOnSet(W, R) \in Int BY <1>2, <1>7, <2>6, SumType
    <2>9. SumFunctionOnSet(V, (S \ {r}) \cup {r}) = SumFunctionOnSet(V, S \ {r}) + V[r]
      <3>1. \A o \in (S \ {r}) \cup {r} : V[o] \in Int
        <4>1. V[r] \in Int BY <1>1, <2>4
        <4>2. ASSUME NEW o \in S \ {r} PROVE V[o] \in Int BY <1>1, <1>2
        <4>3. QED BY <4>1, <4>2
      <3>2. r \notin S \ {r} OBVIOUS
      <3>3. QED BY <1>7, <3>1, <3>2, SumAdd
    <2>10. Promised(req', T) = SumFunctionOnSet(W, S \ {r}) + new.days BY <1>1, <1>6, <1>8, <2>1, <2>9, Zenon
    <2>11. Promised(req', T) <= c + MonthlyAccrual
      BY <1>5, <2>2, <2>3, <2>4, <2>5, <2>7, <2>8, <2>10
    <2>12. QED BY <1>3, <2>11 DEF T
  <1>11. QED BY <1>9, <1>10

LEMMA KeptCovered ==
  ASSUME CInv, NEW r \in Requests, NEW new \in Rows, Kept(r, new),
         UNCHANGED <<credit, today>>,
         NEW t \in Tracked, NEW d \in Days, StartingBy(t, d)' # {}
  PROVE  Promised(req, StartingBy(t, d))' <= Cover(t, d)' + MonthlyAccrual
  <1> DEFINE S == StartingBy(t, d)
             T == StartingBy(t, d)'
             W == Work(req)
             V == Work(req)'
  <1>0. IInv /\ FiniteRequests /\ req' = [req EXCEPT ![r] = new] BY DEF CInv, Kept
  <1>1. /\ \A o \in Requests \ {r} : o \in T <=> o \in S
        /\ \A o \in Requests \ {r} : V[o] = W[o]
        /\ r \in T <=> new.type = t /\ new.status \in {"PENDING", "APPROVED"} /\ new.first <= d
        /\ V[r] = new.days
        /\ T \subseteq Requests
    BY <1>0, OthersPromise
  <1>2. /\ S \subseteq Requests /\ IsFiniteSet(S)
        /\ Promised(req, S) = SumFunctionOnSet(W, S)
        /\ \A o \in S : W[o] \in Nat
    BY <1>0, StartingByIs
  <1>3. T \in SUBSET S /\ \A o \in T : V[o] = W[o]
    <2>1. r \in T => r \in S BY <1>1 DEF Kept, StartingBy, OfType, Standing
    <2>2. W[r] = new.days BY DEF Kept, Work
    <2>3. QED BY <1>1, <2>1, <2>2
  <1>4. IsFiniteSet(T) BY <1>2, <1>3, FS_Subset
  <1>5. Promised(req', T) = SumFunctionOnSet(V, T)
    <2>1. Promised(req', T) = SumFunctionOnSet(Work(req'), T) BY <1>1, <1>4, PromisedIs
    <2>2. QED BY <2>1
  <1>6. Cover(t, d)' = Cover(t, d) BY DEF Cover
  <1>7. S # {} BY <1>3
  <1>8. Promised(req, S) <= Cover(t, d) + MonthlyAccrual BY <1>7 DEF CInv, CoveredButOneMonth
  <1>9. Cover(t, d) \in Int
    <2> DEFINE n == Cardinality({m \in MonthEnds : today < m /\ m <= d})
    <2>1. credit[t] \in Int BY <1>0 DEF IInv, TypeOK
    <2>2. n \in Nat BY Counted
    <2>3. Cover(t, d) = credit[t] + AllowNegative + MonthlyAccrual * n BY DEF Cover
    <2> HIDE DEF n
    <2>4. QED BY <2>1, <2>2, <2>3, Times, LeaveAssumption
  <1> HIDE DEF S, T, V, W
  <1>10. SumFunctionOnSet(V, T) = SumFunctionOnSet(W, T) BY <1>3, <1>4, SumSame
  <1>11. SumFunctionOnSet(W, T) <= SumFunctionOnSet(W, S) BY <1>2, <1>3, SumPart
  <1>12. SumFunctionOnSet(W, T) \in Int /\ SumFunctionOnSet(W, S) \in Int BY <1>2, <1>3, <1>4, SumType
  <1>13. Promised(req', T) <= Cover(t, d) + MonthlyAccrual
    BY <1>2, <1>5, <1>8, <1>9, <1>10, <1>11, <1>12, LeaveAssumption
  <1>14. QED BY <1>6, <1>13 DEF T

\* No request changes and the cover grows.
LEMMA FrameCovered ==
  ASSUME CInv, UNCHANGED req,
         NEW t \in Tracked, NEW d \in Days, Cover(t, d) <= Cover(t, d)',
         Cover(t, d) \in Int, Cover(t, d)' \in Int, StartingBy(t, d)' # {}
  PROVE  Promised(req, StartingBy(t, d))' <= Cover(t, d)' + MonthlyAccrual
  <1>1. StartingBy(t, d)' = StartingBy(t, d) BY DEF StartingBy, OfType, Standing
  <1>2. Promised(req, StartingBy(t, d))' = Promised(req, StartingBy(t, d)) BY <1>1 DEF Promised
  <1>3. Promised(req, StartingBy(t, d)) <= Cover(t, d) + MonthlyAccrual
    BY <1>1 DEF CInv, CoveredButOneMonth
  <1>4. Promised(req, StartingBy(t, d)) \in Int
    <2>1. IInv /\ FiniteRequests BY DEF CInv
    <2>2. \A r \in StartingBy(t, d) : Work(req)[r] \in Int BY <2>1, StartingByIs
    <2>3. QED BY <2>1, <2>2, StartingByIs, SumType
  <1>5. QED BY <1>2, <1>3, <1>4, LeaveAssumption

LEMMA CoverIsInt ==
  ASSUME NEW t, NEW d, credit[t] \in Int
  PROVE  Cover(t, d) \in Int
  <1> DEFINE n == Cardinality({m \in MonthEnds : today < m /\ m <= d})
  <1>1. n \in Nat BY Counted
  <1>2. Cover(t, d) = credit[t] + AllowNegative + MonthlyAccrual * n BY DEF Cover
  <1> HIDE DEF n
  <1>3. QED BY <1>1, <1>2, Times, LeaveAssumption

\* What the other steps do to the cover, if HR takes no units away.
LEMMA SettingsCover ==
  ASSUME CInv, Corrections \subseteq Nat, Tracked \cap Retirable = {},
         SettingsStep \/ NextDay \/ UNCHANGED vars,
         NEW t \in Tracked, NEW d \in Days
  PROVE  /\ UNCHANGED req
         /\ Tracked \subseteq offered'
         /\ Cover(t, d) <= Cover(t, d)'
         /\ Cover(t, d) \in Int
         /\ Cover(t, d)' \in Int
  <1>0. IInv /\ TypeOK /\ Tracked \subseteq offered BY DEF CInv, IInv
  <1>1. UNCHANGED req BY DEF SettingsStep, Adjust, AddHoliday, RemoveHoliday, ChangeManager, RetireType, NextDay, vars, tables
  <1>2. Tracked \subseteq offered'
    BY <1>0 DEF SettingsStep, Adjust, AddHoliday, RemoveHoliday, ChangeManager, RetireType, NextDay, vars, tables
  <1>3. credit[t] \in Int BY <1>0 DEF TypeOK
  <1>4. [Next]_vars BY DEF Next
  <1>5. credit'[t] \in Int BY <1>0, <1>4, SettingsTyped
  <1> DEFINE N == {m \in MonthEnds : today < m /\ m <= d}
             N1 == {m \in MonthEnds : today' < m /\ m <= d}
             n == Cardinality(N)
             n1 == Cardinality(N1)
  <1>6. IsFiniteSet(N) /\ IsFiniteSet(N1) /\ n \in Nat /\ n1 \in Nat BY Counted
  <1>7. /\ Cover(t, d) = credit[t] + AllowNegative + MonthlyAccrual * n
        /\ Cover(t, d)' = credit'[t] + AllowNegative + MonthlyAccrual * n1
    BY DEF Cover
  <1>8. MonthlyAccrual \in Nat /\ AllowNegative \in Int BY LeaveAssumption
  <1>9. /\ MonthlyAccrual * n \in Nat /\ MonthlyAccrual * n1 \in Nat
        /\ n <= n1 => MonthlyAccrual * n <= MonthlyAccrual * n1
        /\ n <= n1 + 1 => MonthlyAccrual * n <= MonthlyAccrual * n1 + MonthlyAccrual
    <2> HIDE DEF n, n1
    <2>1. n1 + 1 \in Nat BY <1>6
    <2>2. QED BY <1>6, <2>1, Times
  <1>10. CASE ~NextDay
    <2>1. today' = today /\ (credit' = credit \/ \E u \in Types, k \in Corrections : Adjust(u, k, Now))
      BY <1>10 DEF SettingsStep, Adjust, AddHoliday, RemoveHoliday, ChangeManager, RetireType, vars, tables
    <2>2. credit[t] <= credit'[t]
      <3>1. CASE credit' = credit BY <1>3, <3>1
      <3>2. ASSUME NEW u \in Types, NEW k \in Corrections, Adjust(u, k, Now) PROVE credit[t] <= credit'[t]
        <4>1. k \in Nat OBVIOUS
        <4>2. credit' = [credit EXCEPT ![u] = credit[u] + k] BY <3>2 DEF Adjust
        <4>3. DOMAIN credit = Tracked BY <1>0 DEF TypeOK
        <4>4. credit'[t] = credit[t] \/ credit'[t] = credit[t] + k BY <4>2, <4>3
        <4>5. QED BY <1>3, <4>1, <4>4
      <3>3. QED BY <2>1, <3>1, <3>2
    <2>3. n = n1 BY <2>1
    <2> HIDE DEF n, n1
    <2>4. QED BY <1>1, <1>2, <1>3, <1>5, <1>6, <1>7, <1>8, <1>9, <2>2, <2>3
  <1>11. CASE NextDay
    <2>1. today' = today + 1 /\ today \in Int /\ MonthEnds \subseteq Int /\ d \in Int
      <3>1. today' = today + 1 BY <1>11 DEF NextDay
      <3>2. Days \subseteq Int /\ today \in Int BY <1>0, LeaveAssumption DEF TypeOK, Days
      <3>3. QED BY <3>1, <3>2, LeaveAssumption
    <2>2. credit'[t] = IF today + 1 \in MonthEnds THEN credit[t] + MonthlyAccrual ELSE credit[t]
      BY <1>0, <1>11 DEF NextDay
    <2>3. N \subseteq N1 \cup {today + 1}
      <3>1. ASSUME NEW m \in N PROVE m \in N1 \cup {today + 1}
        <4>1. m \in MonthEnds /\ m \in Int /\ today < m /\ m <= d BY <2>1
        <4>2. m = today + 1 \/ today' < m BY <2>1, <4>1
        <4>3. QED BY <4>1, <4>2
      <3>2. QED BY <3>1
    <2>4. CASE today + 1 \in MonthEnds
      <3>1. IsFiniteSet(N1 \cup {today + 1}) /\ Cardinality(N1 \cup {today + 1}) <= n1 + 1
        <4> DEFINE x == today + 1
        <4> HIDE DEF N1, x
        <4>1. Cardinality(N1 \cup {x}) = IF x \in N1 THEN n1 ELSE n1 + 1 BY <1>6, FS_AddElement, Zenon
        <4>2. IsFiniteSet(N1 \cup {x}) BY <1>6, FS_AddElement, Zenon
        <4>3. n1 \in Nat BY <1>6
        <4> HIDE DEF n1
        <4>4. Cardinality(N1 \cup {x}) <= n1 + 1 BY <4>1, <4>3
        <4>5. QED BY <4>2, <4>4 DEF x
      <3>2. n <= n1 + 1
        <4> HIDE DEF N, N1
        <4>1. Cardinality(N) <= Cardinality(N1 \cup {today + 1}) BY <2>3, <3>1, FS_Subset
        <4>2. Cardinality(N1 \cup {today + 1}) \in Nat BY <3>1, FS_CardinalityType
        <4>3. QED BY <1>6, <3>1, <4>1, <4>2
      <3>3. credit'[t] = credit[t] + MonthlyAccrual BY <2>2, <2>4
      <3> HIDE DEF n, n1
      <3>4. QED BY <1>1, <1>2, <1>3, <1>5, <1>6, <1>7, <1>8, <1>9, <3>2, <3>3
    <2>5. CASE today + 1 \notin MonthEnds
      <3>1. N \subseteq N1 BY <2>3, <2>5
      <3>2. n <= n1
        <4> HIDE DEF N, N1
        <4>1. QED BY <1>6, <3>1, FS_Subset
      <3>3. credit'[t] = credit[t] BY <2>2, <2>5
      <3> HIDE DEF n, n1
      <3>4. QED BY <1>1, <1>2, <1>3, <1>5, <1>6, <1>7, <1>8, <1>9, <3>2, <3>3
    <2>6. QED BY <2>4, <2>5
  <1>12. QED BY <1>10, <1>11

LEMMA InitCInv == Init => CInv
  <1> SUFFICES ASSUME Init PROVE CInv OBVIOUS
  <1>1. IInv BY InitIInv
  <1>2. \A r \in Requests : req[r].status = "NONE" BY AbsentIsNoRow DEF Init
  <1>3. FiniteRequests
    <2>1. {r \in Requests : req[r].status # "NONE"} = {} BY <1>2
    <2>2. QED BY <2>1, FS_EmptySet DEF FiniteRequests
  <1>4. \A t, d : StartingBy(t, d) = {} BY <1>2 DEF StartingBy, OfType
  <1>5. Tracked \subseteq offered BY LeaveAssumption DEF Init
  <1>6. QED BY <1>1, <1>3, <1>4, <1>5 DEF CInv, CoveredButOneMonth

LEMMA NextCInv ==
  ASSUME CInv, [Next]_vars, Corrections \subseteq Nat, Tracked \cap Retirable = {}
  PROVE  CInv'
  <1>0. IInv /\ FiniteRequests /\ Tracked \subseteq offered BY DEF CInv
  <1>1. IInv' BY <1>0, NextIInv
  <1>2. CASE SettingsStep \/ NextDay \/ UNCHANGED vars
    <2>1. UNCHANGED req
      BY <1>2 DEF SettingsStep, Adjust, AddHoliday, RemoveHoliday, ChangeManager, RetireType, NextDay, vars, tables
    <2>2. Tracked \subseteq offered'
      BY <1>0, <1>2 DEF SettingsStep, Adjust, AddHoliday, RemoveHoliday, ChangeManager, RetireType, NextDay, vars, tables
    <2>3. FiniteRequests' BY <1>0, <2>1 DEF FiniteRequests
    <2>4. ASSUME NEW t \in Tracked, NEW d \in Days, StartingBy(t, d)' # {}
          PROVE  Promised(req, StartingBy(t, d))' <= Cover(t, d)' + MonthlyAccrual
      <3>1. Cover(t, d) <= Cover(t, d)' /\ Cover(t, d) \in Int /\ Cover(t, d)' \in Int BY <1>2, SettingsCover
      <3>2. QED BY <2>1, <2>4, <3>1, FrameCovered
    <2>5. CoveredButOneMonth' BY <2>4 DEF CoveredButOneMonth
    <2>6. QED BY <1>1, <2>2, <2>3, <2>5 DEF CInv
  <1>3. ASSUME NEW r \in Requests, RequestStep(r) PROVE CInv'
    <2>1. PICK new \in Rows : Booked(r, new) \/ Kept(r, new) BY <1>0, <1>3, RequestStepCosts
    <2>2. UNCHANGED <<credit, offered, today>> BY <1>0, <1>3, RequestStepCosts
    <2>3. req' = [req EXCEPT ![r] = new] BY <2>1 DEF Booked, Kept
    <2>4. FiniteRequests' BY <1>0, <2>3, FiniteKept
    <2>5. ASSUME NEW t \in Tracked, NEW d \in Days, StartingBy(t, d)' # {}
          PROVE  Promised(req, StartingBy(t, d))' <= Cover(t, d)' + MonthlyAccrual
      BY <1>1, <2>1, <2>2, <2>4, <2>5, BookedCovered, KeptCovered
    <2>6. CoveredButOneMonth' BY <2>5 DEF CoveredButOneMonth
    <2>7. QED BY <1>0, <1>1, <2>2, <2>4, <2>6 DEF CInv
  <1>4. QED BY <1>2, <1>3 DEF Next

\* Promised leave stays covered but for one month's accrual, however it was
\* booked against accruals to come, approved step by step and cancelled, as
\* long as HR takes no units away and retires no accruing type: either takes
\* away what evaluate counted on.
THEOREM PromisesAreCovered ==
  ASSUME Corrections \subseteq Nat, Tracked \cap Retirable = {}
  PROVE  Spec => []CoveredButOneMonth
  <1>1. CInv /\ [Next]_vars => CInv' BY NextCInv
  <1>2. CInv => CoveredButOneMonth BY DEF CInv
  <1>3. QED BY InitCInv, <1>1, <1>2, PTL DEF Spec
=============================================================================
