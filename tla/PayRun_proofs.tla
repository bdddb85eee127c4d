--------------------------- MODULE PayRun_proofs ---------------------------
(***************************************************************************)
(* Proofs about PayRun and PayRunRaces, for any users, sheets, settings    *)
(* and approver lists and any bound on the clock. The inductive invariant  *)
(* IInv adds to the properties of the runs what makes them inductive:      *)
(* events carry past timestamps, a run that waits has been submitted, and  *)
(* it asks for the approvals its submission fixed.                         *)
(***************************************************************************)
EXTENDS PayRunRaces, FiniteSetTheorems, TLAPS

EventType == [at : Nat, action : Actions, by : Users, level : Nat, required : 0..2,
              rule : BOOLEAN, slips : SUBSET Batches, period : Periods]

EventsArePast == \A e \in events : e.at <= clock

ApprovalsCounted ==
  /\ IsFiniteSet(CurrentApprovals(events))
  /\ IsFiniteSet(Approved(events))
  /\ Cardinality(Approved(events)) = Cardinality(CurrentApprovals(events))

SubmissionFixesRequired ==
  /\ run.status = "SUBMITTED" => LastSubmission(events) # {}
  /\ \A s \in LastSubmission(events) :
       /\ s.required \in 1..2
       /\ Locked => run.required = s.required

NoHistoryWithoutRun == run.status = "NONE" => events = {}

IInv ==
  /\ TypeOK
  /\ EventsArePast
  /\ ApprovalsCounted
  /\ SubmissionFixesRequired
  /\ NoHistoryWithoutRun
  /\ EnoughApprovers
  /\ LevelsInOrder
  /\ LastPreparerNeverApproves
  /\ FiguresAsSubmitted
  /\ HistoryExplainsStatus

\* What every recorded event has in common.
Recorded(e, action, u) ==
  /\ e \in EventType
  /\ e.at = clock + 1
  /\ e.action = action
  /\ e.by = u
  /\ events' = events \cup {e}

\* A step that writes the run row and keeps the approval settings.
Writes(status, by, required, period) ==
  /\ run' \in Runs
  /\ run'.status = status
  /\ run'.preparedBy = by
  /\ run'.required = required
  /\ run'.period = period
  /\ UNCHANGED <<settings, approvers, canApprove>>

----------------------------------------------------------------------------
(* What a new event does to the current submission and its approvals *)

\* An event that neither submits nor approves changes neither.
LEMMA OtherEvent ==
  ASSUME NEW ev, NEW e, e.action # "SUBMITTED", e.action # "APPROVED"
  PROVE  /\ LastSubmission(ev \cup {e}) = LastSubmission(ev)
         /\ CurrentApprovals(ev \cup {e}) = CurrentApprovals(ev)
  BY DEF LastSubmission, Submissions, CurrentApprovals

\* A submission becomes the current one and starts without approvals.
LEMMA NewSubmission ==
  ASSUME NEW ev, NEW e, e.action = "SUBMITTED", e.at \in Nat,
         \A f \in ev : f.at \in Nat /\ f.at < e.at
  PROVE  /\ LastSubmission(ev \cup {e}) = {e}
         /\ CurrentApprovals(ev \cup {e}) = {}
<1>1. LastSubmission(ev \cup {e}) = {e}
  BY DEF LastSubmission, Submissions
<1>2. \A f \in ev \cup {e} : ~(e.at < f.at)
  OBVIOUS
<1> QED
  BY <1>1, <1>2 DEF CurrentApprovals

\* An approval of a submitted run is one more current approval.
LEMMA NewApproval ==
  ASSUME NEW ev, NEW e, e.action = "APPROVED", e.at \in Nat,
         \A f \in ev : f.at \in Nat /\ f.at < e.at,
         LastSubmission(ev) # {}
  PROVE  /\ LastSubmission(ev \cup {e}) = LastSubmission(ev)
         /\ CurrentApprovals(ev \cup {e}) = CurrentApprovals(ev) \cup {e}
<1>1. LastSubmission(ev \cup {e}) = LastSubmission(ev)
  BY DEF LastSubmission, Submissions
<1>2. PICK s \in LastSubmission(ev) : s \in ev
  BY DEF LastSubmission, Submissions
<1> QED
  BY <1>1, <1>2 DEF CurrentApprovals

----------------------------------------------------------------------------
(* What each operation writes, column by column *)

LEMMA RowWithStatus ==
  ASSUME TypeOK, NEW status \in Statuses, NEW row, row = [run EXCEPT !.status = status]
  PROVE  /\ row \in Runs /\ row.status = status /\ row.preparedBy = run.preparedBy
         /\ row.required = run.required /\ row.period = run.period
  BY DEF TypeOK, Runs

LEMMA RowWithBoth ==
  ASSUME TypeOK, NEW status \in Statuses, NEW n \in 0..2, NEW row,
         row = [run EXCEPT !.status = status, !.required = n]
  PROVE  /\ row \in Runs /\ row.status = status /\ row.preparedBy = run.preparedBy
         /\ row.required = n /\ row.period = run.period
  BY DEF TypeOK, Runs

\* The event a transaction records.
LEMMA EventFields ==
  ASSUME TypeOK, NEW action \in Actions, NEW u \in Users, NEW e, e = Event(Now, action, u)
  PROVE  /\ e \in EventType /\ e.at = clock + 1 /\ e.action = action /\ e.by = u
         /\ e.period = run.period
<1>1. run.period \in Periods
  BY DEF TypeOK, Runs
<1> QED
  BY <1>1 DEF Event, Now, TypeOK, EventType

LEMMA CalculationsType ==
  ASSUME TypeOK, NEW p \in Periods, NEW made \in Calculations(Now, p)
  PROVE  made \in SUBSET Batches
  BY DEF Calculations, Now, Batches, TypeOK

LEMMA RequiredOnSubmitType ==
  ASSUME NEW seen, NEW checks, NEW increase
  PROVE  RequiredOnSubmit(seen, checks, increase) \in 1..2
  BY DEF RequiredOnSubmit

LEMMA RunPayrollWrites ==
  ASSUME TypeOK, NEW u \in Users, NEW p \in Periods, NEW made \in Calculations(Now, p),
         RunPayroll(u, Now, p, made)
  PROVE  /\ run.status = "NONE"
         /\ Writes("DRAFT", u, 0, p)
         /\ slips' \in SUBSET Batches
         /\ \E e \in EventType : e.at = clock + 1 /\ e.action = "CREATED" /\ e.by = u /\ events' = {e}
<1> DEFINE b == Event(Now, "CREATED", u)
           e == [b EXCEPT !.period = p]
<1>1. b \in EventType /\ b.at = clock + 1 /\ b.action = "CREATED" /\ b.by = u
  BY EventFields DEF Actions
<1>2. events' = {e}
  BY DEF RunPayroll
<1>3. run.status = "NONE" /\ Writes("DRAFT", u, 0, p) /\ slips' \in SUBSET Batches
  BY CalculationsType DEF RunPayroll, Writes, Runs, Statuses, config
<1> HIDE DEF b
<1>4. e \in EventType /\ e.at = clock + 1 /\ e.action = "CREATED" /\ e.by = u
  BY <1>1 DEF EventType
<1> QED
  BY <1>2, <1>3, <1>4

LEMMA RecalculateWrites ==
  ASSUME TypeOK, NEW u \in Users, NEW made \in Calculations(Now, run.period),
         Recalculate(u, Now, made)
  PROVE  /\ run.status = "DRAFT"
         /\ Writes("DRAFT", u, run.required, run.period)
         /\ slips' \in SUBSET Batches
         /\ \E e : Recorded(e, "RECALCULATED", u)
<1>1. PICK e : e = Event(Now, "RECALCULATED", u)
  OBVIOUS
<1>2. Recorded(e, "RECALCULATED", u)
  BY <1>1, EventFields DEF Recorded, Recalculate, Actions
<1>3. made \in SUBSET Batches
  <2>1. run.period \in Periods
    BY DEF TypeOK, Runs
  <2> QED
    BY <2>1, CalculationsType
<1>4. run.status = "DRAFT" /\ slips' \in SUBSET Batches
  BY <1>3 DEF Recalculate, IsDraft, Now, TypeOK
<1>5. Writes("DRAFT", u, run.required, run.period)
  BY <1>4 DEF Recalculate, Writes, config, TypeOK, Runs
<1> QED
  BY <1>2, <1>4, <1>5

LEMMA SubmitWrites ==
  ASSUME TypeOK, NEW u \in Users, NEW checks \in BOOLEAN, NEW increase \in BOOLEAN,
         Submit(u, Now, checks, increase)
  PROVE  /\ run.status = "DRAFT"
         /\ slips # {} /\ \A b \in slips : b.sheet \notin Negative
         /\ slips' = slips
         /\ \E n \in 1..2 : \E e :
              /\ Writes("SUBMITTED", run.preparedBy, n, run.period)
              /\ Recorded(e, "SUBMITTED", u)
              /\ e.required = n /\ e.slips = slips /\ e.period = run.period
<1>1. PICK n : n = RequiredOnSubmit(Now, checks, increase)
  OBVIOUS
<1>2. n \in 1..2
  BY <1>1, RequiredOnSubmitType
<1>3. PICK b : b = Event(Now, "SUBMITTED", u)
  OBVIOUS
<1>4. /\ b \in EventType /\ b.at = clock + 1 /\ b.action = "SUBMITTED" /\ b.by = u
      /\ b.period = run.period
  BY <1>3, EventFields DEF Actions
<1>5. PICK e : e = [b EXCEPT !.required = n, !.slips = Now.slips]
  OBVIOUS
<1>6. Now.slips = slips /\ slips \in SUBSET Batches
  BY DEF Now, TypeOK
<1>7. /\ e \in EventType /\ e.at = clock + 1 /\ e.action = "SUBMITTED" /\ e.by = u
      /\ e.period = run.period /\ e.required = n /\ e.slips = slips
  <2>1. e.at = b.at /\ e.action = b.action /\ e.by = b.by /\ e.period = b.period
    BY <1>4, <1>5 DEF EventType
  <2>2. e.required = n /\ e.slips = slips
    BY <1>4, <1>5, <1>6 DEF EventType
  <2>3. e \in EventType
    <3>1. n \in 0..2 /\ Now.slips \in SUBSET Batches
      BY <1>2, <1>6
    <3> QED
      BY <1>4, <1>5, <3>1 DEF EventType
  <2> QED
    BY <1>4, <2>1, <2>2, <2>3
<1>8. /\ run' = [run EXCEPT !.status = "SUBMITTED", !.required = n]
      /\ events' = events \cup {e}
      /\ UNCHANGED <<slips, settings, approvers, canApprove>>
  BY <1>1, <1>3, <1>5 DEF Submit, config
<1>9. Writes("SUBMITTED", run.preparedBy, n, run.period)
  <2>1. "SUBMITTED" \in Statuses /\ n \in 0..2
    BY <1>2 DEF Statuses
  <2>2. /\ run' \in Runs /\ run'.status = "SUBMITTED" /\ run'.preparedBy = run.preparedBy
        /\ run'.required = n /\ run'.period = run.period
    BY <1>8, <2>1 DEF TypeOK, Runs
  <2> QED
    BY <1>8, <2>2 DEF Writes
<1>10. /\ run.status = "DRAFT"
       /\ slips # {} /\ \A x \in slips : x.sheet \notin Negative
  BY DEF Submit, IsDraft, Blocked, Now
<1> QED
  BY <1>2, <1>7, <1>8, <1>9, <1>10 DEF Recorded

LEMMA ApproveWrites ==
  ASSUME TypeOK, IsFiniteSet(CurrentApprovals(events)), NEW u \in Users, Approve(u, Now)
  PROVE  /\ MayApprove(Now, u)
         /\ slips' = slips
         /\ NextLevel(Now) \in Nat
         /\ NextLevel(Now) = Cardinality(CurrentApprovals(events)) + 1
         /\ Writes(IF NextLevel(Now) >= Required(Now) THEN "APPROVED" ELSE "SUBMITTED",
                   run.preparedBy, run.required, run.period)
         /\ \E e : /\ Recorded(e, "APPROVED", u)
                   /\ e.level = NextLevel(Now)
                   /\ e.rule = settings.preparerRule
<1>1. PICK b : b = Event(Now, "APPROVED", u)
  OBVIOUS
<1>2. b \in EventType /\ b.at = clock + 1 /\ b.action = "APPROVED" /\ b.by = u
  BY <1>1, EventFields DEF Actions
<1>3. PICK n : n = NextLevel(Now)
  OBVIOUS
<1>4. n \in Nat /\ n = Cardinality(CurrentApprovals(events)) + 1
  BY <1>3, FS_CardinalityType DEF NextLevel, Now
<1>5. PICK e : e = [b EXCEPT !.level = n, !.rule = Now.settings.preparerRule]
  OBVIOUS
<1>6. Now.settings = settings /\ settings.preparerRule \in BOOLEAN
  BY DEF Now, TypeOK, Settings
<1>7. /\ e \in EventType /\ e.at = clock + 1 /\ e.action = "APPROVED" /\ e.by = u
      /\ e.level = n /\ e.rule = settings.preparerRule
  BY <1>2, <1>4, <1>5, <1>6 DEF EventType
<1>8. /\ MayApprove(Now, u)
      /\ run' = IF n >= Required(Now) THEN [run EXCEPT !.status = "APPROVED"] ELSE run
      /\ events' = events \cup {e}
      /\ UNCHANGED <<slips, settings, approvers, canApprove>>
  BY <1>1, <1>3, <1>5 DEF Approve, config
<1>9. Writes(IF n >= Required(Now) THEN "APPROVED" ELSE "SUBMITTED",
             run.preparedBy, run.required, run.period)
  <2>1. run.status = "SUBMITTED"
    BY <1>8 DEF MayApprove, IsSubmitted, Now
  <2>2. CASE n >= Required(Now)
    BY <1>8, <2>2, RowWithStatus DEF Writes, Statuses
  <2>3. CASE ~(n >= Required(Now))
    BY <1>8, <2>1, <2>3 DEF Writes, TypeOK
  <2> QED
    BY <2>2, <2>3
<1> QED
  BY <1>3, <1>4, <1>7, <1>8, <1>9 DEF Recorded

\* The four operations that move the run and leave its payslips alone.
LEMMA MoveWrites ==
  ASSUME TypeOK, NEW u \in Users, SendBack(u, Now) \/ Withdraw(u, Now) \/ Reopen(u, Now) \/ MarkPaid(u, Now)
  PROVE  /\ slips' = slips
         /\ \E e :
              \/ /\ Recorded(e, "SENT_BACK", u) \/ Recorded(e, "REOPENED", u)
                 /\ \E n \in 0..2 : Writes("DRAFT", run.preparedBy, n, run.period)
              \/ /\ Recorded(e, "PAID", u)
                 /\ run.status = "APPROVED"
                 /\ Writes("PAID", run.preparedBy, run.required, run.period)
<1>0. run.required \in 0..2
  BY DEF TypeOK, Runs
<1>1. CASE SendBack(u, Now)
  <2>1. PICK e : e = Event(Now, "SENT_BACK", u)
    OBVIOUS
  <2>2. Recorded(e, "SENT_BACK", u)
    BY <1>1, <2>1, EventFields DEF Recorded, SendBack, Actions
  <2>3. Writes("DRAFT", run.preparedBy, run.required, run.period) /\ slips' = slips
    BY <1>1, RowWithStatus DEF Writes, SendBack, Statuses, config
  <2> QED
    BY <1>0, <2>2, <2>3
<1>2. CASE Withdraw(u, Now)
  <2>1. PICK e : e = Event(Now, "REOPENED", u)
    OBVIOUS
  <2>2. Recorded(e, "REOPENED", u)
    BY <1>2, <2>1, EventFields DEF Recorded, Withdraw, Actions
  <2>3. Writes("DRAFT", run.preparedBy, run.required, run.period) /\ slips' = slips
    BY <1>2, RowWithStatus DEF Writes, Withdraw, Statuses, config
  <2> QED
    BY <1>0, <2>2, <2>3
<1>3. CASE Reopen(u, Now)
  <2>1. PICK e : e = Event(Now, "REOPENED", u)
    OBVIOUS
  <2>2. Recorded(e, "REOPENED", u)
    BY <1>3, <2>1, EventFields DEF Recorded, Reopen, Actions
  <2>3. Writes("DRAFT", run.preparedBy, 0, run.period) /\ slips' = slips
    BY <1>3, RowWithBoth DEF Writes, Reopen, Statuses, config
  <2> QED
    BY <2>2, <2>3
<1>4. CASE MarkPaid(u, Now)
  <2>1. PICK e : e = Event(Now, "PAID", u)
    OBVIOUS
  <2>2. Recorded(e, "PAID", u)
    BY <1>4, <2>1, EventFields DEF Recorded, MarkPaid, Actions
  <2>3. Writes("PAID", run.preparedBy, run.required, run.period) /\ slips' = slips
    BY <1>4, RowWithStatus DEF Writes, MarkPaid, Statuses, config
  <2> QED
    BY <1>4, <2>2, <2>3 DEF MarkPaid, IsApproved, Now
<1> QED
  BY <1>1, <1>2, <1>3, <1>4

LEMMA UpdateRunWrites ==
  ASSUME TypeOK, NEW u \in Users, NEW p \in Periods, UpdateRun(u, Now, p)
  PROVE  /\ run.status = "DRAFT"
         /\ Writes("DRAFT", run.preparedBy, run.required, p)
         /\ UNCHANGED <<slips, events>>
  BY DEF UpdateRun, IsDraft, Now, Writes, config, TypeOK, Runs

LEMMA DeleteRunWrites ==
  ASSUME TypeOK, NEW u \in Users, DeleteRun(u, Now)
  PROVE  /\ Writes("NONE", NoUser, 0, run.period)
         /\ slips' = {} /\ events' = {}
  BY DEF DeleteRun, NoRun, Writes, config, TypeOK, Runs, Statuses

----------------------------------------------------------------------------
(* Type correctness *)

LEMMA InitTypeOK == Init => TypeOK
<1> SUFFICES ASSUME Init PROVE TypeOK
  OBVIOUS
<1>1. PICK p \in Periods :
        \/ /\ run = NoRun(p)
           /\ slips = {}
        \/ \E status \in {"APPROVED", "PAID"}, s \in Sheets :
             /\ run = [NoRun(p) EXCEPT !.status = status]
             /\ slips = {[calc |-> 0, period |-> p, sheet |-> s]}
  BY DEF Init
<1>2. CASE run = NoRun(p) /\ slips = {}
  BY <1>2, ChoicesAssumption DEF Init, NoRun, Runs, Statuses, TypeOK, ApproverLists
<1>3. ASSUME NEW status \in {"APPROVED", "PAID"}, NEW s \in Sheets,
             run = [NoRun(p) EXCEPT !.status = status],
             slips = {[calc |-> 0, period |-> p, sheet |-> s]}
      PROVE  TypeOK
  <2>1. run \in Runs
    BY <1>3 DEF NoRun, Runs, Statuses
  <2>2. slips \in SUBSET Batches
    BY <1>3 DEF Batches
  <2> QED
    BY <2>1, <2>2, ChoicesAssumption DEF Init, TypeOK, ApproverLists
<1> QED
  BY <1>1, <1>2, <1>3

\* A recorded event and well-typed payslips keep the tables well typed.
LEMMA WritesTypeOK ==
  ASSUME TypeOK, clock' \in Nat, slips' \in SUBSET Batches, events' \in SUBSET EventType,
         NEW status, NEW by, NEW n, NEW p, Writes(status, by, n, p)
  PROVE  TypeOK'
  BY DEF Writes, TypeOK, EventType, Runs, Batches, Settings, ApproverLists

LEMMA ConfigTypeOK ==
  ASSUME TypeOK,
         \/ \E s \in SettingsChoices : \E list \in ApproverChoices \cup {approvers} : SaveSettings(s, list)
         \/ \E u \in Grantable, value \in BOOLEAN : SetCanApprove(u, value)
  PROVE  TypeOK' /\ UNCHANGED <<run, slips, events, clock>>
<1>1. ASSUME NEW s \in SettingsChoices, NEW list \in ApproverChoices \cup {approvers}, SaveSettings(s, list)
      PROVE  TypeOK' /\ UNCHANGED <<run, slips, events, clock>>
  BY <1>1, ChoicesAssumption DEF SaveSettings, rows, TypeOK
<1>2. ASSUME NEW u \in Grantable, NEW value \in BOOLEAN, SetCanApprove(u, value)
      PROVE  TypeOK' /\ UNCHANGED <<run, slips, events, clock>>
  <2>1. NotListed \in Levels \cup {NotListed}
    OBVIOUS
  <2> QED
    BY <1>2, <2>1, ChoicesAssumption DEF SetCanApprove, rows, TypeOK, ApproverLists
<1> QED
  BY <1>1, <1>2

----------------------------------------------------------------------------
(* The invariant *)

\* A tenant starts without a run, or with one from before approvals existed.
LEMMA InitIInv == Init => IInv
<1> SUFFICES ASSUME Init PROVE IInv
  OBVIOUS
<1>1. events = {} /\ TypeOK
  BY InitTypeOK DEF Init
<1>2. LastSubmission(events) = {} /\ CurrentApprovals(events) = {} /\ Approved(events) = {}
  BY <1>1 DEF LastSubmission, Submissions, CurrentApprovals, Approved
<1>3. run.status # "SUBMITTED"
  BY DEF Init, NoRun
<1>4. ApprovalsCounted
  BY <1>2, FS_EmptySet DEF ApprovalsCounted
<1>5. LevelsInOrder
  BY <1>2, FS_EmptySet DEF LevelsInOrder
<1> QED
  BY <1>1, <1>2, <1>3, <1>4, <1>5
  DEF IInv, EventsArePast, SubmissionFixesRequired, NoHistoryWithoutRun, EnoughApprovers,
      LastPreparerNeverApproves, FiguresAsSubmitted, HistoryExplainsStatus

\* A step that leaves the run, its payslips and its history alone.
LEMMA SameRunIInv ==
  ASSUME IInv, TypeOK', UNCHANGED <<run, slips, events, clock>>
  PROVE  IInv'
  BY DEF IInv, EventsArePast, ApprovalsCounted, SubmissionFixesRequired, NoHistoryWithoutRun,
         EnoughApprovers, LevelsInOrder, LastPreparerNeverApproves, FiguresAsSubmitted,
         HistoryExplainsStatus, StatusAfter, Locked, LastSubmission, Submissions,
         CurrentApprovals, Approved

\* A new event is the latest one.
LEMMA NewEventIsLatest ==
  ASSUME TypeOK, EventsArePast, clock' = clock + 1, NEW action, NEW u, NEW e, Recorded(e, action, u)
  PROVE  /\ EventsArePast'
         /\ TypeOK => events' \in SUBSET EventType
         /\ \A f \in events : f.at \in Nat /\ f.at < e.at
         /\ e.at \in Nat
         /\ \A f \in events' : (\A g \in events' : g.at <= f.at) => f = e
<1>1. \A f \in events : f.at \in Nat /\ f.at <= clock
  BY DEF TypeOK, EventsArePast
<1>2. clock \in Nat /\ e.at = clock + 1 /\ events' = events \cup {e}
  BY DEF TypeOK, Recorded
<1>3. events' \in SUBSET EventType
  BY DEF TypeOK, Recorded, EventType
<1> QED
  BY <1>1, <1>2, <1>3 DEF EventsArePast

\* Back to DRAFT: nothing is locked, the history explains it.
LEMMA DraftIInv ==
  ASSUME IInv, clock' = clock + 1, NEW u, NEW e, NEW action \in {"RECALCULATED", "SENT_BACK", "REOPENED"},
         Recorded(e, action, u), slips' \in SUBSET Batches,
         NEW by, NEW n, NEW p, Writes("DRAFT", by, n, p)
  PROVE  IInv'
<1>1. /\ LastSubmission(events') = LastSubmission(events)
      /\ CurrentApprovals(events') = CurrentApprovals(events)
  BY OtherEvent DEF Recorded
<1>2. /\ EventsArePast' /\ events' \in SUBSET EventType
      /\ \A f \in events' : (\A g \in events' : g.at <= f.at) => f = e
  BY NewEventIsLatest DEF IInv
<1>3. TypeOK'
  BY <1>2, WritesTypeOK DEF IInv, TypeOK
<1>4. ApprovalsCounted'
  BY <1>1 DEF IInv, ApprovalsCounted, Approved
<1>5. run'.status = "DRAFT"
  BY DEF Writes
<1>6. SubmissionFixesRequired'
  BY <1>1, <1>5 DEF IInv, SubmissionFixesRequired, Locked
<1>7. HistoryExplainsStatus'
  BY <1>2, <1>5 DEF HistoryExplainsStatus, StatusAfter, Recorded
<1>8. NoHistoryWithoutRun' /\ EnoughApprovers' /\ LevelsInOrder' /\ LastPreparerNeverApproves' /\ FiguresAsSubmitted'
  BY <1>5 DEF NoHistoryWithoutRun, EnoughApprovers, LevelsInOrder, LastPreparerNeverApproves,
              FiguresAsSubmitted, Locked
<1> QED
  BY <1>2, <1>3, <1>4, <1>6, <1>7, <1>8 DEF IInv

\* Payment keeps everything that was approved.
LEMMA PaidIInv ==
  ASSUME IInv, clock' = clock + 1, NEW u, NEW e, Recorded(e, "PAID", u), slips' = slips,
         run.status = "APPROVED", Writes("PAID", run.preparedBy, run.required, run.period)
  PROVE  IInv'
<1>1. /\ LastSubmission(events') = LastSubmission(events)
      /\ CurrentApprovals(events') = CurrentApprovals(events)
      /\ Approved(events') = Approved(events)
  BY OtherEvent DEF Recorded, Approved
<1>2. /\ EventsArePast' /\ events' \in SUBSET EventType
      /\ \A f \in events' : (\A g \in events' : g.at <= f.at) => f = e
  BY NewEventIsLatest DEF IInv
<1>3. TypeOK'
  BY <1>2, WritesTypeOK DEF IInv, TypeOK
<1>4. /\ run'.status = "PAID" /\ run'.preparedBy = run.preparedBy
      /\ run'.required = run.required /\ run'.period = run.period
  BY DEF Writes
<1>5. ApprovalsCounted' /\ LevelsInOrder' /\ LastPreparerNeverApproves' /\ FiguresAsSubmitted'
  BY <1>1, <1>4 DEF IInv, ApprovalsCounted, LevelsInOrder, LastPreparerNeverApproves,
                    FiguresAsSubmitted, Locked
<1>6. SubmissionFixesRequired' /\ EnoughApprovers'
  BY <1>1, <1>4 DEF IInv, SubmissionFixesRequired, EnoughApprovers, Locked
<1>7. HistoryExplainsStatus'
  BY <1>2, <1>4 DEF HistoryExplainsStatus, StatusAfter, Recorded
<1>8. NoHistoryWithoutRun'
  BY <1>4 DEF NoHistoryWithoutRun
<1> QED
  BY <1>2, <1>3, <1>5, <1>6, <1>7, <1>8 DEF IInv

\* A submission freezes the figures and waits for its approvals.
LEMMA SubmitIInv ==
  ASSUME IInv, clock' = clock + 1, NEW u \in Users, NEW checks \in BOOLEAN, NEW increase \in BOOLEAN,
         Submit(u, Now, checks, increase)
  PROVE  IInv'
<1>1. TypeOK /\ EventsArePast
  BY DEF IInv
<1>2. PICK n, e :
        /\ n \in 1..2
        /\ Writes("SUBMITTED", run.preparedBy, n, run.period)
        /\ Recorded(e, "SUBMITTED", u)
        /\ e.required = n /\ e.slips = slips /\ e.period = run.period
  BY <1>1, SubmitWrites
<1>3. slips # {} /\ slips' = slips /\ \A b \in slips : b.sheet \notin Negative
  BY <1>1, SubmitWrites
<1>4. /\ EventsArePast' /\ events' \in SUBSET EventType
      /\ \A f \in events : f.at \in Nat /\ f.at < e.at
      /\ e.at \in Nat
      /\ \A f \in events' : (\A g \in events' : g.at <= f.at) => f = e
  BY <1>1, <1>2, NewEventIsLatest
<1>5. LastSubmission(events') = {e} /\ CurrentApprovals(events') = {} /\ Approved(events') = {}
  BY <1>2, <1>4, NewSubmission DEF Recorded, Approved
<1>6. TypeOK'
  BY <1>1, <1>2, <1>3, <1>4, WritesTypeOK DEF TypeOK
<1>7. run'.status = "SUBMITTED" /\ run'.required = n /\ run'.period = run.period
  BY <1>2 DEF Writes
<1>8. Cardinality({}) = 0 /\ IsFiniteSet({})
  BY FS_EmptySet
<1>9. ApprovalsCounted' /\ LevelsInOrder'
  <2>1. 1..0 = {}
    OBVIOUS
  <2> QED
    BY <1>5, <1>8, <2>1 DEF ApprovalsCounted, LevelsInOrder
<1>10. SubmissionFixesRequired' /\ EnoughApprovers' /\ NoHistoryWithoutRun'
  BY <1>2, <1>5, <1>7, <1>8 DEF SubmissionFixesRequired, EnoughApprovers, NoHistoryWithoutRun, Locked
<1>11. LastPreparerNeverApproves' /\ FiguresAsSubmitted'
  BY <1>2, <1>3, <1>5, <1>7 DEF LastPreparerNeverApproves, FiguresAsSubmitted
<1>12. HistoryExplainsStatus'
  BY <1>2, <1>4, <1>7 DEF HistoryExplainsStatus, StatusAfter, Recorded
<1> QED
  BY <1>4, <1>6, <1>9, <1>10, <1>11, <1>12 DEF IInv

\* What one more approval does to a waiting run: it comes from a new person,
\* gets the next number, and approves the run when it is the last one asked for.
LEMMA ApproveEffect ==
  ASSUME IInv, clock' = clock + 1, NEW u \in Users, Approve(u, Now),
         NEW c, c = Cardinality(CurrentApprovals(events))
  PROVE  \E e :
           /\ Recorded(e, "APPROVED", u) /\ e.level = c + 1 /\ e.rule = settings.preparerRule
           /\ e \notin CurrentApprovals(events)
           /\ EventsArePast' /\ TypeOK'
           /\ \A f \in events' : (\A g \in events' : g.at <= f.at) => f = e
           /\ c \in Nat /\ slips' = slips
           /\ run.status = "SUBMITTED" /\ u \notin Approved(events)
           /\ settings.preparerRule => u # run.preparedBy /\ \A s \in LastSubmission(events) : u # s.by
           /\ \A s \in LastSubmission(events) : s.required \in 1..2 /\ run.required = s.required
           /\ run.required \in 1..2 /\ c < run.required
           /\ LastSubmission(events') = LastSubmission(events) /\ LastSubmission(events) # {}
           /\ CurrentApprovals(events') = CurrentApprovals(events) \cup {e}
           /\ Approved(events') = Approved(events) \cup {u}
           /\ IsFiniteSet(CurrentApprovals(events')) /\ IsFiniteSet(Approved(events'))
           /\ Cardinality(CurrentApprovals(events')) = c + 1
           /\ Cardinality(Approved(events')) = c + 1
           /\ run'.status = (IF c + 1 >= run.required THEN "APPROVED" ELSE "SUBMITTED")
           /\ run'.preparedBy = run.preparedBy /\ run'.required = run.required
           /\ run'.period = run.period
<1> DEFINE current == CurrentApprovals(events)
<1>1. /\ TypeOK /\ EventsArePast /\ IsFiniteSet(current) /\ IsFiniteSet(Approved(events))
      /\ Cardinality(Approved(events)) = c
  BY DEF IInv, ApprovalsCounted
<1>2. c \in Nat
  BY <1>1, FS_CardinalityType
<1>3. PICK e : Recorded(e, "APPROVED", u) /\ e.level = NextLevel(Now) /\ e.rule = settings.preparerRule
  BY <1>1, ApproveWrites
<1>4. /\ MayApprove(Now, u) /\ slips' = slips /\ NextLevel(Now) = c + 1
      /\ Writes(IF NextLevel(Now) >= Required(Now) THEN "APPROVED" ELSE "SUBMITTED",
                run.preparedBy, run.required, run.period)
  BY <1>1, ApproveWrites
<1>5. /\ run.status = "SUBMITTED" /\ u \notin Approved(events)
      /\ settings.preparerRule => u # run.preparedBy /\ \A s \in LastSubmission(events) : u # s.by
  BY <1>4 DEF MayApprove, IsSubmitted, Prepared, Now
<1>6. /\ LastSubmission(events) # {}
      /\ \A s \in LastSubmission(events) : s.required \in 1..2 /\ run.required = s.required
  BY <1>5 DEF IInv, SubmissionFixesRequired, Locked
<1>7. Required(Now) = run.required /\ run.required \in 1..2
  BY <1>6 DEF Required, Now
<1>8. /\ EventsArePast' /\ events' \in SUBSET EventType
      /\ \A f \in events : f.at \in Nat /\ f.at < e.at
      /\ e.at \in Nat
      /\ \A f \in events' : (\A g \in events' : g.at <= f.at) => f = e
  BY <1>1, <1>3, NewEventIsLatest
<1>9. /\ LastSubmission(events') = LastSubmission(events)
      /\ CurrentApprovals(events') = current \cup {e}
  BY <1>3, <1>6, <1>8, NewApproval DEF Recorded
<1>10. Approved(events') = Approved(events) \cup {u}
  BY <1>3, <1>9 DEF Approved, Recorded
<1>11. e \notin current
  BY <1>3, <1>5 DEF Approved, Recorded
<1>12. /\ IsFiniteSet(CurrentApprovals(events')) /\ IsFiniteSet(Approved(events'))
       /\ Cardinality(CurrentApprovals(events')) = c + 1
       /\ Cardinality(Approved(events')) = c + 1
  BY <1>1, <1>5, <1>9, <1>10, <1>11, FS_AddElement
<1>13. /\ run'.status = (IF c + 1 >= run.required THEN "APPROVED" ELSE "SUBMITTED")
       /\ run'.preparedBy = run.preparedBy /\ run'.required = run.required
       /\ run'.period = run.period
  BY <1>4, <1>7 DEF Writes
<1>14. TypeOK'
  BY <1>1, <1>4, <1>8, WritesTypeOK DEF TypeOK
<1>15. c < run.required
  BY <1>1, <1>5, <1>6 DEF IInv, EnoughApprovers
<1> QED
  BY <1>2, <1>3, <1>4, <1>5, <1>6, <1>7, <1>8, <1>9, <1>10, <1>11, <1>12, <1>13, <1>14, <1>15

LEMMA ApproveIInv ==
  ASSUME IInv, clock' = clock + 1, NEW u \in Users, Approve(u, Now)
  PROVE  IInv'
<1> DEFINE current == CurrentApprovals(events)
           submission == LastSubmission(events)
<1>1. PICK c : c = Cardinality(current)
  OBVIOUS
<1>2. PICK e :
        /\ Recorded(e, "APPROVED", u) /\ e.level = c + 1 /\ e.rule = settings.preparerRule
        /\ e \notin current
        /\ EventsArePast' /\ TypeOK'
        /\ \A f \in events' : (\A g \in events' : g.at <= f.at) => f = e
        /\ c \in Nat /\ slips' = slips
        /\ run.status = "SUBMITTED" /\ u \notin Approved(events)
        /\ settings.preparerRule => u # run.preparedBy /\ \A s \in submission : u # s.by
        /\ \A s \in submission : s.required \in 1..2 /\ run.required = s.required
        /\ run.required \in 1..2 /\ c < run.required
        /\ LastSubmission(events') = submission /\ submission # {}
        /\ CurrentApprovals(events') = current \cup {e}
        /\ Approved(events') = Approved(events) \cup {u}
        /\ IsFiniteSet(CurrentApprovals(events')) /\ IsFiniteSet(Approved(events'))
        /\ Cardinality(CurrentApprovals(events')) = c + 1
        /\ Cardinality(Approved(events')) = c + 1
        /\ run'.status = (IF c + 1 >= run.required THEN "APPROVED" ELSE "SUBMITTED")
        /\ run'.preparedBy = run.preparedBy /\ run'.required = run.required
        /\ run'.period = run.period
  BY <1>1, ApproveEffect
<1>3. ApprovalsCounted'
  BY <1>2 DEF ApprovalsCounted
<1>4. SubmissionFixesRequired'
  BY <1>2 DEF SubmissionFixesRequired
<1>5. EnoughApprovers'
  <2>1. \A s \in submission : c < s.required /\ s.required \in 1..2
    BY <1>2
  <2>2. CASE c + 1 >= run.required
    BY <1>2, <2>1, <2>2 DEF EnoughApprovers
  <2>3. CASE ~(c + 1 >= run.required)
    BY <1>2, <2>1, <2>3 DEF EnoughApprovers
  <2> QED
    BY <2>2, <2>3
<1>6. LevelsInOrder'
  <2>1. {f.level : f \in current} = 1..c /\ \A f, g \in current : f.by = g.by => f = g
    BY <1>1, <1>2 DEF IInv, LevelsInOrder, Locked
  <2>2. {f.level : f \in current \cup {e}} = (1..c) \cup {c + 1}
    BY <1>2, <2>1
  <2>3. (1..c) \cup {c + 1} = 1..(c + 1)
    BY <1>2
  <2>4. \A f \in current : f.by # e.by
    BY <1>2 DEF Approved, Recorded
  <2>5. \A f, g \in current \cup {e} : f.by = g.by => f = g
    BY <2>1, <2>4
  <2> QED
    BY <1>2, <2>2, <2>3, <2>5 DEF LevelsInOrder
<1>7. LastPreparerNeverApproves'
  <2>1. \A f \in current : f.rule =>
          f.by # run.preparedBy /\ \A s \in submission : f.by # s.by
    BY <1>2 DEF IInv, LastPreparerNeverApproves, Locked
  <2>2. e.rule => e.by # run.preparedBy /\ \A s \in submission : e.by # s.by
    BY <1>2 DEF Recorded
  <2> QED
    BY <1>2, <2>1, <2>2 DEF LastPreparerNeverApproves
<1>8. FiguresAsSubmitted'
  BY <1>2 DEF IInv, FiguresAsSubmitted, Locked
<1>9. HistoryExplainsStatus'
  <2>1. run'.status = StatusAfter(e)'
    BY <1>2 DEF StatusAfter, Recorded
  <2> QED
    BY <1>2, <2>1 DEF HistoryExplainsStatus
<1>10. NoHistoryWithoutRun'
  BY <1>2 DEF NoHistoryWithoutRun
<1> QED
  BY <1>2, <1>3, <1>4, <1>5, <1>6, <1>7, <1>8, <1>9, <1>10 DEF IInv

\* A new run has a history of one event, and no submission.
LEMMA RunPayrollIInv ==
  ASSUME IInv, clock' = clock + 1, NEW u \in Users, NEW p \in Periods, NEW made \in Calculations(Now, p),
         RunPayroll(u, Now, p, made)
  PROVE  IInv'
<1>1. TypeOK
  BY DEF IInv
<1>2. PICK e \in EventType : e.at = clock + 1 /\ e.action = "CREATED" /\ events' = {e}
  BY <1>1, RunPayrollWrites
<1>3. Writes("DRAFT", u, 0, p) /\ slips' \in SUBSET Batches
  BY <1>1, RunPayrollWrites
<1>4. LastSubmission(events') = {} /\ CurrentApprovals(events') = {} /\ Approved(events') = {}
  BY <1>2 DEF LastSubmission, Submissions, CurrentApprovals, Approved
<1>5. run'.status = "DRAFT"
  BY <1>3 DEF Writes
<1>6. TypeOK' /\ EventsArePast'
  <2>1. clock' \in Nat /\ \A f \in events' : f.at <= clock'
    BY <1>1, <1>2 DEF TypeOK
  <2>2. events' \in SUBSET EventType
    BY <1>2
  <2> QED
    BY <1>1, <1>3, <2>1, <2>2, WritesTypeOK DEF EventsArePast
<1>7. ApprovalsCounted'
  BY <1>4, FS_EmptySet DEF ApprovalsCounted
<1>8. HistoryExplainsStatus'
  BY <1>2, <1>5 DEF HistoryExplainsStatus, StatusAfter
<1> QED
  BY <1>4, <1>5, <1>6, <1>7, <1>8
  DEF IInv, SubmissionFixesRequired, NoHistoryWithoutRun, EnoughApprovers, LevelsInOrder,
      LastPreparerNeverApproves, FiguresAsSubmitted, Locked

\* New dates keep a draft a draft; a deleted run leaves nothing behind.
LEMMA UpdateRunIInv ==
  ASSUME IInv, clock' = clock + 1, NEW u \in Users, NEW p \in Periods, UpdateRun(u, Now, p)
  PROVE  IInv'
<1>1. TypeOK
  BY DEF IInv
<1>2. /\ run.status = "DRAFT" /\ Writes("DRAFT", run.preparedBy, run.required, p)
      /\ slips' = slips /\ events' = events
  BY <1>1, UpdateRunWrites
<1>3. run'.status = "DRAFT"
  BY <1>2 DEF Writes
<1>4. TypeOK' /\ EventsArePast'
  <2>1. slips' \in SUBSET Batches /\ events' \in SUBSET EventType /\ clock' \in Nat
    BY <1>1, <1>2 DEF TypeOK, EventType
  <2>2. EventsArePast'
    BY <1>1, <1>2 DEF IInv, EventsArePast, TypeOK
  <2> QED
    BY <1>1, <1>2, <2>1, <2>2, WritesTypeOK
<1>5. /\ LastSubmission(events') = LastSubmission(events)
      /\ CurrentApprovals(events') = CurrentApprovals(events)
      /\ Approved(events') = Approved(events)
  BY <1>2
<1>6. ApprovalsCounted'
  BY <1>5 DEF IInv, ApprovalsCounted
<1>7. SubmissionFixesRequired'
  BY <1>3, <1>5 DEF IInv, SubmissionFixesRequired, Locked
<1>8. HistoryExplainsStatus'
  <2>1. \A f \in events : StatusAfter(f)' = StatusAfter(f)
    BY <1>5 DEF StatusAfter
  <2> QED
    BY <1>2, <1>3, <2>1 DEF IInv, HistoryExplainsStatus
<1> QED
  BY <1>3, <1>4, <1>6, <1>7, <1>8
  DEF IInv, NoHistoryWithoutRun, EnoughApprovers, LevelsInOrder,
      LastPreparerNeverApproves, FiguresAsSubmitted, Locked

LEMMA DeleteRunIInv ==
  ASSUME IInv, clock' = clock + 1, NEW u \in Users, DeleteRun(u, Now)
  PROVE  IInv'
<1>1. TypeOK
  BY DEF IInv
<1>2. Writes("NONE", NoUser, 0, run.period) /\ slips' = {} /\ events' = {}
  BY <1>1, DeleteRunWrites
<1>3. LastSubmission(events') = {} /\ CurrentApprovals(events') = {} /\ Approved(events') = {}
  BY <1>2 DEF LastSubmission, Submissions, CurrentApprovals, Approved
<1>4. run'.status = "NONE"
  BY <1>2 DEF Writes
<1>5. TypeOK'
  BY <1>1, <1>2, WritesTypeOK DEF TypeOK
<1>6. ApprovalsCounted'
  BY <1>3, FS_EmptySet DEF ApprovalsCounted
<1> QED
  BY <1>2, <1>3, <1>4, <1>5, <1>6
  DEF IInv, EventsArePast, SubmissionFixesRequired, NoHistoryWithoutRun, EnoughApprovers, LevelsInOrder,
      LastPreparerNeverApproves, FiguresAsSubmitted, HistoryExplainsStatus, Locked

\* Every transaction keeps the invariant.
LEMMA OperationIInv ==
  ASSUME IInv, clock' = clock + 1, NEW u \in Users, Operation(u)
  PROVE  IInv'
<1>0. TypeOK
  BY DEF IInv
<1>1. ASSUME NEW p \in Periods, NEW made \in Calculations(Now, p), RunPayroll(u, Now, p, made)
      PROVE  IInv'
  BY <1>1, RunPayrollIInv
<1>2. ASSUME NEW made \in Calculations(Now, run.period), Recalculate(u, Now, made)
      PROVE  IInv'
  <2>1. PICK e : Recorded(e, "RECALCULATED", u)
    BY <1>0, <1>2, RecalculateWrites
  <2>2. Writes("DRAFT", u, run.required, run.period) /\ slips' \in SUBSET Batches
    BY <1>0, <1>2, RecalculateWrites
  <2> QED
    BY <2>1, <2>2, DraftIInv
<1>3. ASSUME NEW p \in Periods, UpdateRun(u, Now, p)
      PROVE  IInv'
  BY <1>3, UpdateRunIInv
<1>4. CASE DeleteRun(u, Now)
  BY <1>4, DeleteRunIInv
<1>5. ASSUME NEW checks \in BOOLEAN, NEW increase \in BOOLEAN, Submit(u, Now, checks, increase)
      PROVE  IInv'
  BY <1>5, SubmitIInv
<1>6. CASE Approve(u, Now)
  BY <1>6, ApproveIInv
<1>7. CASE SendBack(u, Now) \/ Withdraw(u, Now) \/ Reopen(u, Now) \/ MarkPaid(u, Now)
  <2>1. slips' = slips /\ slips' \in SUBSET Batches
    BY <1>0, <1>7, MoveWrites DEF TypeOK
  <2>2. PICK e :
          \/ /\ Recorded(e, "SENT_BACK", u) \/ Recorded(e, "REOPENED", u)
             /\ \E n \in 0..2 : Writes("DRAFT", run.preparedBy, n, run.period)
          \/ /\ Recorded(e, "PAID", u)
             /\ run.status = "APPROVED"
             /\ Writes("PAID", run.preparedBy, run.required, run.period)
    BY <1>0, <1>7, MoveWrites
  <2> QED
    BY <2>1, <2>2, DraftIInv, PaidIInv
<1> QED
  BY <1>1, <1>2, <1>3, <1>4, <1>5, <1>6, <1>7 DEF Operation

LEMMA NextIInv == IInv /\ [Next]_vars => IInv'
<1> SUFFICES ASSUME IInv, [Next]_vars PROVE IInv'
  OBVIOUS
<1>0. TypeOK
  BY DEF IInv
<1>1. ASSUME NEW u \in Users, Serve(u)
      PROVE  IInv'
  BY <1>1, OperationIInv DEF Serve
<1>2. CASE \/ \E s \in SettingsChoices : \E list \in ApproverChoices \cup {approvers} : SaveSettings(s, list)
           \/ \E u \in Grantable, value \in BOOLEAN : SetCanApprove(u, value)
  BY <1>0, <1>2, ConfigTypeOK, SameRunIInv
<1>3. CASE UNCHANGED vars
  <2>1. UNCHANGED <<run, slips, events, clock>> /\ TypeOK'
    BY <1>0, <1>3 DEF vars, TypeOK
  <2> QED
    BY <2>1, SameRunIInv
<1> QED
  BY <1>1, <1>2, <1>3 DEF Next

----------------------------------------------------------------------------
(* Theorems *)

\* The tables of a pay run always hold rows of their declared columns.
THEOREM TypeCorrect == Spec => []TypeOK
<1>1. IInv => TypeOK
  BY DEF IInv
<1> QED
  BY <1>1, InitIInv, NextIInv, PTL DEF Spec

\* A waiting run has fewer approvers than its submission asked for, an
\* approved or paid run exactly as many, all different, their approvals
\* numbered in order.
THEOREM ApprovedByEnough == Spec => []FullyApproved
<1>1. IInv => FullyApproved
  BY DEF IInv, FullyApproved
<1> QED
  BY <1>1, InitIInv, NextIInv, PTL DEF Spec

\* No approval given under the preparer rule comes from the one whose
\* calculation stands or from the submitter.
THEOREM NotByLastPreparer == Spec => []LastPreparerNeverApproves
<1>1. IInv => LastPreparerNeverApproves
  BY DEF IInv
<1> QED
  BY <1>1, InitIInv, NextIInv, PTL DEF Spec

\* What is approved and paid is what was submitted.
THEOREM PaidAsSubmitted == Spec => []FiguresAsSubmitted
<1>1. IInv => FiguresAsSubmitted
  BY DEF IInv
<1> QED
  BY <1>1, InitIInv, NextIInv, PTL DEF Spec

\* The latest event of the history leads to the status.
THEOREM StatusFromHistory == Spec => []HistoryExplainsStatus
<1>1. IInv => HistoryExplainsStatus
  BY DEF IInv
<1> QED
  BY <1>1, InitIInv, NextIInv, PTL DEF Spec

----------------------------------------------------------------------------
(* The workflow implements its lifecycle *)

\* What the lifecycle sees of a step that does not end in a locked run.
LEMMA UnlockedStep ==
  ASSUME TypeOK, TypeOK', ~Locked', run.status # "PAID",
         run.status = "NONE" => run'.status = "DRAFT",
         Locked => run'.status = "DRAFT" /\ run'.period = run.period /\ slips' = slips
  PROVE  Lifecycle!LNext
<1>1. run'.status \in {"NONE", "DRAFT"} /\ run.status \in {"NONE", "DRAFT", "SUBMITTED", "APPROVED"}
  BY DEF TypeOK, Runs, Statuses, Locked
<1>2. run.period \in Periods /\ slips \in SUBSET Batches
  BY DEF TypeOK, Runs
<1>3. run'.period \in Periods /\ slips' \in SUBSET Batches
  BY DEF TypeOK, Runs
<1>4. CASE Locked
  <2>1. run.status \in {"SUBMITTED", "APPROVED"} /\ run'.status = "DRAFT"
    BY <1>1, <1>4 DEF Locked
  <2>2. Lifecycle!BackToDraft
    BY <1>4, <2>1 DEF Lifecycle!BackToDraft
  <2> QED
    BY <2>2 DEF Lifecycle!LNext
<1>5. CASE ~Locked /\ run'.status = "DRAFT"
  <2>1. run.status \in {"NONE", "DRAFT"}
    BY <1>1, <1>5 DEF Locked
  <2>2. Lifecycle!Prepare
    BY <1>3, <1>5, <2>1 DEF Lifecycle!Prepare
  <2> QED
    BY <2>2 DEF Lifecycle!LNext
<1>6. CASE ~Locked /\ run'.status = "NONE"
  <2>1. run.status = "DRAFT"
    BY <1>1, <1>6 DEF Locked
  <2>2. Lifecycle!Discard
    BY <1>3, <1>6, <2>1 DEF Lifecycle!Discard
  <2> QED
    BY <2>2 DEF Lifecycle!LNext
<1> QED
  BY <1>1, <1>4, <1>5, <1>6

LEMMA SubmitRefines ==
  ASSUME IInv, clock' = clock + 1, NEW u \in Users, NEW checks \in BOOLEAN, NEW increase \in BOOLEAN,
         Submit(u, Now, checks, increase)
  PROVE  Lifecycle!LNext
<1>1. TypeOK /\ EventsArePast
  BY DEF IInv
<1>2. PICK n, e :
        /\ n \in 1..2
        /\ Writes("SUBMITTED", run.preparedBy, n, run.period)
        /\ Recorded(e, "SUBMITTED", u)
  BY <1>1, SubmitWrites
<1>3. run.status = "DRAFT" /\ slips' = slips
  BY <1>1, SubmitWrites
<1>4. Approved(events') = {}
  <2>1. e.at \in Nat /\ \A f \in events : f.at \in Nat /\ f.at < e.at
    BY <1>1, <1>2, NewEventIsLatest
  <2> QED
    BY <1>2, <2>1, NewSubmission DEF Recorded, Approved
<1>5. run'.status = "SUBMITTED" /\ run'.required = n /\ run'.period = run.period
  BY <1>2 DEF Writes
<1>6. ~Locked /\ Locked'
  BY <1>3, <1>5 DEF Locked
<1>7. Lifecycle!LSubmit(n)
  BY <1>3, <1>4, <1>5, <1>6 DEF Lifecycle!LSubmit
<1> QED
  BY <1>2, <1>7 DEF Lifecycle!LNext

\* The cardinality the lifecycle uses is the one of this module.
LEMMA SameCardinality == ASSUME NEW S PROVE Lifecycle!Cardinality(S) = Cardinality(S)
  BY DEF Cardinality, Lifecycle!Cardinality

LEMMA ApproveRefines ==
  ASSUME IInv, clock' = clock + 1, NEW u \in Users, Approve(u, Now)
  PROVE  Lifecycle!LNext
<1>1. PICK c : c = Cardinality(CurrentApprovals(events))
  OBVIOUS
<1>2. /\ c \in Nat /\ slips' = slips
      /\ run.status = "SUBMITTED" /\ u \notin Approved(events)
      /\ run.required \in 1..2 /\ c < run.required
      /\ Approved(events') = Approved(events) \cup {u}
      /\ Cardinality(Approved(events')) = c + 1
      /\ run'.status = (IF c + 1 >= run.required THEN "APPROVED" ELSE "SUBMITTED")
      /\ run'.required = run.required
      /\ run'.period = run.period
  BY <1>1, ApproveEffect
<1>3. Locked /\ Locked'
  BY <1>2 DEF Locked
<1>4. c + 1 >= run.required <=> Cardinality(Approved(events')) = run.required
  BY <1>2
<1>5. Lifecycle!LApprove(u)
  <2>1. run'.status = (IF Cardinality(Approved(events')) = run.required THEN "APPROVED" ELSE "SUBMITTED")
    BY <1>2, <1>4
  <2>2. /\ (IF Locked THEN Approved(events) ELSE {}) = Approved(events)
        /\ (IF Locked THEN Approved(events) ELSE {})' = Approved(events')
        /\ (IF Locked THEN run.required ELSE 0) = run.required
        /\ (IF Locked THEN run.required ELSE 0)' = run.required
    BY <1>2, <1>3
  <2>3. [period |-> run.period, slips |-> slips]' = [period |-> run.period, slips |-> slips]
    BY <1>2
  <2> QED
    BY <1>2, <2>1, <2>2, <2>3, SameCardinality DEF Lifecycle!LApprove
<1> QED
  BY <1>5 DEF Lifecycle!LNext

LEMMA MoveRefines ==
  ASSUME IInv, IInv', NEW u \in Users,
         SendBack(u, Now) \/ Withdraw(u, Now) \/ Reopen(u, Now) \/ MarkPaid(u, Now)
  PROVE  Lifecycle!LNext
<1>1. TypeOK /\ TypeOK' /\ slips' = slips
  BY MoveWrites DEF IInv
<1>2. run.status \in {"SUBMITTED", "APPROVED"}
  BY DEF SendBack, Withdraw, Reopen, MarkPaid, IsSubmitted, IsApproved, Now
<1>3. PICK e :
        \/ \E n \in 0..2 : Writes("DRAFT", run.preparedBy, n, run.period)
        \/ /\ Recorded(e, "PAID", u)
           /\ run.status = "APPROVED"
           /\ Writes("PAID", run.preparedBy, run.required, run.period)
  BY <1>1, MoveWrites
<1>4. CASE \E n \in 0..2 : Writes("DRAFT", run.preparedBy, n, run.period)
  BY <1>1, <1>2, <1>4, UnlockedStep DEF Writes, Locked
<1>5. CASE /\ Recorded(e, "PAID", u)
           /\ run.status = "APPROVED"
           /\ Writes("PAID", run.preparedBy, run.required, run.period)
  <2>1. Locked /\ Locked' /\ run'.status = "PAID"
    BY <1>5 DEF Writes, Locked
  <2>2. Approved(events') = Approved(events)
    BY <1>5, OtherEvent DEF Recorded, Approved
  <2>3. Lifecycle!Pay
    BY <1>1, <1>5, <2>1, <2>2 DEF Lifecycle!Pay, Writes
  <2> QED
    BY <2>3 DEF Lifecycle!LNext
<1> QED
  BY <1>3, <1>4, <1>5

LEMMA OperationRefines ==
  ASSUME IInv, IInv', clock' = clock + 1, NEW u \in Users, Operation(u)
  PROVE  Lifecycle!LNext
<1>0. TypeOK /\ TypeOK'
  BY DEF IInv
<1>1. ASSUME NEW p \in Periods, NEW made \in Calculations(Now, p), RunPayroll(u, Now, p, made)
      PROVE  Lifecycle!LNext
  <2>1. run.status = "NONE" /\ run'.status = "DRAFT"
    BY <1>0, <1>1, RunPayrollWrites DEF Writes
  <2> QED
    BY <1>0, <2>1, UnlockedStep DEF Locked
<1>2. ASSUME NEW made \in Calculations(Now, run.period), Recalculate(u, Now, made)
      PROVE  Lifecycle!LNext
  <2>1. run.status = "DRAFT" /\ run'.status = "DRAFT"
    BY <1>0, <1>2, RecalculateWrites DEF Writes
  <2> QED
    BY <1>0, <2>1, UnlockedStep DEF Locked
<1>3. ASSUME NEW p \in Periods, UpdateRun(u, Now, p)
      PROVE  Lifecycle!LNext
  <2>1. run.status = "DRAFT" /\ run'.status = "DRAFT"
    BY <1>0, <1>3, UpdateRunWrites DEF Writes
  <2> QED
    BY <1>0, <2>1, UnlockedStep DEF Locked
<1>4. CASE DeleteRun(u, Now)
  <2>1. run.status = "DRAFT" /\ run'.status = "NONE"
    BY <1>0, <1>4, DeleteRunWrites DEF Writes, DeleteRun, IsDraft, Now
  <2> QED
    BY <1>0, <2>1, UnlockedStep DEF Locked
<1>5. ASSUME NEW checks \in BOOLEAN, NEW increase \in BOOLEAN, Submit(u, Now, checks, increase)
      PROVE  Lifecycle!LNext
  BY <1>5, SubmitRefines
<1>6. CASE Approve(u, Now)
  BY <1>6, ApproveRefines
<1>7. CASE SendBack(u, Now) \/ Withdraw(u, Now) \/ Reopen(u, Now) \/ MarkPaid(u, Now)
  BY <1>7, MoveRefines
<1> QED
  BY <1>1, <1>2, <1>3, <1>4, <1>5, <1>6, <1>7 DEF Operation

LEMMA InitRefines == Init => Lifecycle!LInit
<1> SUFFICES ASSUME Init PROVE Lifecycle!LInit
  OBVIOUS
<1>1. run.status \in {"NONE", "APPROVED", "PAID"} /\ run.required = 0
  BY DEF Init, NoRun
<1>2. run.period \in Periods /\ slips \in SUBSET Batches
  <2>1. TypeOK
    BY InitTypeOK
  <2> QED
    BY <2>1 DEF TypeOK, Runs
<1>3. Approved(events) = {}
  BY DEF Init, Approved, CurrentApprovals
<1> QED
  BY <1>1, <1>2, <1>3 DEF Lifecycle!LInit

LEMMA NextRefines == IInv /\ IInv' /\ [Next]_vars => [Lifecycle!LNext]_(Lifecycle!lvars)
<1> SUFFICES ASSUME IInv, IInv', [Next]_vars PROVE [Lifecycle!LNext]_(Lifecycle!lvars)
  OBVIOUS
<1>1. ASSUME NEW u \in Users, Serve(u)
      PROVE  Lifecycle!LNext
  BY <1>1, OperationRefines DEF Serve
<1>2. ASSUME UNCHANGED <<run, slips, events>>
      PROVE  UNCHANGED Lifecycle!lvars
  BY <1>2 DEF Lifecycle!lvars, Locked, Approved, CurrentApprovals, LastSubmission, Submissions
<1>3. CASE \/ \E s \in SettingsChoices : \E list \in ApproverChoices \cup {approvers} : SaveSettings(s, list)
           \/ \E u \in Grantable, value \in BOOLEAN : SetCanApprove(u, value)
  BY <1>2, <1>3, ConfigTypeOK DEF IInv
<1>4. CASE UNCHANGED vars
  BY <1>2, <1>4 DEF vars
<1> QED
  BY <1>1, <1>3, <1>4 DEF Next

\* Every behaviour of the workflow is one of the lifecycle its diagram draws:
\* figures change in drafts only, approval takes exactly the number of
\* different people asked for, and payment is final.
THEOREM LifecycleImplemented == Spec => ImplementsLifecycle
<1>1. IInv /\ IInv' /\ [Next]_vars => [Lifecycle!LNext]_(Lifecycle!lvars)
  BY NextRefines
<1> QED
  BY <1>1, InitRefines, InitIInv, NextIInv, PTL DEF Spec, ImplementsLifecycle, Lifecycle!LSpec

----------------------------------------------------------------------------
(* Concurrent requests (PayRunRaces). What a transaction read may be stale *)
(* by the time it writes: the invariant RInv says only what the foreign    *)
(* keys keep whatever was read, and that what was read is rows.            *)

\* What a transaction may have read, now or some steps earlier.
Reads == [at : Nat, run : Runs, slips : SUBSET Batches, events : SUBSET EventType,
          settings : Settings, approvers : ApproverLists, canApprove : [Users -> BOOLEAN]]

Busy == [step : {"loaded", "looked"}, op : Served, user : Users, seen : Reads]

FiniteHistories ==
  /\ IsFiniteSet(events)
  /\ \A r \in Requests : tx[r].step # "idle" => IsFiniteSet(tx[r].seen.events)

RInv ==
  /\ TypeOK
  /\ tx \in [Requests -> {Idle} \cup Busy]
  /\ FiniteHistories
  /\ NothingWithoutRun

\* An event that a transaction records.
LEMMA SeenEvent ==
  ASSUME NEW seen \in Reads, NEW action \in Actions, NEW u \in Users, NEW e,
         e = Event(seen, action, u)
  PROVE  e \in EventType /\ e.action = action
<1>1. seen.run.period \in Periods /\ seen.at \in Nat
  BY DEF Reads, Runs
<1> QED
  BY <1>1 DEF Event, EventType

LEMMA SeenLevel ==
  ASSUME NEW seen \in Reads, IsFiniteSet(seen.events)
  PROVE  NextLevel(seen) \in Nat
<1>1. IsFiniteSet(CurrentApprovals(seen.events))
  BY FS_Subset DEF CurrentApprovals
<1> QED
  BY <1>1, FS_CardinalityType DEF NextLevel

\* A run row whose status and, perhaps, approvals asked for are written.
LEMMA RowStatus ==
  ASSUME TypeOK, NEW status \in Statuses, NEW n \in 0..2
  PROVE  /\ [run EXCEPT !.status = status] \in Runs
         /\ [run EXCEPT !.status = status].status = status
         /\ [run EXCEPT !.status = status, !.required = n] \in Runs
         /\ [run EXCEPT !.status = status, !.required = n].status = status
  BY DEF TypeOK, Runs

\* What a commit does to the run, whatever its transaction read: it deletes
\* all of it, or it writes the row, the payslips and at most one event.
Committed ==
  /\ run.status # "NONE"
  /\ run' \in Runs
  /\ slips' \in SUBSET Batches
  /\ UNCHANGED config
  /\ \/ run'.status = "NONE" /\ slips' = {} /\ events' = {}
     \/ run'.status # "NONE" /\ events' = events
     \/ \E e \in EventType : run'.status # "NONE" /\ events' = events \cup {e}

LEMMA RecalculateCommits ==
  ASSUME TypeOK, NEW u \in Users, NEW seen \in Reads,
         NEW made \in Calculations(seen, seen.run.period), Recalculate(u, seen, made)
  PROVE  Committed
<1>1. PICK e : e = Event(seen, "RECALCULATED", u)
  OBVIOUS
<1>2. e \in EventType
  BY <1>1, SeenEvent DEF Actions
<1>3. made \in SUBSET Batches
  BY DEF Calculations, Reads, Runs, Batches
<1>4. run' \in Runs /\ run'.status = run.status
  BY DEF Recalculate, TypeOK, Runs
<1> QED
  BY <1>1, <1>2, <1>3, <1>4 DEF Recalculate, Committed, TypeOK

LEMMA UpdateRunCommits ==
  ASSUME TypeOK, NEW u \in Users, NEW seen \in Reads, NEW p \in Periods, UpdateRun(u, seen, p)
  PROVE  Committed
<1>1. run' \in Runs /\ run'.status = run.status
  BY DEF UpdateRun, TypeOK, Runs
<1> QED
  BY <1>1 DEF UpdateRun, Committed, TypeOK, config

LEMMA DeleteRunCommits ==
  ASSUME TypeOK, NEW u \in Users, NEW seen \in Reads, DeleteRun(u, seen)
  PROVE  Committed
<1>1. run' \in Runs /\ run'.status = "NONE"
  BY DEF DeleteRun, NoRun, TypeOK, Runs, Statuses
<1> QED
  BY <1>1 DEF DeleteRun, Committed

LEMMA SubmitCommits ==
  ASSUME TypeOK, NEW u \in Users, NEW seen \in Reads,
         NEW checks \in BOOLEAN, NEW increase \in BOOLEAN, Submit(u, seen, checks, increase)
  PROVE  Committed
<1>1. PICK n : n = RequiredOnSubmit(seen, checks, increase)
  OBVIOUS
<1>2. n \in 0..2
  BY <1>1, RequiredOnSubmitType
<1>3. PICK b : b = Event(seen, "SUBMITTED", u)
  OBVIOUS
<1>4. b \in EventType /\ b.action = "SUBMITTED"
  BY <1>3, SeenEvent DEF Actions
<1>5. PICK e : e = [b EXCEPT !.required = n, !.slips = seen.slips]
  OBVIOUS
<1>6. seen.slips \in SUBSET Batches
  BY DEF Reads
<1>7. e \in EventType /\ e.action = "SUBMITTED"
  BY <1>2, <1>4, <1>5, <1>6 DEF EventType
<1>8. run' = [run EXCEPT !.status = "SUBMITTED", !.required = n]
  BY <1>1 DEF Submit
<1>9. run' \in Runs /\ run'.status = "SUBMITTED"
  BY <1>2, <1>8, RowStatus DEF Statuses
<1>10. run.status # "NONE" /\ events' = events \cup {e} /\ slips' = slips /\ UNCHANGED config
  BY <1>1, <1>3, <1>5 DEF Submit
<1> QED
  BY <1>7, <1>9, <1>10 DEF Committed, TypeOK

LEMMA ApproveCommits ==
  ASSUME TypeOK, NEW u \in Users, NEW seen \in Reads, IsFiniteSet(seen.events), Approve(u, seen)
  PROVE  Committed
<1>1. PICK n : n = NextLevel(seen)
  OBVIOUS
<1>2. n \in Nat
  BY <1>1, SeenLevel
<1>3. PICK b : b = Event(seen, "APPROVED", u)
  OBVIOUS
<1>4. b \in EventType /\ b.action = "APPROVED"
  BY <1>3, SeenEvent DEF Actions
<1>5. PICK e : e = [b EXCEPT !.level = n, !.rule = seen.settings.preparerRule]
  OBVIOUS
<1>6. seen.settings.preparerRule \in BOOLEAN
  BY DEF Reads, Settings
<1>7. e \in EventType /\ e.action = "APPROVED"
  BY <1>2, <1>4, <1>5, <1>6 DEF EventType
<1>8. run' = [run EXCEPT !.status = "APPROVED"] \/ run' = run
  BY DEF Approve
<1>9. run' \in Runs /\ run'.status \in {run.status, "APPROVED"}
  <2>1. "APPROVED" \in Statuses /\ 0 \in 0..2 /\ run \in Runs
    BY DEF Statuses, TypeOK
  <2>2. /\ [run EXCEPT !.status = "APPROVED"] \in Runs
        /\ [run EXCEPT !.status = "APPROVED"].status = "APPROVED"
    BY <2>1, RowStatus, Zenon
  <2> QED
    BY <1>8, <2>1, <2>2
<1>10. run.status # "NONE" /\ events' = events \cup {e} /\ slips' = slips /\ UNCHANGED config
  BY <1>1, <1>3, <1>5 DEF Approve
<1> QED
  BY <1>7, <1>9, <1>10 DEF Committed, TypeOK

LEMMA MoveCommits ==
  ASSUME TypeOK, NEW u \in Users, NEW seen \in Reads,
         SendBack(u, seen) \/ Withdraw(u, seen) \/ Reopen(u, seen) \/ MarkPaid(u, seen)
  PROVE  Committed
<1>1. PICK action \in {"SENT_BACK", "REOPENED", "PAID"} :
        /\ events' = events \cup {Event(seen, action, u)}
        /\ run.status # "NONE" /\ slips' = slips /\ UNCHANGED config
        /\ \/ run' = [run EXCEPT !.status = "DRAFT"]
           \/ run' = [run EXCEPT !.status = "DRAFT", !.required = 0]
           \/ run' = [run EXCEPT !.status = "PAID"]
  BY DEF SendBack, Withdraw, Reopen, MarkPaid
<1>2. PICK e : e = Event(seen, action, u)
  OBVIOUS
<1>3. e \in EventType
  BY <1>2, SeenEvent DEF Actions
<1>4. run' \in Runs /\ run'.status \in {"DRAFT", "PAID"}
  <2>1. "DRAFT" \in Statuses /\ "PAID" \in Statuses /\ 0 \in 0..2
    BY DEF Statuses
  <2>2. /\ [run EXCEPT !.status = "DRAFT"] \in Runs
        /\ [run EXCEPT !.status = "DRAFT"].status = "DRAFT"
        /\ [run EXCEPT !.status = "DRAFT", !.required = 0] \in Runs
        /\ [run EXCEPT !.status = "DRAFT", !.required = 0].status = "DRAFT"
        /\ [run EXCEPT !.status = "PAID"] \in Runs
        /\ [run EXCEPT !.status = "PAID"].status = "PAID"
    BY <2>1, RowStatus, Zenon
  <2> QED
    BY <1>1, <2>2
<1> QED
  BY <1>1, <1>2, <1>3, <1>4 DEF Committed, TypeOK

LEMMA WriteCommits ==
  ASSUME TypeOK, NEW u \in Users, NEW op, NEW seen \in Reads, IsFiniteSet(seen.events),
         Write(u, op, seen)
  PROVE  Committed
  BY RecalculateCommits, UpdateRunCommits, DeleteRunCommits, SubmitCommits, ApproveCommits,
     MoveCommits, SMTT(30)
  DEF Write, Reads, Runs

LEMMA InitRInv == RInit => RInv
<1> SUFFICES ASSUME RInit PROVE RInv
  OBVIOUS
<1>1. PICK p \in Periods, u \in Preparers, s \in Sheets :
        /\ run = [NoRun(p) EXCEPT !.status = "DRAFT", !.preparedBy = u]
        /\ slips = {[calc |-> 1, period |-> p, sheet |-> s]}
        /\ events = {Event([at |-> 1, run |-> NoRun(p)], "CREATED", u)}
  BY DEF RInit
<1>2. u \in Users
  BY UsersAssumption
<1>3. run \in Runs /\ run.status = "DRAFT"
  <2>1. run = [status |-> "DRAFT", preparedBy |-> u, required |-> 0, period |-> p]
    BY <1>1 DEF NoRun
  <2> QED
    BY <1>2, <2>1 DEF Runs, Statuses
<1>4. slips \in SUBSET Batches
  BY <1>1 DEF Batches
<1>5. events \in SUBSET EventType /\ IsFiniteSet(events)
  <2>1. Event([at |-> 1, run |-> NoRun(p)], "CREATED", u) \in EventType
    BY <1>2 DEF Event, NoRun, EventType, Actions
  <2> QED
    BY <1>1, <2>1, FS_Singleton
<1>6. TypeOK
  <2>1. settings \in Settings /\ approvers \in ApproverLists /\ canApprove \in [Users -> BOOLEAN]
        /\ clock \in Nat
    BY ChoicesAssumption DEF RInit
  <2> QED
    BY <1>3, <1>4, <1>5, <2>1 DEF TypeOK, EventType
<1>7. tx \in [Requests -> {Idle} \cup Busy] /\ \A r \in Requests : tx[r].step = "idle"
  BY DEF RInit, Idle
<1> QED
  BY <1>3, <1>5, <1>6, <1>7 DEF RInv, FiniteHistories, NothingWithoutRun

\* What a request reads now.
LEMMA NowReads ==
  ASSUME TypeOK
  PROVE  Now \in Reads /\ Now.run = run /\ Now.events = events
  BY DEF TypeOK, Now, Reads, EventType

\* A request that reads and does not write.
LEMMA ReadingRInv ==
  ASSUME RInv, NEW r \in Requests, NEW t, tx' = [tx EXCEPT ![r] = t],
         UNCHANGED <<run, slips, events, settings, approvers, canApprove>>,
         clock' \in Nat,
         t = Idle \/ (t \in Busy /\ IsFiniteSet(t.seen.events))
  PROVE  RInv'
<1>1. TypeOK'
  BY DEF RInv, TypeOK
<1>2. tx' \in [Requests -> {Idle} \cup Busy]
  BY DEF RInv
<1>3. \A q \in Requests : tx'[q] = IF q = r THEN t ELSE tx[q]
  BY DEF RInv
<1>4. t = Idle => t.step = "idle"
  BY DEF Idle
<1>5. FiniteHistories'
  BY <1>3, <1>4 DEF RInv, FiniteHistories
<1>6. NothingWithoutRun'
  BY DEF RInv, NothingWithoutRun
<1> QED
  BY <1>1, <1>2, <1>5, <1>6 DEF RInv

LEMMA LoadRInv ==
  ASSUME RInv, NEW r \in Requests, NEW u \in Users, NEW op \in Served, Load(r, u, op)
  PROVE  RInv'
<1> DEFINE t == [step |-> "loaded", op |-> op, user |-> u, seen |-> Now]
<1>1. TypeOK
  BY DEF RInv
<1>2. t \in Busy /\ t.seen = Now
  BY <1>1, NowReads DEF Busy
<1>3. IsFiniteSet(t.seen.events)
  BY <1>1, <1>2, NowReads DEF RInv, FiniteHistories
<1>4. /\ tx' = [tx EXCEPT ![r] = t] /\ clock' \in Nat
      /\ UNCHANGED <<run, slips, events, settings, approvers, canApprove>>
  BY <1>1 DEF Load, TypeOK, rows, config
<1> HIDE DEF t
<1> QED
  BY <1>2, <1>3, <1>4, ReadingRInv

LEMMA LookRInv ==
  ASSUME RInv, NEW r \in Requests, Look(r)
  PROVE  RInv'
<1> DEFINE seen == [Now EXCEPT !.run = tx[r].seen.run, !.at = tx[r].seen.at]
           t == [tx[r] EXCEPT !.step = "looked", !.seen = seen]
<1>1. TypeOK /\ tx[r].step = "loaded" /\ tx[r] \in {Idle} \cup Busy
  BY DEF RInv, Look
<1>2. tx[r] \in Busy
  BY <1>1 DEF Idle
<1>3. tx[r].seen \in Reads
  BY <1>2 DEF Busy
<1>4. tx[r].seen.run \in Runs /\ tx[r].seen.at \in Nat
  BY <1>3 DEF Reads
<1>5. seen \in Reads /\ seen.events = events
  BY <1>1, <1>4, NowReads DEF Reads
<1> HIDE DEF seen
<1>6. t \in Busy /\ t.seen = seen
  BY <1>2, <1>5 DEF Busy
<1>7. IsFiniteSet(t.seen.events)
  BY <1>5, <1>6 DEF RInv, FiniteHistories
<1>8. tx' = [tx EXCEPT ![r] = t]
  BY DEF Look, seen
<1>9. clock' \in Nat /\ UNCHANGED <<run, slips, events, settings, approvers, canApprove>>
  BY <1>1 DEF Look, TypeOK, vars
<1> HIDE DEF t
<1> QED
  BY <1>6, <1>7, <1>8, <1>9, ReadingRInv

LEMMA CommitRInv ==
  ASSUME RInv, NEW r \in Requests, Commit(r)
  PROVE  RInv'
<1> DEFINE seen == tx[r].seen
<1>1. TypeOK /\ tx[r].step = "looked" /\ tx[r] \in {Idle} \cup Busy
  BY DEF RInv, Commit
<1>2. tx[r] \in Busy
  BY <1>1 DEF Idle
<1>3. tx[r].user \in Users /\ seen \in Reads /\ IsFiniteSet(seen.events)
  BY <1>1, <1>2 DEF Busy, RInv, FiniteHistories
<1>4. Committed
  BY <1>1, <1>3, WriteCommits DEF Commit
<1>5. tx' = [tx EXCEPT ![r] = Idle] /\ clock' = clock
  BY DEF Commit
<1>6. tx' \in [Requests -> {Idle} \cup Busy]
  BY <1>5 DEF RInv
<1>7. \A q \in Requests : tx'[q].step # "idle" => tx'[q] = tx[q] /\ tx[q].step # "idle"
  BY <1>5 DEF RInv, Idle
<1>8. events' \in SUBSET EventType /\ IsFiniteSet(events')
  <2>1. events \in SUBSET EventType /\ IsFiniteSet(events)
    BY <1>1 DEF RInv, FiniteHistories, TypeOK, EventType
  <2>2. ASSUME NEW e \in EventType, events' = events \cup {e}
        PROVE  events' \in SUBSET EventType /\ IsFiniteSet(events')
    <3>1. IsFiniteSet(events \cup {e})
      BY <2>1, FS_AddElement
    <3> QED
      BY <2>1, <2>2, <3>1
  <2>3. \/ events' = {} \/ events' = events
        \/ \E e \in EventType : events' = events \cup {e}
    BY <1>4 DEF Committed
  <2> QED
    BY <2>1, <2>2, <2>3, FS_EmptySet
<1>9. TypeOK'
  BY <1>1, <1>4, <1>5, <1>8 DEF Committed, TypeOK, config, EventType
<1>10. FiniteHistories'
  BY <1>7, <1>8 DEF FiniteHistories, RInv
<1>11. NothingWithoutRun'
  BY <1>4 DEF Committed, NothingWithoutRun
<1> QED
  BY <1>6, <1>9, <1>10, <1>11 DEF RInv

LEMMA NextRInv == RInv /\ [RNext]_rvars => RInv'
<1> SUFFICES ASSUME RInv, [RNext]_rvars PROVE RInv'
  OBVIOUS
<1>1. ASSUME NEW r \in Requests, Refuse(r)
      PROVE  RInv'
  <2>1. clock' \in Nat /\ UNCHANGED <<run, slips, events, settings, approvers, canApprove>>
    BY <1>1 DEF Refuse, vars, RInv, TypeOK
  <2> QED
    BY <1>1, <2>1, ReadingRInv DEF Refuse
<1>2. CASE UNCHANGED rvars
  BY <1>2 DEF rvars, vars, RInv, TypeOK, FiniteHistories, NothingWithoutRun
<1> QED
  BY <1>1, <1>2, LoadRInv, LookRInv, CommitRInv DEF RNext

\* A deleted run leaves neither payslips nor history, however requests
\* that still work on it overlap with the deletion.
THEOREM DeletedLeavesNothing == RSpec => []NothingWithoutRun
<1>1. RInv => NothingWithoutRun
  BY DEF RInv
<1> QED
  BY <1>1, InitRInv, NextRInv, PTL DEF RSpec
=============================================================================
