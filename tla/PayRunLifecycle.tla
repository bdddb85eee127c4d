--------------------------- MODULE PayRunLifecycle ---------------------------
(***************************************************************************)
(* What a pay run promises, whatever the code behind it: the diagram above *)
(* PayRunWorkflowService (DRAFT -> SUBMITTED -> APPROVED -> PAID, back to  *)
(* DRAFT by send back, withdraw or reopen) together with the words of      *)
(* docs/VERSION-LOG.md v030.A: a run changes only as a draft, every        *)
(* approval of a submission comes from a different person, a run is        *)
(* approved by exactly as many people as the submission asked for, and a   *)
(* paid run is final.                                                      *)
(***************************************************************************)
EXTENDS Naturals, FiniteSets

CONSTANTS Users,     \* logins of the tenant
          Figures    \* what a run can say: its dates and its payslips

VARIABLES stage,     \* where the run is
          figures,   \* what it says
          needed,    \* approvals the current submission asks for
          given      \* the people who approved the current submission

lvars == <<stage, figures, needed, given>>

LTypeOK ==
  /\ stage \in {"NONE", "DRAFT", "SUBMITTED", "APPROVED", "PAID"}
  /\ figures \in Figures
  /\ needed \in 0..2
  /\ given \in SUBSET Users

\* Runs made before approvals existed are APPROVED or PAID with no history.
LInit ==
  /\ stage \in {"NONE", "APPROVED", "PAID"}
  /\ figures \in Figures
  /\ needed = 0
  /\ given = {}

Prepare ==                \* calculate, recalculate or edit the dates
  /\ stage \in {"NONE", "DRAFT"}
  /\ stage' = "DRAFT"
  /\ figures' \in Figures
  /\ UNCHANGED <<needed, given>>

Discard ==
  /\ stage = "DRAFT"
  /\ stage' = "NONE"
  /\ figures' \in Figures
  /\ UNCHANGED <<needed, given>>

LSubmit(n) ==
  /\ stage = "DRAFT"
  /\ stage' = "SUBMITTED"
  /\ needed' = n
  /\ UNCHANGED <<figures, given>>

LApprove(u) ==
  /\ stage = "SUBMITTED"
  /\ u \notin given
  /\ given' = given \cup {u}
  /\ stage' = IF Cardinality(given') = needed THEN "APPROVED" ELSE "SUBMITTED"
  /\ UNCHANGED <<figures, needed>>

BackToDraft ==
  /\ stage \in {"SUBMITTED", "APPROVED"}
  /\ stage' = "DRAFT"
  /\ needed' = 0
  /\ given' = {}
  /\ UNCHANGED figures

Pay ==
  /\ stage = "APPROVED"
  /\ stage' = "PAID"
  /\ UNCHANGED <<figures, needed, given>>

LNext ==
  \/ Prepare
  \/ Discard
  \/ \E n \in 1..2 : LSubmit(n)
  \/ \E u \in Users : LApprove(u)
  \/ BackToDraft
  \/ Pay

LSpec == LInit /\ [][LNext]_lvars
=============================================================================
