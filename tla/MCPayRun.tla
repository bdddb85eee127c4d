------------------------------ MODULE MCPayRun ------------------------------
(***************************************************************************)
(* Small instances of the payroll modules, one scene at a time:            *)
(*   alone        the workflow of a run, one transaction at a time         *)
(*   overlapping  any two of its operations in progress together           *)
(*                (PayRunRaces, on tables of its own)                      *)
(*   adjustments  three runs that apply and put back two adjustments       *)
(* The state a scene does not use keeps an initial value.                  *)
(***************************************************************************)
EXTENDS PayRun, PayrollAdjustments

CONSTANTS ann, bob, cat

MCUsers == {ann, bob, cat}
MCAdmins == {ann}
MCPreparers == {ann, bob}

Plain == [required |-> 1, costLimit |-> FALSE, increaseLimit |-> FALSE,
          override |-> TRUE, preparerRule |-> TRUE]

\* Two approvals always, none from a preparer.
Two == [Plain EXCEPT !.required = 2, !.override = FALSE]

\* A second approval for a costly run, and preparers may approve.
Cost == [Plain EXCEPT !.costLimit = TRUE, !.preparerRule = FALSE]

Nobody == [u \in MCUsers |-> NotListed]
Either == [Nobody EXCEPT ![cat] = "ANY", ![bob] = "ANY"]

MCGrantable == {cat}
MCSettings == {Two, Cost}
MCApprovers == {Either}

CONSTANTS r1, r2    \* requests in progress together

VARIABLES scene, oRun, oSlips, oEvents, oSettings, oApprovers, oCanApprove, oClock, oTx
oVars == <<oRun, oSlips, oEvents, oSettings, oApprovers, oCanApprove, oClock, oTx>>

\* Ann prepares; Bob, who may prepare as well, gives the one approval asked for.
Pair == {ann, bob}

Races ==
  INSTANCE PayRunRaces WITH
    Users <- Pair, Periods <- {"jul"}, Sheets <- {"low"}, Negative <- {}, Costly <- {},
    Grantable <- {}, SettingsChoices <- {[Two EXCEPT !.required = 1]},
    ApproverChoices <- {[u \in Pair |-> IF u = ann THEN NotListed ELSE "ANY"]},
    MaxClock <- 5, Requests <- {r1, r2},
    Served <- {"recalculate", "updateRun", "deleteRun", "submit", "approve",
               "sendBack", "withdraw", "reopen", "markPaid"},
    run <- oRun, slips <- oSlips, events <- oEvents, settings <- oSettings,
    approvers <- oApprovers, canApprove <- oCanApprove, clock <- oClock, tx <- oTx

MCInit ==
  /\ scene \in {"alone", "overlapping", "adjustments"}
  /\ Init /\ Races!RInit /\ AdjInit
  /\ scene = "alone" \/ (run = NoRun("jul") /\ settings = Two)
  /\ scene = "overlapping" \/ oRun.preparedBy = ann

MCNext ==
  /\ \/ scene = "alone" /\ Next /\ UNCHANGED <<oVars, adjVars>>
     \/ scene = "overlapping" /\ Races!RNext /\ UNCHANGED <<vars, adjVars>>
     \/ scene = "adjustments" /\ AdjNext /\ UNCHANGED <<vars, oVars>>
  /\ UNCHANGED scene

MCSpec == MCInit /\ [][MCNext]_<<scene, vars, oVars, adjVars>>

\* Whatever two requests were in progress together, a deleted run leaves
\* nothing behind.
NothingWithoutRun == Races!NothingWithoutRun
=============================================================================
