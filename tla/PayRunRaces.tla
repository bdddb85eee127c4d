---------------------------- MODULE PayRunRaces ----------------------------
(***************************************************************************)
(* The operations of PayRun served concurrently. withTenant runs each one  *)
(* in a transaction of the default isolation level (READ COMMITTED) and no *)
(* statement locks the rows it reads, so a request                         *)
(*   Load    begins its transaction (now() is fixed here) and reads the    *)
(*           pay_runs row,                                                 *)
(*   Look    reads the other rows it decides on, committed since or not,   *)
(*   Commit  writes, each UPDATE by id to whatever the row is by then.     *)
(* The writes of a transaction take effect together at its commit: an      *)
(* UPDATE or DELETE of a row another one has written waits for it.         *)
(***************************************************************************)
EXTENDS PayRun

CONSTANTS Requests,      \* requests that can be in progress together
          Served         \* operations they may ask for

VARIABLE tx              \* tx[r]: how far request r is and what it has read

rvars == <<vars, tx>>

Operations == {"recalculate", "updateRun", "deleteRun", "submit", "approve",
               "sendBack", "withdraw", "reopen", "markPaid"}

Idle == [step |-> "idle"]

\* The guards on the row itself, which every operation tests first.
Admits(op, seen) ==
  \/ op \in {"recalculate", "updateRun", "deleteRun", "submit"} /\ IsDraft(seen)
  \/ op \in {"approve", "sendBack", "withdraw"} /\ IsSubmitted(seen)
  \/ op \in {"reopen", "markPaid"} /\ IsApproved(seen)

Load(r, u, op) ==
  /\ tx[r].step = "idle"
  /\ clock < MaxClock
  /\ Admits(op, Now)
  /\ clock' = clock + 1
  /\ tx' = [tx EXCEPT ![r] = [step |-> "loaded", op |-> op, user |-> u, seen |-> Now]]
  /\ UNCHANGED <<rows, config>>

\* The row and the timestamp stay those of Load.
Look(r) ==
  /\ tx[r].step = "loaded"
  /\ tx' = [tx EXCEPT ![r].step = "looked",
                      ![r].seen = [Now EXCEPT !.run = tx[r].seen.run, !.at = tx[r].seen.at]]
  /\ UNCHANGED vars

Write(u, op, seen) ==
  \/ op = "recalculate" /\ \E made \in Calculations(seen, seen.run.period) : Recalculate(u, seen, made)
  \/ op = "updateRun" /\ \E p \in Periods : UpdateRun(u, seen, p)
  \/ op = "deleteRun" /\ DeleteRun(u, seen)
  \/ op = "submit" /\ \E checks, increase \in BOOLEAN : Submit(u, seen, checks, increase)
  \/ op = "approve" /\ Approve(u, seen)
  \/ op = "sendBack" /\ SendBack(u, seen)
  \/ op = "withdraw" /\ Withdraw(u, seen)
  \/ op = "reopen" /\ Reopen(u, seen)
  \/ op = "markPaid" /\ MarkPaid(u, seen)

Commit(r) ==
  /\ tx[r].step = "looked"
  /\ Write(tx[r].user, tx[r].op, tx[r].seen)
  /\ tx' = [tx EXCEPT ![r] = Idle]
  /\ UNCHANGED clock

\* A check refuses the request, or its row is gone: the transaction rolls back.
Refuse(r) ==
  /\ tx[r].step = "looked"
  /\ tx' = [tx EXCEPT ![r] = Idle]
  /\ UNCHANGED vars

\* A run that has just been calculated.
RInit ==
  /\ settings \in SettingsChoices
  /\ approvers \in ApproverChoices
  /\ canApprove = [u \in Users |-> approvers[u] # NotListed]
  /\ clock = 1
  /\ \E p \in Periods, u \in Preparers, s \in Sheets :
       /\ run = [NoRun(p) EXCEPT !.status = "DRAFT", !.preparedBy = u]
       /\ slips = {[calc |-> 1, period |-> p, sheet |-> s]}
       /\ events = {Event([at |-> 1, run |-> NoRun(p)], "CREATED", u)}
  /\ tx = [r \in Requests |-> Idle]

RNext ==
  \E r \in Requests :
    \/ \E u \in Users, op \in Served : Load(r, u, op)
    \/ Look(r)
    \/ Commit(r)
    \/ Refuse(r)

RSpec == RInit /\ [][RNext]_rvars

----------------------------------------------------------------------------
(* What the foreign keys and single transactions save *)

\* A deleted run leaves neither payslips nor history, whatever request was
\* still working on it: otherwise nobody could see the payslips any more,
\* or roll back what they took from the employees' additions and deductions.
NothingWithoutRun == run.status = "NONE" => slips = {} /\ events = {}

----------------------------------------------------------------------------
(* What the documentation says of a run, under concurrent requests *)

\* docs/VERSION-LOG.md v030.A: "PAID: final; the run can't be reopened."
PaidIsFinal == [][run.status = "PAID" => run'.status = "PAID"]_rvars
=============================================================================
