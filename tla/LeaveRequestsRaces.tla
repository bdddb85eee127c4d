-------------------------- MODULE LeaveRequestsRaces --------------------------
(***************************************************************************)
(* The operations of LeaveRequests served concurrently: each transaction   *)
(* reads the tables, a final approval reads them again in finalize, and    *)
(* then it writes. Nothing it read is locked, and other transactions may   *)
(* commit in between.                                                      *)
(***************************************************************************)
EXTENDS LeaveRequests

CONSTANT Sessions   \* HTTP requests that can be in progress together

VARIABLE tx         \* tx[q]: what q does and what it has read

rvars == <<vars, tx>>

Idle == [op |-> "idle"]

Begin(q, op) ==
  /\ tx[q] = Idle
  /\ tx' = [tx EXCEPT ![q] = [op |-> op, seen |-> Now, late |-> Now]]
  /\ UNCHANGED vars

\* finalize reads what was committed since.
ReadAgain(q) ==
  /\ tx[q] # Idle
  /\ tx[q].late # Now
  /\ tx' = [tx EXCEPT ![q].late = Now]
  /\ UNCHANGED vars

CommitTx(q) ==
  /\ tx[q] # Idle
  /\ \E r \in Requests, u \in People :
       \/ /\ tx[q].op = "create"
          /\ tx[q].late = tx[q].seen
          /\ \E t \in Types, first, last \in Days, flow \in Flows, auto \in BOOLEAN :
               Create(u, r, t, first, last, flow, auto, tx[q].seen, tx[q].seen)
       \/ /\ tx[q].op = "decide"
          /\ tx[q].late.req[r] # Absent
          /\ Approve(u, r, tx[q].seen, tx[q].late)
       \/ tx[q].op = "decide" /\ Decline(u, r, tx[q].seen)
       \/ tx[q].op = "cancel" /\ Cancel(u, r, tx[q].seen)
  /\ tx' = [tx EXCEPT ![q] = Idle]

\* Refused, or rolled back.
Abort(q) ==
  /\ tx[q] # Idle
  /\ tx' = [tx EXCEPT ![q] = Idle]
  /\ UNCHANGED vars

RInit == Init /\ tx = [q \in Sessions |-> Idle]

RNext ==
  \/ \E q \in Sessions :
       \/ \E op \in {"create", "decide", "cancel"} : Begin(q, op)
       \/ ReadAgain(q)
       \/ CommitTx(q)
       \/ Abort(q)
  \/ (NextDay \/ \E boss \in Managers \cup {NoManager} : ChangeManager(boss)) /\ UNCHANGED tx

RSpec == RInit /\ [][RNext]_rvars

=============================================================================
