---------------------------- MODULE MCLeaveRequests ----------------------------
(***************************************************************************)
(* Leave requests, one scene at a time:                                    *)
(*   steps        every approval flow, changing managers, a type that is   *)
(*                retired; two days                                        *)
(*   booking      holidays declared and taken back and month ends over     *)
(*                four days, from an overdrawn balance                     *)
(* A scene narrows the inputs to those whose combination matters.          *)
(***************************************************************************)
EXTENDS LeaveRequests

VARIABLE scene

ThreeOverdrawn == -3
HRStep == <<"HR">>
AnyFlow == {<<>>, <<"SUPERVISOR">>, HRStep, <<"SUPERVISOR", "HR">>}

SInit ==
  /\ scene \in {"steps", "booking"}
  /\ Init
  /\ scene = "steps" \/ manager = NoManager

\* Decisions on request r and its cancellation, by anybody.
Decide(r) ==
  \E u \in People : Approve(u, r, Now, Now) \/ Decline(u, r, Now) \/ Cancel(u, r, Now)

Steps ==
  \/ \E r \in Requests :
       \/ \E u \in People, t \in Retirable, first, last \in 1..2, flow \in Flows \ {HRStep}, auto \in BOOLEAN :
            Create(u, r, t, first, last, flow, auto, Now, Now)
       \/ Decide(r)
  \/ \E boss \in Managers \cup {NoManager} : ChangeManager(boss)
  \/ \E t \in Retirable : RetireType(t)
  \/ today < 2 /\ NextDay

Booking ==
  \/ \E r \in Requests :
       \/ \E u \in People, t \in Tracked, first, last \in Days, auto \in BOOLEAN :
            Create(u, r, t, first, last, HRStep, auto, Now, Now)
       \/ Decide(r)
  \/ \E t \in Tracked, n \in Corrections : Adjust(t, n, Now)
  \/ \E d \in Holidays : AddHoliday(d) \/ RemoveHoliday(d)
  \/ NextDay

SNext ==
  /\ (scene = "steps" /\ Steps) \/ (scene = "booking" /\ Booking)
  /\ UNCHANGED scene

SSpec == SInit /\ [][SNext]_<<scene, vars>>
=============================================================================
