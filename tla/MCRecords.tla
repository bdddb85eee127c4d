------------------------------- MODULE MCRecords -------------------------------
(***************************************************************************)
(* The records of people and what follows from them, one scene at a time:  *)
(*   history    two edits of one employee's status at once                 *)
(*   access     one edit, two processes that remember and restart          *)
(*   account    password resets and the limiter, one process restarting    *)
(*   gratuity   contracts, pay and status around two settlements           *)
(*   calendar   six years walked day by day                                *)
(* Each scene leaves the other modules' state alone, and narrows the inputs *)
(* of its own to those whose combination matters.                          *)
(***************************************************************************)
EXTENDS Account, Gratuity, CalendarDates

CONSTANTS ann, s1, r1

ASSUME SceneAssumption ==
  /\ ann \in Employees /\ s1 \in Servers /\ r1 \in Requests
  /\ {1, 2, 3} \subseteq Dates /\ 2 \in Pays

VARIABLE scene
vars == <<scene, empVars, accVars, graVars, dateVars>>

\* The dates on the contract form, one pair of them the wrong way round.
Terms == ({1} \X Dates) \cup {<<2, 1>>, <<2, 3>>}

Init ==
  /\ scene \in {"history", "access", "account", "gratuity", "calendar"}
  /\ EmpInit /\ AccInit /\ GraInit /\ DatesInit
  /\ scene = "calendar" \/ serviceStart = CHOOSE d \in Starts : TRUE

History ==
  /\ \/ \E r \in Requests : Edit(r, s1, ann) \/ Derive(r) \/ WriteStatus(r)
     \/ \E s \in Statuses : UpdateEmployee(ann, s)
  /\ UNCHANGED <<accVars, graVars, dateVars>>

Access ==
  /\ \/ \E p \in Servers : \/ \E s \in Statuses : AddStatus(r1, p, ann, 2, s)
                           \/ DeleteStatus(r1, p, ann, 2)
                           \/ Restart(p)
     \/ Derive(r1) \/ WriteStatus(r1)
     \/ Visit
     \/ Tick
  /\ UNCHANGED <<accVars, graVars, dateVars>>

Accounts ==
  /\ \/ /\ \/ ForgotPassword(s1, ann) \/ ResetPassword(ann)
           \/ \E k \in Slots : Find(k, s1, ann)
           \/ \E r \in resets : SetPassword(r)
        /\ UNCHANGED empVars
     \/ (Tick \/ UpdateEmployee(ann, "ALUMNI")) /\ UNCHANGED accVars
     \/ Restart(s1) /\ Forget(s1)
  /\ UNCHANGED <<graVars, dateVars>>

Gratuities ==
  /\ \/ /\ \/ \E c \in Contracts, t \in Terms, r \in Rates \cup {0} :
                AddContract(c, ann, t[1], t[2], r) \/ UpdateContract(c, t[1], t[2], r)
           \/ \E c \in Contracts : RemoveContract(c)
           \/ \E b \in (Pays \ {2}) \cup {0} : SetPay(ann, 1, 1, b)
           \/ SetPay(ann, 1, 3, 2)
           \/ \E j \in Jobs : (\E asOf \in Dates : SettleBegin(j, asOf)) \/ SettleEnd(j) \/ SettleAbort(j)
        /\ UNCHANGED empVars
     \/ /\ \/ AddStatus(r1, s1, ann, 2, "ALUMNI")
           \/ \E s \in Statuses : AddStatus(r1, s1, ann, 3, s)
           \/ WriteStatus(r1)
        /\ Follow
  /\ UNCHANGED <<accVars, dateVars>>

Next ==
  /\ \/ scene = "history" /\ History
     \/ scene = "access" /\ Access
     \/ scene = "account" /\ Accounts
     \/ scene = "gratuity" /\ Gratuities
     \/ scene = "calendar" /\ Walk /\ UNCHANGED <<empVars, accVars, graVars>>
  /\ UNCHANGED scene
Spec == Init /\ [][Next]_vars

TypeOK == EmploymentTyped /\ AccountTyped /\ GratuityTyped
=============================================================================
