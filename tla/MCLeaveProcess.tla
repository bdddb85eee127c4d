---------------------------- MODULE MCLeaveProcess ----------------------------
(***************************************************************************)
(* The engine, sick leave, leave for events, and requests that are served  *)
(* at once (LeaveRequestsRaces, on tables of its own), one of them at a    *)
(* time: what one writes the others do not read. Months of two days, years *)
(* of two months.                                                          *)
(***************************************************************************)
EXTENDS LeaveProcess, SickLeave, EventLeave

CONSTANTS q1, q2, emp, hr, boss, nobody

VARIABLES scene, oReq, oCovered, oApprovals, oUsage, oReturned, oCredit,
          oClosed, oManager, oOffered, oToday, oTx
oVars == <<oReq, oCovered, oApprovals, oUsage, oReturned, oCredit,
           oClosed, oManager, oOffered, oToday, oTx>>

Accruing(frequency, max, carry, action) ==
  [kind |-> "ACCRUING", frequency |-> frequency, cycle |-> "EMPLOYMENT_ANNIVERSARY",
   perDay |-> 1, prorate |-> TRUE, firstGrantAfterMonths |-> 1, minServiceMonths |-> 0,
   maxBalance |-> max, carryForwardMax |-> carry, excessAction |-> action,
   belowStatutoryOk |-> action = "FORFEIT", payoutOnTermination |-> max = NoLimit]
Allowance(cycle, minService) ==
  [Accruing("UPFRONT", NoLimit, NoLimit, "CARRY_ALL") EXCEPT
     !.kind = "ALLOWANCE", !.cycle = cycle, !.minServiceMonths = minService]

SomePolicies ==
  {Accruing("MONTHLY", NoLimit, NoLimit, "CARRY_ALL"),
   Accruing("MONTHLY", NoLimit, 1, "PAYOUT"),
   Accruing("MONTHLY", NoLimit, 1, "FORFEIT"),
   Accruing("MONTHLY", 3, NoLimit, "CARRY_ALL"),
   Accruing("UPFRONT", 5, NoLimit, "CARRY_ALL"),
   Accruing("UPFRONT", NoLimit, NoLimit, "CARRY_ALL"),
   Allowance("CALENDAR_YEAR", 0), Allowance("CALENDAR_YEAR", 1), Allowance("CALENDAR_MONTH", 1)}

\* The yearly rule with a waiting time and with early months, and the two
\* contract terms of the rule per illness.
PayRule(mode, full, half, years, service, early) ==
  [mode |-> mode, full |-> full, half |-> half, cycle |-> years,
   minService |-> service, early |-> early, divisor |-> 2]
SomeSchemes ==
  {PayRule("YEARLY", 2, 1, 3, 1, 0), PayRule("YEARLY", 2, 0, 5, 0, 3),
   PayRule("SHORT", 1, 1, 5, 0, 0), PayRule("LONG", 2, 1, 5, 0, 0)}
\* Maternity, before or after the birth, once in three years, at half pay for
\* late joiners; and paternity, soon after it, once in two.
EventRule(days, extra, after, years, from, under) ==
  [days |-> days, extra |-> extra, window |-> after, every |-> years, fullPayFrom |-> from, underService |-> under]
SomeRules == {EventRule(2, 1, NoWindow, 3, 2, "HALF"), EventRule(2, 0, 1, 2, 0, "FULL")}
SomeBirths == {<<1, FALSE>>, <<1, TRUE>>, <<2, FALSE>>}
SomeSpans == {<<1, 1>>, <<2, 3>>}

SomeTakeOns == {[cut |-> 2, start |-> 1, pay |-> [FULL |-> 1, HALF |-> 1, UNPAID |-> 0]]}

\* One request of an employee who works in HR, needing two approvals; a manager
\* may leave, none comes.
Overlapping ==
  INSTANCE LeaveRequestsRaces WITH
    Sessions <- {q1, q2}, Requests <- {"r1"}, Owner <- emp, HRs <- {hr, emp}, Managers <- {boss},
    NoManager <- nobody, Types <- {"annual"}, Tracked <- {"annual"}, Retirable <- {},
    Flows <- {<<"SUPERVISOR", "HR">>}, Horizon <- 1, Weekend <- {}, Holidays <- {}, MonthEnds <- {},
    MonthlyAccrual <- 0, AllowNegative <- 0, Opening <- 1, Corrections <- {}, MaxCredit <- 1,
    req <- oReq, covered <- oCovered, approvals <- oApprovals, usage <- oUsage,
    returned <- oReturned, credit <- oCredit, closed <- oClosed, manager <- oManager,
    offered <- oOffered, today <- oToday, tx <- oTx

SessionSymmetry == Permutations({q1, q2})   \* which of them is which is of no account

\* An empty batch at the later cut-overs only.
FewBatches == \A i \in DOMAIN batches : batches[i].figure # 0 \/ batches[i].cut > YearDays

LeaveInit ==
  /\ scene \in {"engine", "illness", "event", "overlapping"}
  /\ Init /\ SickInit /\ EventInit /\ Overlapping!RInit
  /\ scene = "illness" \/ scheme = CHOOSE s \in Schemes : TRUE
  /\ scene = "event" \/ rules = CHOOSE e \in EventRules : TRUE
  /\ scene = "engine" \/ /\ start = CHOOSE d \in Starts : TRUE
                         /\ versions[1].policy = CHOOSE p \in Policies : TRUE
  /\ scene = "overlapping" \/ oManager = nobody
LeaveNext ==
  /\ \/ scene = "engine" /\ Next /\ FewBatches' /\ UNCHANGED <<sickVars, eventVars, oVars>>
     \/ scene = "illness" /\ SickNext /\ UNCHANGED <<vars, eventVars, oVars>>
     \/ scene = "event" /\ EventNext /\ UNCHANGED <<vars, sickVars, oVars>>
     \/ /\ scene = "overlapping" /\ Overlapping!RNext /\ oManager' \in {oManager, nobody}
        /\ UNCHANGED <<vars, sickVars, eventVars>>
  /\ UNCHANGED scene
LeaveSpec == LeaveInit /\ [][LeaveNext]_<<scene, vars, sickVars, eventVars, oVars>>

\* Requests served at once skip no step of the flow: what is approved had every
\* step approved by somebody else (decide records the step it read, and
\* finalize reads the request again).
AllStepsApprovedInRaces == Overlapping!AllStepsApproved

Typed == TypeOK /\ SickTyped /\ EventTyped
===============================================================================
