------------------------------- MODULE Gratuity -------------------------------
(***************************************************************************)
(* Fixed-term contracts and the gratuity they earn (contracts.service.ts,  *)
(* gratuity.ts): paid once when the contract ends or the employee leaves,  *)
(* at the basic pay of the last day served, by whichever pay run or        *)
(* liability report first notices.                                         *)
(*                                                                         *)
(* A settlement reads the contracts and what was settled before, and later *)
(* the histories of each employee; requests that change them may commit in *)
(* between, and so may another settlement. Dates are days, and a month of  *)
(* service is one day long: whole months and parts of months add up.       *)
(***************************************************************************)
EXTENDS Employment, Sequences

CONSTANTS Contracts,
          Jobs,       \* settlements that may be in progress together
          Rates,      \* gratuity rates the form may give
          Pays,       \* monthly basic pays
          Statutory,  \* STATUTORY_GRATUITY
          MinTerm     \* the 12 months of a contract that earns gratuity

ASSUME GratuityAssumption ==
  /\ Rates \cup Pays \cup {Statutory, MinTerm} \subseteq Nat /\ Dates \subseteq Nat \ {0}
  /\ IsFiniteSet(Jobs)

VARIABLES contract,
          pay,        \* pay[e][d]: the basic pay from d on, 0 where there is no entry
          job,        \* job[j]: asOf, and the contracts read with their rows
          settled,    \* gratuity_settlements
          additions,  \* the payroll additions inserted for each contract, in order
          overlapped, \* ghost: contracts that two settlements had both read as unsettled
          revised     \* ghost: contracts whose record changed after a settlement had read it
graVars == <<contract, pay, job, settled, additions, overlapped, revised>>

NoContract == [emp |-> "none", start |-> 0, end |-> 0, rate |-> 0]
NoJob == [asOf |-> 0, rows |-> [c \in Contracts |-> NoContract]]
Nothing == [free |-> 0, taxable |-> 0]
Smaller(x, y) == IF x <= y THEN x ELSE y

-----------------------------------------------------------------------------
MonthsServed(from, to) == IF to < from THEN 0 ELSE to - from + 1
EarnsGratuity(k) == MonthsServed(k.start, k.end) >= MinTerm /\ k.rate > 0

\* The entry in force, and before the first entry the last of all.
MonthlyBasic(e, d) ==
  LET rows == {x \in Dates : pay[e][x] # 0}
      past == {x \in rows : x <= d}
  IN IF past # {} THEN pay[e][LastOf(past)] ELSE IF rows # {} THEN pay[e][LastOf(rows)] ELSE 0

\* leftOn looks at the last entry of all, past or future.
LastDays(e) == IF Latest(e) = "ALUMNI" THEN {LastOf(Entries(e)) - 1} ELSE {}
Due(k, asOf) == k.end <= asOf \/ \E d \in LastDays(k.emp) : d < asOf
ServedTo(k, asOf) ==
  LET days == {asOf, k.end} \cup LastDays(k.emp) IN CHOOSE d \in days : \A x \in days : d <= x
GratuityFor_BasicNow(k, asOf) ==
  LET base == MonthlyBasic(k.emp, asOf) * MonthsServed(k.start, ServedTo(k, asOf))
      free == Smaller(k.rate, Statutory) * base
  IN [free |-> free, taxable |-> k.rate * base - free]
GratuityFor(k, asOf) ==
  LET to == ServedTo(k, asOf)
      base == MonthlyBasic(k.emp, to) * MonthsServed(k.start, to)
      free == Smaller(k.rate, Statutory) * base
  IN [free |-> free, taxable |-> k.rate * base - free]

Reading(c) == \E j \in Jobs : job[j].rows[c] # NoContract
Held(c) == settled[c] # Nothing \/ Reading(c)
HeldOf(e) == {c \in Contracts : contract[c].emp = e /\ Held(c)}

-----------------------------------------------------------------------------
(* Contracts and pay *)

\* validate: a long contract has the statutory rate at least, and by default.
Allowed_AnyOrder(start, end, rate) ==
  {r \in {IF rate = 0 /\ MonthsServed(start, end) >= MinTerm THEN Statutory ELSE rate} :
     MonthsServed(start, end) >= MinTerm => r >= Statutory}
Allowed(start, end, rate) ==
  {r \in {IF rate = 0 /\ MonthsServed(start, end) >= MinTerm THEN Statutory ELSE rate} :
     start <= end /\ (MonthsServed(start, end) >= MinTerm => r >= Statutory)}

AddContract(c, e, start, end, rate) ==
  /\ contract[c] = NoContract /\ ~Held(c)
  /\ \E r \in Allowed(start, end, rate) :
       contract' = [contract EXCEPT ![c] = [emp |-> e, start |-> start, end |-> end, rate |-> r]]
  /\ UNCHANGED <<pay, job, settled, additions, overlapped, revised>>

UpdateContract(c, start, end, rate) ==
  /\ contract[c] # NoContract /\ settled[c] = Nothing
  /\ \E r \in Allowed(start, end, rate) :
       contract' = [contract EXCEPT ![c] = [@ EXCEPT !.start = start, !.end = end, !.rate = r]]
  /\ revised' = IF Reading(c) THEN revised \cup {c} ELSE revised
  /\ UNCHANGED <<pay, job, settled, additions, overlapped>>

RemoveContract(c) ==
  /\ contract[c] # NoContract /\ settled[c] = Nothing
  /\ contract' = [contract EXCEPT ![c] = NoContract]
  /\ revised' = IF Reading(c) THEN revised \cup {c} ELSE revised
  /\ UNCHANGED <<pay, job, settled, additions, overlapped>>

\* An entry of the compensation history is added, changed, moved or deleted.
SetPay(e, d, to, b) ==
  /\ pay' = [pay EXCEPT ![e][d] = 0, ![e][to] = b]
  /\ revised' = revised \cup HeldOf(e)
  /\ UNCHANGED <<contract, job, settled, additions, overlapped>>

\* The status history is edited.
Follow ==
  /\ revised' = revised \cup UNION {HeldOf(e) : e \in {x \in Employees : history[x] # history'[x]}}
  /\ UNCHANGED <<contract, pay, job, settled, additions, overlapped>>

-----------------------------------------------------------------------------
(* settleDueGratuities *)

SettleBegin_All(j, asOf) ==
  /\ job[j] = NoJob
  /\ LET due == {c \in Contracts : EarnsGratuity(contract[c])}
     IN /\ job' = [job EXCEPT ![j] = [asOf |-> asOf,
              rows |-> [c \in Contracts |-> IF c \in due THEN contract[c] ELSE NoContract]]]
        /\ overlapped' = overlapped \cup {c \in due : Reading(c)}
  /\ UNCHANGED <<contract, pay, settled, additions, revised>>
SettleBegin(j, asOf) ==
  /\ job[j] = NoJob
  /\ LET due == {c \in Contracts : settled[c] = Nothing /\ EarnsGratuity(contract[c])}
     IN /\ due # {}
        /\ job' = [job EXCEPT ![j] = [asOf |-> asOf,
              rows |-> [c \in Contracts |-> IF c \in due THEN contract[c] ELSE NoContract]]]
        /\ overlapped' = overlapped \cup {c \in due : Reading(c)}
  /\ UNCHANGED <<contract, pay, settled, additions, revised>>

\* The additions are inserted whatever happened since; the settlement is not
\* where there is one already (onConflictDoNothing).
SettleEnd(j) ==
  LET k(c) == job[j].rows[c]
      figure(c) == IF k(c) # NoContract /\ Due(k(c), job[j].asOf) THEN GratuityFor(k(c), job[j].asOf) ELSE Nothing
  IN /\ job[j] # NoJob
     /\ additions' = [c \in Contracts |->
          IF figure(c) = Nothing THEN additions[c] ELSE Append(additions[c], figure(c))]
     /\ settled' = [c \in Contracts |-> IF settled[c] = Nothing THEN figure(c) ELSE settled[c]]
     /\ job' = [job EXCEPT ![j] = NoJob]
     /\ UNCHANGED <<contract, pay, overlapped, revised>>

\* The transaction fails, or its process dies: nothing of it stays.
SettleAbort(j) ==
  /\ job[j] # NoJob
  /\ job' = [job EXCEPT ![j] = NoJob]
  /\ UNCHANGED <<contract, pay, settled, additions, overlapped, revised>>
-----------------------------------------------------------------------------
GraInit ==
  /\ contract = [c \in Contracts |-> NoContract]
  /\ pay = [e \in Employees |-> [d \in Dates |-> 0]]
  /\ job = [j \in Jobs |-> NoJob]
  /\ settled = [c \in Contracts |-> Nothing]
  /\ additions = [c \in Contracts |-> <<>>]
  /\ overlapped = {}
  /\ revised = {}

GraNext ==
  \/ \E c \in Contracts, start, end \in Dates, r \in Rates \cup {0} :
       \/ \E e \in Employees : AddContract(c, e, start, end, r)
       \/ UpdateContract(c, start, end, r)
  \/ \E c \in Contracts : RemoveContract(c)
  \/ \E e \in Employees, d, to \in Dates, b \in Pays \cup {0} : SetPay(e, d, to, b)
  \/ \E j \in Jobs : (\E asOf \in Dates : SettleBegin(j, asOf)) \/ SettleEnd(j) \/ SettleAbort(j)

GraStep ==
  \/ GraNext /\ UNCHANGED empVars
  \/ EmpNext /\ Follow
GraSpec == EmpInit /\ GraInit /\ [][GraStep]_<<empVars, graVars>>
-----------------------------------------------------------------------------
GratuityTyped ==
  /\ \A c \in Contracts : contract[c] = NoContract \/ contract[c].start <= contract[c].end
  /\ \A e \in Employees, d \in Dates : pay[e][d] \in Pays \cup {0}
  /\ \A j \in Jobs : job[j].asOf \in Dates \cup {0}
  /\ \A c \in Contracts : Len(additions[c]) <= Cardinality(Jobs)

\* "Pays out every gratuity that has fallen due and hasn't been paid yet ...
\* Idempotent", "a paid gratuity, one per contract": what payroll was given for
\* a contract is its one settlement, however often and by whichever run or
\* report settlements are made, fail or are repeated; unless two of them had
\* both read the contract as unsettled.
GratuityPaidOnce ==
  \A c \in Contracts \ overlapped :
    additions[c] = IF settled[c] = Nothing THEN <<>> ELSE <<settled[c]>>

\* "... of their LAST-DRAWN BASIC PAY for every month served" (gratuity.ts:5),
\* whenever and by which period's run it is settled: the basic pay of the last day
\* worked, for every day of the contract on which the employee was employed by the
\* entry then in force. Two things excuse a difference: the record was changed
\* after the settlement had read it, or the employee left and the history goes on,
\* as leftOn looks at the last entry only (a break in service is paid as served).
Employed(e, d) ==
  LET past == {x \in Entries(e) : x <= d} IN past = {} \/ history[e][LastOf(past)] # "ALUMNI"
Worked(k) == {d \in k.start .. k.end : Employed(k.emp, d)}
CameBack(k) == \E d \in (k.start .. k.end) \ Worked(k) : \E x \in Entries(k.emp) : d < x
Owed(k) == k.rate * MonthlyBasic(k.emp, LastOf(Worked(k))) * Cardinality(Worked(k))
GratuityAsDue ==
  \A c \in Contracts \ revised :
    settled[c] # Nothing =>
      /\ contract[c] # NoContract
      /\ CameBack(contract[c]) \/
           /\ Worked(contract[c]) # {}
           /\ settled[c].free + settled[c].taxable = Owed(contract[c])
           /\ settled[c].free <= Statutory * MonthlyBasic(contract[c].emp, LastOf(Worked(contract[c])))
                                           * Cardinality(Worked(contract[c]))
=============================================================================
