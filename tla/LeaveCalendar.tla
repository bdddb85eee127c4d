---------------------------- MODULE LeaveCalendar ----------------------------
(***************************************************************************)
(* What leave booking promises one employee, whatever the code behind it:  *)
(* a request is given days of its own, days no other request holds, and    *)
(* costs exactly those days for as long as it holds them; given back, it   *)
(* costs nothing and is never given days again.                            *)
(***************************************************************************)
EXTENDS Naturals, FiniteSets

CONSTANTS Requests,  \* leave requests of the employee
          Days       \* calendar days

VARIABLES booked,    \* booked[r]: the days of leave request r holds
          charged,   \* charged[r]: the units of leave it costs
          ended      \* requests that gave their days back

cvars == <<booked, charged, ended>>

CInit ==
  /\ booked = [r \in Requests |-> {}]
  /\ charged = [r \in Requests |-> 0]
  /\ ended = {}

Book(r, days) ==
  /\ r \notin ended
  /\ booked[r] = {}
  /\ days # {}
  /\ \A o \in Requests : booked[o] \cap days = {}
  /\ booked' = [booked EXCEPT ![r] = days]
  /\ charged' = [charged EXCEPT ![r] = Cardinality(days)]
  /\ UNCHANGED ended

Release(r) ==
  /\ booked[r] # {}
  /\ booked' = [booked EXCEPT ![r] = {}]
  /\ charged' = [charged EXCEPT ![r] = 0]
  /\ ended' = ended \cup {r}

CNext ==
  \E r \in Requests :
    \/ \E days \in SUBSET Days : Book(r, days)
    \/ Release(r)

CSpec == CInit /\ [][CNext]_cvars
=============================================================================
