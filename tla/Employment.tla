------------------------------ MODULE Employment ------------------------------
(***************************************************************************)
(* The dated status history of employees (employee-history.service.ts),    *)
(* the status column copied from it, and the access that follows from it   *)
(* (auth/account-security.ts): every request of a signed-in employee asks  *)
(* whether the employee has left, and each API process remembers the       *)
(* answer for a minute.                                                    *)
(*                                                                         *)
(* An edit is three transactions and a call: the history is changed, the   *)
(* latest entry read, the status written, the cache of this process        *)
(* cleared. Requests and edits interleave; processes restart.              *)
(***************************************************************************)
EXTENDS Integers, FiniteSets, Functions

CONSTANTS Employees,
          Servers,    \* API processes
          Requests,   \* edits that may be in progress together
          Dates,      \* on which entries may take effect
          CacheTime,  \* ACCESS_CACHE_MS
          Patience,   \* the longest a look-up takes
          MaxClock

ASSUME EmploymentAssumption ==
  Dates \subseteq Nat /\ {CacheTime, Patience, MaxClock} \subseteq Nat /\ CacheTime > 0

VARIABLES clock,
          history,  \* history[e][d]: the status from d on, or "NONE"
          status,   \* employees.status
          edit,     \* edit[r]: the edit in progress
          cache,    \* cache[p][e]: what process p remembers
          lookups,  \* requests that have read the history and not yet stored the answer
          endedAt,  \* ghost: since when e has no access
          astray    \* ghost: employees whose status was not copied from the latest entry
empVars == <<clock, history, status, edit, cache, lookups, endedAt, astray>>

Statuses == {"ACTIVE", "ALUMNI"}
NoEntry == [ended |-> FALSE, at |-> -1]
Idle == [emp |-> "none", server |-> "none", step |-> "idle", status |-> "NONE", sound |-> TRUE]

Entries(e) == {d \in Dates : history[e][d] # "NONE"}
LastOf(ds) == CHOOSE d \in ds : \A c \in ds : c <= d
Latest(e) == IF Entries(e) = {} THEN "NONE" ELSE history[e][LastOf(Entries(e))]

\* employeeAccessEnded: the latest entry that has taken effect; the column
\* speaks only for employees without any entry.
AccessEnded(e) ==
  LET past == {d \in Entries(e) : d <= clock}
  IN IF past # {} THEN history[e][LastOf(past)] = "ALUMNI"
     ELSE Entries(e) = {} /\ status[e] = "ALUMNI"

Editing(e) == \E r \in Requests : edit[r].emp = e
Watch ==
  endedAt' = [e \in Employees |->
                IF ~AccessEnded(e)' THEN 0 ELSE IF AccessEnded(e) THEN endedAt[e] ELSE clock']

-----------------------------------------------------------------------------
(* The history *)

\* The first transaction of an edit. What it will write is sound if that is
\* the latest entry and no other edit of this employee comes in between.
Begin(r, p, e, rows, step, s, sound) ==
  LET alone == ~Editing(e)
  IN /\ edit[r] = Idle
     /\ history' = [history EXCEPT ![e] = rows]
     /\ edit' = [q \in Requests |->
          IF q = r THEN [emp |-> e, server |-> p, step |-> step, status |-> s, sound |-> sound /\ alone]
          ELSE IF edit[q].emp = e THEN [edit[q] EXCEPT !.sound = FALSE] ELSE edit[q]]
     /\ astray' = IF sound /\ alone THEN astray ELSE astray \cup {e}
     /\ UNCHANGED <<clock, status, cache, lookups>>
     /\ Watch

\* addStatusHistory writes the status it was given, whatever its date.
AddStatus(r, p, e, d, s) ==
  /\ history[e][d] = "NONE"
  /\ Begin(r, p, e, [history[e] EXCEPT ![d] = s], "write", s, \A c \in Entries(e) : c < d)
UpdateStatus(r, p, e, d, to, s) ==
  /\ history[e][d] # "NONE"
  /\ to = d \/ history[e][to] = "NONE"
  /\ Begin(r, p, e, [history[e] EXCEPT ![d] = "NONE", ![to] = s], "derive", "NONE", TRUE)
DeleteStatus(r, p, e, d) ==
  /\ history[e][d] # "NONE"
  /\ Begin(r, p, e, [history[e] EXCEPT ![d] = "NONE"], "derive", "NONE", TRUE)

\* "Re-derived from whichever row is now latest by effectiveDate".
Derive_First(r) ==
  /\ edit[r].step = "derive"
  /\ LET e == edit[r].emp
     IN edit' = [edit EXCEPT ![r].step = "write",
                             ![r].status = IF Entries(e) = {} THEN "NONE"
                                           ELSE history[e][CHOOSE d \in Entries(e) : \A c \in Entries(e) : d <= c]]
  /\ UNCHANGED <<clock, history, status, cache, lookups, endedAt, astray>>
Derive(r) ==
  /\ edit[r].step = "derive"
  /\ edit' = [edit EXCEPT ![r].step = "write", ![r].status = Latest(edit[r].emp)]
  /\ UNCHANGED <<clock, history, status, cache, lookups, endedAt, astray>>

\* employees.update, if there is anything to write; then forgetAccessCache.
WriteStatus(r) ==
  /\ edit[r].step = "write"
  /\ LET e == edit[r].emp
     IN /\ status' = [status EXCEPT ![e] = IF edit[r].status = "NONE" THEN @ ELSE edit[r].status]
        /\ cache' = [cache EXCEPT ![edit[r].server][e] = NoEntry]
        /\ astray' = IF edit[r].sound THEN astray \ {e} ELSE astray
  /\ edit' = [edit EXCEPT ![r] = Idle]
  /\ UNCHANGED <<clock, history, lookups>>
  /\ Watch

\* The profile form writes the column alone.
UpdateEmployee(e, s) ==
  /\ s # status[e]
  /\ status' = [status EXCEPT ![e] = s]
  /\ astray' = astray \cup {e}
  /\ UNCHANGED <<clock, history, edit, cache, lookups>>
  /\ Watch

-----------------------------------------------------------------------------
(* Access *)

\* employeeAccessEndedCached: an answer younger than CacheTime stands.
Fresh_Inclusive(p, e) == cache[p][e] # NoEntry /\ clock - cache[p][e].at <= CacheTime
Fresh(p, e) == cache[p][e] # NoEntry /\ clock - cache[p][e].at < CacheTime

LookUp(p, e) ==
  /\ ~Fresh(p, e)
  /\ lookups' = lookups \cup {[server |-> p, emp |-> e, ended |-> AccessEnded(e), began |-> clock]}
  /\ UNCHANGED <<clock, history, status, edit, cache, endedAt, astray>>
Remember(l) ==
  /\ lookups' = lookups \ {l}
  /\ cache' = [cache EXCEPT ![l.server][l.emp] = [ended |-> l.ended, at |-> clock]]
  /\ UNCHANGED <<clock, history, status, edit, endedAt, astray>>

\* Signing in forgets the answer and asks the history itself.
Login(p, e) ==
  /\ cache[p][e] # NoEntry
  /\ cache' = [cache EXCEPT ![p][e] = NoEntry]
  /\ UNCHANGED <<clock, history, status, edit, lookups, endedAt, astray>>

\* A process restarts: what it remembered, looked up and had begun is gone.
Restart(p) ==
  /\ cache' = [cache EXCEPT ![p] = [e \in Employees |-> NoEntry]]
  /\ lookups' = {l \in lookups : l.server # p}
  /\ edit' = [r \in Requests |-> IF edit[r].server = p THEN Idle ELSE edit[r]]
  /\ astray' = astray \cup {edit[r].emp : r \in {q \in Requests : edit[q].server = p}}
  /\ UNCHANGED <<clock, history, status, endedAt>>

Tick ==
  /\ clock < MaxClock
  /\ \A l \in lookups : clock < l.began + Patience
  /\ clock' = clock + 1
  /\ UNCHANGED <<history, status, edit, cache, lookups, astray>>
  /\ Watch

-----------------------------------------------------------------------------
EmpInit ==
  /\ clock = 0
  /\ history = [e \in Employees |-> [d \in Dates |-> "NONE"]]
  /\ status = [e \in Employees |-> "ACTIVE"]
  /\ edit = [r \in Requests |-> Idle]
  /\ cache = [p \in Servers |-> [e \in Employees |-> NoEntry]]
  /\ lookups = {}
  /\ endedAt = [e \in Employees |-> 0]
  /\ astray = {}

Edit(r, p, e) ==
  \/ \E d \in Dates, s \in Statuses : AddStatus(r, p, e, d, s)
  \/ \E d, to \in Dates, s \in Statuses : UpdateStatus(r, p, e, d, to, s)
  \/ \E d \in Dates : DeleteStatus(r, p, e, d)
EditHistory ==
  \/ \E r \in Requests, p \in Servers, e \in Employees : Edit(r, p, e)
  \/ \E r \in Requests : Derive(r) \/ WriteStatus(r)
  \/ \E e \in Employees, s \in Statuses : UpdateEmployee(e, s)
Visit ==
  \/ \E p \in Servers, e \in Employees : LookUp(p, e) \/ Login(p, e)
  \/ \E l \in lookups : Remember(l)

EmpNext == EditHistory \/ Visit \/ Tick \/ \E p \in Servers : Restart(p)
EmpSpec == EmpInit /\ [][EmpNext]_empVars
-----------------------------------------------------------------------------
EmploymentTyped ==
  /\ clock \in 0 .. MaxClock
  /\ \A e \in Employees : /\ \A d \in Dates : history[e][d] \in Statuses \cup {"NONE"}
                          /\ status[e] \in Statuses
                          /\ endedAt[e] \in 0 .. clock
  /\ \A r \in Requests : edit[r].step \in {"idle", "derive", "write"} /\ edit[r].status \in Statuses \cup {"NONE"}
  /\ \A p \in Servers, e \in Employees : cache[p][e] = NoEntry \/ cache[p][e].at \in 0 .. clock
  /\ \A l \in lookups : l.began \in 0 .. clock

\* "An employee marked as left is locked out of an existing session within a
\* minute": a process that would still serve an employee without access does so
\* for less than a minute, and the time one look-up takes, after the access
\* ended, on whatever process, by an edit or by a date that has come.
LockedOut ==
  \A p \in Servers, e \in Employees :
    AccessEnded(e) /\ Fresh(p, e) /\ ~cache[p][e].ended => clock < endedAt[e] + CacheTime + Patience

\* "Always reflects the latest history entry": with no edit in progress the
\* column has the status of the latest entry, unless it was last written by the
\* profile form, by an entry older than the latest, by edits that overlapped or
\* by one that was cut off.
StatusFollowsHistory ==
  \A e \in Employees :
    e \notin astray /\ ~Editing(e) /\ Entries(e) # {} => status[e] = Latest(e)
=============================================================================
