---------------------------- MODULE Records_proofs ----------------------------
(***************************************************************************)
(* The records of people, for any employees, processes, dates and times:   *)
(*   StatusIsDerived      the status column follows the history            *)
(*   LeaversAreLockedOut  within CacheTime and one look-up                 *)
(*   WorksOnce            a reset link                                     *)
(*   NoMoreThanLimit      attempts pass in any window                      *)
(*   PaidOnce             a contract's gratuity                            *)
(*   SettledAsDue         at what the contract earned                      *)
(*   CyclesMissNoDay      of an employment anniversary                     *)
(*   RecordsAreTyped      all of them, and what bounds the additions       *)
(* One invariant each; those of the gratuity's figure rest on the status   *)
(* column's.                                                               *)
(***************************************************************************)
EXTENDS MCRecords, Sums_proofs

-----------------------------------------------------------------------------
(***************************************************************************)
(* Employment: the status column. The strengthening follows an edit from   *)
(* transaction to transaction: one that nothing has overtaken is alone     *)
(* with its employee and about to write the latest entry, and an employee  *)
(* whose edit was overtaken is astray.                                     *)
(***************************************************************************)

Histories == [Employees -> [Dates -> Statuses \cup {"NONE"}]]
InProgress(r) == edit[r].step # "idle"
HistoryTypes ==
  /\ history \in Histories
  /\ \A e \in Employees : IsFiniteSet(Entries(e))
  /\ status \in [Employees -> Statuses]
  /\ edit = [r \in Requests |-> edit[r]]
  /\ \A r \in Requests : InProgress(r) => edit[r].emp \in Employees /\ edit[r].status \in Statuses \cup {"NONE"}
SoundAlone ==
  \A r, q \in Requests :
    InProgress(r) /\ InProgress(q) /\ edit[r].sound /\ edit[r].emp = edit[q].emp => r = q
SoundIsLatest ==
  \A r \in Requests : edit[r].step = "write" /\ edit[r].sound => edit[r].status = Latest(edit[r].emp)
UnsoundAstray == \A r \in Requests : InProgress(r) => edit[r].sound \/ edit[r].emp \in astray
Derived ==
  \A e \in Employees :
    e \notin astray /\ Entries(e) # {} /\ (\A r \in Requests : InProgress(r) => edit[r].emp # e)
      => status[e] = Latest(e)
StatusInv == HistoryTypes /\ SoundAlone /\ SoundIsLatest /\ UnsoundAstray /\ Derived

\* The latest entry is one of them, and none is later.
LEMMA LastIsLast ==
  ASSUME NEW ds \in SUBSET Dates, IsFiniteSet(ds), ds # {}
  PROVE  LastOf(ds) \in ds /\ \A c \in ds : c <= LastOf(ds)
  <1>1. ds \subseteq Int BY EmploymentAssumption
  <1>2. \E d \in ds : \A c \in ds : c <= d BY <1>1, Greatest
  <1>3. QED BY <1>2, Zenon DEF LastOf

LEMMA LatestIsStatus ==
  ASSUME StatusInv, NEW e \in Employees, Entries(e) # {} PROVE Latest(e) \in Statuses
  <1>1. Entries(e) \subseteq Dates /\ IsFiniteSet(Entries(e)) BY DEF StatusInv, HistoryTypes, Entries
  <1>2. LastOf(Entries(e)) \in Entries(e) BY <1>1, LastIsLast
  <1>3. history[e][LastOf(Entries(e))] \in Statuses
    BY <1>1, <1>2 DEF StatusInv, HistoryTypes, Histories, Entries
  <1>4. QED BY <1>3 DEF Latest

LEMMA InitStatus == EmpInit => StatusInv
  <1>1. SUFFICES ASSUME EmpInit PROVE StatusInv OBVIOUS
  <1>2. \A e \in Employees : Entries(e) = {} BY <1>1 DEF EmpInit, Entries
  <1>3. HistoryTypes
    BY <1>1, <1>2, FS_EmptySet DEF EmpInit, HistoryTypes, Histories, Statuses, InProgress, Idle
  <1>4. \A r \in Requests : ~InProgress(r) /\ edit[r].step # "write" BY <1>1 DEF EmpInit, InProgress, Idle
  <1>5. QED BY <1>2, <1>3, <1>4 DEF StatusInv, SoundAlone, SoundIsLatest, UnsoundAstray, Derived

\* A step that leaves histories, statuses and edits alone.
LEMMA ElsewhereStatus ==
  ASSUME StatusInv, UNCHANGED <<history, status, edit, astray>> PROVE StatusInv'
  <1>1. \A e \in Employees : Entries(e)' = Entries(e) BY DEF Entries
  <1>1a. \A e : Latest(e)' = Latest(e) BY DEF Latest, Entries
  <1>2. \A r \in Requests : InProgress(r)' <=> InProgress(r) BY DEF InProgress
  <1>3. HistoryTypes' BY <1>1, <1>2 DEF StatusInv, HistoryTypes
  <1>4. SoundAlone' BY <1>2 DEF StatusInv, SoundAlone
  <1>5. SoundIsLatest' BY <1>1a DEF StatusInv, SoundIsLatest
  <1>6. UnsoundAstray' BY <1>2 DEF StatusInv, UnsoundAstray
  <1>7. Derived' BY <1>1, <1>1a, <1>2 DEF StatusInv, Derived
  <1>8. QED BY <1>3, <1>4, <1>5, <1>6, <1>7 DEF StatusInv

\* The first transaction of an edit, whichever it is: what it will write is
\* the latest entry if it says so.
LEMMA BeginStatus ==
  ASSUME StatusInv, NEW r \in Requests, NEW p, NEW e \in Employees, NEW rows \in [Dates -> Statuses \cup {"NONE"}],
         NEW step \in {"derive", "write"}, NEW s \in Statuses \cup {"NONE"}, NEW sound \in BOOLEAN,
         Begin(r, p, e, rows, step, s, sound),
         IsFiniteSet({d \in Dates : rows[d] # "NONE"}),
         step = "write" /\ sound => s = rows[LastOf({d \in Dates : rows[d] # "NONE"})]
                                    /\ {d \in Dates : rows[d] # "NONE"} # {}
  PROVE  StatusInv'
  <1> DEFINE alone == ~Editing(e)
             mine == [emp |-> e, server |-> p, step |-> step, status |-> s, sound |-> sound /\ alone]
  <1>1. /\ edit[r] = Idle
        /\ history' = [history EXCEPT ![e] = rows]
        /\ edit' = [q \in Requests |-> IF q = r THEN mine
                      ELSE IF edit[q].emp = e THEN [edit[q] EXCEPT !.sound = FALSE] ELSE edit[q]]
        /\ astray' = IF sound /\ alone THEN astray ELSE astray \cup {e}
        /\ UNCHANGED status
    BY DEF Begin
  <1>2. mine.emp = e /\ mine.step = step /\ mine.status = s /\ (mine.sound <=> sound /\ alone) OBVIOUS
  <1> HIDE DEF mine
  <1>3. /\ edit'[r] = mine
        /\ \A q \in Requests \ {r} :
             /\ edit'[q].emp = edit[q].emp /\ edit'[q].step = edit[q].step /\ edit'[q].status = edit[q].status
             /\ edit'[q].sound => edit[q].sound /\ edit[q].emp # e
             /\ edit'[q].sound \/ ~edit[q].sound \/ edit[q].emp = e
    BY <1>1 DEF StatusInv, HistoryTypes
  <1>4. ~InProgress(r) /\ InProgress(r)' BY <1>1, <1>2, <1>3 DEF InProgress, Idle
  <1>5. \A q \in Requests \ {r} : InProgress(q)' <=> InProgress(q) BY <1>3 DEF InProgress
  <1>6. \A f \in Employees : history'[f] = IF f = e THEN rows ELSE history[f]
    BY <1>1 DEF StatusInv, HistoryTypes, Histories
  <1>7. \A f \in Employees : f # e => Entries(f)' = Entries(f) /\ Latest(f)' = Latest(f)
    BY <1>6 DEF Entries, Latest
  <1>8. Entries(e)' = {d \in Dates : rows[d] # "NONE"} BY <1>6 DEF Entries
  <1>9. HistoryTypes'
    <2>1. history' \in Histories BY <1>1 DEF StatusInv, HistoryTypes, Histories
    <2>2. \A f \in Employees : IsFiniteSet(Entries(f)') BY <1>7, <1>8 DEF StatusInv, HistoryTypes
    <2>3. edit' = [q \in Requests |-> edit'[q]] BY <1>1
    <2>4. \A q \in Requests : InProgress(q)' => edit'[q].emp \in Employees /\ edit'[q].status \in Statuses \cup {"NONE"}
      BY <1>2, <1>3, <1>5 DEF StatusInv, HistoryTypes
    <2>5. QED BY <1>1, <2>1, <2>2, <2>3, <2>4 DEF StatusInv, HistoryTypes
  <1>10. SoundAlone'
    <2>1. SUFFICES ASSUME NEW a \in Requests, NEW b \in Requests, InProgress(a)', InProgress(b)',
                          edit'[a].sound, edit'[a].emp = edit'[b].emp, a # b
                   PROVE  FALSE
      BY DEF SoundAlone
    <2>2. CASE a # r /\ b # r BY <1>3, <1>5, <2>1, <2>2 DEF StatusInv, SoundAlone
    <2>3. CASE a = r
      <3>1. alone /\ edit[b].emp = e BY <1>2, <1>3, <2>1, <2>3
      <3>2. QED BY <3>1 DEF Editing
    <2>4. CASE b = r BY <1>2, <1>3, <2>1, <2>4
    <2>5. QED BY <2>2, <2>3, <2>4
  <1>11. SoundIsLatest'
    <2>1. SUFFICES ASSUME NEW q \in Requests, edit'[q].step = "write", edit'[q].sound
                   PROVE  edit'[q].status = Latest(edit[q].emp)'
      BY DEF SoundIsLatest
    <2>2. CASE q = r
      <3>1. step = "write" /\ sound /\ edit'[q].status = s /\ edit'[q].emp = e BY <1>2, <1>3, <2>1, <2>2
      <3>2. Latest(edit[q].emp)' = rows[LastOf(Entries(e)')] BY <1>6, <1>8, <3>1 DEF Latest
      <3>3. QED BY <1>8, <3>1, <3>2
    <2>3. CASE q # r
      <3>1. edit[q].step = "write" /\ edit[q].sound /\ edit[q].emp # e /\ edit'[q].emp = edit[q].emp
        BY <1>3, <2>1, <2>3
      <3>2. edit[q].emp \in Employees BY <3>1 DEF StatusInv, HistoryTypes, InProgress
      <3>3. edit[q].status = Latest(edit[q].emp) BY <3>1 DEF StatusInv, SoundIsLatest
      <3>4. edit'[q].status = edit[q].status BY <1>3, <2>3
      <3> DEFINE f == edit[q].emp
      <3>5. Entries(f)' = Entries(f) /\ history'[f] = history[f] BY <1>6, <1>7, <3>1, <3>2
      <3>6. Latest(edit[q].emp)' = Latest(f) BY <3>1, <3>5 DEF Latest
      <3>7. QED BY <3>3, <3>4, <3>6
    <2>4. QED BY <2>2, <2>3
  <1>12. UnsoundAstray'
    <2>1. SUFFICES ASSUME NEW q \in Requests, InProgress(q)', ~edit'[q].sound PROVE edit'[q].emp \in astray'
      BY DEF UnsoundAstray
    <2>2. CASE q = r BY <1>1, <1>2, <1>3, <2>1, <2>2
    <2>3. CASE q # r /\ edit[q].emp = e
      <3>1. ~alone BY <2>3 DEF Editing
      <3>2. QED BY <1>1, <1>3, <2>3, <3>1
    <2>4. CASE q # r /\ edit[q].emp # e BY <1>1, <1>3, <1>5, <2>1, <2>4 DEF StatusInv, UnsoundAstray
    <2>5. QED BY <2>2, <2>3, <2>4
  <1>13. Derived'
    <2>1. SUFFICES ASSUME NEW f \in Employees, f \notin astray', Entries(f)' # {},
                          \A q \in Requests : InProgress(q)' => edit'[q].emp # f
                   PROVE  status[f] = Latest(f)'
      BY <1>1 DEF Derived
    <2>2. f # e BY <1>2, <1>3, <1>4, <2>1
    <2>3. \A q \in Requests : InProgress(q) => edit[q].emp # f BY <1>3, <1>4, <1>5, <2>1
    <2>4. QED BY <1>1, <1>7, <2>1, <2>2, <2>3 DEF StatusInv, Derived
  <1>14. QED BY <1>9, <1>10, <1>11, <1>12, <1>13 DEF StatusInv

LEMMA EditStatus ==
  ASSUME StatusInv, NEW r \in Requests, NEW p \in Servers, NEW e \in Employees, Edit(r, p, e) PROVE StatusInv'
  <1>1. history[e] \in [Dates -> Statuses \cup {"NONE"}] /\ IsFiniteSet(Entries(e)) /\ Entries(e) \subseteq Dates
    BY DEF StatusInv, HistoryTypes, Histories, Entries
  <1>2. ASSUME NEW rows \in [Dates -> Statuses \cup {"NONE"}], NEW d \in Dates,
               \A x \in Dates : x # d => rows[x] = history[e][x] \/ rows[x] = "NONE"
        PROVE  IsFiniteSet({x \in Dates : rows[x] # "NONE"})
    <2>1. {x \in Dates : rows[x] # "NONE"} \subseteq Entries(e) \cup {d} BY <1>2 DEF Entries
    <2>2. IsFiniteSet(Entries(e) \cup {d}) BY <1>1, FS_AddElement
    <2>3. QED BY <2>1, <2>2, FS_Subset
  <1>3. ASSUME NEW d \in Dates, NEW s \in Statuses, AddStatus(r, p, e, d, s) PROVE StatusInv'
    <2> DEFINE rows == [history[e] EXCEPT ![d] = s]
               after == {x \in Dates : rows[x] # "NONE"}
               sound == \A c \in Entries(e) : c < d
    <2>1. rows \in [Dates -> Statuses \cup {"NONE"}] /\ rows[d] = s BY <1>1
    <2>2. IsFiniteSet(after) BY <1>2, <2>1, <1>1
    <2>3. d \in after /\ after = Entries(e) \cup {d} BY <1>1, <2>1 DEF Entries, Statuses
    <2>4. ASSUME sound PROVE LastOf(after) = d
      <3>1. LastOf(after) \in after /\ \A c \in after : c <= LastOf(after) BY <2>2, <2>3, LastIsLast
      <3>2. \A c \in Dates : c \in Nat BY EmploymentAssumption
      <3>3. QED BY <2>3, <2>4, <3>1, <3>2
    <2>5. Begin(r, p, e, rows, "write", s, sound) BY <1>3 DEF AddStatus
    <2>6. sound => s = rows[LastOf(after)] /\ after # {} BY <2>1, <2>3, <2>4
    <2>7. sound \in BOOLEAN OBVIOUS
    <2> HIDE DEF rows, sound
    <2>8. QED BY <2>1, <2>2, <2>5, <2>6, <2>7, BeginStatus
  <1>4. ASSUME NEW rows \in [Dates -> Statuses \cup {"NONE"}], NEW d \in Dates,
               \A x \in Dates : x # d => rows[x] = history[e][x] \/ rows[x] = "NONE",
               Begin(r, p, e, rows, "derive", "NONE", TRUE)
        PROVE  StatusInv'
    <2>1. IsFiniteSet({x \in Dates : rows[x] # "NONE"}) BY <1>2, <1>4
    <2>2. QED BY <1>4, <2>1, BeginStatus
  <1>5. ASSUME NEW d \in Dates, NEW to \in Dates, NEW s \in Statuses, UpdateStatus(r, p, e, d, to, s) PROVE StatusInv'
    <2> DEFINE rows == [history[e] EXCEPT ![d] = "NONE", ![to] = s]
    <2>1. rows \in [Dates -> Statuses \cup {"NONE"}] BY <1>1
    <2>2. \A x \in Dates : x # to => rows[x] = history[e][x] \/ rows[x] = "NONE" BY <1>1
    <2>3. Begin(r, p, e, rows, "derive", "NONE", TRUE) BY <1>5 DEF UpdateStatus
    <2> HIDE DEF rows
    <2>4. QED BY <1>4, <2>1, <2>2, <2>3
  <1>6. ASSUME NEW d \in Dates, DeleteStatus(r, p, e, d) PROVE StatusInv'
    <2> DEFINE rows == [history[e] EXCEPT ![d] = "NONE"]
    <2>1. rows \in [Dates -> Statuses \cup {"NONE"}] BY <1>1
    <2>2. \A x \in Dates : x # d => rows[x] = history[e][x] \/ rows[x] = "NONE" BY <1>1
    <2>3. Begin(r, p, e, rows, "derive", "NONE", TRUE) BY <1>6 DEF DeleteStatus
    <2> HIDE DEF rows
    <2>4. QED BY <1>4, <2>1, <2>2, <2>3
  <1>7. QED BY <1>3, <1>5, <1>6 DEF Edit

LEMMA DeriveStatus == ASSUME StatusInv, NEW r \in Requests, Derive(r) PROVE StatusInv'
  <1>1. /\ edit[r].step = "derive" /\ UNCHANGED <<history, status, astray>>
        /\ edit' = [edit EXCEPT ![r].step = "write", ![r].status = Latest(edit[r].emp)]
    BY DEF Derive
  <1>2. InProgress(r) /\ edit[r].emp \in Employees BY <1>1 DEF InProgress, StatusInv, HistoryTypes
  <1>3. Latest(edit[r].emp) \in Statuses \cup {"NONE"} BY <1>2, LatestIsStatus DEF Latest
  <1>4. \A q \in Requests :
          /\ edit'[q].emp = edit[q].emp /\ edit'[q].sound = edit[q].sound
          /\ q = r => edit'[q].step = "write" /\ edit'[q].status = Latest(edit[r].emp)
          /\ q # r => edit'[q] = edit[q]
    BY <1>1 DEF StatusInv, HistoryTypes
  <1>5. \A q \in Requests : InProgress(q)' <=> InProgress(q) BY <1>2, <1>4 DEF InProgress
  <1>6. \A f : Entries(f)' = Entries(f) /\ Latest(f)' = Latest(f) BY <1>1 DEF Entries, Latest
  <1>7. HistoryTypes'
    <2>1. edit' = [q \in Requests |-> edit'[q]] BY <1>1 DEF StatusInv, HistoryTypes
    <2>2. \A q \in Requests : InProgress(q)' => edit'[q].emp \in Employees /\ edit'[q].status \in Statuses \cup {"NONE"}
      BY <1>3, <1>4, <1>5 DEF StatusInv, HistoryTypes
    <2>3. QED BY <1>1, <1>6, <2>1, <2>2 DEF StatusInv, HistoryTypes
  <1>8. SoundAlone' BY <1>4, <1>5 DEF StatusInv, SoundAlone
  <1>9. SoundIsLatest' BY <1>4, <1>6 DEF StatusInv, SoundIsLatest
  <1>a. \A q \in Requests : edit'[q].emp = edit[q].emp /\ edit'[q].sound = edit[q].sound BY <1>4
  <1>10. UnsoundAstray'
    <2>1. SUFFICES ASSUME NEW q \in Requests, InProgress(q) PROVE edit'[q].sound \/ edit'[q].emp \in astray'
      BY <1>5 DEF UnsoundAstray
    <2>2. edit[q].sound \/ edit[q].emp \in astray BY <2>1 DEF StatusInv, UnsoundAstray
    <2>3. CASE edit[q].sound BY <2>3, <1>a
    <2>4. CASE edit[q].emp \in astray
      <3>1. edit'[q].emp = edit[q].emp BY <1>a
      <3>2. edit'[q].emp \in astray BY <3>1, <2>4, Zenon
      <3>3. edit'[q].emp \in astray' BY <3>2, <1>1
      <3>4. QED BY <3>3, Zenon
    <2>5. QED BY <2>2, <2>3, <2>4
  <1>11. Derived' BY <1>1, <1>a, <1>5, <1>6 DEF StatusInv, Derived
  <1>12. QED BY <1>7, <1>8, <1>9, <1>10, <1>11 DEF StatusInv

LEMMA WriteStatusStatus == ASSUME StatusInv, NEW r \in Requests, WriteStatus(r) PROVE StatusInv'
  <1> DEFINE e == edit[r].emp
  <1>1. /\ edit[r].step = "write" /\ UNCHANGED history
        /\ status' = [status EXCEPT ![e] = IF edit[r].status = "NONE" THEN @ ELSE edit[r].status]
        /\ astray' = IF edit[r].sound THEN astray \ {e} ELSE astray
        /\ edit' = [edit EXCEPT ![r] = Idle]
    BY DEF WriteStatus
  <1>2. InProgress(r) /\ e \in Employees /\ edit[r].status \in Statuses \cup {"NONE"}
    BY <1>1 DEF InProgress, StatusInv, HistoryTypes
  <1>4. \A q \in Requests : edit'[q] = IF q = r THEN Idle ELSE edit[q] BY <1>1 DEF StatusInv, HistoryTypes
  <1>5. \A q \in Requests : InProgress(q)' <=> InProgress(q) /\ q # r BY <1>4 DEF InProgress, Idle
  <1>6. \A f : Entries(f)' = Entries(f) /\ Latest(f)' = Latest(f) BY <1>1 DEF Entries, Latest
  <1>7. HistoryTypes'
    <2>1. edit' = [q \in Requests |-> edit'[q]] BY <1>1 DEF StatusInv, HistoryTypes
    <2>2. \A q \in Requests : InProgress(q)' => edit'[q].emp \in Employees /\ edit'[q].status \in Statuses \cup {"NONE"}
      BY <1>4, <1>5 DEF StatusInv, HistoryTypes
    <2>3. status' \in [Employees -> Statuses] BY <1>1, <1>2 DEF StatusInv, HistoryTypes
    <2>4. QED BY <1>1, <1>6, <2>1, <2>2, <2>3 DEF StatusInv, HistoryTypes
  <1>8. SoundAlone' BY <1>4, <1>5 DEF StatusInv, SoundAlone
  <1>9. SoundIsLatest' BY <1>4, <1>6 DEF StatusInv, SoundIsLatest, Idle
  <1>10. UnsoundAstray'
    <2>1. SUFFICES ASSUME NEW q \in Requests, InProgress(q), q # r, ~edit[q].sound
                   PROVE  edit[q].emp \in astray'
      BY <1>4, <1>5 DEF UnsoundAstray
    <2>2. edit[q].emp \in astray BY <2>1 DEF StatusInv, UnsoundAstray
    <2>3. edit[r].sound => edit[q].emp # e BY <1>2, <2>1 DEF StatusInv, SoundAlone
    <2>4. QED BY <1>1, <2>2, <2>3
  <1>11. Derived'
    <2>1. SUFFICES ASSUME NEW f \in Employees, f \notin astray', Entries(f) # {},
                          \A q \in Requests : InProgress(q)' => edit'[q].emp # f
                   PROVE  status'[f] = Latest(f)
      BY <1>6 DEF Derived
    <2>2. CASE f = e
      <3>1. edit[r].sound BY <1>1, <1>2, <2>1, <2>2 DEF StatusInv, UnsoundAstray
      <3>2. edit[r].status = Latest(e) BY <1>1, <3>1 DEF StatusInv, SoundIsLatest
      <3>3. Latest(e) \in Statuses BY <1>2, <2>1, <2>2, LatestIsStatus
      <3>4. QED BY <1>1, <1>2, <2>2, <3>2, <3>3 DEF StatusInv, HistoryTypes, Statuses
    <2>3. CASE f # e
      <3>1. f \notin astray BY <1>1, <2>1, <2>3
      <3>2. \A q \in Requests : InProgress(q) => edit[q].emp # f BY <1>4, <1>5, <2>1, <2>3
      <3>3. status'[f] = status[f] BY <1>1, <2>3 DEF StatusInv, HistoryTypes
      <3>4. QED BY <2>1, <3>1, <3>2, <3>3 DEF StatusInv, Derived
    <2>4. QED BY <2>2, <2>3
  <1>12. QED BY <1>7, <1>8, <1>9, <1>10, <1>11 DEF StatusInv

LEMMA UpdateStatusStatus ==
  ASSUME StatusInv, NEW e \in Employees, NEW s \in Statuses, UpdateEmployee(e, s) PROVE StatusInv'
  <1>1. status' = [status EXCEPT ![e] = s] /\ astray' = astray \cup {e} /\ UNCHANGED <<history, edit>>
    BY DEF UpdateEmployee
  <1>2. \A f : Entries(f)' = Entries(f) /\ Latest(f)' = Latest(f) BY <1>1 DEF Entries, Latest
  <1>3. \A q \in Requests : InProgress(q)' <=> InProgress(q) BY <1>1 DEF InProgress
  <1>4. HistoryTypes' BY <1>1, <1>2, <1>3 DEF StatusInv, HistoryTypes
  <1>5. SoundAlone' /\ SoundIsLatest' /\ UnsoundAstray'
    BY <1>1, <1>2, <1>3 DEF StatusInv, SoundAlone, SoundIsLatest, UnsoundAstray
  <1>6. Derived' BY <1>1, <1>2, <1>3 DEF StatusInv, Derived, HistoryTypes
  <1>7. QED BY <1>4, <1>5, <1>6 DEF StatusInv

LEMMA RestartStatus == ASSUME StatusInv, NEW p \in Servers, Restart(p) PROVE StatusInv'
  <1>1. /\ edit' = [r \in Requests |-> IF edit[r].server = p THEN Idle ELSE edit[r]]
        /\ astray' = astray \cup {edit[r].emp : r \in {q \in Requests : edit[q].server = p}}
        /\ UNCHANGED <<history, status>>
    BY DEF Restart
  <1>2. \A f : Entries(f)' = Entries(f) /\ Latest(f)' = Latest(f) BY <1>1 DEF Entries, Latest
  <1>3. \A q \in Requests : (InProgress(q)' => InProgress(q) /\ edit'[q] = edit[q])
                            /\ (InProgress(q) /\ ~InProgress(q)' => edit[q].emp \in astray')
    BY <1>1 DEF InProgress, Idle
  <1>4. HistoryTypes'
    <2>1. edit' = [q \in Requests |-> edit'[q]] BY <1>1
    <2>2. QED BY <1>1, <1>2, <1>3, <2>1 DEF StatusInv, HistoryTypes
  <1>5. SoundAlone' BY <1>3 DEF StatusInv, SoundAlone
  <1>6. SoundIsLatest'
    <2>1. \A q \in Requests : edit'[q].step = "write" => edit'[q] = edit[q] BY <1>1 DEF Idle
    <2>2. QED BY <1>2, <2>1 DEF StatusInv, SoundIsLatest
  <1>7. UnsoundAstray' BY <1>1, <1>3 DEF StatusInv, UnsoundAstray
  <1>8. Derived' BY <1>1, <1>2, <1>3 DEF StatusInv, Derived
  <1>9. QED BY <1>4, <1>5, <1>6, <1>7, <1>8 DEF StatusInv

LEMMA StepStatus == StatusInv /\ [EmpNext]_empVars => StatusInv'
  <1>1. SUFFICES ASSUME StatusInv, [EmpNext]_empVars PROVE StatusInv' OBVIOUS
  <1>2. CASE EditHistory
    BY <1>1, <1>2, EditStatus, DeriveStatus, WriteStatusStatus, UpdateStatusStatus DEF EditHistory
  <1>3. CASE Visit BY <1>1, <1>3, ElsewhereStatus DEF Visit, LookUp, Login, Remember
  <1>4. CASE Tick BY <1>1, <1>4, ElsewhereStatus DEF Tick
  <1>5. CASE \E p \in Servers : Restart(p) BY <1>1, <1>5, RestartStatus
  <1>6. CASE UNCHANGED empVars BY <1>1, <1>6, ElsewhereStatus DEF empVars
  <1>7. QED BY <1>1, <1>2, <1>3, <1>4, <1>5, <1>6 DEF EmpNext

\* "Always reflects the latest history entry", however edits overlap, are cut
\* off or follow each other: but for the employees counted astray.
THEOREM StatusIsDerived == EmpSpec => []StatusFollowsHistory
  <1>1. EmpSpec => []StatusInv BY InitStatus, StepStatus, PTL DEF EmpSpec
  <1>2. StatusInv => StatusFollowsHistory
    BY DEF StatusInv, Derived, StatusFollowsHistory, Editing
  <1>3. QED BY <1>1, <1>2, PTL

-----------------------------------------------------------------------------
(***************************************************************************)
(* Employment: access. The invariant follows an answer on its way into a   *)
(* cache: one that still says "has access" was read before the access      *)
(* ended, and stored at most Patience later.                               *)
(***************************************************************************)

Answer == [ended : BOOLEAN, at : Int]
LookUpRecord == [server : Servers, emp : Employees, ended : BOOLEAN, began : Nat]

AccessTypes ==
  /\ clock \in Nat
  /\ endedAt \in [Employees -> Nat]
  /\ cache \in [Servers -> [Employees -> Answer]]
  /\ lookups \subseteq LookUpRecord
  /\ \A p \in Servers, e \in Employees : cache[p][e].at <= clock
  /\ \A l \in lookups : l.began <= clock /\ clock <= l.began + Patience
ReadInTime == \A l \in lookups : AccessEnded(l.emp) /\ ~l.ended => l.began <= endedAt[l.emp]
StoredInTime ==
  \A p \in Servers, e \in Employees :
    AccessEnded(e) /\ cache[p][e] # NoEntry /\ ~cache[p][e].ended => cache[p][e].at <= endedAt[e] + Patience
AccessInv == AccessTypes /\ ReadInTime /\ StoredInTime

\* When access ends its time is noted, and it stays while access stays ended.
EndFollows ==
  /\ endedAt' \in [Employees -> Nat]
  /\ \A e \in Employees : AccessEnded(e)' /\ AccessEnded(e) => endedAt'[e] = endedAt[e]
  /\ \A e \in Employees : AccessEnded(e)' /\ ~AccessEnded(e) => endedAt'[e] = clock'

-----------------------------------------------------------------------------
\* Watch is EndFollows; so is a step that changes neither history nor clock.
LEMMA WatchFollows == ASSUME AccessTypes, clock' \in Nat, Watch PROVE EndFollows
  <1>1. endedAt' \in [Employees -> Nat] BY DEF Watch, AccessTypes
  <1>2. ASSUME NEW e \in Employees, AccessEnded(e)', AccessEnded(e) PROVE endedAt'[e] = endedAt[e]
    BY <1>2, Zenon DEF Watch
  <1>3. ASSUME NEW e \in Employees, AccessEnded(e)', ~AccessEnded(e) PROVE endedAt'[e] = clock'
    BY <1>3, Zenon DEF Watch
  <1>4. QED BY <1>1, <1>2, <1>3, Zenon DEF EndFollows

LEMMA StillFollows ==
  ASSUME AccessTypes, UNCHANGED <<clock, history, status, endedAt>> PROVE EndFollows
  <1>1. \A e \in Employees : AccessEnded(e)' <=> AccessEnded(e) BY DEF AccessEnded, Entries
  <1>2. endedAt' = endedAt OBVIOUS
  <1>3. endedAt' \in [Employees -> Nat] BY <1>2 DEF AccessTypes
  <1>4. QED BY <1>1, <1>2, <1>3, Zenon DEF EndFollows

\* A step that adds no answer keeps the invariant.
LEMMA FewerAnswers ==
  ASSUME AccessInv, EndFollows, clock' = clock, lookups' \subseteq lookups,
         cache' \in [Servers -> [Employees -> Answer]],
         \A p \in Servers, e \in Employees : cache'[p][e] \in {cache[p][e], NoEntry}
  PROVE  AccessInv'
  <1>a. \A p \in Servers, e \in Employees : cache[p][e] \in Answer BY DEF AccessInv, AccessTypes
  <1>1. AccessTypes'
    <2>1. clock \in Nat /\ NoEntry.at <= clock BY DEF AccessInv, AccessTypes, NoEntry
    <2>2. \A p \in Servers, e \in Employees : cache'[p][e].at <= clock' BY <2>1 DEF AccessInv, AccessTypes
    <2>3. lookups' \subseteq LookUpRecord BY DEF AccessInv, AccessTypes
    <2>4. \A l \in lookups' : l.began <= clock' /\ clock' <= l.began + Patience BY DEF AccessInv, AccessTypes
    <2>5. QED BY <2>1, <2>2, <2>3, <2>4 DEF AccessTypes, EndFollows
  <1>2. ReadInTime'
    <2>1. SUFFICES ASSUME NEW l \in lookups', AccessEnded(l.emp)', ~l.ended PROVE l.began <= endedAt'[l.emp]
      BY DEF ReadInTime
    <2>2. l \in lookups /\ l.emp \in Employees /\ l.began <= clock BY DEF AccessInv, AccessTypes, LookUpRecord
    <2>3. CASE AccessEnded(l.emp) 
      <3>1. endedAt'[l.emp] = endedAt[l.emp] BY <2>1, <2>2, <2>3 DEF EndFollows
      <3>2. l.began <= endedAt[l.emp] BY <2>1, <2>2, <2>3 DEF AccessInv, ReadInTime
      <3>3. QED BY <3>1, <3>2
    <2>4. CASE ~AccessEnded(l.emp)
      <3>1. endedAt'[l.emp] = clock' BY <2>1, <2>2, <2>4 DEF EndFollows
      <3>2. QED BY <3>1, <2>2
    <2>5. QED BY <2>3, <2>4
  <1>3. StoredInTime'
    <2>1. SUFFICES ASSUME NEW p \in Servers, NEW e \in Employees,
                          AccessEnded(e)', cache'[p][e] # NoEntry, ~cache'[p][e].ended
                   PROVE  cache'[p][e].at <= endedAt'[e] + Patience
      BY DEF StoredInTime
    <2>2. cache'[p][e] = cache[p][e] /\ cache[p][e].at <= clock /\ cache[p][e].at \in Int /\ Patience \in Nat /\ clock \in Nat
      BY <2>1, <1>a, EmploymentAssumption DEF AccessInv, AccessTypes, Answer
    <2>3. CASE AccessEnded(e)
      <3>1. endedAt'[e] = endedAt[e] BY <2>1, <2>3 DEF EndFollows
      <3>2. cache[p][e].at <= endedAt[e] + Patience BY <2>1, <2>2, <2>3 DEF AccessInv, StoredInTime
      <3>3. QED BY <3>1, <3>2, <2>2
    <2>4. CASE ~AccessEnded(e)
      <3>1. endedAt'[e] = clock' BY <2>1, <2>4 DEF EndFollows
      <3>2. QED BY <3>1, <2>2
    <2>5. QED BY <2>3, <2>4
  <1>4. QED BY <1>1, <1>2, <1>3 DEF AccessInv

-----------------------------------------------------------------------------
LEMMA InitAccess == EmpInit => AccessInv
  <1>1. SUFFICES ASSUME EmpInit PROVE AccessInv OBVIOUS
  <1>2. AccessTypes BY <1>1, EmploymentAssumption DEF EmpInit, AccessTypes, Answer, NoEntry
  <1>3. ReadInTime BY <1>1 DEF EmpInit, ReadInTime
  <1>4. StoredInTime BY <1>1, Zenon DEF EmpInit, StoredInTime
  <1>5. QED BY <1>2, <1>3, <1>4 DEF AccessInv

\* The history's steps and the forgetting ones add no answer.
LEMMA QuietAccess ==
  ASSUME AccessInv, EditHistory \/ (\E p \in Servers : Restart(p) \/ \E e \in Employees : Login(p, e))
  PROVE  AccessInv'
  <1>0. AccessTypes BY DEF AccessInv
  <1>c. clock \in Nat /\ cache \in [Servers -> [Employees -> Answer]] /\ NoEntry \in Answer BY <1>0 DEF AccessTypes, Answer, NoEntry
  <1>1. ASSUME NEW r \in Requests, NEW p \in Servers, NEW e \in Employees, Edit(r, p, e) PROVE AccessInv'
    <2>1. Watch /\ UNCHANGED <<clock, status, cache, lookups>>
      BY <1>1 DEF Edit, AddStatus, UpdateStatus, DeleteStatus, Begin
    <2>2. EndFollows BY <2>1, <1>0, <1>c, WatchFollows
    <2>3. QED BY <2>1, <2>2, <1>c, FewerAnswers
  <1>2. ASSUME NEW r \in Requests, Derive(r) PROVE AccessInv'
    <2>1. UNCHANGED <<clock, history, status, cache, lookups, endedAt>> BY <1>2 DEF Derive
    <2>2. EndFollows BY <2>1, <1>0, StillFollows
    <2>3. QED BY <2>1, <2>2, <1>c, FewerAnswers
  <1>3. ASSUME NEW r \in Requests, WriteStatus(r) PROVE AccessInv'
    <2>1. Watch /\ UNCHANGED <<clock, lookups>> BY <1>3 DEF WriteStatus
    <2>2. EndFollows BY <2>1, <1>0, <1>c, WatchFollows
    <2>3. PICK q, e : cache' = [cache EXCEPT ![q][e] = NoEntry] BY <1>3 DEF WriteStatus
    <2>4. cache' \in [Servers -> [Employees -> Answer]] BY <2>3, <1>c
    <2>5. \A p \in Servers, x \in Employees : cache'[p][x] \in {cache[p][x], NoEntry} BY <2>3, <1>c
    <2>6. QED BY <2>1, <2>2, <2>4, <2>5, FewerAnswers
  <1>4. ASSUME NEW e \in Employees, NEW s \in Statuses, UpdateEmployee(e, s) PROVE AccessInv'
    <2>1. Watch /\ UNCHANGED <<clock, cache, lookups>> BY <1>4 DEF UpdateEmployee
    <2>2. EndFollows BY <2>1, <1>0, <1>c, WatchFollows
    <2>3. QED BY <2>1, <2>2, <1>c, FewerAnswers
  <1>5. ASSUME NEW p \in Servers, Restart(p) PROVE AccessInv'
    <2>1. UNCHANGED <<clock, history, status, endedAt>> /\ lookups' \subseteq lookups BY <1>5 DEF Restart
    <2>2. EndFollows BY <2>1, <1>0, StillFollows
    <2>3. cache' = [cache EXCEPT ![p] = [e \in Employees |-> NoEntry]] BY <1>5 DEF Restart
    <2>4. cache' \in [Servers -> [Employees -> Answer]] BY <2>3, <1>c
    <2>5. \A q \in Servers, x \in Employees : cache'[q][x] \in {cache[q][x], NoEntry} BY <2>3, <1>c
    <2>6. QED BY <2>1, <2>2, <2>4, <2>5, FewerAnswers
  <1>6. ASSUME NEW p \in Servers, NEW e \in Employees, Login(p, e) PROVE AccessInv'
    <2>1. UNCHANGED <<clock, history, status, endedAt, lookups>> BY <1>6 DEF Login
    <2>2. EndFollows BY <2>1, <1>0, StillFollows
    <2>3. cache' = [cache EXCEPT ![p][e] = NoEntry] BY <1>6 DEF Login
    <2>4. cache' \in [Servers -> [Employees -> Answer]] BY <2>3, <1>c
    <2>5. \A q \in Servers, x \in Employees : cache'[q][x] \in {cache[q][x], NoEntry} BY <2>3, <1>c
    <2>6. QED BY <2>1, <2>2, <2>4, <2>5, FewerAnswers
  <1>7. QED BY <1>1, <1>2, <1>3, <1>4, <1>5, <1>6 DEF EditHistory

\* A look-up reads the truth, and is stored in time.
LEMMA LookUpAccess ==
  ASSUME AccessInv, NEW p \in Servers, NEW e \in Employees, LookUp(p, e) PROVE AccessInv'
  <1> DEFINE new == [server |-> p, emp |-> e, ended |-> AccessEnded(e), began |-> clock]
  <1>0. UNCHANGED <<clock, history, status, cache, endedAt>> /\ lookups' = lookups \cup {new} BY DEF LookUp
  <1>1. \A x \in Employees : AccessEnded(x)' <=> AccessEnded(x) BY <1>0 DEF AccessEnded, Entries
  <1>2. AccessEnded(e) \in BOOLEAN BY DEF AccessEnded
  <1>3. AccessTypes'
    <2>1. new \in LookUpRecord BY <1>2 DEF LookUpRecord, AccessInv, AccessTypes
    <2>2. QED BY <1>0, <2>1, EmploymentAssumption DEF AccessInv, AccessTypes
  <1>4. ReadInTime'
    <2>1. \A l \in lookups : l.emp \in Employees BY DEF AccessInv, AccessTypes, LookUpRecord
    <2>2. new.emp = e /\ new.ended = AccessEnded(e) OBVIOUS
    <2>3. QED BY <1>0, <1>1, <2>1, <2>2 DEF AccessInv, ReadInTime
  <1>5. StoredInTime' BY <1>0, <1>1 DEF AccessInv, StoredInTime
  <1>6. QED BY <1>3, <1>4, <1>5 DEF AccessInv

LEMMA RememberAccess == ASSUME AccessInv, NEW l \in lookups, Remember(l) PROVE AccessInv'
  <1> DEFINE new == [ended |-> l.ended, at |-> clock]
  <1>0. UNCHANGED <<clock, history, status, endedAt>> /\ lookups' = lookups \ {l}
        /\ cache' = [cache EXCEPT ![l.server][l.emp] = new]
    BY DEF Remember
  <1>1. \A x \in Employees : AccessEnded(x)' <=> AccessEnded(x) BY <1>0 DEF AccessEnded, Entries
  <1>2. /\ l.server \in Servers /\ l.emp \in Employees /\ l.ended \in BOOLEAN
        /\ l.began \in Nat /\ clock \in Nat /\ clock <= l.began + Patience /\ Patience \in Nat
    BY EmploymentAssumption DEF AccessInv, AccessTypes, LookUpRecord
  <1>3. new \in Answer BY <1>2 DEF Answer
  <1>4. cache \in [Servers -> [Employees -> Answer]] BY DEF AccessInv, AccessTypes
  <1>5. \A p \in Servers, e \in Employees :
          cache'[p][e] = IF p = l.server /\ e = l.emp THEN new ELSE cache[p][e]
    BY <1>0, <1>2, <1>4
  <1>6. AccessTypes'
    <2>1. cache' \in [Servers -> [Employees -> Answer]] BY <1>0, <1>3, <1>4
    <2>2. \A p \in Servers, e \in Employees : cache'[p][e].at <= clock' BY <1>0, <1>2, <1>5 DEF AccessInv, AccessTypes
    <2>3. QED BY <1>0, <2>1, <2>2 DEF AccessInv, AccessTypes
  <1>7. ReadInTime'
    <2>1. \A k \in lookups : k.emp \in Employees BY DEF AccessInv, AccessTypes, LookUpRecord
    <2>2. QED BY <1>0, <1>1, <2>1 DEF AccessInv, ReadInTime
  <1>8. StoredInTime'
    <2>1. SUFFICES ASSUME NEW p \in Servers, NEW e \in Employees,
                          AccessEnded(e), cache'[p][e] # NoEntry, ~cache'[p][e].ended
                   PROVE  cache'[p][e].at <= endedAt[e] + Patience
      BY <1>0, <1>1 DEF StoredInTime
    <2>2. CASE p = l.server /\ e = l.emp
      <3>1. cache'[p][e].ended = l.ended /\ cache'[p][e].at = clock BY <1>5, <2>2
      <3>2. l.began <= endedAt[e] BY <2>1, <2>2, <3>1 DEF AccessInv, ReadInTime
      <3>3. endedAt[e] \in Nat BY DEF AccessInv, AccessTypes
      <3>4. QED BY <1>2, <3>1, <3>2, <3>3
    <2>3. CASE ~(p = l.server /\ e = l.emp) BY <1>5, <2>1, <2>3 DEF AccessInv, StoredInTime
    <2>4. QED BY <2>2, <2>3
  <1>9. QED BY <1>6, <1>7, <1>8 DEF AccessInv

LEMMA TickAccess == ASSUME AccessInv, Tick PROVE AccessInv'
  <1>0. AccessTypes /\ clock \in Nat BY DEF AccessInv, AccessTypes
  <1>1. clock' = clock + 1 /\ cache' = cache /\ lookups' = lookups /\ Watch BY DEF Tick
  <1>2. EndFollows BY <1>0, <1>1, WatchFollows
  <1>a. \A p \in Servers, e \in Employees : cache[p][e] \in Answer BY <1>0 DEF AccessTypes
  <1>3. AccessTypes'
    <2>1. \A l \in lookups : l.began \in Nat /\ clock < l.began + Patience BY <1>0 DEF Tick, AccessTypes, LookUpRecord
    <2>2. \A l \in lookups : l.began <= clock + 1 /\ clock + 1 <= l.began + Patience
      BY <1>0, <2>1, EmploymentAssumption DEF AccessTypes
    <2>3. \A p \in Servers, e \in Employees : cache[p][e].at <= clock + 1 BY <1>0, <1>a DEF AccessTypes, Answer
    <2>4. QED BY <1>0, <1>1, <1>2, <2>2, <2>3 DEF AccessTypes, EndFollows
  <1>4. ReadInTime'
    <2>1. SUFFICES ASSUME NEW l \in lookups, AccessEnded(l.emp)', ~l.ended PROVE l.began <= endedAt'[l.emp]
      BY <1>1 DEF ReadInTime
    <2>2. l.emp \in Employees /\ l.began <= clock /\ l.began \in Nat BY <1>0 DEF AccessTypes, LookUpRecord
    <2>3. CASE AccessEnded(l.emp)
      <3>1. endedAt'[l.emp] = endedAt[l.emp] BY <1>2, <2>1, <2>2, <2>3 DEF EndFollows
      <3>2. l.began <= endedAt[l.emp] BY <2>1, <2>3 DEF AccessInv, ReadInTime
      <3>3. QED BY <3>1, <3>2
    <2>4. CASE ~AccessEnded(l.emp)
      <3>1. endedAt'[l.emp] = clock' BY <1>2, <2>1, <2>2, <2>4 DEF EndFollows
      <3>2. QED BY <1>0, <1>1, <2>2, <3>1
    <2>5. QED BY <2>3, <2>4
  <1>5. StoredInTime'
    <2>1. SUFFICES ASSUME NEW p \in Servers, NEW e \in Employees,
                          AccessEnded(e)', cache[p][e] # NoEntry, ~cache[p][e].ended
                   PROVE  cache[p][e].at <= endedAt'[e] + Patience
      BY <1>1 DEF StoredInTime
    <2>2. cache[p][e].at <= clock /\ cache[p][e].at \in Int /\ Patience \in Nat
      BY <1>a, EmploymentAssumption DEF AccessInv, AccessTypes, Answer
    <2>3. CASE AccessEnded(e)
      <3>1. endedAt'[e] = endedAt[e] BY <1>2, <2>1, <2>3 DEF EndFollows
      <3>2. cache[p][e].at <= endedAt[e] + Patience BY <2>1, <2>3 DEF AccessInv, StoredInTime
      <3>3. QED BY <3>1, <3>2
    <2>4. CASE ~AccessEnded(e)
      <3>1. endedAt'[e] = clock' BY <1>2, <2>1, <2>4 DEF EndFollows
      <3>2. QED BY <1>0, <1>1, <2>2, <3>1
    <2>5. QED BY <2>3, <2>4
  <1>6. QED BY <1>3, <1>4, <1>5 DEF AccessInv

LEMMA StepAccess == AccessInv /\ [EmpNext]_empVars => AccessInv'
  <1>1. SUFFICES ASSUME AccessInv, [EmpNext]_empVars PROVE AccessInv' OBVIOUS
  <1>2. CASE EditHistory BY <1>1, <1>2, QuietAccess
  <1>3. CASE Visit BY <1>1, <1>3, QuietAccess, LookUpAccess, RememberAccess DEF Visit
  <1>4. CASE Tick BY <1>1, <1>4, TickAccess
  <1>5. CASE \E p \in Servers : Restart(p) BY <1>1, <1>5, QuietAccess
  <1>6. CASE UNCHANGED empVars
    <2>1. clock \in Nat /\ cache \in [Servers -> [Employees -> Answer]] /\ AccessTypes BY <1>1 DEF AccessInv, AccessTypes
    <2>2. UNCHANGED <<clock, history, status, endedAt, cache, lookups>> BY <1>6 DEF empVars
    <2>3. EndFollows BY <2>1, <2>2, StillFollows
    <2>4. QED BY <1>1, <2>1, <2>2, <2>3, FewerAnswers
  <1>7. QED BY <1>1, <1>2, <1>3, <1>4, <1>5, <1>6 DEF EmpNext

\* The bookkeeping of look-ups and remembered answers holds in every state.
THEOREM AnswersInTime == EmpSpec => []AccessInv
  <1>1. QED BY InitAccess, StepAccess, PTL DEF EmpSpec

\* Whatever is edited, restarted or looked up in any process, and whenever a
\* date comes: a leaver is served for less than CacheTime + Patience.
THEOREM LeaversAreLockedOut == EmpSpec => []LockedOut
  <1>1. AccessInv => LockedOut
    <2>1. SUFFICES ASSUME AccessInv, NEW p \in Servers, NEW e \in Employees,
                          AccessEnded(e), Fresh(p, e), ~cache[p][e].ended
                   PROVE  clock < endedAt[e] + CacheTime + Patience
      BY DEF LockedOut
    <2>2. cache[p][e].at <= endedAt[e] + Patience BY <2>1 DEF AccessInv, StoredInTime, Fresh
    <2>3. cache[p][e] \in Answer /\ clock \in Nat /\ endedAt[e] \in Nat BY <2>1 DEF AccessInv, AccessTypes
    <2>4. clock - cache[p][e].at < CacheTime BY <2>1 DEF Fresh
    <2>5. QED BY <2>2, <2>3, <2>4, EmploymentAssumption DEF Answer
  <1>2. QED BY <1>1, AnswersInTime, PTL

-----------------------------------------------------------------------------
(***************************************************************************)
(* Account: reset links. A link is the token of one account at most, of    *)
(* none once it was used, and a request that has found it found that       *)
(* account.                                                                *)
(***************************************************************************)

LinkDomains ==
  /\ token = [e \in Employees |-> token[e]]
  /\ uses \in [Links -> Nat]
  /\ sent \subseteq Links
  /\ \A r \in resets : r.emp \in Employees /\ r.link \in sent
OwnLink == \A e, f \in Employees : token[e].link = token[f].link /\ token[e].link # 0 => e = f
FoundByLink == \A r \in resets, f \in Employees : token[f].link = r.link => f = r.emp
SpentLinks == \A l \in Links, e \in Employees : uses[l] > 0 => token[e].link # l
ContestedOnce ==
  \A r, q \in resets : r.link \notin contested /\ r.link = q.link => r = q /\ uses[r.link] = 0
LinkInv == LinkDomains /\ OwnLink /\ FoundByLink /\ SpentLinks /\ ContestedOnce /\ LinkServesOnce

LEMMA InitLink == AccInit => LinkInv
  <1>1. SUFFICES ASSUME AccInit PROVE LinkInv OBVIOUS
  <1>2. token = [e \in Employees |-> NoToken] /\ sent = {} /\ resets = {} /\ uses = [l \in Links |-> 0]
    BY <1>1 DEF AccInit
  <1>3. LinkDomains BY <1>2 DEF LinkDomains
  <1>4. OwnLink /\ FoundByLink /\ SpentLinks /\ ContestedOnce /\ LinkServesOnce
    BY <1>2, AccountAssumption DEF OwnLink, FoundByLink, SpentLinks, ContestedOnce, LinkServesOnce, NoToken
  <1>5. QED BY <1>3, <1>4 DEF LinkInv

\* Requests may be lost, and nothing else change.
LEMMA FewerRequests ==
  ASSUME LinkInv, resets' \subseteq resets, UNCHANGED <<token, sent, uses, contested>> PROVE LinkInv'
  BY DEF LinkInv, LinkDomains, OwnLink, FoundByLink, SpentLinks, ContestedOnce, LinkServesOnce

LEMMA IssueLink ==
  ASSUME LinkInv, NEW e \in Employees, Issue(e), UNCHANGED <<resets, uses, contested>> PROVE LinkInv'
  <1>1. PICK l \in NextLink : /\ token' = [token EXCEPT ![e] = [link |-> l, expires |-> clock + TTL]]
                              /\ sent' \in {sent, sent \cup {l}}
    BY DEF Issue
  <1>2. l \in Links /\ ~(uses[l] > 0) /\ l \notin sent /\ \A f \in Employees : token[f].link # l
    BY <1>1 DEF NextLink, Issued
  <1>3. \A f \in Employees : token'[f].link = IF f = e THEN l ELSE token[f].link
    BY <1>1 DEF LinkInv, LinkDomains
  <1>4. LinkDomains' BY <1>1, <1>2 DEF LinkInv, LinkDomains
  <1>5. OwnLink' BY <1>2, <1>3 DEF LinkInv, OwnLink
  <1>6. FoundByLink'
    <2>1. \A r \in resets : r.link # l BY <1>2 DEF LinkInv, LinkDomains
    <2>2. QED BY <1>3, <2>1 DEF LinkInv, FoundByLink
  <1>7. SpentLinks' BY <1>2, <1>3 DEF LinkInv, SpentLinks
  <1>8. ContestedOnce' /\ LinkServesOnce' BY DEF LinkInv, ContestedOnce, LinkServesOnce
  <1>9. QED BY <1>4, <1>5, <1>6, <1>7, <1>8 DEF LinkInv

LEMMA FindLink ==
  ASSUME LinkInv, NEW k \in Slots, NEW p \in Servers, NEW e \in Employees, Find(k, p, e) PROVE LinkInv'
  <1> DEFINE l == token[e].link
  <1> DEFINE new == [slot |-> k, server |-> p, emp |-> e, link |-> l]
  <1>1. /\ l \in sent /\ resets' = resets \cup {new}
        /\ contested' = contested \cup {r.link : r \in {q \in resets : q.link = l}}
        /\ UNCHANGED <<token, sent, uses>>
    BY DEF Find
  <1>2. new.emp = e /\ new.link = l OBVIOUS
  <1>3. l \in Links /\ l # 0 BY <1>1, AccountAssumption DEF LinkInv, LinkDomains
  <1>4. uses[l] = 0 BY <1>3 DEF LinkInv, SpentLinks, LinkDomains
  <1>5. l \notin contested' => \A r \in resets : r.link # l BY <1>1
  <1> HIDE DEF new
  <1>6. LinkDomains' BY <1>1, <1>2 DEF LinkInv, LinkDomains
  <1>7. OwnLink' /\ SpentLinks' BY <1>1 DEF LinkInv, OwnLink, SpentLinks
  <1>8. FoundByLink'
    <2>1. \A f \in Employees : token[f].link = l => f = e BY <1>3 DEF LinkInv, OwnLink
    <2>2. QED BY <1>1, <1>2, <2>1 DEF LinkInv, FoundByLink
  <1>9. ContestedOnce'
    <2>1. SUFFICES ASSUME NEW r \in resets', NEW q \in resets', r.link \notin contested', r.link = q.link
                   PROVE  r = q /\ uses[r.link] = 0
      BY <1>1 DEF ContestedOnce
    <2>2. CASE r.link = l BY <1>1, <1>2, <1>4, <1>5, <2>1, <2>2
    <2>3. CASE r.link # l
      <3>1. r \in resets /\ q \in resets /\ r.link \notin contested BY <1>1, <1>2, <2>1, <2>3
      <3>2. QED BY <2>1, <3>1 DEF LinkInv, ContestedOnce
    <2>4. QED BY <2>2, <2>3
  <1>10. LinkServesOnce' BY <1>1 DEF LinkInv, LinkServesOnce
  <1>11. QED BY <1>6, <1>7, <1>8, <1>9, <1>10 DEF LinkInv

LEMMA SetLink == ASSUME LinkInv, NEW r \in resets, SetPassword(r) PROVE LinkInv'
  <1>1. /\ token' = [token EXCEPT ![r.emp] = NoToken] /\ resets' = resets \ {r}
        /\ uses' = [uses EXCEPT ![r.link] = @ + 1] /\ UNCHANGED <<sent, contested>>
    BY DEF SetPassword
  <1>2. r.emp \in Employees /\ r.link \in Links BY DEF LinkInv, LinkDomains
  <1>3. \A f \in Employees : token'[f].link = IF f = r.emp THEN 0 ELSE token[f].link
    BY <1>1 DEF LinkInv, LinkDomains, NoToken
  <1>4. \A l \in Links : uses'[l] = IF l = r.link THEN uses[l] + 1 ELSE uses[l] BY <1>1 DEF LinkInv, LinkDomains
  <1>5. LinkDomains' BY <1>1 DEF LinkInv, LinkDomains
  <1>6. OwnLink' BY <1>3 DEF LinkInv, OwnLink
  <1>7. FoundByLink'
    <2>1. \A q \in resets : q.link # 0 BY AccountAssumption DEF LinkInv, LinkDomains
    <2>2. QED BY <1>1, <1>3, <2>1 DEF LinkInv, FoundByLink
  <1>8. SpentLinks'
    <2>1. SUFFICES ASSUME NEW l \in Links, NEW e \in Employees, uses'[l] > 0 PROVE token'[e].link # l
      BY DEF SpentLinks
    <2>2. CASE e = r.emp BY <1>3, <2>2, AccountAssumption
    <2>3. CASE e # r.emp /\ l = r.link BY <1>3, <2>3 DEF LinkInv, FoundByLink
    <2>4. CASE e # r.emp /\ l # r.link BY <1>3, <1>4, <2>1, <2>4 DEF LinkInv, SpentLinks
    <2>5. QED BY <2>2, <2>3, <2>4
  <1>9. ContestedOnce'
    <2>1. SUFFICES ASSUME NEW a \in resets', NEW b \in resets', a.link \notin contested, a.link = b.link
                   PROVE  a = b /\ uses'[a.link] = 0
      BY <1>1 DEF ContestedOnce
    <2>2. a \in resets /\ b \in resets /\ a # r /\ a.link \in Links BY <1>1 DEF LinkInv, LinkDomains
    <2>3. a = b /\ uses[a.link] = 0 BY <2>1, <2>2 DEF LinkInv, ContestedOnce
    <2>4. a.link # r.link BY <2>1, <2>2 DEF LinkInv, ContestedOnce
    <2>5. QED BY <1>4, <2>2, <2>3, <2>4
  <1>10. LinkServesOnce'
    <2>1. SUFFICES ASSUME NEW l \in Links, l \notin contested PROVE uses'[l] <= 1
      BY <1>1 DEF LinkServesOnce
    <2>2. CASE l = r.link
      <3>1. uses[l] = 0 BY <2>1, <2>2 DEF LinkInv, ContestedOnce
      <3>2. QED BY <1>4, <2>2, <3>1
    <2>3. CASE l # r.link BY <1>4, <2>1, <2>3 DEF LinkInv, LinkServesOnce
    <2>4. QED BY <2>2, <2>3
  <1>11. QED BY <1>5, <1>6, <1>7, <1>8, <1>9, <1>10 DEF LinkInv

LEMMA StepLink == LinkInv /\ [AccStep]_<<empVars, accVars>> => LinkInv'
  <1>1. SUFFICES ASSUME LinkInv, [AccStep]_<<empVars, accVars>> PROVE LinkInv' OBVIOUS
  <1>2. CASE AccountNext
    <2>1. ASSUME NEW p \in Servers, NEW e \in Employees, ForgotPassword(p, e) PROVE LinkInv'
      <3>1. UNCHANGED <<resets, uses, contested>> BY <2>1 DEF ForgotPassword
      <3>2. CASE Issue(e) BY <1>1, <3>1, <3>2, IssueLink
      <3>3. CASE UNCHANGED <<token, sent>> BY <1>1, <3>1, <3>3, FewerRequests
      <3>4. QED BY <2>1, <3>2, <3>3 DEF ForgotPassword
    <2>2. ASSUME NEW p \in Servers, NEW e \in Employees, NEW k \in Slots, Find(k, p, e) PROVE LinkInv'
      BY <1>1, <2>2, FindLink
    <2>3. ASSUME NEW e \in Employees, ResetPassword(e) PROVE LinkInv'
      BY <1>1, <2>3, IssueLink DEF ResetPassword
    <2>4. ASSUME NEW r \in resets, SetPassword(r) PROVE LinkInv' BY <1>1, <2>4, SetLink
    <2>5. QED BY <1>2, <2>1, <2>2, <2>3, <2>4 DEF AccountNext
  <1>3. CASE UNCHANGED accVars BY <1>1, <1>3, FewerRequests DEF accVars
  <1>4. CASE \E p \in Servers : Forget(p) BY <1>1, <1>4, FewerRequests DEF Forget
  <1>5. QED BY <1>1, <1>2, <1>3, <1>4 DEF AccStep

\* "It expires in 1 hour and works once": however many links are mailed, late,
\* twice or out of order they are opened, and processes restart.
THEOREM WorksOnce == AccSpec => []LinkServesOnce
  <1>1. AccSpec => []LinkInv BY InitLink, StepLink, PTL DEF AccSpec
  <1>2. LinkInv => LinkServesOnce BY DEF LinkInv
  <1>3. QED BY <1>1, <1>2, PTL

-----------------------------------------------------------------------------
(***************************************************************************)
(* Account: the limiter. What it promises is about the attempts it let     *)
(* through; what it counts is its memory, which forgets. The strengthening *)
(* says that nothing of the present window is forgotten; the rest is about *)
(* sums.                                                                   *)
(***************************************************************************)

Counts == [Servers -> [Employees -> [Times -> Nat]]]
\* A process remembers every attempt of the window.
LimiterInv ==
  /\ clock \in Times
  /\ hits \in Counts /\ passed \in Counts
  /\ \A p \in Servers, e \in Employees, t \in Times :
       /\ t > clock => passed[p][e][t] = 0
       /\ t > clock - Window => hits[p][e][t] = passed[p][e][t]
  /\ AtMostLimit

LEMMA TotalIsSum == \A f : Total(f) = SumFunctionOnSet(f, DOMAIN f)
  BY DEF Total, FoldFunction, SumFunctionOnSet, FoldFunctionOnSet, MapThenFoldSet

LEMMA TimesFinite == IsFiniteSet(Times) /\ Times \subseteq Nat /\ Window \in Nat /\ Limit \in Nat
  <1>1. MaxClock \in Nat /\ 0 \in Int BY EmploymentAssumption
  <1>2. IsFiniteSet(0 .. MaxClock) BY <1>1, FS_Interval
  <1>3. QED BY <1>2, AccountAssumption DEF Times

LEMMA InitLimiter == EmpInit /\ AccInit => LimiterInv
  <1>1. SUFFICES ASSUME EmpInit, AccInit PROVE LimiterInv OBVIOUS
  <1>2. clock \in Times BY <1>1, EmploymentAssumption DEF EmpInit, Times
  <1>3. /\ hits \in Counts /\ passed = hits
        /\ \A p \in Servers, e \in Employees, t \in Times : passed[p][e][t] = 0
    BY <1>1 DEF AccInit, Counts, Never
  <1>4. AtMostLimit
    <2>1. SUFFICES ASSUME NEW p \in Servers, NEW e \in Employees, NEW w \in Times
                   PROVE  Total([t \in Times |-> IF t \in w - Window + 1 .. w THEN passed[p][e][t] ELSE 0]) <= Limit
      BY DEF AtMostLimit
    <2> DEFINE f == [t \in Times |-> IF t \in w - Window + 1 .. w THEN passed[p][e][t] ELSE 0]
    <2>2. \A t \in Times : f[t] = 0 BY <1>3
    <2>3. DOMAIN f = Times OBVIOUS
    <2> HIDE DEF f
    <2>4. SumFunctionOnSet(f, Times) = 0 BY <2>2, TimesFinite, SumZeros
    <2>5. Total(f) = 0 BY <2>3, <2>4, TotalIsSum
    <2>6. QED BY <2>5, TimesFinite DEF f
  <1>5. QED BY <1>2, <1>3, <1>4 DEF LimiterInv

\* Time passes, or nothing that counts happens.
LEMMA LaterLimiter ==
  ASSUME LimiterInv, UNCHANGED <<hits, passed>>, clock' \in {clock, clock + 1}, clock' \in Times PROVE LimiterInv'
  <1>1. \A p \in Servers, e \in Employees, t \in Times :
          /\ t > clock' => passed[p][e][t] = 0
          /\ t > clock' - Window => hits[p][e][t] = passed[p][e][t]
    BY TimesFinite DEF LimiterInv
  <1>2. AtMostLimit' BY DEF LimiterInv, AtMostLimit
  <1>3. QED BY <1>1, <1>2 DEF LimiterInv

\* An attempt is let through while the window it ends in has room; windows that
\* end later begin later, and hold no more yet.
LEMMA HitLimiter ==
  ASSUME LimiterInv, NEW p \in Servers, NEW e \in Employees, Hit(p, e), UNCHANGED clock PROVE LimiterInv'
  <1> DEFINE recent == Recent(p, e)
             g == [recent EXCEPT ![clock] = @ + 1]
  <1>1. /\ Total(recent) < Limit
        /\ hits' = [hits EXCEPT ![p][e] = g]
        /\ passed' = [passed EXCEPT ![p][e][clock] = @ + 1]
    BY DEF Hit, Admits
  <1>2. clock \in Times /\ clock \in Nat /\ Window \in Nat /\ Limit \in Nat BY TimesFinite DEF LimiterInv
  <1>3. hits \in Counts /\ passed \in Counts BY DEF LimiterInv
  <1>4. recent \in [Times -> Nat] /\ \A t \in Times : recent[t] = IF t > clock - Window THEN hits[p][e][t] ELSE 0
    BY <1>3 DEF Recent, Counts
  <1> HIDE DEF recent
  <1>5. g \in [Times -> Nat] /\ \A t \in Times : g[t] = IF t = clock THEN recent[t] + 1 ELSE recent[t]
    BY <1>2, <1>4
  <1> HIDE DEF g
  <1>6. hits' \in Counts /\ \A q \in Servers, f \in Employees : hits'[q][f] = IF q = p /\ f = e THEN g ELSE hits[q][f]
    BY <1>1, <1>3, <1>5 DEF Counts
  <1>7. /\ passed' \in Counts
        /\ \A q \in Servers, f \in Employees : q # p \/ f # e => passed'[q][f] = passed[q][f]
        /\ \A t \in Times : passed'[p][e][t] = IF t = clock THEN passed[p][e][t] + 1 ELSE passed[p][e][t]
    BY <1>1, <1>2, <1>3 DEF Counts
  <1>8. \A t \in Times : /\ t > clock => passed'[p][e][t] = 0
                         /\ t > clock - Window => g[t] = passed'[p][e][t]
    <2>1. TAKE t \in Times
    <2>2. t \in Nat /\ (t > clock => passed[p][e][t] = 0) /\ (t > clock - Window => hits[p][e][t] = passed[p][e][t])
      BY TimesFinite DEF LimiterInv
    <2>3. QED BY <1>2, <1>4, <1>5, <1>7, <2>2
  <1>9. \A q \in Servers, f \in Employees, t \in Times :
          /\ t > clock => passed'[q][f][t] = 0
          /\ t > clock - Window => hits'[q][f][t] = passed'[q][f][t]
    <2>1. SUFFICES ASSUME NEW q \in Servers, NEW f \in Employees, NEW t \in Times
                   PROVE  /\ t > clock => passed'[q][f][t] = 0
                          /\ t > clock - Window => hits'[q][f][t] = passed'[q][f][t]
      OBVIOUS
    <2>2. CASE q = p /\ f = e BY <1>6, <1>8, <2>2
    <2>3. CASE q # p \/ f # e
      <3>1. passed'[q][f] = passed[q][f] /\ hits'[q][f] = hits[q][f] BY <1>6, <1>7, <2>3
      <3>2. QED BY <3>1 DEF LimiterInv
    <2>4. QED BY <2>2, <2>3
  <1>10. SumFunctionOnSet(g, Times) <= Limit
    <2> DEFINE rest == Times \ {clock}
    <2>1. IsFiniteSet(rest) /\ \A t \in rest : g[t] = recent[t] BY <1>5, TimesFinite, FS_Subset
    <2>2. \A t \in Times : g[t] \in Int /\ recent[t] \in Int BY <1>4, <1>5
    <2>a. \A t \in Times : SumFunctionOnSet(g, Times) = g[t] + SumFunctionOnSet(g, Times \ {t})
      BY <2>2, TimesFinite, SumTakeOut
    <2>b. \A t \in Times : SumFunctionOnSet(recent, Times) = recent[t] + SumFunctionOnSet(recent, Times \ {t})
      BY <2>2, TimesFinite, SumTakeOut
    <2>3. SumFunctionOnSet(g, Times) = g[clock] + SumFunctionOnSet(g, rest) BY <1>2, <2>a, Zenon
    <2>4. SumFunctionOnSet(recent, Times) = recent[clock] + SumFunctionOnSet(recent, rest) BY <1>2, <2>b, Zenon
    <2> HIDE DEF rest
    <2>5. SumFunctionOnSet(g, rest) = SumFunctionOnSet(recent, rest) BY <2>1, SumSame
    <2>6. SumFunctionOnSet(recent, Times) < Limit
      <3>1. DOMAIN recent = Times BY <1>4
      <3>2. QED BY <3>1, <1>1, TotalIsSum
    <2>7. SumFunctionOnSet(recent, rest) \in Int
      <3>1. \A t \in rest : recent[t] \in Int BY <2>2 DEF rest
      <3>2. QED BY <2>1, <3>1, SumType
    <2>8. g[clock] = recent[clock] + 1 /\ recent[clock] \in Int BY <1>2, <1>5, <2>2
    <2>9. QED BY <1>2, <2>3, <2>4, <2>5, <2>6, <2>7, <2>8
  <1>11. AtMostLimit'
    <2>1. SUFFICES ASSUME NEW q \in Servers, NEW f \in Employees, NEW w \in Times
                   PROVE  Total([t \in Times |-> IF t \in w - Window + 1 .. w THEN passed'[q][f][t] ELSE 0]) <= Limit
      BY DEF AtMostLimit
    <2> DEFINE new == [t \in Times |-> IF t \in w - Window + 1 .. w THEN passed'[q][f][t] ELSE 0]
               old == [t \in Times |-> IF t \in w - Window + 1 .. w THEN passed[q][f][t] ELSE 0]
    <2>2. Total(old) <= Limit BY DEF LimiterInv, AtMostLimit
    <2>3. w \in Nat BY TimesFinite
    <2>4. CASE (q # p \/ f # e) \/ clock \notin w - Window + 1 .. w
      <3>1. ASSUME NEW t \in Times PROVE new[t] = old[t]
        <4>1. CASE q # p \/ f # e BY <1>7, <4>1
        <4>2. CASE q = p /\ f = e /\ clock \notin w - Window + 1 .. w
          <5>1. t \in w - Window + 1 .. w => t # clock BY <4>2
          <5>2. QED BY <1>7, <4>2, <5>1
        <4>3. QED BY <2>4, <4>1, <4>2
      <3>2. new = old
        <4>1. /\ new = [t \in Times |-> new[t]] /\ old = [t \in Times |-> old[t]] OBVIOUS
        <4> HIDE DEF new, old
        <4>2. QED BY <3>1, <4>1
      <3>3. QED BY <2>2, <3>2
    <2>5. CASE q = p /\ f = e /\ clock \in w - Window + 1 .. w
      <3>1. ASSUME NEW t \in Times PROVE new[t] \in Int /\ g[t] \in Int /\ new[t] <= g[t]
        <4>1. t \in Nat /\ g[t] \in Nat /\ passed'[p][e][t] \in Nat BY <1>5, <1>7, TimesFinite DEF Counts
        <4>2. CASE t \in w - Window + 1 .. w
          <5>1. new[t] = passed'[p][e][t] BY <2>5, <4>2
          <5>2. CASE t > clock
            <6>1. new[t] = 0 BY <5>1, <5>2, <1>8
            <6>2. QED BY <4>1, <6>1
          <5>3. CASE t <= clock
            <6>1. t > clock - Window BY <4>1, <4>2, <2>5, <1>2, <2>3
            <6>2. new[t] = g[t] BY <5>1, <6>1, <1>8
            <6>3. QED BY <4>1, <6>2
          <5>4. QED BY <5>2, <5>3, <4>1, <1>2
        <4>3. CASE t \notin w - Window + 1 .. w
          <5>1. new[t] = 0 BY <4>3
          <5>2. QED BY <4>1, <5>1
        <4>4. QED BY <4>2, <4>3
      <3>2. DOMAIN new = Times OBVIOUS
      <3> HIDE DEF new
      <3>3. SumFunctionOnSet(new, Times) <= SumFunctionOnSet(g, Times) BY <3>1, TimesFinite, SumLess
      <3>4. SumFunctionOnSet(new, Times) \in Int /\ SumFunctionOnSet(g, Times) \in Int
        BY <3>1, TimesFinite, SumType
      <3>5. SumFunctionOnSet(new, Times) <= Limit BY <1>2, <1>10, <3>3, <3>4
      <3>6. Total(new) <= Limit BY <3>2, <3>5, TotalIsSum
      <3>7. QED BY <3>6 DEF new
    <2>6. QED BY <2>4, <2>5
  <1>12. QED BY <1>2, <1>6, <1>7, <1>9, <1>11 DEF LimiterInv

\* A restarted process remembers nothing, and has let nothing through.
LEMMA ForgetLimiter == ASSUME LimiterInv, NEW p \in Servers, Forget(p), UNCHANGED clock PROVE LimiterInv'
  <1>1. /\ hits' = [hits EXCEPT ![p] = [e \in Employees |-> Never]]
        /\ passed' = [passed EXCEPT ![p] = [e \in Employees |-> Never]]
    BY DEF Forget
  <1>2. \A q \in Servers, e \in Employees :
          /\ hits'[q][e] = IF q = p THEN Never ELSE hits[q][e]
          /\ passed'[q][e] = IF q = p THEN Never ELSE passed[q][e]
    BY <1>1 DEF LimiterInv, Counts
  <1>3. Never \in [Times -> Nat] /\ \A t \in Times : Never[t] = 0 BY DEF Never
  <1>4. hits' \in Counts /\ passed' \in Counts BY <1>1, <1>3 DEF LimiterInv, Counts
  <1>5. AtMostLimit'
    <2>1. SUFFICES ASSUME NEW q \in Servers, NEW f \in Employees, NEW w \in Times
                   PROVE  Total([t \in Times |-> IF t \in w - Window + 1 .. w THEN passed'[q][f][t] ELSE 0]) <= Limit
      BY DEF AtMostLimit
    <2>2. CASE q # p
      <3>1. passed'[q][f] = passed[q][f] BY <1>2, <2>2
      <3>2. QED BY <3>1 DEF LimiterInv, AtMostLimit
    <2>3. CASE q = p
      <3> DEFINE new == [t \in Times |-> IF t \in w - Window + 1 .. w THEN passed'[q][f][t] ELSE 0]
      <3>1. \A t \in Times : new[t] = 0 BY <1>2, <1>3, <2>3
      <3>2. DOMAIN new = Times OBVIOUS
      <3> HIDE DEF new
      <3>3. SumFunctionOnSet(new, Times) = 0 BY <3>1, TimesFinite, SumZeros
      <3>4. Total(new) = 0 BY <3>2, <3>3, TotalIsSum
      <3>5. QED BY <3>4, TimesFinite DEF new
    <2>4. QED BY <2>2, <2>3
  <1>6. \A q \in Servers, f \in Employees, t \in Times :
          /\ t > clock => passed'[q][f][t] = 0
          /\ t > clock - Window => hits'[q][f][t] = passed'[q][f][t]
    <2>1. SUFFICES ASSUME NEW q \in Servers, NEW f \in Employees, NEW t \in Times
                   PROVE  /\ t > clock => passed'[q][f][t] = 0
                          /\ t > clock - Window => hits'[q][f][t] = passed'[q][f][t]
      OBVIOUS
    <2>2. CASE q = p BY <1>2, <1>3, <2>2
    <2>3. CASE q # p BY <1>2, <2>3 DEF LimiterInv
    <2>4. QED BY <2>2, <2>3
  <1>7. QED BY <1>4, <1>5, <1>6 DEF LimiterInv

LEMMA StepLimiter == LimiterInv /\ [AccStep]_<<empVars, accVars>> => LimiterInv'
  <1>1. SUFFICES ASSUME LimiterInv, [AccStep]_<<empVars, accVars>> PROVE LimiterInv' OBVIOUS
  <1>0. clock \in Times BY <1>1 DEF LimiterInv
  <1>2. CASE AccountNext /\ UNCHANGED empVars
    <2>0. UNCHANGED clock BY <1>2 DEF empVars
    <2>1. CASE \E p \in Servers, e \in Employees : ForgotPassword(p, e)
      BY <1>1, <2>0, <2>1, HitLimiter DEF ForgotPassword
    <2>2. CASE \/ \E p \in Servers, e \in Employees : \E k \in Slots : Find(k, p, e)
               \/ \E e \in Employees : ResetPassword(e)
               \/ \E r \in resets : SetPassword(r)
      <3>1. UNCHANGED <<hits, passed>> BY <2>2 DEF Find, ResetPassword, SetPassword
      <3>2. QED BY <1>1, <1>0, <2>0, <3>1, LaterLimiter
    <2>3. QED BY <1>2, <2>1, <2>2 DEF AccountNext
  <1>3. CASE (EditHistory \/ Visit) /\ UNCHANGED accVars
    <2>1. UNCHANGED clock
      <3>1. CASE EditHistory
        <4>1. CASE \E r \in Requests, p \in Servers, e \in Employees : Edit(r, p, e)
          BY <4>1 DEF Edit, AddStatus, UpdateStatus, DeleteStatus, Begin
        <4>2. CASE \E r \in Requests : Derive(r) \/ WriteStatus(r) BY <4>2 DEF Derive, WriteStatus
        <4>3. CASE \E e \in Employees, s \in Statuses : UpdateEmployee(e, s) BY <4>3 DEF UpdateEmployee
        <4>4. QED BY <3>1, <4>1, <4>2, <4>3 DEF EditHistory
      <3>2. CASE Visit BY <3>2 DEF Visit, LookUp, Login, Remember
      <3>3. QED BY <1>3, <3>1, <3>2
    <2>2. QED BY <1>0, <1>1, <1>3, <2>1, LaterLimiter DEF accVars
  <1>4. CASE Tick /\ UNCHANGED accVars
    <2>1. clock' = clock + 1 /\ clock' \in Times BY <1>0, <1>4, EmploymentAssumption DEF Tick, Times
    <2>2. QED BY <1>1, <1>4, <2>1, LaterLimiter DEF accVars
  <1>5. CASE \E p \in Servers : Restart(p) /\ Forget(p) BY <1>1, <1>5, ForgetLimiter DEF Restart
  <1>6. CASE UNCHANGED <<empVars, accVars>> BY <1>0, <1>1, <1>6, LaterLimiter DEF empVars, accVars
  <1>7. QED BY <1>1, <1>2, <1>3, <1>4, <1>5, <1>6 DEF AccStep

\* "5 requests per 15 minutes", in every window, wherever it starts, for as
\* long as a process runs; for any limit and window.
THEOREM NoMoreThanLimit == AccSpec => []AtMostLimit
  <1>1. AccSpec => []LimiterInv BY InitLimiter, StepLimiter, PTL DEF AccSpec
  <1>2. LimiterInv => AtMostLimit BY DEF LimiterInv
  <1>3. QED BY <1>1, <1>2, PTL

-----------------------------------------------------------------------------
(***************************************************************************)
(* Gratuity: paid once. A contract only one settlement is reading is still *)
(* unsettled, and nothing was added for it.                                *)
(***************************************************************************)

SettleDomains ==
  /\ settled = [c \in Contracts |-> settled[c]]
  /\ additions = [c \in Contracts |-> additions[c]]
  /\ job = [j \in Jobs |-> job[j]]
ReadUnsettled ==
  \A c \in Contracts \ overlapped, j \in Jobs : job[j].rows[c] # NoContract => settled[c] = Nothing
ReadAlone ==
  \A c \in Contracts \ overlapped, i, j \in Jobs :
    job[i].rows[c] # NoContract /\ job[j].rows[c] # NoContract => i = j
SettleInv == SettleDomains /\ ReadUnsettled /\ ReadAlone /\ GratuityPaidOnce

\* An idle settlement reads nothing.
LEMMA IdleReads == \A c \in Contracts : NoJob.rows[c] = NoContract
  BY DEF NoJob

LEMMA InitSettle == EmpInit /\ GraInit => SettleInv
  <1>1. SUFFICES ASSUME GraInit PROVE SettleInv OBVIOUS
  <1>2. /\ \A c \in Contracts : settled[c] = Nothing /\ additions[c] = <<>>
        /\ \A j \in Jobs : job[j] = NoJob
    BY <1>1 DEF GraInit
  <1>3. SettleDomains BY <1>1 DEF GraInit, SettleDomains
  <1>4. QED BY <1>2, <1>3, IdleReads DEF SettleInv, ReadUnsettled, ReadAlone, GratuityPaidOnce

\* Contracts, pay and status are none of the invariant's business.
LEMMA OtherSettle ==
  ASSUME SettleInv, UNCHANGED <<job, settled, additions, overlapped>> PROVE SettleInv'
  BY DEF SettleInv, SettleDomains, ReadUnsettled, ReadAlone, GratuityPaidOnce

LEMMA BeginSettle == ASSUME SettleInv, NEW j \in Jobs, NEW asOf \in Dates, SettleBegin(j, asOf) PROVE SettleInv'
  <1> DEFINE due == {c \in Contracts : settled[c] = Nothing /\ EarnsGratuity(contract[c])}
  <1> DEFINE new == [asOf |-> asOf, rows |-> [c \in Contracts |-> IF c \in due THEN contract[c] ELSE NoContract]]
  <1>1. /\ job[j] = NoJob /\ UNCHANGED <<settled, additions>>
        /\ job' = [job EXCEPT ![j] = new]
        /\ overlapped' = overlapped \cup {c \in due : Reading(c)}
    BY DEF SettleBegin
  <1>2. \A c \in Contracts : new.rows[c] # NoContract => c \in due OBVIOUS
  <1> HIDE DEF new
  <1>3. \A i \in Jobs : job'[i] = IF i = j THEN new ELSE job[i] BY <1>1 DEF SettleInv, SettleDomains
  <1>4. SettleDomains' BY <1>1 DEF SettleInv, SettleDomains
  <1>5. ReadUnsettled'
    <2>1. SUFFICES ASSUME NEW c \in Contracts, c \notin overlapped', NEW i \in Jobs, job'[i].rows[c] # NoContract
                   PROVE  settled[c] = Nothing
      BY <1>1 DEF ReadUnsettled
    <2>2. CASE i = j BY <2>1, <2>2, <1>2, <1>3
    <2>3. CASE i # j BY <2>1, <2>3, <1>1, <1>3 DEF SettleInv, ReadUnsettled
    <2>4. QED BY <2>2, <2>3
  <1>6. ReadAlone'
    <2>1. SUFFICES ASSUME NEW c \in Contracts, c \notin overlapped', NEW i \in Jobs, NEW k \in Jobs,
                          job'[i].rows[c] # NoContract, job'[k].rows[c] # NoContract, i # k
                   PROVE  FALSE
      BY DEF ReadAlone
    <2>2. c \notin overlapped BY <2>1, <1>1
    <2>3. CASE i # j /\ k # j BY <2>1, <2>2, <2>3, <1>3 DEF SettleInv, ReadAlone
    <2>4. CASE i = j
      <3>1. job[k].rows[c] # NoContract BY <2>1, <2>4, <1>3
      <3>2. c \in due BY <2>1, <2>4, <1>2, <1>3
      <3>3. Reading(c) BY <3>1 DEF Reading
      <3>4. QED BY <3>2, <3>3, <2>1, <1>1
    <2>5. CASE k = j
      <3>1. job[i].rows[c] # NoContract BY <2>1, <2>5, <1>3
      <3>2. c \in due BY <2>1, <2>5, <1>2, <1>3
      <3>3. Reading(c) BY <3>1 DEF Reading
      <3>4. QED BY <3>2, <3>3, <2>1, <1>1
    <2>6. QED BY <2>3, <2>4, <2>5
  <1>7. GratuityPaidOnce' BY <1>1 DEF SettleInv, GratuityPaidOnce
  <1>8. QED BY <1>4, <1>5, <1>6, <1>7 DEF SettleInv

LEMMA EndSettle == ASSUME SettleInv, NEW j \in Jobs, SettleEnd(j) PROVE SettleInv'
  <1> DEFINE k(c) == job[j].rows[c]
  <1> DEFINE figure(c) == IF k(c) # NoContract /\ Due(k(c), job[j].asOf) THEN GratuityFor(k(c), job[j].asOf) ELSE Nothing
  <1>1. /\ additions' = [c \in Contracts |->
             IF figure(c) = Nothing THEN additions[c] ELSE Append(additions[c], figure(c))]
        /\ settled' = [c \in Contracts |-> IF settled[c] = Nothing THEN figure(c) ELSE settled[c]]
        /\ job' = [job EXCEPT ![j] = NoJob]
        /\ UNCHANGED overlapped
    BY DEF SettleEnd
  <1>2. \A c \in Contracts : k(c) = NoContract => figure(c) = Nothing OBVIOUS
  <1>3. \A i \in Jobs : job'[i] = IF i = j THEN NoJob ELSE job[i] BY <1>1 DEF SettleInv, SettleDomains
  <1> HIDE DEF figure
  <1>4. SettleDomains' BY <1>1 DEF SettleInv, SettleDomains
  <1>5. ReadUnsettled'
    <2>1. SUFFICES ASSUME NEW c \in Contracts, c \notin overlapped, NEW i \in Jobs, job'[i].rows[c] # NoContract
                   PROVE  settled'[c] = Nothing
      BY <1>1 DEF ReadUnsettled
    <2>2. i # j /\ job[i].rows[c] # NoContract BY <2>1, <1>3, IdleReads
    <2>3. k(c) = NoContract BY <2>1, <2>2 DEF SettleInv, ReadAlone
    <2>4. settled[c] = Nothing BY <2>1, <2>2 DEF SettleInv, ReadUnsettled
    <2>5. QED BY <2>3, <2>4, <1>1, <1>2
  <1>6. ReadAlone' BY <1>1, <1>3, IdleReads DEF SettleInv, ReadAlone
  <1>7. GratuityPaidOnce'
    <2>1. SUFFICES ASSUME NEW c \in Contracts, c \notin overlapped
                   PROVE  additions'[c] = IF settled'[c] = Nothing THEN <<>> ELSE <<settled'[c]>>
      BY <1>1 DEF GratuityPaidOnce
    <2>2. additions[c] = IF settled[c] = Nothing THEN <<>> ELSE <<settled[c]>>
      BY <2>1 DEF SettleInv, GratuityPaidOnce
    <2>3. CASE figure(c) = Nothing BY <2>2, <2>3, <1>1
    <2>4. CASE figure(c) # Nothing
      <3>1. settled[c] = Nothing BY <2>1, <2>4, <1>2 DEF SettleInv, ReadUnsettled
      <3>2. additions'[c] = Append(<<>>, figure(c)) /\ settled'[c] = figure(c) BY <1>1, <2>2, <2>4, <3>1
      <3>3. Append(<<>>, figure(c)) = <<figure(c)>> OBVIOUS
      <3>4. QED BY <2>4, <3>2, <3>3
    <2>5. QED BY <2>3, <2>4
  <1>8. QED BY <1>4, <1>5, <1>6, <1>7 DEF SettleInv

LEMMA AbortSettle == ASSUME SettleInv, NEW j \in Jobs, SettleAbort(j) PROVE SettleInv'
  <1>1. job' = [job EXCEPT ![j] = NoJob] /\ UNCHANGED <<settled, additions, overlapped>> BY DEF SettleAbort
  <1>2. \A i \in Jobs : job'[i] = IF i = j THEN NoJob ELSE job[i] BY <1>1 DEF SettleInv, SettleDomains
  <1>3. SettleDomains' BY <1>1 DEF SettleInv, SettleDomains
  <1>4. ReadUnsettled' BY <1>1, <1>2, IdleReads DEF SettleInv, ReadUnsettled
  <1>5. ReadAlone' BY <1>1, <1>2, IdleReads DEF SettleInv, ReadAlone
  <1>6. GratuityPaidOnce' BY <1>1 DEF SettleInv, GratuityPaidOnce
  <1>7. QED BY <1>3, <1>4, <1>5, <1>6 DEF SettleInv

LEMMA StepSettle == SettleInv /\ [GraStep]_<<empVars, graVars>> => SettleInv'
  <1>1. SUFFICES ASSUME SettleInv, [GraStep]_<<empVars, graVars>> PROVE SettleInv' OBVIOUS
  <1>2. CASE GraNext
    <2>1. CASE \E c \in Contracts, start, end \in Dates, r \in Rates \cup {0} :
                 \/ \E e \in Employees : AddContract(c, e, start, end, r)
                 \/ UpdateContract(c, start, end, r)
      BY <1>1, <2>1, OtherSettle DEF AddContract, UpdateContract
    <2>2. CASE \E c \in Contracts : RemoveContract(c) BY <1>1, <2>2, OtherSettle DEF RemoveContract
    <2>3. CASE \E e \in Employees, d, to \in Dates, b \in Pays \cup {0} : SetPay(e, d, to, b)
      BY <1>1, <2>3, OtherSettle DEF SetPay
    <2>4. CASE \E j \in Jobs : (\E asOf \in Dates : SettleBegin(j, asOf)) \/ SettleEnd(j) \/ SettleAbort(j)
      BY <1>1, <2>4, BeginSettle, EndSettle, AbortSettle
    <2>5. QED BY <1>2, <2>1, <2>2, <2>3, <2>4 DEF GraNext
  <1>3. CASE EmpNext /\ Follow BY <1>1, <1>3, OtherSettle DEF Follow
  <1>4. CASE UNCHANGED <<empVars, graVars>> BY <1>1, <1>4, OtherSettle DEF graVars
  <1>5. QED BY <1>1, <1>2, <1>3, <1>4 DEF GraStep

\* However often and by whatever overlapping runs and reports gratuities are
\* settled, and whatever is edited meanwhile: a contract's is added to payroll
\* once, unless two settlements had both read it as unsettled.
THEOREM PaidOnce == GraSpec => []GratuityPaidOnce
  <1>1. GraSpec => []SettleInv BY InitSettle, StepSettle, PTL DEF GraSpec
  <1>2. SettleInv => GratuityPaidOnce BY DEF SettleInv
  <1>3. QED BY <1>1, <1>2, PTL

-----------------------------------------------------------------------------
(***************************************************************************)
(* Gratuity: the figure. A contract a settlement has read is the contract  *)
(* of now unless it was revised, its employee's histories are as they were *)
(* when it was settled, and days served are the interval Worked counts.    *)
(***************************************************************************)

ContractRows == [emp : Employees, start : Dates, end : Dates, rate : Nat]
PayDates(e) == {x \in Dates : pay[e][x] # 0}
RecordTypes ==
  /\ contract \in [Contracts -> ContractRows \cup {NoContract}]
  /\ pay \in [Employees -> [Dates -> Nat]]
  /\ \A e \in Employees : IsFiniteSet(PayDates(e))
  /\ job = [j \in Jobs |-> job[j]] /\ \A j \in Jobs : job[j].asOf \in Nat
  /\ settled = [c \in Contracts |-> settled[c]]
\* What a settlement has read is the contract of now.
ReadCurrent ==
  \A c \in Contracts \ revised, j \in Jobs : job[j].rows[c] # NoContract => contract[c] = job[j].rows[c]
OwedInv == StatusInv /\ RecordTypes /\ ReadCurrent /\ GratuityAsDue

\* What is settled for one contract, given the histories of its employee.
RightFor(c) ==
  /\ contract[c] # NoContract
  /\ CameBack(contract[c]) \/
       /\ Worked(contract[c]) # {}
       /\ settled[c].free + settled[c].taxable = Owed(contract[c])
       /\ settled[c].free <= Statutory * MonthlyBasic(contract[c].emp, LastOf(Worked(contract[c])))
                                       * Cardinality(Worked(contract[c]))

LEMMA AsDueIsRightFor == GratuityAsDue <=> \A c \in Contracts \ revised : settled[c] # Nothing => RightFor(c)
  BY DEF GratuityAsDue, RightFor

-----------------------------------------------------------------------------
\* The basic pay of a day is a number.
LEMMA MonthlyBasicNat ==
  ASSUME RecordTypes, NEW e \in Employees, NEW d PROVE MonthlyBasic(e, d) \in Nat
  <1> DEFINE rows == {x \in Dates : pay[e][x] # 0}
             past == {x \in rows : x <= d}
  <1>1. IsFiniteSet(rows) /\ rows \subseteq Dates BY DEF RecordTypes, PayDates
  <1>2. past \in SUBSET Dates /\ IsFiniteSet(past) BY <1>1, FS_Subset
  <1>3. \A x \in Dates : pay[e][x] \in Nat BY DEF RecordTypes
  <1>4. MonthlyBasic(e, d) = IF past # {} THEN pay[e][LastOf(past)] ELSE IF rows # {} THEN pay[e][LastOf(rows)] ELSE 0
    BY DEF MonthlyBasic
  <1> HIDE DEF rows, past
  <1>5. past # {} => LastOf(past) \in Dates BY <1>2, LastIsLast
  <1>6. rows # {} => LastOf(rows) \in Dates BY <1>1, LastIsLast
  <1>7. QED BY <1>3, <1>4, <1>5, <1>6

\* What is owed for a contract depends on the histories of its employee alone.
LEMMA SameHistories ==
  ASSUME NEW k, history'[k.emp] = history[k.emp], pay'[k.emp] = pay[k.emp]
  PROVE  /\ Worked(k)' = Worked(k) /\ Owed(k)' = Owed(k) /\ CameBack(k)' = CameBack(k)
         /\ \A d : MonthlyBasic(k.emp, d)' = MonthlyBasic(k.emp, d)
  <1>0. Entries(k.emp)' = Entries(k.emp) BY DEF Entries
  <1>1. \A d : Employed(k.emp, d)' = Employed(k.emp, d) BY <1>0 DEF Employed
  <1>2. Worked(k)' = Worked(k) /\ CameBack(k)' = CameBack(k) BY <1>0, <1>1 DEF Worked, CameBack
  <1>3. \A d : MonthlyBasic(k.emp, d)' = MonthlyBasic(k.emp, d) BY DEF MonthlyBasic
  <1>4. Owed(k)' = Owed(k) BY <1>2, <1>3 DEF Owed
  <1>5. QED BY <1>2, <1>3, <1>4

LEMMA SameRight ==
  ASSUME NEW c \in Contracts, contract'[c] = contract[c], settled'[c] = settled[c], RightFor(c),
         history'[contract[c].emp] = history[contract[c].emp], pay'[contract[c].emp] = pay[contract[c].emp]
  PROVE  RightFor(c)'
  <1> DEFINE k == contract[c]
  <1>1. /\ Worked(k)' = Worked(k) /\ Owed(k)' = Owed(k) /\ CameBack(k)' = CameBack(k)
        /\ \A d : MonthlyBasic(k.emp, d)' = MonthlyBasic(k.emp, d)
    BY SameHistories
  <1>2. k' = k OBVIOUS
  <1> HIDE DEF k
  <1>3. QED BY <1>1, <1>2 DEF RightFor, k

\* At most one last day.
LEMMA OneLastDay ==
  ASSUME StatusInv, NEW e \in Employees
  PROVE  \/ LastDays(e) = {}
         \/ \E l \in Int : LastDays(e) = {l}
  <1>1. IsFiniteSet(Entries(e)) /\ Entries(e) \in SUBSET Dates BY DEF StatusInv, HistoryTypes, Entries
  <1>2. CASE Latest(e) = "ALUMNI"
    <2>1. Entries(e) # {} BY <1>2 DEF Latest
    <2>2. LastOf(Entries(e)) \in Dates BY <1>1, <2>1, LastIsLast
    <2>a. \A d \in Dates : d - 1 \in Int BY EmploymentAssumption
    <2>3. LastOf(Entries(e)) - 1 \in Int BY <2>2, <2>a
    <2>4. QED BY <1>2, <2>3 DEF LastDays
  <1>3. CASE Latest(e) # "ALUMNI" BY <1>3 DEF LastDays
  <1>4. QED BY <1>2, <1>3

LEMMA Product == \A a, b, c \in Nat : a * (b * c) \in Nat /\ a * (b * c) = a * b * c
  OBVIOUS
LEMMA LessProduct == \A a, b, c \in Nat : a <= b => a * c <= b * c
  <1>1. SUFFICES ASSUME NEW a \in Nat, NEW b \in Nat, NEW c \in Nat, a <= b PROVE a * c <= b * c OBVIOUS
  <1>2. (b - a) * c >= 0 BY <1>1
  <1>3. (b - a) * c = b * c - a * c OBVIOUS
  <1>4. QED BY <1>2, <1>3

\* Unless the employee came back, the days worked are those before the last entry,
\* if by that the employee left.
LEMMA WorkedToTheLast ==
  ASSUME StatusInv, NEW k \in ContractRows, ~CameBack(k)
  PROVE  Worked(k) = {d \in k.start .. k.end : \A l \in LastDays(k.emp) : d <= l}
  <1> DEFINE e == k.emp
             last == LastOf(Entries(e))
  <1>1. k.start \in Nat /\ k.end \in Nat /\ e \in Employees BY EmploymentAssumption DEF ContractRows
  <1>2. SUFFICES ASSUME NEW d \in k.start .. k.end PROVE Employed(e, d) <=> \A l \in LastDays(e) : d <= l
    BY DEF Worked
  <1>3. d \in Int BY <1>1
  <1>4. IsFiniteSet(Entries(e)) /\ Entries(e) \in SUBSET Dates BY <1>1 DEF StatusInv, HistoryTypes, Entries
  <1>5. CASE Entries(e) = {} BY <1>5 DEF Employed, LastDays, Latest
  <1>6. CASE Entries(e) # {}
    <2>1. last \in Entries(e) /\ \A x \in Entries(e) : x <= last BY <1>4, <1>6, LastIsLast
    <2>2. last \in Nat /\ \A x \in Entries(e) : x \in Nat BY <1>4, <2>1, EmploymentAssumption
    <2>3. LastDays(e) = IF history[e][last] = "ALUMNI" THEN {last - 1} ELSE {} BY <1>6 DEF LastDays, Latest
    <2> HIDE DEF last
    <2>4. CASE last <= d
      <3>a. \A x \in Entries(e) : x <= d
        <4>1. SUFFICES ASSUME NEW x \in Entries(e) PROVE x <= d OBVIOUS
        <4>2. x \in Int /\ last \in Int /\ d \in Int BY <1>3, <2>2
        <4>3. x <= last /\ last <= d BY <2>1, <2>4
        <4>4. QED BY <4>2, <4>3
      <3>1. {x \in Entries(e) : x <= d} = Entries(e) BY <3>a
      <3>2. Employed(e, d) <=> history[e][last] # "ALUMNI" BY <1>6, <3>1 DEF Employed, last
      <3>3. ~(d <= last - 1) BY <1>3, <2>2, <2>4
      <3>4. QED BY <2>3, <3>2, <3>3
    <2>5. CASE ~(last <= d)
      <3>1. d < last /\ d <= last - 1 BY <1>3, <2>2, <2>5
      <3>2. Employed(e, d) BY <2>1, <3>1 DEF CameBack, Worked
      <3>3. QED BY <2>3, <3>1, <3>2
    <2>6. QED BY <2>4, <2>5
  <1>7. QED BY <1>5, <1>6

\* The days a settlement that is due counts are those worked.
LEMMA ServedIsWorked ==
  ASSUME StatusInv, NEW k \in ContractRows, NEW asOf \in Nat, Due(k, asOf), ~CameBack(k)
  PROVE  LET to == ServedTo(k, asOf)
         IN to \in Int /\ Worked(k) = k.start .. to
  <1> DEFINE to == ServedTo(k, asOf)
             days == {asOf, k.end} \cup LastDays(k.emp)
  <1>1. k.start \in Nat /\ k.end \in Nat /\ k.emp \in Employees BY EmploymentAssumption DEF ContractRows
  <1>2. CASE LastDays(k.emp) = {}
    <2>1. k.end <= asOf BY <1>2 DEF Due
    <2>2. k.end \in days /\ \A x \in days : k.end <= x BY <1>1, <1>2, <2>1
    <2>3. \A d \in days : (\A x \in days : d <= x) => d = k.end BY <1>1, <1>2, <2>2
    <2>4. to = k.end BY <2>2, <2>3 DEF ServedTo
    <2>5. Worked(k) = k.start .. k.end BY <1>1, <1>2, WorkedToTheLast
    <2>6. QED BY <1>1, <2>4, <2>5
  <1>3. CASE \E l \in Int : LastDays(k.emp) = {l}
    <2>1. PICK l \in Int : LastDays(k.emp) = {l} BY <1>3
    <2>2. k.end <= asOf \/ l < asOf BY <2>1 DEF Due
    <2> DEFINE m == IF l <= k.end THEN l ELSE k.end
    <2>3. m \in days /\ m \in Int /\ \A x \in days : m <= x BY <1>1, <2>1, <2>2
    <2>4. \A d \in days : (\A x \in days : d <= x) => d = m BY <1>1, <2>1, <2>3
    <2>5. to = m
      <3> HIDE DEF m
      <3>1. QED BY <2>3, <2>4 DEF ServedTo
    <2>6. Worked(k) = {d \in k.start .. k.end : d <= l} BY <2>1, WorkedToTheLast
    <2>7. {d \in k.start .. k.end : d <= l} = k.start .. m BY <1>1, <2>1
    <2>8. QED BY <2>3, <2>5, <2>6, <2>7
  <1>4. QED BY <1>1, <1>2, <1>3, OneLastDay

\* What a settlement that is due works out, unless it is nothing, is what is owed.
LEMMA FigureIsOwed ==
  ASSUME StatusInv, RecordTypes, NEW k \in ContractRows, NEW asOf \in Nat, Due(k, asOf),
         GratuityFor(k, asOf) # Nothing, ~CameBack(k)
  PROVE  LET g == GratuityFor(k, asOf)
         IN /\ Worked(k) # {}
            /\ g.free + g.taxable = Owed(k)
            /\ g.free <= Statutory * MonthlyBasic(k.emp, LastOf(Worked(k))) * Cardinality(Worked(k))
  <1> DEFINE to == ServedTo(k, asOf)
             basic == MonthlyBasic(k.emp, to)
             months == MonthsServed(k.start, to)
             base == basic * months
             free == Smaller(k.rate, Statutory) * base
             g == GratuityFor(k, asOf)
  <1>1. to \in Int /\ Worked(k) = k.start .. to BY ServedIsWorked
  <1>2. k.start \in Nat /\ k.rate \in Nat /\ k.emp \in Employees /\ Statutory \in Nat
    BY EmploymentAssumption, GratuityAssumption DEF ContractRows
  <1>3. basic \in Nat BY <1>2, MonthlyBasicNat
  <1>4. g = [free |-> free, taxable |-> k.rate * base - free] BY DEF GratuityFor
  <1>5. to >= k.start
    <2>1. SUFFICES ASSUME to < k.start PROVE FALSE BY <1>1, <1>2
    <2>2. months = 0 BY <2>1 DEF MonthsServed
    <2> HIDE DEF to, basic, months
    <2>3. base = 0 BY <1>3, <2>2
    <2> HIDE DEF base
    <2>4. Smaller(k.rate, Statutory) \in Nat BY <1>2 DEF Smaller
    <2>5. free = 0 /\ k.rate * base - free = 0 BY <1>2, <2>3, <2>4
    <2>6. QED BY <1>4, <2>5 DEF Nothing
  <1>6. months = to - k.start + 1 /\ months \in Nat BY <1>1, <1>2, <1>5 DEF MonthsServed
  <1>7. Cardinality(Worked(k)) = months /\ IsFiniteSet(Worked(k)) /\ Worked(k) # {} /\ to \in Worked(k)
    <2>1. k.start \in Int /\ ~(k.start > to) BY <1>1, <1>2, <1>5
    <2>2. IsFiniteSet(k.start .. to) /\ Cardinality(k.start .. to) = to - k.start + 1
      <3> HIDE DEF to
      <3>1. QED BY <1>1, <2>1, FS_Interval
    <2>3. to \in k.start .. to BY <1>1, <1>2, <1>5
    <2>4. QED BY <1>1, <1>6, <2>2, <2>3
  <1>8. LastOf(Worked(k)) = to
    <2>1. \A d \in Worked(k) : d \in Int /\ d <= to BY <1>1
    <2>2. \A d \in Worked(k) : (\A c \in Worked(k) : c <= d) => d = to BY <1>1, <1>7, <2>1
    <2>3. QED BY <1>7, <2>1, <2>2 DEF LastOf
  <1> HIDE DEF to, basic, months
  <1>9. base \in Nat BY <1>3, <1>6
  <1>10. Smaller(k.rate, Statutory) \in Nat /\ Smaller(k.rate, Statutory) <= Statutory BY <1>2 DEF Smaller
  <1>11. free \in Nat /\ free <= Statutory * base
    <2> HIDE DEF base
    <2>1. QED BY <1>2, <1>9, <1>10, LessProduct
  <1>12. k.rate * base \in Nat /\ k.rate * base = k.rate * basic * months BY <1>2, <1>3, <1>6, Product
  <1>13. Statutory * base = Statutory * basic * months BY <1>2, <1>3, <1>6, Product
  <1>14. Owed(k) = k.rate * basic * months BY <1>7, <1>8 DEF Owed, basic
  <1>15. g.free = free /\ g.taxable = k.rate * base - free BY <1>4
  <1>16. g.free + g.taxable = Owed(k)
    <2> HIDE DEF free, base
    <2>1. QED BY <1>11, <1>12, <1>14, <1>15
  <1>17. g.free <= Statutory * MonthlyBasic(k.emp, LastOf(Worked(k))) * Cardinality(Worked(k))
    <2>1. Statutory * MonthlyBasic(k.emp, LastOf(Worked(k))) * Cardinality(Worked(k)) = Statutory * basic * months
      BY <1>7, <1>8 DEF basic
    <2>2. QED BY <1>11, <1>13, <1>15, <2>1
  <1>18. QED BY <1>7, <1>16, <1>17

-----------------------------------------------------------------------------
LEMMA InitOwed == EmpInit /\ GraInit => OwedInv
  <1>1. SUFFICES ASSUME EmpInit, GraInit PROVE OwedInv OBVIOUS
  <1>2. /\ contract = [c \in Contracts |-> NoContract] /\ pay = [e \in Employees |-> [d \in Dates |-> 0]]
        /\ job = [j \in Jobs |-> NoJob] /\ settled = [c \in Contracts |-> Nothing]
    BY <1>1 DEF GraInit
  <1>3. \A e \in Employees : PayDates(e) = {} BY <1>2 DEF PayDates
  <1>4. NoJob.asOf = 0 /\ \A c \in Contracts : NoJob.rows[c] = NoContract BY DEF NoJob
  <1>5. RecordTypes BY <1>2, <1>3, <1>4, FS_EmptySet DEF RecordTypes
  <1>6. ReadCurrent BY <1>2, <1>4 DEF ReadCurrent
  <1>7. GratuityAsDue BY <1>2 DEF GratuityAsDue
  <1>8. StatusInv BY <1>1, InitStatus
  <1>9. QED BY <1>5, <1>6, <1>7, <1>8 DEF OwedInv

\* A contract nobody holds is written.
LEMMA ContractOwed ==
  ASSUME OwedInv, StatusInv', NEW c \in Contracts, NEW k \in ContractRows \cup {NoContract},
         contract' = [contract EXCEPT ![c] = k], settled[c] = Nothing, c \in revised' \/ ~Reading(c),
         revised \subseteq revised', UNCHANGED <<pay, job, settled, history>>
  PROVE  OwedInv'
  <1>1. \A b \in Contracts : contract'[b] = IF b = c THEN k ELSE contract[b] BY DEF OwedInv, RecordTypes
  <1>2. contract' \in [Contracts -> ContractRows \cup {NoContract}] BY DEF OwedInv, RecordTypes
  <1>3. RecordTypes' BY <1>2 DEF OwedInv, RecordTypes, PayDates
  <1>4. ReadCurrent'
    <2>1. SUFFICES ASSUME NEW b \in Contracts, b \notin revised', NEW j \in Jobs, job[j].rows[b] # NoContract
                   PROVE  contract'[b] = job[j].rows[b]
      BY DEF ReadCurrent
    <2>2. b # c BY <2>1 DEF Reading
    <2>3. QED BY <1>1, <2>1, <2>2 DEF OwedInv, ReadCurrent
  <1>5. ASSUME NEW b \in Contracts, b \notin revised', settled'[b] # Nothing PROVE RightFor(b)'
    <2>1. b # c /\ b \notin revised /\ settled[b] # Nothing BY <1>5
    <2>2. RightFor(b) BY <2>1, AsDueIsRightFor DEF OwedInv
    <2>3. contract'[b] = contract[b] BY <1>1, <2>1
    <2>4. QED BY <2>2, <2>3, SameRight
  <1>6. GratuityAsDue' BY <1>5 DEF GratuityAsDue, RightFor
  <1>7. QED BY <1>3, <1>4, <1>6 DEF OwedInv

\* Histories change: the contracts held of an employee whose history is another
\* are revised.
LEMMA HistoriesOwed ==
  ASSUME OwedInv, StatusInv', UNCHANGED <<contract, job, settled>>, revised \subseteq revised',
         pay' \in [Employees -> [Dates -> Nat]], \A e \in Employees : IsFiniteSet(PayDates(e)'),
         \A e \in Employees : history'[e] # history[e] \/ pay'[e] # pay[e] => HeldOf(e) \subseteq revised'
  PROVE  OwedInv'
  <1>1. RecordTypes' BY DEF OwedInv, RecordTypes
  <1>2. ReadCurrent' BY DEF OwedInv, ReadCurrent
  <1>3. ASSUME NEW b \in Contracts, b \notin revised', settled'[b] # Nothing PROVE RightFor(b)'
    <2>1. b \notin revised /\ settled[b] # Nothing BY <1>3
    <2>2. RightFor(b) BY <2>1, AsDueIsRightFor DEF OwedInv
    <2>3. contract[b] \in ContractRows BY <2>2 DEF OwedInv, RecordTypes, RightFor
    <2>4. contract[b].emp \in Employees BY <2>3 DEF ContractRows
    <2>5. b \in HeldOf(contract[b].emp) BY <2>1 DEF HeldOf, Held
    <2>6. history'[contract[b].emp] = history[contract[b].emp] /\ pay'[contract[b].emp] = pay[contract[b].emp]
      BY <1>3, <2>4, <2>5
    <2>7. QED BY <2>2, <2>6, SameRight
  <1>4. GratuityAsDue' BY <1>3 DEF GratuityAsDue, RightFor
  <1>5. QED BY <1>1, <1>2, <1>4 DEF OwedInv

LEMMA SetPayOwed ==
  ASSUME OwedInv, StatusInv', NEW e \in Employees, NEW d \in Dates, NEW to \in Dates, NEW b \in Pays \cup {0},
         SetPay(e, d, to, b), UNCHANGED history
  PROVE  OwedInv'
  <1>1. /\ pay' = [pay EXCEPT ![e][d] = 0, ![e][to] = b] /\ revised' = revised \cup HeldOf(e)
        /\ UNCHANGED <<contract, job, settled>>
    BY DEF SetPay
  <1>2. pay \in [Employees -> [Dates -> Nat]] /\ b \in Nat BY GratuityAssumption DEF OwedInv, RecordTypes
  <1>3. pay' \in [Employees -> [Dates -> Nat]] BY <1>1, <1>2
  <1>4. \A f \in Employees : f # e => pay'[f] = pay[f] BY <1>1, <1>2
  <1>5. \A x \in Dates : x # to => pay'[e][x] \in {0, pay[e][x]} BY <1>1, <1>2
  <1>6. ASSUME NEW f \in Employees PROVE IsFiniteSet(PayDates(f)')
    <2>1. IsFiniteSet(PayDates(f)) BY DEF OwedInv, RecordTypes
    <2>2. CASE f # e BY <1>4, <2>1, <2>2 DEF PayDates
    <2>3. CASE f = e
      <3>1. PayDates(e)' \subseteq PayDates(e) \cup {to} BY <1>5 DEF PayDates
      <3>2. IsFiniteSet(PayDates(e) \cup {to}) BY <2>1, <2>3, FS_AddElement
      <3>3. QED BY <2>3, <3>1, <3>2, FS_Subset
    <2>4. QED BY <2>2, <2>3
  <1>7. QED BY <1>1, <1>3, <1>4, <1>6, HistoriesOwed

LEMMA JobOwed ==
  ASSUME OwedInv, StatusInv', NEW j \in Jobs, NEW new, job' = [job EXCEPT ![j] = new], new.asOf \in Nat,
         \A c \in Contracts : new.rows[c] # NoContract => new.rows[c] = contract[c],
         UNCHANGED <<contract, pay, settled, revised, history>>
  PROVE  OwedInv'
  <1>1. \A i \in Jobs : job'[i] = IF i = j THEN new ELSE job[i] BY DEF OwedInv, RecordTypes
  <1>2. job' = [i \in Jobs |-> job'[i]] BY DEF OwedInv, RecordTypes
  <1>3. RecordTypes' BY <1>1, <1>2 DEF OwedInv, RecordTypes, PayDates
  <1>4. ReadCurrent' BY <1>1 DEF OwedInv, ReadCurrent
  <1>5. ASSUME NEW b \in Contracts, b \notin revised', settled'[b] # Nothing PROVE RightFor(b)'
    <2>1. RightFor(b) BY <1>5, AsDueIsRightFor DEF OwedInv
    <2>2. QED BY <2>1, SameRight
  <1>6. GratuityAsDue' BY <1>5 DEF GratuityAsDue, RightFor
  <1>7. QED BY <1>3, <1>4, <1>6 DEF OwedInv

LEMMA SettleEndOwed ==
  ASSUME OwedInv, StatusInv', NEW j \in Jobs, SettleEnd(j), UNCHANGED history PROVE OwedInv'
  <1> DEFINE k(c) == job[j].rows[c]
             figure(c) == IF k(c) # NoContract /\ Due(k(c), job[j].asOf) THEN GratuityFor(k(c), job[j].asOf) ELSE Nothing
  <1>1. /\ settled' = [c \in Contracts |-> IF settled[c] = Nothing THEN figure(c) ELSE settled[c]]
        /\ job' = [job EXCEPT ![j] = NoJob]
        /\ UNCHANGED <<contract, pay, revised>>
    BY DEF SettleEnd
  <1>2. \A i \in Jobs : job'[i] = IF i = j THEN NoJob ELSE job[i] BY <1>1 DEF OwedInv, RecordTypes
  <1>3. NoJob.asOf = 0 /\ \A c \in Contracts : NoJob.rows[c] = NoContract BY DEF NoJob
  <1>4. RecordTypes'
    <2>1. job' = [i \in Jobs |-> job'[i]] BY <1>1 DEF OwedInv, RecordTypes
    <2>2. settled' = [c \in Contracts |-> settled'[c]] BY <1>1
    <2>3. QED BY <1>1, <1>2, <1>3, <2>1, <2>2 DEF OwedInv, RecordTypes, PayDates
  <1>5. ReadCurrent' BY <1>1, <1>2, <1>3 DEF OwedInv, ReadCurrent
  <1>6. ASSUME NEW c \in Contracts, c \notin revised', settled'[c] # Nothing PROVE RightFor(c)'
    <2>1. CASE settled[c] # Nothing
      <3>1. settled'[c] = settled[c] BY <1>1, <2>1
      <3>2. RightFor(c) BY <1>1, <1>6, <2>1, AsDueIsRightFor DEF OwedInv
      <3>3. QED BY <1>1, <3>1, <3>2, SameRight
    <2>2. CASE settled[c] = Nothing
      <3>1. settled'[c] = figure(c) /\ figure(c) # Nothing BY <1>1, <1>6, <2>2
      <3>2. k(c) # NoContract /\ Due(k(c), job[j].asOf) /\ settled'[c] = GratuityFor(k(c), job[j].asOf)
        BY <3>1
      <3>3. contract[c] = k(c) BY <1>1, <1>6, <3>2 DEF OwedInv, ReadCurrent
      <3>4. k(c) \in ContractRows /\ job[j].asOf \in Nat BY <3>2, <3>3 DEF OwedInv, RecordTypes
      <3> DEFINE K == contract[c]
                 g == settled'[c]
      <3> HIDE DEF figure, k
      <3>5. CameBack(K) \/
              /\ Worked(K) # {} /\ g.free + g.taxable = Owed(K)
              /\ g.free <= Statutory * MonthlyBasic(K.emp, LastOf(Worked(K))) * Cardinality(Worked(K))
        BY <3>1, <3>2, <3>3, <3>4, FigureIsOwed DEF OwedInv
      <3>6. /\ Worked(K)' = Worked(K) /\ Owed(K)' = Owed(K) /\ CameBack(K)' = CameBack(K)
            /\ \A d : MonthlyBasic(K.emp, d)' = MonthlyBasic(K.emp, d)
        BY <1>1, SameHistories
      <3>7. K' = K /\ K # NoContract BY <1>1, <3>2, <3>3
      <3> HIDE DEF K
      <3>8. QED BY <3>5, <3>6, <3>7 DEF RightFor, K
    <2>3. QED BY <2>1, <2>2
  <1>7. GratuityAsDue' BY <1>6 DEF GratuityAsDue, RightFor
  <1>8. QED BY <1>4, <1>5, <1>7 DEF OwedInv

LEMMA StepOwed == OwedInv /\ [GraStep]_<<empVars, graVars>> => OwedInv'
  <1>1. SUFFICES ASSUME OwedInv, [GraStep]_<<empVars, graVars>> PROVE OwedInv' OBVIOUS
  <1>0. StatusInv'
    <2>1. [EmpNext]_empVars BY <1>1 DEF GraStep
    <2>2. QED BY <1>1, <2>1, StepStatus DEF OwedInv
  <1>2. CASE GraNext /\ UNCHANGED empVars
    <2>0. UNCHANGED history BY <1>2 DEF empVars
    <2>a. ASSUME NEW start \in Dates, NEW end \in Dates, NEW r \in Rates \cup {0}, NEW q \in Allowed(start, end, r)
          PROVE  q \in Nat
      BY <2>a, GratuityAssumption DEF Allowed
    <2>1. ASSUME NEW c \in Contracts, NEW start \in Dates, NEW end \in Dates, NEW r \in Rates \cup {0},
                 NEW e \in Employees, AddContract(c, e, start, end, r)
          PROVE  OwedInv'
      <3>1. PICK q \in Allowed(start, end, r) :
              contract' = [contract EXCEPT ![c] = [emp |-> e, start |-> start, end |-> end, rate |-> q]]
        BY <2>1 DEF AddContract
      <3>2. [emp |-> e, start |-> start, end |-> end, rate |-> q] \in ContractRows BY <2>a, <3>1 DEF ContractRows
      <3>3. settled[c] = Nothing /\ ~Reading(c) /\ UNCHANGED <<pay, job, settled, revised>>
        BY <2>1 DEF AddContract, Held
      <3>4. QED BY <1>0, <1>1, <2>0, <3>1, <3>2, <3>3, ContractOwed
    <2>2. ASSUME NEW c \in Contracts, NEW start \in Dates, NEW end \in Dates, NEW r \in Rates \cup {0},
                 UpdateContract(c, start, end, r)
          PROVE  OwedInv'
      <3> DEFINE new(q) == [contract[c] EXCEPT !.start = start, !.end = end, !.rate = q]
      <3>1. PICK q \in Allowed(start, end, r) : contract' = [contract EXCEPT ![c] = new(q)]
        BY <2>2 DEF UpdateContract, OwedInv, RecordTypes
      <3>2. contract[c] \in ContractRows BY <1>1, <2>2 DEF UpdateContract, OwedInv, RecordTypes
      <3>3. new(q) \in ContractRows BY <2>a, <3>1, <3>2 DEF ContractRows
      <3>4. /\ settled[c] = Nothing /\ UNCHANGED <<pay, job, settled>>
            /\ revised' = IF Reading(c) THEN revised \cup {c} ELSE revised
        BY <2>2 DEF UpdateContract
      <3> HIDE DEF new
      <3>5. QED BY <1>0, <1>1, <2>0, <3>1, <3>3, <3>4, ContractOwed
    <2>3. ASSUME NEW c \in Contracts, RemoveContract(c) PROVE OwedInv'
      <3>1. /\ contract' = [contract EXCEPT ![c] = NoContract]
            /\ settled[c] = Nothing /\ UNCHANGED <<pay, job, settled>>
            /\ revised' = IF Reading(c) THEN revised \cup {c} ELSE revised
        BY <2>3 DEF RemoveContract
      <3>2. QED BY <1>0, <1>1, <2>0, <3>1, ContractOwed
    <2>4. ASSUME NEW e \in Employees, NEW d \in Dates, NEW to \in Dates, NEW b \in Pays \cup {0}, SetPay(e, d, to, b)
          PROVE  OwedInv'
      BY <1>0, <1>1, <2>0, <2>4, SetPayOwed
    <2>5. ASSUME NEW j \in Jobs, NEW asOf \in Dates, SettleBegin(j, asOf) PROVE OwedInv'
      <3> DEFINE due == {c \in Contracts : settled[c] = Nothing /\ EarnsGratuity(contract[c])}
                 new == [asOf |-> asOf, rows |-> [c \in Contracts |-> IF c \in due THEN contract[c] ELSE NoContract]]
      <3>1. job' = [job EXCEPT ![j] = new] /\ UNCHANGED <<contract, pay, settled, revised>> BY <2>5 DEF SettleBegin
      <3>2. new.asOf \in Nat /\ \A c \in Contracts : new.rows[c] # NoContract => new.rows[c] = contract[c]
        BY GratuityAssumption
      <3> HIDE DEF new
      <3>3. QED BY <1>0, <1>1, <2>0, <3>1, <3>2, JobOwed
    <2>6. ASSUME NEW j \in Jobs, SettleEnd(j) PROVE OwedInv' BY <1>0, <1>1, <2>0, <2>6, SettleEndOwed
    <2>7. ASSUME NEW j \in Jobs, SettleAbort(j) PROVE OwedInv'
      <3>1. job' = [job EXCEPT ![j] = NoJob] /\ UNCHANGED <<contract, pay, settled, revised>> BY <2>7 DEF SettleAbort
      <3>2. NoJob.asOf \in Nat /\ \A c \in Contracts : NoJob.rows[c] # NoContract => NoJob.rows[c] = contract[c]
        BY DEF NoJob
      <3>3. QED BY <1>0, <1>1, <2>0, <3>1, <3>2, JobOwed
    <2>8. QED BY <1>2, <2>1, <2>2, <2>3, <2>4, <2>5, <2>6, <2>7 DEF GraNext
  <1>3. CASE EmpNext /\ Follow
    <2>1. /\ revised' = revised \cup UNION {HeldOf(e) : e \in {x \in Employees : history[x] # history'[x]}}
          /\ UNCHANGED <<contract, pay, job, settled>>
      BY <1>3 DEF Follow
    <2>2. \A e \in Employees : history'[e] # history[e] => HeldOf(e) \subseteq revised' BY <2>1
    <2>3. pay' \in [Employees -> [Dates -> Nat]] /\ \A e \in Employees : IsFiniteSet(PayDates(e)')
      BY <1>1, <2>1 DEF OwedInv, RecordTypes, PayDates
    <2>4. QED BY <1>0, <1>1, <2>1, <2>2, <2>3, HistoriesOwed
  <1>4. CASE UNCHANGED <<empVars, graVars>>
    <2>1. UNCHANGED <<contract, pay, job, settled, revised, history>> BY <1>4 DEF empVars, graVars
    <2>2. pay' \in [Employees -> [Dates -> Nat]] /\ \A e \in Employees : IsFiniteSet(PayDates(e)')
      BY <1>1, <2>1 DEF OwedInv, RecordTypes, PayDates
    <2>3. QED BY <1>0, <1>1, <2>1, <2>2, HistoriesOwed
  <1>5. QED BY <1>1, <1>2, <1>3, <1>4 DEF GraStep

\* A contract is settled at what it earned, whenever the settlement comes and
\* however late: at the basic pay of the last day worked, for the days worked,
\* and free of tax up to the statutory rate; unless the record was changed after
\* the settlement had read it, or the employee came back.
THEOREM SettledAsDue == GraSpec => []GratuityAsDue
  <1>1. GraSpec => []OwedInv BY InitOwed, StepOwed, PTL DEF GraSpec
  <1>2. OwedInv => GratuityAsDue BY DEF OwedInv
  <1>3. QED BY <1>1, <1>2, PTL

-----------------------------------------------------------------------------
(***************************************************************************)
(* CalendarDates: years are added to any date but a leap day by adding     *)
(* 10000, so the cycles of an anniversary tile the calendar.               *)
(***************************************************************************)

IsDate(d) ==
  d \in Nat /\ Month(d) \in 1 .. 12 /\ Day(d) \in 1 .. DaysInMonth(Year(d), Month(d))
LeapDay(d) == Month(d) = 2 /\ Day(d) = 29
Anniversary(n) == serviceStart + 10000 * n
WalkInv ==
  /\ serviceStart \in Starts /\ IsDate(date) /\ serviceStart <= date
  /\ cycle = AnniversaryCycle(serviceStart, date)

-----------------------------------------------------------------------------
(* Dates as numbers                                                        *)

LEMMA MonthLengths == \A y \in Nat, m \in 1 .. 12 : DaysInMonth(y, m) \in 28 .. 31
  BY DEF DaysInMonth

\* The parts of a date and the date they make.
LEMMA Parts ==
  ASSUME NEW y \in Nat, NEW m \in 0 .. 99, NEW k \in 0 .. 99
  PROVE  Of(y, m, k) \in Nat /\ Year(Of(y, m, k)) = y /\ Month(Of(y, m, k)) = m /\ Day(Of(y, m, k)) = k
  <1> DEFINE d == 10000 * y + 100 * m + k
  <1>1. d \in Nat OBVIOUS
  <1>2. d \div 10000 = y OBVIOUS
  <1>3. d \div 100 = 100 * y + m OBVIOUS
  <1>4. (100 * y + m) % 100 = m OBVIOUS
  <1>5. d % 100 = k
    <2>1. d = 100 * (100 * y + m) + k OBVIOUS
    <2>2. \A q \in Nat, r \in 0 .. 99 : (100 * q + r) % 100 = r OBVIOUS
    <2>3. 100 * y + m \in Nat OBVIOUS
    <2> HIDE DEF d
    <2>4. QED BY <2>1, <2>2, <2>3
  <1>6. Of(y, m, k) = d BY DEF Of
  <1> HIDE DEF d
  <1>7. QED BY <1>1, <1>2, <1>3, <1>4, <1>5, <1>6 DEF Year, Month, Day

\* Parts that are in range make a date.
LEMMA MadeDate ==
  ASSUME NEW y \in Nat, NEW m \in 1 .. 12, NEW k \in 1 .. DaysInMonth(y, m)
  PROVE  IsDate(Of(y, m, k))
  <1>1. DaysInMonth(y, m) \in 28 .. 31 BY MonthLengths
  <1>2. m \in 0 .. 99 /\ k \in 0 .. 99 BY <1>1
  <1>3. Of(y, m, k) \in Nat /\ Year(Of(y, m, k)) = y /\ Month(Of(y, m, k)) = m /\ Day(Of(y, m, k)) = k
    BY <1>2, Parts
  <1>4. QED BY <1>3 DEF IsDate

LEMMA Whole ==
  ASSUME NEW d \in Nat
  PROVE  /\ d = Of(Year(d), Month(d), Day(d)) /\ Year(d) \in Nat
         /\ Month(d) \in 0 .. 99 /\ Day(d) \in 0 .. 99
  BY DEF Of, Year, Month, Day

LEMMA NextDayLater ==
  ASSUME NEW d, IsDate(d) PROVE IsDate(NextDay(d)) /\ d < NextDay(d) /\ NextDay(d) < d + 10000
  <1> DEFINE y == Year(d)
             m == Month(d)
             k == Day(d)
  <1>1. d \in Nat /\ m \in 1 .. 12 /\ k \in 1 .. DaysInMonth(y, m) BY DEF IsDate
  <1>2. d = Of(y, m, k) /\ y \in Nat BY <1>1, Whole
  <1>3. \A z \in Nat, n \in 1 .. 12 : DaysInMonth(z, n) \in 28 .. 31 BY MonthLengths
  <1> HIDE DEF y, m, k
  <1>4. DaysInMonth(y, m) \in 28 .. 31 BY <1>1, <1>2, <1>3
  <1>5. CASE k < DaysInMonth(y, m)
    <2>1. NextDay(d) = Of(y, m, k + 1)
      <3>1. NextDay(d) = d + 1 BY <1>5 DEF NextDay, y, m, k
      <3>2. QED BY <1>1, <1>2, <1>4, <3>1 DEF Of
    <2>2. k + 1 \in 1 .. DaysInMonth(y, m) BY <1>1, <1>4, <1>5
    <2>3. IsDate(Of(y, m, k + 1)) BY <1>1, <1>2, <2>2, MadeDate
    <2>4. d < Of(y, m, k + 1) /\ Of(y, m, k + 1) < d + 10000 BY <1>1, <1>2, <1>4 DEF Of
    <2>5. QED BY <2>1, <2>3, <2>4
  <1>6. CASE ~(k < DaysInMonth(y, m)) /\ m < 12
    <2>1. NextDay(d) = Of(y, m + 1, 1) BY <1>6 DEF NextDay, y, m, k
    <2>2. m + 1 \in 1 .. 12 BY <1>1, <1>6
    <2>3. 1 \in 1 .. DaysInMonth(y, m + 1) BY <1>2, <1>3, <2>2
    <2>4. IsDate(Of(y, m + 1, 1)) BY <1>2, <2>2, <2>3, MadeDate
    <2>5. d < Of(y, m + 1, 1) /\ Of(y, m + 1, 1) < d + 10000 BY <1>1, <1>2, <1>4 DEF Of
    <2>6. QED BY <2>1, <2>4, <2>5
  <1>7. CASE ~(k < DaysInMonth(y, m)) /\ ~(m < 12)
    <2>1. NextDay(d) = Of(y + 1, 1, 1) BY <1>7 DEF NextDay, y, m, k
    <2>2. y + 1 \in Nat /\ 1 \in 1 .. 12 BY <1>2
    <2>3. 1 \in 1 .. DaysInMonth(y + 1, 1) BY <1>3, <2>2
    <2>4. IsDate(Of(y + 1, 1, 1)) BY <2>2, <2>3, MadeDate
    <2>5. d < Of(y + 1, 1, 1) /\ Of(y + 1, 1, 1) < d + 10000 BY <1>1, <1>2, <1>4, <1>7 DEF Of
    <2>6. QED BY <2>1, <2>4, <2>5
  <1>8. QED BY <1>5, <1>6, <1>7

\* Years are added to any date but a leap day without clamping.
LEMMA AddYearsIs ==
  ASSUME NEW s, IsDate(s), ~LeapDay(s), NEW n \in Nat
  PROVE  AddYears(s, n) = s + 10000 * n /\ IsDate(s + 10000 * n)
  <1> DEFINE y == Year(s)
             m == Month(s)
             k == Day(s)
  <1>1. s \in Nat /\ m \in 1 .. 12 /\ k \in 1 .. DaysInMonth(y, m) /\ ~(m = 2 /\ k = 29) BY DEF IsDate, LeapDay
  <1>2. s = Of(y, m, k) /\ y \in Nat BY <1>1, Whole
  <1> HIDE DEF y, m, k
  <1>3. k \in 1 .. DaysInMonth(y + n, m) /\ k \in 0 .. 99
    <2>1. m = 2 => k <= 28 BY <1>1, <1>2 DEF DaysInMonth
    <2>2. QED BY <1>1, <1>2, <2>1 DEF DaysInMonth
  <1>4. 12 * y + m - 1 + 12 * n = 12 * (y + n) + (m - 1) BY <1>1, <1>2
  <1>5. (12 * (y + n) + (m - 1)) \div 12 = y + n /\ (12 * (y + n) + (m - 1)) % 12 = m - 1 BY <1>1, <1>2
  <1>6. (m - 1) + 1 = m BY <1>1
  <1>7. AddYears(s, n) = Of(y + n, m, k)
    <2>1. AddYears(s, n) =
            LET months == 12 * y + m - 1 + 12 * n
                z == months \div 12
                q == (months % 12) + 1
            IN Of(z, q, IF k <= DaysInMonth(z, q) THEN k ELSE DaysInMonth(z, q))
      BY DEF AddYears, AddMonths, y, m, k
    <2>2. k <= DaysInMonth(y + n, m) BY <1>3
    <2>3. QED BY <1>4, <1>5, <1>6, <2>1, <2>2
  <1>8. Of(y + n, m, k) = s + 10000 * n BY <1>1, <1>2, <1>3 DEF Of
  <1>9. IsDate(Of(y + n, m, k))
    <2>1. y + n \in Nat BY <1>1, <1>2
    <2>2. QED BY <1>1, <1>3, <2>1, MadeDate
  <1>10. QED BY <1>7, <1>8, <1>9

-----------------------------------------------------------------------------
(* Cycles                                                                  *)

\* The years of full months between two dates.
Years(s, d) == FullMonthsBetween(s, d) \div 12
LEMMA YearsBetween ==
  ASSUME NEW s, NEW d, IsDate(s), IsDate(d), s <= d
  PROVE  Years(s, d) \in Nat /\ s + 10000 * Years(s, d) <= d /\ d < s + 10000 * (Years(s, d) + 1)
  <1> DEFINE y == Year(s)
             m == Month(s)
             k == Day(s)
             z == Year(d)
             n == Month(d)
             l == Day(d)
             b == IF l < k THEN 1 ELSE 0
             months == 12 * (z - y) + n - m - b
  <1>1. /\ s \in Nat /\ m \in 1 .. 12 /\ k \in 1 .. 31
        /\ d \in Nat /\ n \in 1 .. 12 /\ l \in 1 .. 31
    <2>1. s \in Nat /\ m \in 1 .. 12 /\ k \in 1 .. DaysInMonth(y, m) BY DEF IsDate
    <2>2. d \in Nat /\ n \in 1 .. 12 /\ l \in 1 .. DaysInMonth(z, n) BY DEF IsDate
    <2>3. y \in Nat /\ z \in Nat BY <2>1, <2>2, Whole
    <2> HIDE DEF y, m, k, z, n, l
    <2>4. DaysInMonth(y, m) \in 28 .. 31 /\ DaysInMonth(z, n) \in 28 .. 31 BY <2>1, <2>2, <2>3, MonthLengths
    <2>5. QED BY <2>1, <2>2, <2>4
  <1>2. s = 10000 * y + 100 * m + k /\ y \in Nat /\ d = 10000 * z + 100 * n + l /\ z \in Nat
    BY <1>1, Whole DEF Of
  <1>3. FullMonthsBetween(s, d) = IF d < s \/ months < 0 THEN 0 ELSE months BY DEF FullMonthsBetween
  <1> HIDE DEF y, m, k, z, n, l
  <1>4. months >= 0 /\ months \in Nat BY <1>1, <1>2
  <1>5. FullMonthsBetween(s, d) = months BY <1>1, <1>3, <1>4
  <1>6. CASE n - m - b >= 0
    <2>1. months = 12 * (z - y) + (n - m - b) /\ n - m - b \in 0 .. 11 /\ z - y \in Nat BY <1>1, <1>2, <1>4, <1>6
    <2>2. months \div 12 = z - y
      <3>1. \A q \in Nat, r \in 0 .. 11 : (12 * q + r) \div 12 = q OBVIOUS
      <3> HIDE DEF months, b
      <3>2. QED BY <2>1, <3>1
    <2>3. Years(s, d) = z - y BY <1>5, <2>2 DEF Years
    <2>4. QED BY <1>1, <1>2, <1>6, <2>1, <2>3
  <1>7. CASE n - m - b < 0
    <2>1. months = 12 * (z - y - 1) + (12 + n - m - b) /\ 12 + n - m - b \in 0 .. 11 /\ z - y - 1 \in Nat
      BY <1>1, <1>2, <1>4, <1>7
    <2>2. months \div 12 = z - y - 1
      <3>1. \A q \in Nat, r \in 0 .. 11 : (12 * q + r) \div 12 = q OBVIOUS
      <3> HIDE DEF months, b
      <3>2. QED BY <2>1, <3>1
    <2>3. Years(s, d) = z - y - 1 BY <1>5, <2>2 DEF Years
    <2>4. QED BY <1>1, <1>2, <1>7, <2>1, <2>3
  <1>8. QED BY <1>1, <1>6, <1>7

LEMMA CycleIs ==
  ASSUME NEW s, NEW d, IsDate(s), IsDate(d), ~LeapDay(s), s <= d, NEW n \in Nat,
         s + 10000 * n <= d, d < s + 10000 * (n + 1)
  PROVE  AnniversaryCycle(s, d) = [start |-> s + 10000 * n, end |-> s + 10000 * (n + 1)]
  <1>1. /\ Years(s, d) \in Nat /\ s + 10000 * Years(s, d) <= d /\ d < s + 10000 * (Years(s, d) + 1)
    BY YearsBetween
  <1>2. s \in Nat /\ d \in Nat BY DEF IsDate
  <1>3. Years(s, d) = n BY <1>1, <1>2
  <1>4. AddYears(s, n) = s + 10000 * n /\ AddYears(s, n + 1) = s + 10000 * (n + 1) BY AddYearsIs
  <1>5. AnniversaryCycle(s, d) = [start |-> AddYears(s, Years(s, d)), end |-> AddYears(s, Years(s, d) + 1)]
    BY DEF AnniversaryCycle, Years
  <1>6. QED BY <1>3, <1>4, <1>5

-----------------------------------------------------------------------------
\* Every day of service is in one cycle, the one cyclesBetween has come to, for
\* every first day of service but a 29th of February.
THEOREM CyclesMissNoDay ==
  ASSUME \A s \in Starts : IsDate(s) /\ ~LeapDay(s)
  PROVE  DatesSpec => []AnniversaryCycles
  <1>1. DatesInit => WalkInv
    <2>1. SUFFICES ASSUME DatesInit PROVE WalkInv OBVIOUS
    <2>2. date \in Starts BY <2>1 DEF DatesInit
    <2>3. IsDate(date) /\ date \in Nat BY <2>2 DEF IsDate
    <2>4. QED BY <2>1, <2>3 DEF DatesInit, WalkInv
  <1>2. WalkInv /\ [Walk]_dateVars => WalkInv'
    <2>1. SUFFICES ASSUME WalkInv, [Walk]_dateVars PROVE WalkInv' OBVIOUS
    <2>2. CASE UNCHANGED dateVars BY <2>1, <2>2 DEF dateVars, WalkInv
    <2>3. CASE Walk
      <3> DEFINE s == serviceStart
                 d == NextDay(date)
                 n == Years(s, date)
      <3>1. IsDate(s) /\ ~LeapDay(s) /\ IsDate(date) /\ s <= date BY <2>1 DEF WalkInv
      <3>2. s \in Nat /\ date \in Nat BY <3>1 DEF IsDate
      <3>3. n \in Nat /\ s + 10000 * n <= date /\ date < s + 10000 * (n + 1) BY <3>1, YearsBetween
      <3>4. cycle = [start |-> s + 10000 * n, end |-> s + 10000 * (n + 1)] BY <2>1, <3>1, <3>3, CycleIs DEF WalkInv
      <3>5. IsDate(d) /\ date < d /\ d < date + 10000 BY <3>1, NextDayLater
      <3>6. d \in Nat BY <3>5 DEF IsDate
      <3>7. /\ date' = d /\ serviceStart' = s
            /\ cycle' = IF cycle.end <= d THEN AnniversaryCycle(s, cycle.end) ELSE cycle
        BY <2>3 DEF Walk
      <3> HIDE DEF d, n
      <3>8. s <= d BY <3>1, <3>2, <3>5, <3>6
      <3>9. CASE cycle.end <= d
        <4> DEFINE e == s + 10000 * (n + 1)
        <4>1. cycle.end = e BY <3>4
        <4>3. e \in Nat /\ s <= e /\ n + 1 \in Nat BY <3>2, <3>3
        <4>2. IsDate(e) BY <3>1, <4>3, AddYearsIs
        <4>4. e < s + 10000 * ((n + 1) + 1) BY <3>2, <3>3
        <4>5. e <= d /\ d < s + 10000 * ((n + 1) + 1) BY <3>2, <3>3, <3>5, <3>6, <3>9, <4>1
        <4>6. AnniversaryCycle(s, d) = [start |-> e, end |-> s + 10000 * ((n + 1) + 1)]
          BY <3>1, <3>5, <3>8, <4>3, <4>5, CycleIs
        <4>7. AnniversaryCycle(s, e) = [start |-> e, end |-> s + 10000 * ((n + 1) + 1)]
          BY <3>1, <4>2, <4>3, <4>4, CycleIs
        <4>8. QED BY <2>1, <3>5, <3>7, <3>8, <3>9, <4>1, <4>6, <4>7 DEF WalkInv
      <3>10. CASE ~(cycle.end <= d)
        <4>1. s + 10000 * n <= d /\ d < s + 10000 * (n + 1) BY <3>2, <3>3, <3>4, <3>5, <3>6, <3>10
        <4>2. AnniversaryCycle(s, d) = cycle BY <3>1, <3>3, <3>4, <3>5, <3>8, <4>1, CycleIs
        <4>3. QED BY <2>1, <3>5, <3>7, <3>8, <3>10, <4>2 DEF WalkInv
      <3>11. QED BY <3>9, <3>10
    <2>4. QED BY <2>1, <2>2, <2>3
  <1>3. WalkInv => AnniversaryCycles
    <2>1. SUFFICES ASSUME WalkInv PROVE AnniversaryCycles OBVIOUS
    <2> DEFINE s == serviceStart
               n == Years(s, date)
    <2>2. IsDate(s) /\ ~LeapDay(s) /\ IsDate(date) /\ s <= date BY <2>1 DEF WalkInv
    <2>3. n \in Nat /\ s + 10000 * n <= date /\ date < s + 10000 * (n + 1) BY <2>2, YearsBetween
    <2>4. cycle = [start |-> s + 10000 * n, end |-> s + 10000 * (n + 1)] BY <2>1, <2>2, <2>3, CycleIs DEF WalkInv
    <2>5. cycle.start <= date /\ date < cycle.end
      <3> HIDE DEF n
      <3>1. QED BY <2>3, <2>4
    <2>6. QED BY <2>1, <2>5 DEF AnniversaryCycles, CycleContains, WalkInv
  <1>4. QED BY <1>1, <1>2, <1>3, PTL DEF DatesSpec

-----------------------------------------------------------------------------
(***************************************************************************)
(* Types. What the invariants above leave open: that times are within the  *)
(* clock, that an edit is at one of its steps, that links are links; and   *)
(* that no contract has more additions than there are settlements, for     *)
(* which those that still read a settled contract are counted.             *)
(***************************************************************************)

Edits == {"idle", "derive", "write"}
EditTyped(r) == edit[r].step \in Edits /\ edit[r].status \in Statuses \cup {"NONE"}

\* An edit takes a step, others may be overtaken.
LEMMA EditsTyped ==
  ASSUME StatusInv, EmploymentTyped, EditHistory \/ \E p \in Servers : Restart(p)
  PROVE  \A r \in Requests : EditTyped(r)'
  <1>0. /\ edit = [r \in Requests |-> edit[r]]
        /\ \A r \in Requests : EditTyped(r)
    BY DEF StatusInv, HistoryTypes, EmploymentTyped, EditTyped, Edits
  <1>i. Idle.step \in Edits /\ Idle.status \in Statuses \cup {"NONE"} BY DEF Idle, Edits
  <1>1. ASSUME NEW r \in Requests, NEW p \in Servers, NEW e \in Employees, Edit(r, p, e)
        PROVE  \A q \in Requests : EditTyped(q)'
    <2>1. \E step \in Edits, s \in Statuses \cup {"NONE"} : \E rows, sound : Begin(r, p, e, rows, step, s, sound)
      <3>1. CASE \E d \in Dates, s \in Statuses : AddStatus(r, p, e, d, s)
        BY <3>1, Zenon DEF AddStatus, Edits
      <3>2. CASE \E d, to \in Dates, s \in Statuses : UpdateStatus(r, p, e, d, to, s)
        BY <3>2, Zenon DEF UpdateStatus, Edits
      <3>3. CASE \E d \in Dates : DeleteStatus(r, p, e, d)
        BY <3>3, Zenon DEF DeleteStatus, Edits
      <3>4. QED BY <1>1, <3>1, <3>2, <3>3 DEF Edit
    <2>2. PICK step \in Edits, s \in Statuses \cup {"NONE"} : \E rows, sound : Begin(r, p, e, rows, step, s, sound)
      BY <2>1, Zenon
    <2>3. PICK mark : edit' = [q \in Requests |->
            IF q = r THEN [emp |-> e, server |-> p, step |-> step, status |-> s, sound |-> mark]
            ELSE IF edit[q].emp = e THEN [edit[q] EXCEPT !.sound = FALSE] ELSE edit[q]]
      BY <2>2 DEF Begin
    <2>4. QED BY <2>3, <1>0 DEF EditTyped
  <1>2. ASSUME NEW r \in Requests, Derive(r) PROVE \A q \in Requests : EditTyped(q)'
    <2>1. InProgress(r) /\ edit[r].emp \in Employees BY <1>2 DEF Derive, InProgress, StatusInv, HistoryTypes
    <2>2. Latest(edit[r].emp) \in Statuses \cup {"NONE"} BY <2>1, LatestIsStatus DEF Latest
    <2>3. edit' = [edit EXCEPT ![r].step = "write", ![r].status = Latest(edit[r].emp)] BY <1>2 DEF Derive
    <2>4. QED BY <2>2, <2>3, <1>0 DEF EditTyped, Edits
  <1>3. ASSUME NEW r \in Requests, WriteStatus(r) PROVE \A q \in Requests : EditTyped(q)'
    BY <1>3, <1>0, <1>i DEF WriteStatus, EditTyped
  <1>4. ASSUME NEW e \in Employees, NEW s \in Statuses, UpdateEmployee(e, s) PROVE \A q \in Requests : EditTyped(q)'
    BY <1>4, <1>0 DEF UpdateEmployee, EditTyped
  <1>5. ASSUME NEW p \in Servers, Restart(p) PROVE \A q \in Requests : EditTyped(q)'
    BY <1>5, <1>0, <1>i DEF Restart, EditTyped
  <1>6. QED BY <1>1, <1>2, <1>3, <1>4, <1>5 DEF EditHistory

\* The clock goes on within its range, and what is noted lies before it.
InTime ==
  /\ clock \in 0 .. MaxClock
  /\ \A e \in Employees : endedAt[e] \in 0 .. clock
  /\ \A p \in Servers, e \in Employees : cache[p][e] = NoEntry \/ cache[p][e].at \in 0 .. clock

LEMMA WatchInTime ==
  ASSUME InTime, clock' \in 0 .. MaxClock, clock <= clock', Watch
  PROVE  \A e \in Employees : endedAt'[e] \in 0 .. clock'
  <1>1. MaxClock \in Nat /\ clock \in Nat /\ clock' \in Nat BY EmploymentAssumption DEF InTime
  <1>2. \A e \in Employees : endedAt[e] \in 0 .. clock' BY <1>1 DEF InTime
  <1>3. \A e \in Employees : endedAt'[e] \in {0, endedAt[e], clock'} BY DEF Watch
  <1>4. QED BY <1>1, <1>2, <1>3

LEMMA StepInTime ==
  ASSUME AccessInv, InTime, [EmpNext]_empVars PROVE InTime'
  <1>0. /\ MaxClock \in Nat /\ clock \in Nat /\ clock \in 0 .. MaxClock
        /\ cache \in [Servers -> [Employees -> Answer]]
        /\ \A l \in lookups : l.server \in Servers /\ l.emp \in Employees
    BY EmploymentAssumption DEF AccessInv, AccessTypes, InTime, LookUpRecord
  <1> DEFINE Kept(p, e) == cache'[p][e] = cache[p][e] \/ cache'[p][e] = NoEntry \/ cache'[p][e].at = clock
  <1>1. ASSUME UNCHANGED clock, Watch \/ UNCHANGED endedAt, \A p \in Servers, e \in Employees : Kept(p, e)
        PROVE  InTime'
    <2>1. \A e \in Employees : endedAt'[e] \in 0 .. clock'
      <3>1. CASE Watch BY <3>1, <1>0, <1>1, WatchInTime
      <3>2. CASE UNCHANGED endedAt BY <3>2, <1>1 DEF InTime
      <3>3. QED BY <1>1, <3>1, <3>2
    <2>2. \A p \in Servers, e \in Employees : cache'[p][e] = NoEntry \/ cache'[p][e].at \in 0 .. clock
      BY <1>0, <1>1 DEF InTime
    <2>3. QED BY <2>1, <2>2, <1>0, <1>1 DEF InTime
  <1>2. CASE EditHistory
    <2>1. ASSUME NEW r \in Requests, NEW p \in Servers, NEW e \in Employees, Edit(r, p, e) PROVE InTime'
      <3>1. Watch /\ UNCHANGED <<clock, cache>> BY <2>1 DEF Edit, AddStatus, UpdateStatus, DeleteStatus, Begin
      <3>2. QED BY <3>1, <1>1
    <2>2. ASSUME NEW r \in Requests, Derive(r) PROVE InTime'
      <3>1. UNCHANGED <<clock, cache, endedAt>> BY <2>2 DEF Derive
      <3>2. QED BY <3>1, <1>1
    <2>3. ASSUME NEW r \in Requests, WriteStatus(r) PROVE InTime'
      <3>1. UNCHANGED clock /\ Watch BY <2>3 DEF WriteStatus
      <3>2. PICK q, x : cache' = [cache EXCEPT ![q][x] = NoEntry] BY <2>3 DEF WriteStatus
      <3>3. \A p \in Servers, e \in Employees : Kept(p, e) BY <3>2, <1>0
      <3>4. QED BY <3>1, <3>3, <1>1
    <2>4. ASSUME NEW e \in Employees, NEW s \in Statuses, UpdateEmployee(e, s) PROVE InTime'
      <3>1. Watch /\ UNCHANGED <<clock, cache>> BY <2>4 DEF UpdateEmployee
      <3>2. QED BY <3>1, <1>1
    <2>5. QED BY <1>2, <2>1, <2>2, <2>3, <2>4 DEF EditHistory
  <1>3. CASE Visit
    <2>1. ASSUME NEW p \in Servers, NEW e \in Employees, LookUp(p, e) \/ Login(p, e) PROVE InTime'
      <3>1. UNCHANGED <<clock, endedAt>> BY <2>1 DEF LookUp, Login
      <3>2. \A q \in Servers, x \in Employees : Kept(q, x) BY <2>1, <1>0 DEF LookUp, Login
      <3>3. QED BY <3>1, <3>2, <1>1
    <2>2. ASSUME NEW l \in lookups, Remember(l) PROVE InTime'
      <3>1. UNCHANGED <<clock, endedAt>> BY <2>2 DEF Remember
      <3>2. cache' = [cache EXCEPT ![l.server][l.emp] = [ended |-> l.ended, at |-> clock]] BY <2>2 DEF Remember
      <3>3. \A q \in Servers, x \in Employees : Kept(q, x) BY <3>2, <1>0
      <3>4. QED BY <3>1, <3>3, <1>1
    <2>3. QED BY <1>3, <2>1, <2>2 DEF Visit
  <1>4. CASE Tick
    <2>1. clock' = clock + 1 /\ clock < MaxClock /\ Watch /\ UNCHANGED cache BY <1>4 DEF Tick
    <2>2. clock' \in 0 .. MaxClock /\ clock <= clock' BY <2>1, <1>0
    <2>3. \A e \in Employees : endedAt'[e] \in 0 .. clock' BY <2>1, <2>2, WatchInTime
    <2>4. \A p \in Servers, e \in Employees : cache[p][e] = NoEntry \/ cache[p][e].at \in 0 .. clock + 1
      BY <1>0 DEF InTime
    <2>5. QED BY <2>1, <2>2, <2>3, <2>4 DEF InTime
  <1>5. ASSUME NEW p \in Servers, Restart(p) PROVE InTime'
    <2>1. UNCHANGED <<clock, endedAt>> /\ cache' = [cache EXCEPT ![p] = [e \in Employees |-> NoEntry]]
      BY <1>5 DEF Restart
    <2>2. \A q \in Servers, x \in Employees : Kept(q, x) BY <2>1, <1>0
    <2>3. QED BY <2>1, <2>2, <1>1
  <1>6. CASE UNCHANGED empVars BY <1>6, <1>1 DEF empVars
  <1>7. QED BY <1>2, <1>3, <1>4, <1>5, <1>6 DEF EmpNext

EmpTyped == StatusInv /\ AccessInv /\ EmploymentTyped

LEMMA InitEmpTyped == EmpInit => EmpTyped
  <1>1. SUFFICES ASSUME EmpInit PROVE EmpTyped OBVIOUS
  <1>2. StatusInv /\ AccessInv BY <1>1, InitStatus, InitAccess
  <1>3. EmploymentTyped BY <1>1, EmploymentAssumption DEF EmpInit, EmploymentTyped, Statuses, Idle
  <1>4. QED BY <1>2, <1>3 DEF EmpTyped

LEMMA StepEmpTyped == EmpTyped /\ [EmpNext]_empVars => EmpTyped'
  <1>1. SUFFICES ASSUME EmpTyped, [EmpNext]_empVars PROVE EmpTyped' OBVIOUS
  <1>2. StatusInv /\ AccessInv /\ EmploymentTyped BY <1>1 DEF EmpTyped
  <1>3. StatusInv' BY <1>1, <1>2, StepStatus
  <1>4. AccessInv' BY <1>1, <1>2, StepAccess
  <1>5. InTime' BY <1>1, <1>2, StepInTime DEF EmploymentTyped, InTime
  <1>6. \A r \in Requests : EditTyped(r)'
    <2>1. CASE EditHistory \/ \E p \in Servers : Restart(p) BY <2>1, <1>2, EditsTyped
    <2>2. CASE UNCHANGED edit BY <2>2, <1>2 DEF EmploymentTyped, EditTyped, Edits
    <2>3. QED BY <1>1, <2>1, <2>2 DEF EmpNext, Visit, LookUp, Login, Remember, Tick, empVars
  <1>7. \A e \in Employees : (\A d \in Dates : history'[e][d] \in Statuses \cup {"NONE"}) /\ status'[e] \in Statuses
    BY <1>3 DEF StatusInv, HistoryTypes, Histories
  <1>8. \A l \in lookups' : l.began \in 0 .. clock'
    BY <1>4 DEF AccessInv, AccessTypes, LookUpRecord
  <1>9. EmploymentTyped' BY <1>5, <1>6, <1>7, <1>8 DEF EmploymentTyped, InTime, EditTyped, Edits
  <1>10. QED BY <1>3, <1>4, <1>9 DEF EmpTyped

\* Whatever interleaves: dates and times are in range, statuses are statuses
\* and an edit is at one of its three steps.
THEOREM EmploymentIsTyped == EmpSpec => []EmploymentTyped
  <1>1. EmpSpec => []EmpTyped BY InitEmpTyped, StepEmpTyped, PTL DEF EmpSpec
  <1>2. EmpTyped => EmploymentTyped BY DEF EmpTyped
  <1>3. QED BY <1>1, <1>2, PTL

-----------------------------------------------------------------------------
LinkTypes == LinkDomains /\ AccountTyped

LEMMA InitLinkTypes == AccInit => LinkTypes
  BY DEF AccInit, LinkTypes, LinkDomains, AccountTyped, NoToken

\* What the scenes and the account's own specification do to its tables.
AccChange == AccountNext \/ UNCHANGED accVars \/ \E p \in Servers : Forget(p)

LEMMA ChangeLinkTypes == LinkTypes /\ AccChange => LinkTypes'
  <1>1. SUFFICES ASSUME LinkTypes, AccChange PROVE LinkTypes' OBVIOUS
  <1>0. /\ token = [e \in Employees |-> token[e]] /\ uses \in [Links -> Nat]
        /\ sent \subseteq Links /\ contested \subseteq Links
        /\ \A e \in Employees : token[e].link \in Links \cup {0}
        /\ \A r \in resets : r.emp \in Employees /\ r.link \in sent /\ r.slot \in Slots
    BY <1>1 DEF LinkTypes, LinkDomains, AccountTyped
  <1>2. ASSUME resets' \subseteq resets, UNCHANGED <<token, sent, uses, contested>> PROVE LinkTypes'
    BY <1>2, <1>0 DEF LinkTypes, LinkDomains, AccountTyped
  <1>3. ASSUME NEW e \in Employees, Issue(e), UNCHANGED <<resets, uses, contested>> PROVE LinkTypes'
    <2>1. PICK l \in NextLink : /\ token' = [token EXCEPT ![e] = [link |-> l, expires |-> clock + TTL]]
                                /\ sent' \in {sent, sent \cup {l}}
      BY <1>3 DEF Issue
    <2>2. l \in Links BY <2>1 DEF NextLink
    <2>3. \A f \in Employees : token'[f].link \in Links \cup {0} BY <2>1, <2>2, <1>0
    <2>4. token' = [f \in Employees |-> token'[f]] BY <2>1, <1>0
    <2>5. sent' \subseteq Links /\ sent \subseteq sent' BY <2>1, <2>2, <1>0
    <2>6. QED BY <1>3, <2>3, <2>4, <2>5, <1>0 DEF LinkTypes, LinkDomains, AccountTyped
  <1>4. CASE AccountNext
    <2>1. ASSUME NEW p \in Servers, NEW e \in Employees, ForgotPassword(p, e) PROVE LinkTypes'
      <3>1. UNCHANGED <<resets, uses, contested>> BY <2>1 DEF ForgotPassword
      <3>2. CASE Issue(e) BY <3>1, <3>2, <1>3
      <3>3. CASE UNCHANGED <<token, sent>> BY <3>1, <3>3, <1>2
      <3>4. QED BY <2>1, <3>2, <3>3 DEF ForgotPassword
    <2>2. ASSUME NEW p \in Servers, NEW e \in Employees, NEW k \in Slots, Find(k, p, e) PROVE LinkTypes'
      <3>1. /\ token[e].link \in sent
            /\ resets' = resets \cup {[slot |-> k, server |-> p, emp |-> e, link |-> token[e].link]}
            /\ contested' \subseteq contested \cup {r.link : r \in resets}
            /\ UNCHANGED <<token, sent, uses>>
        BY <2>2 DEF Find
      <3>2. contested' \subseteq Links BY <3>1, <1>0
      <3>3. QED BY <3>1, <3>2, <1>0 DEF LinkTypes, LinkDomains, AccountTyped
    <2>3. ASSUME NEW e \in Employees, ResetPassword(e) PROVE LinkTypes' BY <2>3, <1>3 DEF ResetPassword
    <2>4. ASSUME NEW r \in resets, SetPassword(r) PROVE LinkTypes'
      <3>1. /\ token' = [token EXCEPT ![r.emp] = NoToken] /\ resets' = resets \ {r}
            /\ uses' = [uses EXCEPT ![r.link] = @ + 1] /\ UNCHANGED <<sent, contested>>
        BY <2>4 DEF SetPassword
      <3>2. \A f \in Employees : token'[f].link \in Links \cup {0} BY <3>1, <1>0 DEF NoToken
      <3>3. token' = [f \in Employees |-> token'[f]] /\ uses' \in [Links -> Nat] BY <3>1, <1>0
      <3>4. QED BY <3>1, <3>2, <3>3, <1>0 DEF LinkTypes, LinkDomains, AccountTyped
    <2>5. QED BY <1>4, <2>1, <2>2, <2>3, <2>4 DEF AccountNext
  <1>5. CASE UNCHANGED accVars BY <1>5, <1>2 DEF accVars
  <1>6. CASE \E p \in Servers : Forget(p) BY <1>6, <1>2 DEF Forget
  <1>7. QED BY <1>1, <1>4, <1>5, <1>6 DEF AccChange

\* Whatever is mailed, opened and restarted: links are links of an account or
\* none, and those sent or in use were issued.
THEOREM AccountIsTyped == AccSpec => []AccountTyped
  <1>1. [AccStep]_<<empVars, accVars>> => AccChange BY DEF AccStep, AccChange
  <1>2. AccSpec => []LinkTypes BY <1>1, InitLinkTypes, ChangeLinkTypes, PTL DEF AccSpec
  <1>3. LinkTypes => AccountTyped BY DEF LinkTypes
  <1>4. QED BY <1>2, <1>3, PTL

-----------------------------------------------------------------------------
Term(k) == k = [emp |-> k.emp, start |-> k.start, end |-> k.end, rate |-> k.rate] /\ k.start <= k.end
Readers(c) == {j \in Jobs : job[j].rows[c] # NoContract}
GraTypes ==
  /\ SettleDomains
  /\ contract = [c \in Contracts |-> contract[c]]
  /\ pay = [e \in Employees |-> [d \in Dates |-> pay[e][d]]]
  /\ \A c \in Contracts : Term(contract[c])
  /\ \A e \in Employees, d \in Dates : pay[e][d] \in Pays \cup {0}
  /\ \A j \in Jobs : job[j].asOf \in Dates \cup {0}
\* A settled contract is read no more, so each addition after the first takes
\* one of the settlements that had read it before.
Tallied ==
  \A c \in Contracts :
    /\ \E S : additions[c] \in Seq(S)
    /\ settled[c] = Nothing => additions[c] = <<>>
    /\ settled[c] # Nothing => Len(additions[c]) + Cardinality(Readers(c)) <= Cardinality(Jobs)
TallyInv == GraTypes /\ Tallied

LEMMA ReadersFinite ==
  \A c : IsFiniteSet(Readers(c)) /\ Cardinality(Readers(c)) \in Nat /\ Cardinality(Jobs) \in Nat
         /\ Cardinality(Readers(c)) <= Cardinality(Jobs)
  <1>1. IsFiniteSet(Jobs) BY GratuityAssumption
  <1>2. ASSUME NEW c PROVE IsFiniteSet(Readers(c)) /\ Cardinality(Readers(c)) <= Cardinality(Jobs)
    <2>1. Readers(c) \subseteq Jobs BY DEF Readers
    <2>2. QED BY <1>1, <2>1, FS_Subset
  <1>3. QED BY <1>1, <1>2, FS_CardinalityType

LEMMA InitTally == GraInit => TallyInv
  <1>1. SUFFICES ASSUME GraInit PROVE TallyInv OBVIOUS
  <1>2. SettleDomains BY <1>1 DEF GraInit, SettleDomains
  <1>3. \A c \in Contracts : contract[c] = NoContract /\ additions[c] = <<>> /\ settled[c] = Nothing
    BY <1>1 DEF GraInit
  <1>4. \A j \in Jobs : job[j].asOf = 0 BY <1>1 DEF GraInit, NoJob
  <1>5. Term(NoContract) BY DEF Term, NoContract
  <1>8. <<>> \in Seq({}) OBVIOUS
  <1>9. Tallied BY <1>3, <1>8 DEF Tallied
  <1>10. GraTypes BY <1>1, <1>2, <1>3, <1>4, <1>5 DEF GraTypes, GraInit
  <1>11. QED BY <1>9, <1>10 DEF TallyInv

\* The tally bounds the additions.
LEMMA TallyBounds == TallyInv => GratuityTyped
  <1>1. SUFFICES ASSUME TallyInv, NEW c \in Contracts PROVE Len(additions[c]) <= Cardinality(Jobs)
    BY DEF TallyInv, GraTypes, GratuityTyped, Term
  <1>2. PICK S : additions[c] \in Seq(S) BY <1>1 DEF TallyInv, Tallied
  <1>3. Len(additions[c]) \in Nat BY <1>2
  <1>4. Len(<<>>) = 0 OBVIOUS
  <1>5. QED BY <1>1, <1>3, <1>4, ReadersFinite DEF TallyInv, Tallied

\* Contracts and pay change, settlements and additions do not.
LEMMA RecordsTally ==
  ASSUME TallyInv, UNCHANGED <<job, settled, additions>>,
         contract' = [c \in Contracts |-> contract'[c]],
         pay' = [e \in Employees |-> [d \in Dates |-> pay'[e][d]]],
         \A c \in Contracts : Term(contract'[c]),
         \A e \in Employees, d \in Dates : pay'[e][d] \in Pays \cup {0}
  PROVE  TallyInv'
  <1>1. \A c : Readers(c)' = Readers(c) BY DEF Readers
  <1>2. Tallied' BY <1>1 DEF TallyInv, Tallied
  <1>3. SettleDomains' BY DEF TallyInv, GraTypes, SettleDomains
  <1>4. QED BY <1>2, <1>3 DEF TallyInv, GraTypes

LEMMA BeginTally == ASSUME TallyInv, NEW j \in Jobs, NEW asOf \in Dates, SettleBegin(j, asOf) PROVE TallyInv'
  <1> DEFINE due == {c \in Contracts : settled[c] = Nothing /\ EarnsGratuity(contract[c])}
  <1> DEFINE new == [asOf |-> asOf, rows |-> [c \in Contracts |-> IF c \in due THEN contract[c] ELSE NoContract]]
  <1>1. /\ job[j] = NoJob /\ UNCHANGED <<contract, pay, settled, additions>>
        /\ job' = [job EXCEPT ![j] = new]
    BY DEF SettleBegin
  <1>2. \A c \in Contracts : settled[c] # Nothing => new.rows[c] = NoContract OBVIOUS
  <1>a. new.asOf = asOf OBVIOUS
  <1> HIDE DEF new
  <1>3. \A i \in Jobs : job'[i] = IF i = j THEN new ELSE job[i] BY <1>1 DEF TallyInv, GraTypes, SettleDomains
  <1>4. \A c \in Contracts : settled[c] # Nothing => Readers(c)' = Readers(c)
    BY <1>1, <1>2, <1>3, IdleReads DEF Readers
  <1>5. Tallied' BY <1>1, <1>4 DEF TallyInv, Tallied
  <1>6. SettleDomains' BY <1>1 DEF TallyInv, GraTypes, SettleDomains
  <1>7. \A i \in Jobs : job'[i].asOf \in Dates \cup {0} BY <1>3, <1>a DEF TallyInv, GraTypes
  <1>8. QED BY <1>1, <1>5, <1>6, <1>7 DEF TallyInv, GraTypes

\* A settlement ends: it read what it adds to, and reads no more.
LEMMA EndTally == ASSUME TallyInv, NEW j \in Jobs, SettleEnd(j) PROVE TallyInv'
  <1> DEFINE k(c) == job[j].rows[c]
  <1> DEFINE figure(c) == IF k(c) # NoContract /\ Due(k(c), job[j].asOf) THEN GratuityFor(k(c), job[j].asOf) ELSE Nothing
  <1>1. /\ additions' = [c \in Contracts |->
             IF figure(c) = Nothing THEN additions[c] ELSE Append(additions[c], figure(c))]
        /\ settled' = [c \in Contracts |-> IF settled[c] = Nothing THEN figure(c) ELSE settled[c]]
        /\ job' = [job EXCEPT ![j] = NoJob]
        /\ UNCHANGED <<contract, pay>>
    BY DEF SettleEnd
  <1>2. \A c \in Contracts : k(c) = NoContract => figure(c) = Nothing OBVIOUS
  <1>3. \A i \in Jobs : job'[i] = IF i = j THEN NoJob ELSE job[i] BY <1>1 DEF TallyInv, GraTypes, SettleDomains
  <1> HIDE DEF figure
  <1>4. ASSUME NEW c \in Contracts
        PROVE  /\ \E S : additions'[c] \in Seq(S)
               /\ settled'[c] = Nothing => additions'[c] = <<>>
               /\ settled'[c] # Nothing => Len(additions'[c]) + Cardinality(Readers(c)') <= Cardinality(Jobs)
    <2>1. PICK S : additions[c] \in Seq(S) BY DEF TallyInv, Tallied
    <2>n. Len(additions[c]) \in Nat BY <2>1
    <2>2. Readers(c)' = Readers(c) \ {j} BY <1>3, IdleReads DEF Readers
    <2>3. /\ IsFiniteSet(Readers(c)) /\ Cardinality(Readers(c)) \in Nat /\ Cardinality(Jobs) \in Nat
          /\ Cardinality(Readers(c)) <= Cardinality(Jobs)
      BY ReadersFinite
    <2>4. Cardinality(Readers(c)') = IF j \in Readers(c) THEN Cardinality(Readers(c)) - 1 ELSE Cardinality(Readers(c))
      BY <2>2, <2>3, FS_RemoveElement
    <2>5. CASE figure(c) = Nothing
      <3>1. additions'[c] = additions[c] /\ settled'[c] = settled[c] BY <1>1, <2>5
      <3>2. QED BY <3>1, <2>1, <2>n, <2>3, <2>4 DEF TallyInv, Tallied
    <2>6. CASE figure(c) # Nothing
      <3>1. j \in Readers(c) BY <2>6, <1>2 DEF Readers
      <3>2. additions'[c] = Append(additions[c], figure(c)) /\ settled'[c] # Nothing BY <1>1, <2>6
      <3>3. additions[c] \in Seq(S \cup {figure(c)}) BY <2>1
      <3>4. additions'[c] \in Seq(S \cup {figure(c)}) /\ Len(additions'[c]) = Len(additions[c]) + 1
        BY <3>2, <3>3
      <3>5. Len(additions[c]) + Cardinality(Readers(c)) <= Cardinality(Jobs)
        <4>1. CASE settled[c] = Nothing
          <5>1. additions[c] = <<>> BY <4>1 DEF TallyInv, Tallied
          <5>2. Len(additions[c]) = 0 BY <5>1
          <5>3. QED BY <5>2, <2>3
        <4>2. CASE settled[c] # Nothing BY <4>2 DEF TallyInv, Tallied
        <4>3. QED BY <4>1, <4>2
      <3>6. QED BY <3>1, <3>2, <3>4, <3>5, <2>n, <2>3, <2>4
    <2>7. QED BY <2>5, <2>6
  <1>5. Tallied' BY <1>4 DEF Tallied
  <1>6. SettleDomains' BY <1>1 DEF TallyInv, GraTypes, SettleDomains
  <1>7. \A i \in Jobs : job'[i].asOf \in Dates \cup {0} BY <1>3 DEF TallyInv, GraTypes, NoJob
  <1>8. QED BY <1>1, <1>5, <1>6, <1>7 DEF TallyInv, GraTypes

LEMMA AbortTally == ASSUME TallyInv, NEW j \in Jobs, SettleAbort(j) PROVE TallyInv'
  <1>1. job' = [job EXCEPT ![j] = NoJob] /\ UNCHANGED <<contract, pay, settled, additions>> BY DEF SettleAbort
  <1>2. \A i \in Jobs : job'[i] = IF i = j THEN NoJob ELSE job[i] BY <1>1 DEF TallyInv, GraTypes, SettleDomains
  <1>3. SettleDomains' BY <1>1 DEF TallyInv, GraTypes, SettleDomains
  <1>4. \A i \in Jobs : job'[i].asOf \in Dates \cup {0} BY <1>2 DEF TallyInv, GraTypes, NoJob
  <1>5. Tallied'
    <2>1. SUFFICES ASSUME NEW c \in Contracts, settled[c] # Nothing
                   PROVE  Len(additions[c]) + Cardinality(Readers(c)') <= Cardinality(Jobs)
      BY <1>1 DEF TallyInv, Tallied
    <2>2. Readers(c)' \subseteq Readers(c) BY <1>2, IdleReads DEF Readers
    <2>3. /\ Cardinality(Readers(c)') \in Nat /\ Cardinality(Readers(c)') <= Cardinality(Readers(c))
          /\ Cardinality(Readers(c)) \in Nat /\ Cardinality(Jobs) \in Nat
      BY <2>2, ReadersFinite, FS_Subset, FS_CardinalityType
    <2>4. PICK S : additions[c] \in Seq(S) BY DEF TallyInv, Tallied
    <2>5. Len(additions[c]) \in Nat BY <2>4
    <2>6. Len(additions[c]) + Cardinality(Readers(c)) <= Cardinality(Jobs) BY <2>1 DEF TallyInv, Tallied
    <2>7. QED BY <2>3, <2>5, <2>6
  <1>6. QED BY <1>1, <1>3, <1>4, <1>5 DEF TallyInv, GraTypes

\* An update whose dates are in order keeps a contract a contract.
LEMMA UpdatedTerm == ASSUME NEW k, Term(k), NEW s, NEW e, NEW r, s <= e PROVE Term([k EXCEPT !.start = s, !.end = e, !.rate = r])
  <1> DEFINE S == {k.emp, k.start, k.end, k.rate, s, e, r}
  <1> DEFINE m == [k EXCEPT !.start = s, !.end = e, !.rate = r]
  <1>1. k \in [emp : S, start : S, end : S, rate : S] BY DEF Term
  <1>2. s \in S /\ e \in S /\ r \in S OBVIOUS
  <1> HIDE DEF S
  <1>3. m \in [emp : S, start : S, end : S, rate : S] BY <1>1, <1>2
  <1>4. m.start <= m.end BY <1>1, <1>2
  <1> HIDE DEF m
  <1>5. m = [emp |-> m.emp, start |-> m.start, end |-> m.end, rate |-> m.rate] BY <1>3
  <1>6. Term(m) BY <1>4, <1>5 DEF Term
  <1>7. QED BY <1>6 DEF m

\* Whoever edits contracts and pay: every pair of dates was allowed.
LEMMA EditTally ==
  ASSUME TallyInv, NEW c \in Contracts, NEW e, NEW start, NEW end, NEW rate,
         AddContract(c, e, start, end, rate) \/ UpdateContract(c, start, end, rate) \/ RemoveContract(c)
  PROVE  TallyInv'
  <1>1. UNCHANGED <<pay, job, settled, additions>> BY DEF AddContract, UpdateContract, RemoveContract
  <1>2. Term(NoContract) BY DEF Term, NoContract
  <1>3. \A r : r \in Allowed(start, end, rate) => start <= end BY DEF Allowed
  <1>4. \E k : Term(k) /\ contract' = [contract EXCEPT ![c] = k]
    <2>2. CASE AddContract(c, e, start, end, rate)
      <3>1. PICK r \in Allowed(start, end, rate) :
              contract' = [contract EXCEPT ![c] = [emp |-> e, start |-> start, end |-> end, rate |-> r]]
        BY <2>2 DEF AddContract
      <3>2. Term([emp |-> e, start |-> start, end |-> end, rate |-> r]) BY <1>3, <3>1 DEF Term
      <3>3. QED BY <3>1, <3>2
    <2>3. CASE UpdateContract(c, start, end, rate)
      <3>1. PICK r \in Allowed(start, end, rate) :
              contract' = [contract EXCEPT ![c] = [@ EXCEPT !.start = start, !.end = end, !.rate = r]]
        BY <2>3 DEF UpdateContract
      <3>2. Term(contract[c]) BY DEF TallyInv, GraTypes
      <3>3. Term([contract[c] EXCEPT !.start = start, !.end = end, !.rate = r]) BY <1>3, <3>1, <3>2, UpdatedTerm
      <3>4. contract' = [contract EXCEPT ![c] = [contract[c] EXCEPT !.start = start, !.end = end, !.rate = r]]
        BY <3>1
      <3> DEFINE m == [contract[c] EXCEPT !.start = start, !.end = end, !.rate = r]
      <3>5. Term(m) /\ contract' = [contract EXCEPT ![c] = m] BY <3>3, <3>4
      <3> HIDE DEF m
      <3>6. QED BY <3>5
    <2>4. CASE RemoveContract(c) BY <1>2, <2>4 DEF RemoveContract
    <2>5. QED BY <2>2, <2>3, <2>4
  <1>5. QED BY <1>1, <1>4, RecordsTally DEF TallyInv, GraTypes

LEMMA PayTally ==
  ASSUME TallyInv, NEW e, NEW d, NEW to, NEW b \in Pays \cup {0}, SetPay(e, d, to, b) PROVE TallyInv'
  <1>1. UNCHANGED <<contract, job, settled, additions>> /\ pay' = [pay EXCEPT ![e][d] = 0, ![e][to] = b] BY DEF SetPay
  <1>2. \A x \in Employees, y \in Dates : pay'[x][y] \in {pay[x][y], 0, b} BY <1>1 DEF TallyInv, GraTypes
  <1>3. pay' = [x \in Employees |-> [y \in Dates |-> pay'[x][y]]] BY <1>1 DEF TallyInv, GraTypes
  <1>4. QED BY <1>1, <1>2, <1>3, RecordsTally DEF TallyInv, GraTypes

LEMMA SameTally ==
  ASSUME TallyInv, UNCHANGED <<contract, pay, job, settled, additions>> PROVE TallyInv'
  BY RecordsTally DEF TallyInv, GraTypes

LEMMA StepTally == TallyInv /\ [GraStep]_<<empVars, graVars>> => TallyInv'
  <1>1. SUFFICES ASSUME TallyInv, [GraStep]_<<empVars, graVars>> PROVE TallyInv' OBVIOUS
  <1>2. CASE GraNext
    <2>1. CASE \E c \in Contracts, start, end \in Dates, r \in Rates \cup {0} :
                 \/ \E e \in Employees : AddContract(c, e, start, end, r)
                 \/ UpdateContract(c, start, end, r)
      BY <1>1, <2>1, EditTally
    <2>2. CASE \E c \in Contracts : RemoveContract(c) BY <1>1, <2>2, EditTally
    <2>3. CASE \E e \in Employees, d, to \in Dates, b \in Pays \cup {0} : SetPay(e, d, to, b)
      BY <1>1, <2>3, PayTally
    <2>4. CASE \E j \in Jobs : (\E asOf \in Dates : SettleBegin(j, asOf)) \/ SettleEnd(j) \/ SettleAbort(j)
      BY <1>1, <2>4, BeginTally, EndTally, AbortTally
    <2>5. QED BY <1>2, <2>1, <2>2, <2>3, <2>4 DEF GraNext
  <1>3. CASE EmpNext /\ Follow BY <1>1, <1>3, SameTally DEF Follow
  <1>4. CASE UNCHANGED <<empVars, graVars>> BY <1>1, <1>4, SameTally DEF graVars
  <1>5. QED BY <1>1, <1>2, <1>3, <1>4 DEF GraStep

\* Contracts end after they begin, and of settlements that overlap each adds to
\* a contract once at most (settleDueGratuities).
THEOREM GratuityIsTyped == GraSpec => []GratuityTyped
  <1>1. GraSpec => []TallyInv BY InitTally, StepTally, PTL DEF GraSpec
  <1>2. QED BY <1>1, TallyBounds, PTL

-----------------------------------------------------------------------------
\* The scenes together. Their steps are steps of the components, with inputs of
\* the scene's own, or leave a component alone.
TypedInv == EmpTyped /\ LinkTypes /\ TallyInv

LEMMA SceneEmp == [Next]_vars => [EmpNext]_empVars
  <1>1. SUFFICES ASSUME [Next]_vars PROVE [EmpNext]_empVars OBVIOUS
  <1>a. ann \in Employees /\ s1 \in Servers /\ r1 \in Requests /\ {1, 2, 3} \subseteq Dates BY SceneAssumption
  <1>b. "ALUMNI" \in Statuses BY DEF Statuses
  <1>2. CASE History
    <2>1. EditHistory BY <1>2, <1>a DEF History, EditHistory
    <2>2. QED BY <2>1 DEF EmpNext
  <1>3. CASE Access
    <2>1. (\E p \in Servers : Edit(r1, p, ann) \/ Restart(p)) \/ Derive(r1) \/ WriteStatus(r1) \/ Visit \/ Tick
      <3>1. ASSUME NEW p \in Servers, NEW s \in Statuses, AddStatus(r1, p, ann, 2, s) PROVE Edit(r1, p, ann)
        BY <3>1, <1>a DEF Edit
      <3>2. ASSUME NEW p \in Servers, DeleteStatus(r1, p, ann, 2) PROVE Edit(r1, p, ann)
        BY <3>2, <1>a DEF Edit
      <3>3. QED BY <1>3, <3>1, <3>2 DEF Access
    <2>2. QED BY <2>1, <1>a DEF EmpNext, EditHistory
  <1>4. CASE Accounts
    <2>1. UNCHANGED empVars \/ Tick \/ UpdateEmployee(ann, "ALUMNI") \/ Restart(s1) BY <1>4 DEF Accounts
    <2>2. QED BY <2>1, <1>a, <1>b DEF EmpNext, EditHistory
  <1>5. CASE Gratuities
    <2>1. \/ UNCHANGED empVars
          \/ Edit(r1, s1, ann)
          \/ WriteStatus(r1)
      <3>1. ASSUME NEW s \in Statuses, NEW d \in {2, 3}, AddStatus(r1, s1, ann, d, s) PROVE Edit(r1, s1, ann)
        BY <3>1, <1>a DEF Edit
      <3>2. QED BY <1>5, <1>b, <3>1 DEF Gratuities
    <2>2. QED BY <2>1, <1>a DEF EmpNext, EditHistory
  <1>6. CASE UNCHANGED empVars BY <1>6
  <1>7. QED BY <1>1, <1>2, <1>3, <1>4, <1>5, <1>6 DEF Next, vars

LEMMA SceneAcc == [Next]_vars => AccChange
  <1>1. SUFFICES ASSUME [Next]_vars PROVE AccChange OBVIOUS
  <1>a. ann \in Employees /\ s1 \in Servers BY SceneAssumption
  <1>2. CASE Accounts
    <2>1. AccountNext \/ UNCHANGED accVars \/ Forget(s1)
      <3>1. ASSUME NEW k \in Slots, Find(k, s1, ann) PROVE AccountNext BY <3>1, <1>a DEF AccountNext
      <3>2. ASSUME ForgotPassword(s1, ann) \/ ResetPassword(ann) PROVE AccountNext BY <3>2, <1>a DEF AccountNext
      <3>3. ASSUME NEW r \in resets, SetPassword(r) PROVE AccountNext BY <3>3 DEF AccountNext
      <3>4. QED BY <1>2, <3>1, <3>2, <3>3 DEF Accounts
    <2>2. QED BY <2>1, <1>a DEF AccChange
  <1>3. CASE UNCHANGED accVars BY <1>3 DEF AccChange
  <1>4. QED BY <1>1, <1>2, <1>3 DEF Next, vars, History, Access, Gratuities

LEMMA SceneGra == TallyInv /\ [Next]_vars => TallyInv'
  <1>1. SUFFICES ASSUME TallyInv, [Next]_vars PROVE TallyInv' OBVIOUS
  <1>a. {1, 2, 3} \subseteq Dates /\ 2 \in Pays BY SceneAssumption
  <1>2. CASE Gratuities
    <2>1. ASSUME NEW c \in Contracts, NEW t \in Terms, NEW r \in Rates \cup {0},
                 AddContract(c, ann, t[1], t[2], r) \/ UpdateContract(c, t[1], t[2], r)
          PROVE  TallyInv'
      BY <1>1, <2>1, EditTally
    <2>2. ASSUME NEW c \in Contracts, RemoveContract(c) PROVE TallyInv' BY <1>1, <2>2, EditTally
    <2>3. ASSUME NEW b \in Pays \cup {0}, NEW to, SetPay(ann, 1, to, b) PROVE TallyInv' BY <1>1, <2>3, PayTally
    <2>4. ASSUME NEW j \in Jobs, (\E asOf \in Dates : SettleBegin(j, asOf)) \/ SettleEnd(j) \/ SettleAbort(j)
          PROVE  TallyInv'
      BY <1>1, <2>4, BeginTally, EndTally, AbortTally
    <2>5. CASE Follow BY <1>1, <2>5, SameTally DEF Follow
    <2>b. (Pays \ {2}) \cup {0} \subseteq Pays \cup {0} OBVIOUS
    <2>6. (\E b \in (Pays \ {2}) \cup {0} : SetPay(ann, 1, 1, b)) \/ SetPay(ann, 1, 3, 2) => TallyInv'
      BY <1>a, <2>b, <2>3
    <2>7. QED BY <1>2, <1>a, <2>1, <2>2, <2>6, <2>4, <2>5 DEF Gratuities
  <1>3. CASE UNCHANGED graVars BY <1>1, <1>3, SameTally DEF graVars
  <1>4. QED BY <1>1, <1>2, <1>3 DEF Next, vars, History, Access, Accounts

\* In every scene: the tables, times, edits, links, contracts and settlements
\* are what the tables of the records may hold.
THEOREM RecordsAreTyped == Spec => []TypeOK
  <1>1. Init => TypedInv BY InitEmpTyped, InitLinkTypes, InitTally DEF Init, TypedInv
  <1>2. TypedInv /\ [Next]_vars => TypedInv'
    <2>1. SUFFICES ASSUME TypedInv, [Next]_vars PROVE TypedInv' OBVIOUS
    <2>2. EmpTyped' BY <2>1, SceneEmp, StepEmpTyped DEF TypedInv
    <2>3. LinkTypes' BY <2>1, SceneAcc, ChangeLinkTypes DEF TypedInv
    <2>4. TallyInv' BY <2>1, SceneGra DEF TypedInv
    <2>5. QED BY <2>2, <2>3, <2>4 DEF TypedInv
  <1>3. TypedInv => TypeOK BY TallyBounds DEF TypedInv, TypeOK, EmpTyped, LinkTypes
  <1>4. QED BY <1>1, <1>2, <1>3, PTL DEF Spec
=============================================================================
