---------------------------- MODULE SickLeave_proofs ----------------------------
(***************************************************************************)
(* One illness is one episode, and the days of an episode lie between its  *)
(* first and its last (SickInv). What the days are paid does not matter to *)
(* that, so its proofs leave the types of counters and pay open: some set  *)
(* holds them.                                                             *)
(*                                                                         *)
(* And the counters of an episode, its ledger entries, its requests and    *)
(* what a batch brought add up (AddInv). For this the recursion of PayOf   *)
(* has to have a value: it is shown for the days up to the greatest day    *)
(* for which it has one, which can only be the last.                       *)
(*                                                                         *)
(* And the pay of requests in force is within the entitlement (WithinInv), *)
(* for the last day paid at a tier was judged when the others were known.  *)
(***************************************************************************)
EXTENDS SickLeave, Sums_proofs, TLAPS

Rows(U) == [startedOn : Int, lastDay : Int, used : U, status : {"OPEN", "DISCHARGE_REVIEW", "CLOSED"}]
Requests(P) == [status : {"NONE", "PENDING", "APPROVED", "DECLINED", "CANCELLED"},
                first : Int, last : Int, episode : Nat, pay : P]

\* The parts of the state the argument reads.
Shape ==
  /\ \E U : episodes \in Seq(Rows(U))
  /\ \E P : sick \in [SickRequests -> Requests(P)]
  /\ \E D : paid \in [SickRequests -> D]
DatesInOrder ==
  /\ \A r \in SickRequests : Standing(r) => sick[r].first <= sick[r].last
  /\ \A i \in DOMAIN episodes : episodes[i].startedOn <= episodes[i].lastDay
Inside(r) ==
  /\ sick[r].episode \in DOMAIN episodes
  /\ sick[r].pay = Breakdown(paid[r])
  /\ episodes[sick[r].episode].startedOn <= sick[r].first
  /\ sick[r].last <= episodes[sick[r].episode].lastDay
AllInside == \A r \in SickRequests : sick[r].status = "APPROVED" => Inside(r)
SickInv == Shape /\ DatesInOrder /\ AllInside /\ IllnessIsOneEpisode

----------------------------------------------------------------------------
\* An approval keeps the invariant. A new episode begins after every other by
\* more than the link; the one that is continued is the last that is open, for
\* a later one would have been taken instead.
LEMMA FinalizeInv ==
  ASSUME SickInv, NEW r \in SickRequests, NEW first \in Int, NEW last \in Int, first <= last,
         Finalize(r, first, last)
  PROVE  SickInv'
<1> USE SickAssumption
<1>0. PICK e \in Episode(first) :
        LET pay == PayOf(r, first, last, e)
            units == Breakdown(pay)
            status == IF units["UNPAID"] > 0 /\ ~Yearly THEN "DISCHARGE_REVIEW" ELSE "OPEN"
            id == IF e = 0 THEN Len(episodes) + 1 ELSE e
            old == IF e = 0 THEN [startedOn |-> first, lastDay |-> last, used |-> NoPay] ELSE episodes[e]
            row == [startedOn |-> old.startedOn,
                    lastDay |-> IF old.lastDay < last THEN last ELSE old.lastDay,
                    used |-> [t \in Tiers |-> old.used[t] + units[t]],
                    status |-> status]
        IN /\ episodes' = IF e = 0 THEN Append(episodes, row) ELSE [episodes EXCEPT ![e] = row]
           /\ paid' = [paid EXCEPT ![r] = pay]
           /\ sick' = [sick EXCEPT ![r] = [status |-> "APPROVED", first |-> first, last |-> last,
                                           episode |-> id, pay |-> units]]
           /\ backdated' = (backdated \/ \E i \in DOMAIN episodes : episodes[i].startedOn > first)
  BY DEF Finalize
<1> DEFINE pay == PayOf(r, first, last, e)
           units == Breakdown(pay)
           status == IF units["UNPAID"] > 0 /\ ~Yearly THEN "DISCHARGE_REVIEW" ELSE "OPEN"
           id == IF e = 0 THEN Len(episodes) + 1 ELSE e
           old == IF e = 0 THEN [startedOn |-> first, lastDay |-> last, used |-> NoPay] ELSE episodes[e]
           row == [startedOn |-> old.startedOn,
                   lastDay |-> IF old.lastDay < last THEN last ELSE old.lastDay,
                   used |-> [t \in Tiers |-> old.used[t] + units[t]],
                   status |-> status]
<1>1. /\ status \in {"OPEN", "DISCHARGE_REVIEW"}
      /\ units = Breakdown(pay)
      /\ id = IF e = 0 THEN Len(episodes) + 1 ELSE e
      /\ old = IF e = 0 THEN [startedOn |-> first, lastDay |-> last, used |-> NoPay] ELSE episodes[e]
      /\ row = [startedOn |-> old.startedOn,
                lastDay |-> IF old.lastDay < last THEN last ELSE old.lastDay,
                used |-> [t \in Tiers |-> old.used[t] + units[t]],
                status |-> status]
      /\ episodes' = IF e = 0 THEN Append(episodes, row) ELSE [episodes EXCEPT ![e] = row]
      /\ paid' = [paid EXCEPT ![r] = pay]
      /\ sick' = [sick EXCEPT ![r] = [status |-> "APPROVED", first |-> first, last |-> last,
                                      episode |-> id, pay |-> units]]
      /\ backdated' = (backdated \/ \E i \in DOMAIN episodes : episodes[i].startedOn > first)
  BY <1>0
<1> HIDE DEF pay, units, status, id, old, row
<1>2. PICK U, P, D :
        /\ episodes \in Seq(Rows(U))
        /\ sick \in [SickRequests -> Requests(P)]
        /\ paid \in [SickRequests -> D]
  BY DEF SickInv, Shape
<1>3. \A i \in DOMAIN episodes :
        /\ i \in Nat \ {0}
        /\ episodes[i].startedOn \in Int /\ episodes[i].lastDay \in Int
        /\ episodes[i].startedOn <= episodes[i].lastDay
  <2> SUFFICES ASSUME NEW i \in DOMAIN episodes
               PROVE  /\ i \in Nat \ {0}
                      /\ episodes[i].startedOn \in Int /\ episodes[i].lastDay \in Int
                      /\ episodes[i].startedOn <= episodes[i].lastDay
    OBVIOUS
  <2>1. i \in 1 .. Len(episodes) /\ Len(episodes) \in Nat
    BY <1>2
  <2>2. episodes[i] \in Rows(U)
    BY <1>2, <2>1
  <2> QED
    BY <2>1, <2>2 DEF SickInv, DatesInOrder, Rows
<1>4. \/ e = 0 /\ \A i \in DOMAIN episodes : ~Open(i, first)
      \/ /\ e \in DOMAIN episodes /\ Open(e, first)
         /\ \A j \in DOMAIN episodes : Open(j, first) => episodes[j].lastDay <= episodes[e].lastDay
  BY <1>1 DEF Episode, Continued
<1>5. /\ old.startedOn \in Int /\ old.lastDay \in Int
      /\ old.startedOn <= first /\ old.startedOn <= old.lastDay
      /\ row \in Rows({row.used})
      /\ row.startedOn = old.startedOn /\ row.status # "CLOSED"
      /\ row.lastDay \in Int /\ row.lastDay >= old.lastDay /\ row.lastDay >= last
      /\ row.lastDay = last \/ row.lastDay = old.lastDay
  <2>1. CASE e = 0
    <3>1. old.startedOn = first /\ old.lastDay = last
      BY <1>1, <2>1
    <3> QED
      BY <1>1, <3>1 DEF Rows
  <2>2. CASE e # 0
    <3>1. e \in DOMAIN episodes /\ old = episodes[e] /\ Open(e, first)
      BY <1>1, <1>4, <2>2
    <3>2. old.startedOn \in Int /\ old.lastDay \in Int /\ old.startedOn <= first /\ old.startedOn <= old.lastDay
      BY <1>3, <3>1 DEF Open
    <3> QED
      BY <1>1, <3>2 DEF Rows
  <2> QED
    BY <2>1, <2>2
<1>6. /\ episodes' \in Seq(Rows(U \cup {row.used}))
      /\ DOMAIN episodes' = DOMAIN episodes \cup {id}
      /\ id \in Nat
      /\ \A i \in DOMAIN episodes' : episodes'[i] = IF i = id THEN row ELSE episodes[i]
      /\ e = 0 => \A i \in DOMAIN episodes : i < id
  <2>1. Rows(U) \subseteq Rows(U \cup {row.used}) /\ row \in Rows(U \cup {row.used})
    BY <1>5 DEF Rows
  <2>2. episodes \in Seq(Rows(U \cup {row.used}))
    <3> DEFINE R == Rows(U)
               S == Rows(U \cup {row.used})
    <3>1. episodes \in Seq(R) /\ R \subseteq S
      BY <1>2, <2>1
    <3> HIDE DEF R, S
    <3>2. episodes \in Seq(S)
      BY <3>1
    <3> QED
      BY <3>2 DEF S
  <2>3. CASE e = 0
    BY <1>1, <2>1, <2>2, <2>3
  <2>4. CASE e # 0
    <3> DEFINE S == Rows(U \cup {row.used})
    <3>1. e \in DOMAIN episodes /\ id = e /\ episodes' = [episodes EXCEPT ![e] = row]
      BY <1>1, <1>4, <2>4
    <3>2. e \in Nat /\ episodes \in Seq(S) /\ row \in S
      BY <1>3, <2>1, <2>2, <3>1
    <3> HIDE DEF S
    <3>3. episodes' \in Seq(S) /\ DOMAIN episodes' = DOMAIN episodes
      BY <3>1, <3>2
    <3>4. \A i \in DOMAIN episodes' : episodes'[i] = IF i = id THEN row ELSE episodes[i]
      BY <3>1, <3>2
    <3> QED
      BY <2>4, <3>1, <3>2, <3>3, <3>4 DEF S
  <2> QED
    BY <2>3, <2>4
<1>7. /\ sick' \in [SickRequests -> Requests(P \cup {units})]
      /\ \A o \in SickRequests \ {r} : sick'[o] = sick[o]
      /\ sick'[r] = [status |-> "APPROVED", first |-> first, last |-> last, episode |-> id, pay |-> units]
  BY <1>1, <1>2, <1>6 DEF Requests
<1>8. /\ paid' \in [SickRequests -> D \cup {pay}]
      /\ paid'[r] = pay /\ \A o \in SickRequests \ {r} : paid'[o] = paid[o]
  BY <1>1, <1>2
<1>9. Shape'
  BY <1>6, <1>7, <1>8 DEF Shape
<1>10. DatesInOrder'
  <2>1. \A o \in SickRequests : Standing(o)' => sick'[o].first <= sick'[o].last
    BY <1>7 DEF SickInv, DatesInOrder, Standing
  <2>2. \A i \in DOMAIN episodes' : episodes'[i].startedOn <= episodes'[i].lastDay
    BY <1>3, <1>5, <1>6
  <2> QED
    BY <2>1, <2>2 DEF DatesInOrder
<1>11. AllInside'
  <2>1. Inside(r)'
    BY <1>1, <1>5, <1>6, <1>7, <1>8 DEF Inside, Breakdown, PaidAt
  <2>2. ASSUME NEW o \in SickRequests \ {r}, sick'[o].status = "APPROVED"
        PROVE  Inside(o)'
    <3>1. Inside(o) /\ sick[o].first \in Int /\ sick[o].last \in Int /\ sick'[o] = sick[o] /\ paid'[o] = paid[o]
      BY <1>2, <1>7, <1>8, <2>2 DEF SickInv, AllInside, Requests
    <3> DEFINE i == sick[o].episode
    <3>2. i \in DOMAIN episodes' /\ episodes'[i].startedOn = episodes[i].startedOn
            /\ episodes'[i].lastDay >= episodes[i].lastDay /\ episodes'[i].lastDay \in Int
      <4>1. CASE i = id
        <5>1. e # 0 /\ old = episodes[i]
          BY <1>1, <1>6, <3>1, <4>1 DEF Inside
        <5> QED
          BY <1>5, <1>6, <4>1, <5>1
      <4>2. CASE i # id
        BY <1>3, <1>6, <3>1, <4>2 DEF Inside
      <4> QED
        BY <4>1, <4>2
    <3> QED
      BY <1>3, <3>1, <3>2 DEF Inside, Breakdown, PaidAt
  <2> QED
    BY <2>1, <2>2 DEF AllInside
<1>12. IllnessIsOneEpisode'
  <2> SUFFICES ASSUME ~backdated', NEW i \in DOMAIN episodes', NEW j \in DOMAIN episodes', i < j,
                      episodes'[i].status # "CLOSED", episodes'[j].status # "CLOSED"
               PROVE  episodes'[i].lastDay + LinkDays + 1 < episodes'[j].startedOn
    BY DEF IllnessIsOneEpisode
  <2>1. ~backdated /\ \A k \in DOMAIN episodes : episodes[k].startedOn <= first
    <3>1. ~backdated /\ \A k \in DOMAIN episodes : ~(episodes[k].startedOn > first)
      BY <1>1, Zenon
    <3> QED
      BY <1>3, <3>1
  <2>2. \A k, l \in DOMAIN episodes :
          k < l /\ episodes[k].status # "CLOSED" /\ episodes[l].status # "CLOSED" =>
            episodes[k].lastDay + LinkDays + 1 < episodes[l].startedOn
    BY <2>1 DEF SickInv, IllnessIsOneEpisode
  <2>3. CASE i # id /\ j # id
    BY <1>6, <2>2, <2>3
  <2>4. CASE j = id
    <3>1. i \in DOMAIN episodes /\ i # id /\ episodes'[i] = episodes[i]
      BY <1>6, <2>4, <1>3
    <3>2. CASE e = 0
      <4>1. ~Open(i, first) /\ episodes'[j].startedOn = first
        BY <1>1, <1>4, <1>5, <1>6, <2>4, <3>1, <3>2, <1>3
      <4> QED
        BY <1>3, <2>1, <3>1, <4>1 DEF Open
    <3>3. CASE e # 0
      <4>1. id = e /\ e \in DOMAIN episodes /\ episodes'[j].startedOn = episodes[e].startedOn
              /\ episodes[e].status # "CLOSED"
        BY <1>1, <1>4, <1>5, <1>6, <2>4, <3>3 DEF Open
      <4> QED
        BY <2>2, <2>4, <3>1, <4>1
    <3> QED
      BY <3>2, <3>3
  <2>5. CASE i = id
    <3>1. j \in DOMAIN episodes /\ episodes'[j] = episodes[j]
      BY <1>3, <1>6, <2>5
    <3>2. id = e /\ e \in DOMAIN episodes /\ Open(e, first)
      BY <1>1, <1>3, <1>4, <1>6, <2>5, <3>1
    <3>3. episodes[e].lastDay + LinkDays + 1 < episodes[j].startedOn
      BY <2>2, <2>5, <3>1, <3>2 DEF Open
    <3>4. Open(j, first)
      BY <1>3, <2>1, <3>1, <3>2, <3>3 DEF Open
    <3> QED
      BY <1>3, <1>4, <3>1, <3>2, <3>3, <3>4
  <2> QED
    BY <2>3, <2>4, <2>5
<1> QED
  BY <1>9, <1>10, <1>11, <1>12 DEF SickInv

----------------------------------------------------------------------------
\* A step that neither approves a request nor touches an episode.
LEMMA NoApprovalInv ==
  ASSUME SickInv, UNCHANGED <<episodes, backdated>>, NEW r \in SickRequests, NEW q,
         sick' = [sick EXCEPT ![r] = q],
         q.status # "APPROVED", q.status \in {"PENDING", "DECLINED", "CANCELLED"},
         \E u : q \in Requests({u}), Standing(r)' => q.first <= q.last,
         \E D : paid' \in [SickRequests -> D],
         \A o \in SickRequests \ {r} : paid'[o] = paid[o]
  PROVE  SickInv'
<1>1. PICK U, P : episodes \in Seq(Rows(U)) /\ sick \in [SickRequests -> Requests(P)]
  BY DEF SickInv, Shape
<1>2. PICK u : q \in Requests({u})
  OBVIOUS
<1>3. q \in Requests(P \cup {u}) /\ sick \in [SickRequests -> Requests(P \cup {u})]
  BY <1>1, <1>2 DEF Requests
<1>4. sick' \in [SickRequests -> Requests(P \cup {u})]
  BY <1>3
<1>5. sick'[r] = q /\ \A o \in SickRequests \ {r} : sick'[o] = sick[o]
  BY <1>3
<1>6. Shape'
  BY <1>1, <1>4 DEF Shape
<1>7. DatesInOrder'
  BY <1>5 DEF SickInv, DatesInOrder, Standing
<1>8. AllInside'
  BY <1>5 DEF SickInv, AllInside, Inside, Breakdown, PaidAt
<1>9. IllnessIsOneEpisode'
  BY DEF SickInv, IllnessIsOneEpisode
<1> QED
  BY <1>6, <1>7, <1>8, <1>9 DEF SickInv

\* A step that keeps the dates of every episode and may close some.
LEMMA DatesKeptInv ==
  ASSUME SickInv, UNCHANGED <<paid, backdated>>, NEW V, episodes' \in Seq(Rows(V)),
         DOMAIN episodes' = DOMAIN episodes,
         \A i \in DOMAIN episodes :
           /\ episodes'[i].startedOn = episodes[i].startedOn
           /\ episodes'[i].lastDay = episodes[i].lastDay
           /\ episodes'[i].status \in {episodes[i].status, "CLOSED"},
         NEW P, sick' \in [SickRequests -> Requests(P)],
         \A r \in SickRequests :
           /\ sick'[r].first = sick[r].first /\ sick'[r].last = sick[r].last
           /\ sick'[r].episode = sick[r].episode /\ sick'[r].pay = sick[r].pay
           /\ sick'[r].status \in {sick[r].status, "CANCELLED"}
  PROVE  SickInv'
<1>1. Shape'
  BY DEF SickInv, Shape
<1>2. DatesInOrder'
  BY DEF SickInv, DatesInOrder, Standing
<1>3. AllInside'
  <2> SUFFICES ASSUME NEW r \in SickRequests, sick'[r].status = "APPROVED"
               PROVE  Inside(r)'
    BY DEF AllInside
  <2>1. Inside(r)
    BY DEF SickInv, AllInside
  <2>2. Breakdown(paid[r])' = Breakdown(paid[r])
    BY DEF Breakdown, PaidAt
  <2> QED
    BY <2>1, <2>2 DEF Inside
<1>4. IllnessIsOneEpisode'
  BY DEF SickInv, IllnessIsOneEpisode
<1> QED
  BY <1>1, <1>2, <1>3, <1>4 DEF SickInv

\* Changing the counters or the status of one episode leaves a sequence of rows.
LEMMA OneRowChanged ==
  ASSUME NEW U, episodes \in Seq(Rows(U)), NEW e, NEW row, NEW V,
         e \in DOMAIN episodes => row \in Rows(V),
         episodes' = [episodes EXCEPT ![e] = row]
  PROVE  /\ episodes' \in Seq(Rows(U \cup V))
         /\ DOMAIN episodes' = DOMAIN episodes
         /\ \A i \in DOMAIN episodes : episodes'[i] = IF i = e THEN row ELSE episodes[i]
<1>1. Rows(U) \subseteq Rows(U \cup V) /\ Rows(V) \subseteq Rows(U \cup V)
  BY DEF Rows
<1> DEFINE S == Rows(U \cup V)
<1>2. episodes \in Seq(S) /\ (e \in DOMAIN episodes => row \in S)
  <2> DEFINE R == Rows(U)
  <2>1. episodes \in Seq(R) /\ R \subseteq S
    BY <1>1
  <2> HIDE DEF R, S
  <2>2. episodes \in Seq(S)
    BY <2>1
  <2> QED
    BY <2>2, <1>1 DEF S
<1> HIDE DEF S
<1>3. CASE e \in DOMAIN episodes
  <2>1. e \in 1 .. Len(episodes) /\ Len(episodes) \in Nat /\ row \in S
    BY <1>2, <1>3
  <2>2. episodes' \in Seq(S) /\ DOMAIN episodes' = DOMAIN episodes
    BY <1>2, <2>1
  <2>3. \A i \in DOMAIN episodes : episodes'[i] = IF i = e THEN row ELSE episodes[i]
    BY <1>2, <2>1
  <2> QED
    BY <2>2, <2>3 DEF S
<1>4. CASE e \notin DOMAIN episodes
  <2>1. DOMAIN episodes = 1 .. Len(episodes) /\ Len(episodes) \in Nat
    BY <1>2
  <2>2. /\ DOMAIN episodes' = DOMAIN episodes
        /\ \A i \in DOMAIN episodes : episodes'[i] = episodes[i]
    BY <1>4
  <2>3. episodes = [i \in DOMAIN episodes |-> episodes[i]]
    BY <1>2
  <2>4. episodes' = [i \in DOMAIN episodes |-> episodes[i]]
    BY <1>4
  <2>5. episodes' = episodes
    BY <2>3, <2>4
  <2> QED
    BY <1>2, <1>4, <2>5 DEF S
<1> QED
  BY <1>3, <1>4 DEF S

LEMMA InitInv == SickInit => SickInv
<1> SUFFICES ASSUME SickInit PROVE SickInv
  OBVIOUS
<1>1. Shape
  <2>1. episodes \in Seq(Rows({}))
    BY DEF SickInit
  <2>2. sick \in [SickRequests -> Requests({NoPay})]
    BY DEF SickInit, NoRequest, Requests
  <2>3. paid \in [SickRequests -> {<<>>}]
    BY DEF SickInit
  <2> QED
    BY <2>1, <2>2, <2>3 DEF Shape
<1>2. DatesInOrder /\ AllInside
  BY DEF SickInit, NoRequest, DatesInOrder, AllInside, Standing
<1>3. IllnessIsOneEpisode
  BY DEF SickInit, IllnessIsOneEpisode
<1> QED
  BY <1>1, <1>2, <1>3 DEF SickInv

----------------------------------------------------------------------------
LEMMA StepInv ==
  ASSUME SickInv, NEW r \in SickRequests, SickStep(r)
  PROVE  SickInv'
<1> USE SickAssumption
<1>0. PICK U, P, D :
        /\ episodes \in Seq(Rows(U))
        /\ sick \in [SickRequests -> Requests(P)]
        /\ paid \in [SickRequests -> D]
  BY DEF SickInv, Shape
<1>1. ASSUME NEW first \in SickDays, NEW last \in SickDays, NEW auto \in BOOLEAN,
             ReportSick(r, first, last, auto)
      PROVE  SickInv'
  <2>1. first \in Int /\ last \in Int /\ first <= last
    BY <1>1 DEF ReportSick, SickDays
  <2>2. CASE Finalize(r, first, last)
    BY <2>1, <2>2, FinalizeInv
  <2>3. CASE ~Finalize(r, first, last)
    <3>1. PICK e \in Episode(first) :
            /\ paid' = [paid EXCEPT ![r] = PayOf(r, first, last, e)]
            /\ sick' = [sick EXCEPT ![r] = [status |-> "PENDING", first |-> first, last |-> last,
                                            episode |-> 0, pay |-> Breakdown(paid'[r])]]
      BY <1>1, <2>3 DEF ReportSick
    <3> DEFINE u == Breakdown(paid'[r])
               q == [status |-> "PENDING", first |-> first, last |-> last, episode |-> 0, pay |-> u]
    <3>2. UNCHANGED <<episodes, backdated>>
      BY <1>1, <2>3 DEF ReportSick
    <3>3. /\ paid' \in [SickRequests -> D \cup {PayOf(r, first, last, e)}]
          /\ \A o \in SickRequests \ {r} : paid'[o] = paid[o]
      BY <1>0, <3>1
    <3>4. q \in Requests({u}) /\ q.status = "PENDING" /\ q.first <= q.last /\ sick' = [sick EXCEPT ![r] = q]
      BY <2>1, <3>1 DEF Requests
    <3> HIDE DEF u, q
    <3> QED
      BY <3>2, <3>3, <3>4, NoApprovalInv
  <2> QED
    BY <2>2, <2>3
<1>2. CASE ApproveSick(r)
  <2>1. /\ sick[r].first \in Int /\ sick[r].last \in Int /\ sick[r].first <= sick[r].last
        /\ Finalize(r, sick[r].first, sick[r].last)
    BY <1>0, <1>2 DEF ApproveSick, SickInv, DatesInOrder, Standing, Requests
  <2> QED
    BY <2>1, FinalizeInv
<1>3. CASE DeclineSick(r)
  <2> DEFINE q == [sick[r] EXCEPT !.status = "DECLINED"]
  <2>1. q \in Requests({q.pay}) /\ q.status = "DECLINED" /\ sick' = [sick EXCEPT ![r] = q]
    BY <1>0, <1>3 DEF DeclineSick, Requests
  <2>2. UNCHANGED <<episodes, backdated, paid>>
    BY <1>3 DEF DeclineSick
  <2>3. sick'[r] = q
    BY <1>0, <2>1
  <2> HIDE DEF q
  <2> QED
    BY <1>0, <2>1, <2>2, <2>3, NoApprovalInv DEF Standing
<1>4. CASE CancelSick(r)
  <2>1. /\ UNCHANGED <<paid, backdated>>
        /\ sick' = [sick EXCEPT ![r].status = "CANCELLED"]
    BY <1>4 DEF CancelSick
  <2>2. /\ sick' \in [SickRequests -> Requests(P)]
        /\ \A o \in SickRequests :
             /\ sick'[o].first = sick[o].first /\ sick'[o].last = sick[o].last
             /\ sick'[o].episode = sick[o].episode /\ sick'[o].pay = sick[o].pay
             /\ sick'[o].status \in {sick[o].status, "CANCELLED"}
    BY <1>0, <2>1 DEF Requests
  <2>3. CASE UNCHANGED episodes
    BY <1>0, <2>1, <2>2, <2>3, DatesKeptInv
  <2>4. CASE ~UNCHANGED episodes
    <3> DEFINE e == sick[r].episode
               used == [t \in Tiers |-> Max({0, episodes[e].used[t] - sick[r].pay[t]})]
               row == [episodes[e] EXCEPT !.used = used]
    <3>1. episodes' = [episodes EXCEPT ![e] = row]
      BY <1>4, <2>4 DEF CancelSick
    <3>2. ASSUME e \in DOMAIN episodes
          PROVE  /\ row \in Rows({used})
                 /\ row.startedOn = episodes[e].startedOn /\ row.lastDay = episodes[e].lastDay
                 /\ row.status = episodes[e].status
      <4>1. episodes[e] \in Rows(U)
        BY <1>0, <3>2
      <4> HIDE DEF used, e
      <4> QED
        BY <4>1 DEF Rows
    <3> HIDE DEF row, used, e
    <3>3. /\ episodes' \in Seq(Rows(U \cup {used}))
          /\ DOMAIN episodes' = DOMAIN episodes
          /\ \A i \in DOMAIN episodes : episodes'[i] = IF i = e THEN row ELSE episodes[i]
      BY <1>0, <3>1, <3>2, OneRowChanged
    <3> QED
      BY <2>1, <2>2, <3>2, <3>3, DatesKeptInv
  <2> QED
    BY <2>3, <2>4
<1> QED
  BY <1>1, <1>2, <1>3, <1>4 DEF SickStep

LEMMA PostInv ==
  ASSUME SickInv, NEW l \in TakeOns, PostTakeOn(l)
  PROVE  SickInv'
<1> DEFINE row == [startedOn |-> l.start, lastDay |-> l.cut, used |-> l.pay, status |-> "OPEN"]
<1>1. /\ episodes' = Append(episodes, row)
      /\ backdated' = (episodes # <<>>)
      /\ UNCHANGED <<sick, paid>>
  BY DEF PostTakeOn
<1>2. PICK U, P, D :
        /\ episodes \in Seq(Rows(U))
        /\ sick \in [SickRequests -> Requests(P)]
        /\ paid \in [SickRequests -> D]
  BY DEF SickInv, Shape
<1> DEFINE S == Rows(U \cup {l.pay})
<1>3. row \in S /\ Rows(U) \subseteq S /\ row.startedOn <= row.lastDay
  BY SickAssumption DEF Rows
<1>4. episodes \in Seq(S)
  <2> DEFINE R == Rows(U)
  <2>1. episodes \in Seq(R) /\ R \subseteq S
    BY <1>2, <1>3
  <2> HIDE DEF R, S
  <2> QED
    BY <2>1
<1> HIDE DEF S, row
<1>5. /\ episodes' \in Seq(S)
      /\ DOMAIN episodes \subseteq DOMAIN episodes'
      /\ \A i \in DOMAIN episodes : episodes'[i] = episodes[i]
      /\ \A i \in DOMAIN episodes' : i \in DOMAIN episodes \/ episodes'[i] = row
  BY <1>1, <1>3, <1>4
<1>6. Shape'
  BY <1>1, <1>2, <1>5 DEF Shape, S
<1>7. DatesInOrder'
  BY <1>1, <1>3, <1>5 DEF SickInv, DatesInOrder, Standing
<1>8. AllInside'
  BY <1>1, <1>5 DEF SickInv, AllInside, Inside, Breakdown, PaidAt
<1>9. IllnessIsOneEpisode'
  <2> SUFFICES ASSUME ~backdated', NEW i \in DOMAIN episodes', NEW j \in DOMAIN episodes', i < j
               PROVE  FALSE
    BY DEF IllnessIsOneEpisode
  <2>1. episodes = <<>>
    BY <1>1
  <2>2. DOMAIN episodes' = 1 .. 1
    BY <1>1, <1>3, <1>4, <2>1
  <2> QED
    BY <2>2
<1> QED
  BY <1>6, <1>7, <1>8, <1>9 DEF SickInv

LEMMA ReverseInv ==
  ASSUME SickInv, ReverseTakeOn
  PROVE  SickInv'
<1> DEFINE e == takeOn.episode
           row == [episodes[e] EXCEPT !.status = "CLOSED", !.used["FULL"] = 0, !.used["HALF"] = 0]
<1>1. episodes' = [episodes EXCEPT ![e] = row] /\ UNCHANGED <<sick, paid, backdated>>
  BY DEF ReverseTakeOn
<1>2. PICK U, P :
        /\ episodes \in Seq(Rows(U))
        /\ sick \in [SickRequests -> Requests(P)]
  BY DEF SickInv, Shape
<1>3. ASSUME e \in DOMAIN episodes
      PROVE  /\ row \in Rows({row.used})
             /\ row.startedOn = episodes[e].startedOn /\ row.lastDay = episodes[e].lastDay
             /\ row.status = "CLOSED"
  <2>1. episodes[e] \in Rows(U)
    BY <1>2, <1>3
  <2> HIDE DEF e
  <2> QED
    BY <2>1 DEF Rows
<1> HIDE DEF row, e
<1>4. /\ episodes' \in Seq(Rows(U \cup {row.used}))
      /\ DOMAIN episodes' = DOMAIN episodes
      /\ \A i \in DOMAIN episodes : episodes'[i] = IF i = e THEN row ELSE episodes[i]
  BY <1>1, <1>2, <1>3, OneRowChanged
<1> QED
  BY <1>1, <1>2, <1>3, <1>4, DatesKeptInv

LEMMA NextInv == SickInv /\ [SickNext]_sickVars => SickInv'
<1> SUFFICES ASSUME SickInv, [SickNext]_sickVars PROVE SickInv'
  OBVIOUS
<1>1. ASSUME NEW r \in SickRequests, SickStep(r) PROVE SickInv'
  BY <1>1, StepInv
<1>2. ASSUME NEW l \in TakeOns, PostTakeOn(l) PROVE SickInv'
  BY <1>2, PostInv
<1>3. CASE ReverseTakeOn
  BY <1>3, ReverseInv
<1>4. CASE UNCHANGED sickVars
  BY <1>4 DEF sickVars, SickInv, Shape, DatesInOrder, Standing, AllInside, Inside, Breakdown, PaidAt,
               IllnessIsOneEpisode
<1> QED
  BY <1>1, <1>2, <1>3, <1>4 DEF SickNext

----------------------------------------------------------------------------
(* Theorems *)

\* No illness is split over two episodes, each with an entitlement of its own:
\* episodes that count lie further apart than the link, unless a part of the
\* illness became known after a later one.
THEOREM OneEpisodePerIllness == SickSpec => []IllnessIsOneEpisode
<1>1. SickInv => IllnessIsOneEpisode
  BY DEF SickInv
<1> QED
  BY <1>1, InitInv, NextInv, PTL DEF SickSpec

\* Approved days lie between the first and the last day of their episode, and
\* the pay written on the request is that of the days payroll reads.
THEOREM DaysAreInside == SickSpec => [](\A i \in DOMAIN episodes : DaysInEpisode(i))
<1>1. SickInv => \A i \in DOMAIN episodes : DaysInEpisode(i)
  BY DEF SickInv, AllInside, Inside, DaysInEpisode, ApprovedIn
<1> QED
  BY <1>1, InitInv, NextInv, PTL DEF SickSpec

-----------------------------------------------------------------------------
(* What the days of a request are paid *)

\* The day's pay, given that of the days before it.
Earlier(g, first, d, t) == {x \in first .. d - 1 : g[x] = t /\ (Yearly => SickCycle(x) = SickCycle(d))}
PaySoFar(r, first, e, g, d, t) ==
  (IF Yearly THEN UsedInYear(r, SickCycle(d), t) ELSE IF e = 0 THEN 0 ELSE episodes[e].used[t])
    + Cardinality(Earlier(g, first, d, t))
DayPay(r, first, e, g, d) ==
  LET began == IF e = 0 THEN first ELSE episodes[e].startedOn
  IN IF scheme.mode = "LONG"
     THEN IF d < began + scheme.full THEN "FULL"
          ELSE IF d < began + scheme.full + scheme.half THEN "HALF" ELSE "UNPAID"
     ELSE IF Yearly /\ d <= scheme.minService THEN "UNPAID"
     ELSE IF PaySoFar(r, first, e, g, d, "FULL") < FullCap(d) THEN "FULL"
     ELSE IF PaySoFar(r, first, e, g, d, "HALF") < scheme.half THEN "HALF" ELSE "UNPAID"
Pays(g, r, first, last, e) == g = [d \in first .. last |-> DayPay(r, first, e, g, d)]

LEMMA PayIs ==
  ASSUME NEW r, NEW first, NEW last, NEW e
  PROVE  PayOf(r, first, last, e) = CHOOSE g : Pays(g, r, first, last, e)
  BY DEF PayOf, Pays, DayPay, PaySoFar, Earlier

LEMMA DayPaySame ==
  ASSUME NEW r, NEW first, NEW e, NEW g, NEW h, NEW d, \A x \in first .. d - 1 : g[x] = h[x]
  PROVE  DayPay(r, first, e, g, d) = DayPay(r, first, e, h, d)
  <1>1. \A t : Earlier(g, first, d, t) = Earlier(h, first, d, t) BY DEF Earlier
  <1>2. \A t : PaySoFar(r, first, e, g, d, t) = PaySoFar(r, first, e, h, d, t) BY <1>1 DEF PaySoFar
  <1>3. QED BY <1>2 DEF DayPay

\* There is such a function: the greatest day up to which there is one is the last.
LEMMA PayExists ==
  ASSUME NEW r, NEW first \in Int, NEW last \in Int, first <= last, NEW e
  PROVE  \E g : Pays(g, r, first, last, e)
  <1> DEFINE G == {k \in (first - 1) .. last : \E g : Pays(g, r, first, k, e)}
  <1>1. IsFiniteSet(G) /\ G \subseteq Int
    <2>1. IsFiniteSet((first - 1) .. last) BY FS_Interval
    <2>2. QED BY <2>1, FS_Subset
  <1>2. first - 1 \in G
    <2> DEFINE k == first - 1
               g == [d \in first .. k |-> 0]
    <2>1. first .. k = {} OBVIOUS
    <2>2. \A f : g = [d \in first .. k |-> DayPay(r, first, e, f, d)] BY <2>1
    <2>3. Pays(g, r, first, k, e) BY <2>2 DEF Pays
    <2>4. k \in (first - 1) .. last OBVIOUS
    <2> HIDE DEF g
    <2>5. QED BY <2>3, <2>4
  <1>3. PICK m \in G : \A c \in G : c <= m
    <2> HIDE DEF G
    <2>1. G # {} BY <1>2
    <2>2. QED BY <1>1, <2>1, Greatest
  <1>4. m \in Int /\ m <= last /\ first - 1 <= m OBVIOUS
  <1>5. PICK g : Pays(g, r, first, m, e) OBVIOUS
  <1>6. ASSUME m # last PROVE FALSE
    <2> DEFINE h == [d \in first .. m + 1 |-> IF d <= m THEN g[d] ELSE DayPay(r, first, e, g, d)]
               k == [d \in first .. m + 1 |-> DayPay(r, first, e, h, d)]
    <2>1. \A d \in first .. m : h[d] = g[d] BY <1>4
    <2>2. ASSUME NEW d \in first .. m + 1 PROVE h[d] = k[d]
      <3>1. DayPay(r, first, e, g, d) = DayPay(r, first, e, h, d)
        <4>1. \A x \in first .. d - 1 : g[x] = h[x] BY <1>4, <2>1
        <4> HIDE DEF h
        <4>2. QED BY <4>1, DayPaySame
      <3>2. h[d] = DayPay(r, first, e, g, d)
        <4>1. CASE d <= m
          <5>1. d \in first .. m BY <1>4, <4>1
          <5>2. g[d] = DayPay(r, first, e, g, d) BY <1>5, <5>1 DEF Pays
          <5>3. QED BY <4>1, <5>2
        <4>2. CASE ~(d <= m) BY <4>2
        <4>3. QED BY <4>1, <4>2
      <3>3. k[d] = DayPay(r, first, e, h, d)
        <4> HIDE DEF h
        <4>1. QED OBVIOUS
      <3>4. QED BY <3>1, <3>2, <3>3
    <2>3. DOMAIN h = first .. m + 1 /\ DOMAIN k = first .. m + 1
          /\ h = [d \in first .. m + 1 |-> h[d]] /\ k = [d \in first .. m + 1 |-> k[d]]
      OBVIOUS
    <2>4. h = k
      <3> HIDE DEF h, k
      <3>1. QED BY <2>2, <2>3
    <2>5. Pays(h, r, first, m + 1, e)
      <3> HIDE DEF h
      <3>1. QED BY <2>4 DEF Pays
    <2>6. m + 1 \in (first - 1) .. last BY <1>4, <1>6
    <2>7. m + 1 \in G
      <3> HIDE DEF h, k
      <3>1. QED BY <2>5, <2>6
    <2>8. QED BY <1>3, <1>4, <2>7
  <1>7. QED BY <1>5, <1>6

\* So many days are paid at each tier.
LEMMA BreakdownIs ==
  ASSUME NEW r, NEW first \in Int, NEW last \in Int, first <= last, NEW e
  PROVE  Breakdown(PayOf(r, first, last, e)) \in [Tiers -> Nat]
  <1> DEFINE g == PayOf(r, first, last, e)
  <1>1. Pays(g, r, first, last, e) BY PayIs, PayExists
  <1>2. DOMAIN g = first .. last BY <1>1 DEF Pays
  <1>3. IsFiniteSet(first .. last) BY FS_Interval
  <1> HIDE DEF g
  <1>4. ASSUME NEW t PROVE Cardinality(PaidAt(g, t)) \in Nat
    <2>1. PaidAt(g, t) \subseteq first .. last BY <1>2 DEF PaidAt
    <2>2. IsFiniteSet(PaidAt(g, t)) BY <1>3, <2>1, FS_Subset
    <2>3. QED BY <2>2, FS_CardinalityType
  <1>5. QED BY <1>4 DEF Breakdown, g

-----------------------------------------------------------------------------
(* The ledger of episodes *)

\* What request r was paid at tier t; what a posted batch brings into episode
\* i; and both, for the requests approved in it.
PayAt(t) == [r \in SickRequests |-> sick[r].pay[t]]
Brings(i, t) == IF takeOn.status = "POSTED" /\ takeOn.episode = i THEN takeOn.line.pay[t] ELSE 0
Tally(i, t) == SumFunctionOnSet(PayAt(t), ApprovedIn(i)) + Brings(i, t)

Entries(L, i, t) == {p \in L : p.episode = i /\ p.tier = t}
LinesOfSource(L, source) == {p \in L : p.key[1] = source}
Lines(key, n, X, e) == {Posting(key[t], t, n[t], e) : t \in X}
TierKeys(source) == [t \in Tiers |-> <<source, t>>]
Negative(n) == [t \in Tiers |-> - n[t]]
Positive(n) == {t \in Tiers : n[t] > 0}

Figured(L) == IsFiniteSet(L) /\ \A p \in L : p.units \in Int

\* Nothing was posted for a request or a batch before its time.
Known(p) ==
  /\ p.episode \in DOMAIN episodes
  /\ \A r \in SickRequests :
       /\ p.key[1] = r => sick[r].status \in {"APPROVED", "CANCELLED"}
       /\ p.key[1] = "REV" /\ p.key[2][1] = r => sick[r].status = "CANCELLED"
  /\ p.key[1] = "OPEN" => takeOn.status # "NONE"
  /\ p.key[1] = "REV" /\ p.key[2][1] = "OPEN" => takeOn.status = "REVERSED"

\* What was posted for a request, and for a batch, that is in force.
Written(source, n, e) == LinesOfSource(postings, source) = Lines(TierKeys(source), Negative(n), Positive(n), e)
Unreversed(source) == \A p \in postings : ~ (p.key[1] = "REV" /\ p.key[2][1] = source)
TakenBack(L, source) == L = postings \cup Reversals(source)
InLedger(r) == Written(r, sick[r].pay, sick[r].episode)
BatchInLedger ==
  /\ takeOn.episode \in DOMAIN episodes
  /\ takeOn.line \in TakeOns
  /\ Written("OPEN", takeOn.line.pay, takeOn.episode)

Adds(i, t) ==
  /\ UnitSum(Entries(postings, i, t)) = - Tally(i, t)
  /\ episodes[i].status # "CLOSED" => episodes[i].used[t] = Tally(i, t)

AddInv ==
  /\ SickInv
  /\ takeOn = [status |-> takeOn.status, line |-> takeOn.line, episode |-> takeOn.episode]
  /\ \A r \in SickRequests : sick[r].pay \in [Tiers -> Nat]
  /\ IsFiniteSet({r \in SickRequests : sick[r].status = "APPROVED"})
  /\ Figured(postings)
  /\ \A p \in postings : Known(p)
  /\ \A r \in SickRequests : sick[r].status = "APPROVED" => InLedger(r)
  /\ takeOn.status = "POSTED" => BatchInLedger
  /\ \A i \in DOMAIN episodes, t \in Tiers : Adds(i, t)

LEMMA PostingFields ==
  ASSUME NEW k, NEW t, NEW u, NEW e
  PROVE  /\ Posting(k, t, u, e).key = k /\ Posting(k, t, u, e).tier = t
         /\ Posting(k, t, u, e).units = u /\ Posting(k, t, u, e).episode = e
  BY DEF Posting

LEMMA LinesFinite ==
  ASSUME NEW key, NEW n, NEW X \in SUBSET Tiers, NEW e
  PROVE  IsFiniteSet(Lines(key, n, X, e))
  <1> DEFINE P(t) == Posting(key[t], t, n[t], e)
  <1>1. IsFiniteSet({P("FULL")} \cup {P("HALF")} \cup {P("UNPAID")})
    <2> HIDE DEF P
    <2>1. IsFiniteSet({P("FULL")}) BY FS_Singleton
    <2>2. IsFiniteSet({P("FULL")} \cup {P("HALF")}) BY <2>1, FS_AddElement
    <2>3. QED BY <2>2, FS_AddElement
  <1>2. Lines(key, n, X, e) \subseteq {P("FULL")} \cup {P("HALF")} \cup {P("UNPAID")}
    <2>1. Lines(key, n, X, e) = {P(t) : t \in X} BY DEF Lines
    <2> HIDE DEF P
    <2>2. \A t \in X : t = "FULL" \/ t = "HALF" \/ t = "UNPAID" BY DEF Tiers
    <2>3. QED BY <2>1, <2>2
  <1>3. QED BY <1>1, <1>2, FS_Subset

\* Lines are at their tier of their episode and no other.
LEMMA LinesApart ==
  ASSUME NEW L, NEW X \in SUBSET Tiers, NEW key, NEW n, NEW e, NEW i, NEW t, i # e \/ t \notin X
  PROVE  Entries(L \cup Lines(key, n, X, e), i, t) = Entries(L, i, t)
  <1>1. \A p \in Lines(key, n, X, e) : p.tier \in X /\ p.episode = e BY PostingFields DEF Lines
  <1>2. QED BY <1>1 DEF Entries

\* Lines that are new to the ledger are added at their tier of their episode.
LEMMA TierLinesAdd ==
  ASSUME NEW L, Figured(L), NEW X \in SUBSET Tiers, NEW key, NEW n, NEW e, \A t \in X : n[t] \in Int,
         \A t \in X : Posting(key[t], t, n[t], e) \notin L
  PROVE  /\ Figured(L \cup Lines(key, n, X, e))
         /\ \A t \in X : UnitSum(Entries(L \cup Lines(key, n, X, e), e, t)) = UnitSum(Entries(L, e, t)) + n[t]
         /\ \A i, t : i # e \/ t \notin X => UnitSum(Entries(L \cup Lines(key, n, X, e), i, t)) = UnitSum(Entries(L, i, t))
  <1> DEFINE N == Lines(key, n, X, e)
             P(t) == Posting(key[t], t, n[t], e)
  <1>1. \A p : p \in N <=> \E t \in X : p = P(t) BY DEF Lines
  <1>2. \A t : P(t).tier = t /\ P(t).units = n[t] /\ P(t).episode = e BY PostingFields
  <1>3. IsFiniteSet(N) BY LinesFinite
  <1>p. \A t \in X : P(t) \notin L OBVIOUS
  <1> HIDE DEF N, P
  <1>4. IsFiniteSet(L \cup N) BY <1>3, FS_Union DEF Figured
  <1>5. \A p \in L \cup N : p.units \in Int BY <1>1, <1>2 DEF Figured
  <1>6. ASSUME NEW t \in X
        PROVE  UnitSum(Entries(L \cup N, e, t)) = UnitSum(Entries(L, e, t)) + n[t]
    <2> DEFINE E == Entries(L, e, t)
    <2>1. IsFiniteSet(E) /\ \A p \in E : p.units \in Int
      <3>1. E \subseteq L BY DEF Entries
      <3>2. QED BY <3>1, FS_Subset DEF Figured
    <2>2. Entries(L \cup N, e, t) = E \cup {P(t)} BY <1>1, <1>2 DEF Entries
    <2>3. P(t) \notin E BY <1>p DEF Entries
    <2>4. P(t).units = n[t] /\ n[t] \in Int BY <1>2
    <2> HIDE DEF E
    <2>5. UnitSum(E \cup {P(t)}) = UnitSum(E) + n[t] BY <2>1, <2>3, <2>4, UnitSumAdd
    <2>6. QED BY <2>2, <2>5 DEF E
  <1>7. ASSUME NEW i, NEW t, i # e \/ t \notin X
        PROVE  UnitSum(Entries(L \cup N, i, t)) = UnitSum(Entries(L, i, t))
    <2>1. Entries(L \cup N, i, t) = Entries(L, i, t) BY <1>1, <1>2, <1>7 DEF Entries
    <2>2. QED BY <2>1
  <1>8. Figured(L \cup N) BY <1>4, <1>5 DEF Figured
  <1>9. QED BY <1>6, <1>7, <1>8 DEF N

\* The lines of two sources are apart.
LEMMA LinesOf ==
  ASSUME NEW source, NEW n, NEW X, NEW e, NEW L, NEW s, X \subseteq Tiers
  PROVE  LET N == Lines(TierKeys(source), n, X, e) IN
         /\ s = source /\ LinesOfSource(L, s) = {} => LinesOfSource(L \cup N, s) = N
         /\ s # source => LinesOfSource(L \cup N, s) = LinesOfSource(L, s)
  <1>1. \A p \in Lines(TierKeys(source), n, X, e) : p.key[1] = source
    <2>1. ASSUME NEW t \in X PROVE Posting(TierKeys(source)[t], t, n[t], e).key[1] = source
      <3>1. TierKeys(source)[t] = <<source, t>> BY DEF TierKeys
      <3>2. QED BY <3>1, PostingFields
    <2>2. QED BY <2>1 DEF Lines
  <1>2. QED BY <1>1 DEF LinesOfSource

\* The reversals of a source's lines.
LEMMA ReversalsAre ==
  ASSUME NEW source, NEW n \in [Tiers -> Nat], NEW e,
         LinesOfSource(postings, source) = Lines(TierKeys(source), Negative(n), Positive(n), e)
  PROVE  Reversals(source) = Lines([t \in Tiers |-> <<"REV", <<source, t>>>>], n, Positive(n), e)
  <1> DEFINE X == Positive(n)
             k == [t \in Tiers |-> <<"REV", <<source, t>>>>]
             P(t) == Posting(<<source, t>>, t, - n[t], e)
             R(t) == Posting(<<"REV", <<source, t>>>>, t, n[t], e)
             V(p) == Posting(<<"REV", p.key>>, p.tier, - p.units, p.episode)
  <1>0. X \subseteq Tiers /\ \A t \in X : t \in Tiers /\ n[t] \in Int BY DEF Positive
  <1>1. {q \in postings : q.key[1] = source} = {P(t) : t \in X}
    <2>1. \A t \in X : TierKeys(source)[t] = <<source, t>> /\ Negative(n)[t] = - n[t] BY <1>0 DEF TierKeys, Negative
    <2>2. Lines(TierKeys(source), Negative(n), X, e) = {P(t) : t \in X} BY <2>1 DEF Lines
    <2>3. QED BY <2>2 DEF LinesOfSource
  <1>2. \A t \in X : V(P(t)) = R(t)
    <2>1. ASSUME NEW t \in X PROVE V(P(t)) = R(t)
      <3>1. P(t).key = <<source, t>> /\ P(t).tier = t /\ P(t).units = - n[t] /\ P(t).episode = e BY PostingFields
      <3>2. - (- n[t]) = n[t] BY <1>0
      <3> HIDE DEF P
      <3>3. QED BY <3>1, <3>2
    <2>2. QED BY <2>1
  <1>3. Reversals(source) = {V(p) : p \in {q \in postings : q.key[1] = source}} BY DEF Reversals
  <1>4. Lines(k, n, X, e) = {R(t) : t \in X}
    <2>1. \A t \in X : k[t] = <<"REV", <<source, t>>>> BY <1>0
    <2> HIDE DEF k, X
    <2>2. QED BY <2>1 DEF Lines
  <1> HIDE DEF P, R, V, X, k
  <1>5. {V(p) : p \in {P(t) : t \in X}} = {R(t) : t \in X} BY <1>2
  <1>6. QED BY <1>1, <1>3, <1>4, <1>5 DEF X, k

-----------------------------------------------------------------------------
(* Every step adds up *)

LEMMA RequestFields ==
  ASSUME SickInv
  PROVE  \E P : sick \in [SickRequests -> Requests(P)]
  BY DEF SickInv, Shape

LEMMA TallyTyped ==
  ASSUME AddInv, NEW i, NEW t \in Tiers
  PROVE  /\ IsFiniteSet(ApprovedIn(i))
         /\ \A r \in SickRequests : PayAt(t)[r] = sick[r].pay[t] /\ PayAt(t)[r] \in Nat
         /\ SumFunctionOnSet(PayAt(t), ApprovedIn(i)) \in Int
         /\ Brings(i, t) \in Int
         /\ Tally(i, t) \in Int
  <1>1. IsFiniteSet(ApprovedIn(i))
    <2>1. ApprovedIn(i) \subseteq {r \in SickRequests : sick[r].status = "APPROVED"} BY DEF ApprovedIn
    <2>2. IsFiniteSet({r \in SickRequests : sick[r].status = "APPROVED"}) BY DEF AddInv
    <2>3. QED BY <2>1, <2>2, FS_Subset
  <1>2. \A r \in SickRequests : PayAt(t)[r] = sick[r].pay[t] /\ PayAt(t)[r] \in Nat BY DEF PayAt, AddInv
  <1>3. SumFunctionOnSet(PayAt(t), ApprovedIn(i)) \in Int
    <2>1. \A r \in ApprovedIn(i) : PayAt(t)[r] \in Int BY <1>2 DEF ApprovedIn
    <2>2. QED BY <1>1, <2>1, SumType
  <1>4. Brings(i, t) \in Int BY TakeOnAssumption DEF Brings, AddInv, BatchInLedger
  <1>5. QED BY <1>1, <1>2, <1>3, <1>4 DEF Tally

\* The requests approved in an episode, and their pay, stay.
LEMMA SumKept ==
  ASSUME AddInv, NEW i, NEW t \in Tiers, ApprovedIn(i)' = ApprovedIn(i),
         \A r \in ApprovedIn(i) : sick'[r].pay = sick[r].pay
  PROVE  SumFunctionOnSet(PayAt(t), ApprovedIn(i))' = SumFunctionOnSet(PayAt(t), ApprovedIn(i))
  <1> DEFINE f == PayAt(t)
             g == PayAt(t)'
             S == ApprovedIn(i)
  <1>1. \A r \in S : g[r] = f[r] BY DEF PayAt, ApprovedIn
  <1>2. IsFiniteSet(S) BY TallyTyped
  <1> HIDE DEF f, g, S
  <1>3. SumFunctionOnSet(g, S) = SumFunctionOnSet(f, S) BY <1>1, <1>2, SumSame
  <1>4. QED BY <1>3 DEF f, g, S

\* What was known of an entry stays so as requests and batches go on.
LEMMA KnownKept ==
  ASSUME \A p \in postings : Known(p), DOMAIN episodes \subseteq DOMAIN episodes',
         \A r \in SickRequests :
           /\ sick[r].status \in {"APPROVED", "CANCELLED"} => sick'[r].status \in {"APPROVED", "CANCELLED"}
           /\ sick[r].status = "CANCELLED" => sick'[r].status = "CANCELLED",
         takeOn.status # "NONE" => takeOn'.status # "NONE",
         takeOn.status = "REVERSED" => takeOn'.status = "REVERSED"
  PROVE  \A p \in postings : Known(p)'
  BY DEF Known

LEMMA Opposite == \A n, m \in Int : n + m = 0 => - n = m OBVIOUS

\* An episode that is not there yet has nothing in it.
LEMMA NewEpisodeEmpty ==
  ASSUME AddInv, NEW i, i \notin DOMAIN episodes, NEW t \in Tiers
  PROVE  ApprovedIn(i) = {} /\ Tally(i, t) = 0 /\ UnitSum(Entries(postings, i, t)) = 0
  <1>1. ApprovedIn(i) = {} BY DEF AddInv, SickInv, AllInside, Inside, ApprovedIn
  <1>2. Entries(postings, i, t) = {} BY DEF AddInv, Known, Entries
  <1>3. Brings(i, t) = 0 BY DEF AddInv, BatchInLedger, Brings
  <1>4. SumFunctionOnSet(PayAt(t), ApprovedIn(i)) = 0 BY <1>1, SumEmpty, Zenon
  <1>5. Tally(i, t) = 0 BY <1>3, <1>4 DEF Tally
  <1>6. UnitSum(Entries(postings, i, t)) = 0 BY <1>2, UnitSumEmpty
  <1>7. QED BY <1>1, <1>5, <1>6

\* An approval counts units in row, the episode with this id, beside the old.
Approves(r, first, last, e, id, units, row, old) ==
  /\ units \in [Tiers -> Nat]
  /\ units = Breakdown(PayOf(r, first, last, e))
  /\ paid' = [paid EXCEPT ![r] = PayOf(r, first, last, e)]
  /\ row.startedOn = IF e = 0 THEN first ELSE episodes[e].startedOn
  /\ DOMAIN episodes' = DOMAIN episodes \cup {id}
  /\ \A i \in DOMAIN episodes' : episodes'[i] = IF i = id THEN row ELSE episodes[i]
  /\ row.used = [t \in Tiers |-> old[t] + units[t]]
  /\ \/ e = 0 /\ id \notin DOMAIN episodes /\ old = NoPay
     \/ e # 0 /\ e = id /\ id \in DOMAIN episodes /\ episodes[id].status # "CLOSED" /\ old = episodes[id].used
  /\ postings' = postings \cup Lines(TierKeys(r), Negative(units), Positive(units), id)
  /\ sick' = [sick EXCEPT ![r] = [status |-> "APPROVED", first |-> first, last |-> last,
                                  episode |-> id, pay |-> units]]

LEMMA FinalizeDoes ==
  ASSUME SickInv, NEW r \in SickRequests, NEW first \in Int, NEW last \in Int, first <= last,
         Finalize(r, first, last)
  PROVE  \E e, id, units, row, old : Approves(r, first, last, e, id, units, row, old)
  <1>0. PICK e \in Episode(first) :
          LET pay == PayOf(r, first, last, e)
              units == Breakdown(pay)
              status == IF units["UNPAID"] > 0 /\ ~Yearly THEN "DISCHARGE_REVIEW" ELSE "OPEN"
              id == IF e = 0 THEN Len(episodes) + 1 ELSE e
              old == IF e = 0 THEN [startedOn |-> first, lastDay |-> last, used |-> NoPay] ELSE episodes[e]
              row == [startedOn |-> old.startedOn,
                      lastDay |-> IF old.lastDay < last THEN last ELSE old.lastDay,
                      used |-> [t \in Tiers |-> old.used[t] + units[t]],
                      status |-> status]
          IN /\ episodes' = IF e = 0 THEN Append(episodes, row) ELSE [episodes EXCEPT ![e] = row]
             /\ paid' = [paid EXCEPT ![r] = pay]
             /\ postings' = postings \cup
                  {Posting(<<r, t>>, t, - units[t], id) : t \in {x \in Tiers : units[x] > 0}}
             /\ sick' = [sick EXCEPT ![r] = [status |-> "APPROVED", first |-> first, last |-> last,
                                             episode |-> id, pay |-> units]]
    BY DEF Finalize
  <1> DEFINE pay == PayOf(r, first, last, e)
             units == Breakdown(pay)
             status == IF units["UNPAID"] > 0 /\ ~Yearly THEN "DISCHARGE_REVIEW" ELSE "OPEN"
             id == IF e = 0 THEN Len(episodes) + 1 ELSE e
             old == IF e = 0 THEN [startedOn |-> first, lastDay |-> last, used |-> NoPay] ELSE episodes[e]
             row == [startedOn |-> old.startedOn,
                     lastDay |-> IF old.lastDay < last THEN last ELSE old.lastDay,
                     used |-> [t \in Tiers |-> old.used[t] + units[t]],
                     status |-> status]
  <1>1. /\ units \in [Tiers -> Nat] /\ units = Breakdown(PayOf(r, first, last, e))
        /\ paid' = [paid EXCEPT ![r] = PayOf(r, first, last, e)]
    BY <1>0, BreakdownIs
  <1>2. /\ id = IF e = 0 THEN Len(episodes) + 1 ELSE e
        /\ old = IF e = 0 THEN [startedOn |-> first, lastDay |-> last, used |-> NoPay] ELSE episodes[e]
        /\ row.startedOn = old.startedOn
        /\ row.used = [t \in Tiers |-> old.used[t] + units[t]]
        /\ episodes' = IF e = 0 THEN Append(episodes, row) ELSE [episodes EXCEPT ![e] = row]
        /\ postings' = postings \cup
                  {Posting(<<r, t>>, t, - units[t], id) : t \in {x \in Tiers : units[x] > 0}}
        /\ sick' = [sick EXCEPT ![r] = [status |-> "APPROVED", first |-> first, last |-> last,
                                        episode |-> id, pay |-> units]]
    BY <1>0
  <1> HIDE DEF pay, units, status, id, old, row
  <1>3. Lines(TierKeys(r), Negative(units), Positive(units), id)
          = {Posting(<<r, t>>, t, - units[t], id) : t \in {x \in Tiers : units[x] > 0}}
    <2>1. \A t \in Tiers : TierKeys(r)[t] = <<r, t>> /\ Negative(units)[t] = - units[t] BY DEF TierKeys, Negative
    <2>2. QED BY <2>1 DEF Lines, Positive
  <1>4. PICK U : episodes \in Seq(Rows(U)) BY DEF SickInv, Shape
  <1>5. \/ e = 0
        \/ e # 0 /\ e \in DOMAIN episodes /\ Open(e, first)
    BY DEF Episode, Continued
  <1>6. /\ DOMAIN episodes' = DOMAIN episodes \cup {id}
        /\ \A i \in DOMAIN episodes' : episodes'[i] = IF i = id THEN row ELSE episodes[i]
        /\ \/ e = 0 /\ id \notin DOMAIN episodes /\ old.used = NoPay
           \/ e # 0 /\ e = id /\ id \in DOMAIN episodes /\ episodes[id].status # "CLOSED" /\ old.used = episodes[id].used
    <2> DEFINE n == Len(episodes)
    <2>1. n \in Nat /\ DOMAIN episodes = 1 .. n BY <1>4
    <2>2. CASE e = 0
      <3>1. id = n + 1 /\ old.used = NoPay /\ episodes' = Append(episodes, row) BY <1>2, <2>2
      <3>2. DOMAIN episodes' = 1 .. n + 1 BY <1>4, <3>1
      <3>3. \A i \in 1 .. n : episodes'[i] = episodes[i] BY <1>4, <3>1
      <3>4. episodes'[n + 1] = row BY <1>4, <3>1
      <3> HIDE DEF n
      <3>5. QED BY <2>1, <2>2, <3>1, <3>2, <3>3, <3>4
    <2>3. CASE e # 0
      <3>1. id = e /\ e \in DOMAIN episodes /\ old = episodes[e] /\ episodes[e].status # "CLOSED"
              /\ episodes' = [episodes EXCEPT ![e] = row]
        BY <1>2, <1>5, <2>3 DEF Open
      <3>2. DOMAIN episodes' = DOMAIN episodes BY <3>1
      <3>3. \A i \in DOMAIN episodes' : episodes'[i] = IF i = id THEN row ELSE episodes[i] BY <3>1
      <3>4. QED BY <2>3, <3>1, <3>2, <3>3
    <2>4. QED BY <2>2, <2>3
  <1>7. QED
    <2> DEFINE o == old.used
    <2>1. /\ row.used = [t \in Tiers |-> o[t] + units[t]]
          /\ \/ e = 0 /\ id \notin DOMAIN episodes /\ o = NoPay
             \/ e # 0 /\ e = id /\ id \in DOMAIN episodes /\ episodes[id].status # "CLOSED" /\ o = episodes[id].used
      BY <1>2, <1>6
    <2>2. postings' = postings \cup Lines(TierKeys(r), Negative(units), Positive(units), id) BY <1>2, <1>3
    <2>3. row.startedOn = IF e = 0 THEN first ELSE episodes[e].startedOn BY <1>2
    <2> HIDE DEF o
    <2>4. Approves(r, first, last, e, id, units, row, o) BY <1>1, <1>2, <1>6, <2>1, <2>2, <2>3 DEF Approves
    <2>5. QED BY <2>4

LEMMA FinalizeAdds ==
  ASSUME AddInv, NEW r \in SickRequests, sick[r].status \in {"NONE", "PENDING"},
         NEW first \in Int, NEW last \in Int, first <= last,
         Finalize(r, first, last), UNCHANGED takeOn
  PROVE  AddInv'
  <1>0. SickInv BY DEF AddInv
  <1>p. PICK e, id, units, row, old : Approves(r, first, last, e, id, units, row, old) BY <1>0, FinalizeDoes
  <1>1. /\ units \in [Tiers -> Nat]
        /\ DOMAIN episodes' = DOMAIN episodes \cup {id}
        /\ \A i \in DOMAIN episodes' : episodes'[i] = IF i = id THEN row ELSE episodes[i]
        /\ row.used = [t \in Tiers |-> old[t] + units[t]]
        /\ \/ id \notin DOMAIN episodes /\ old = NoPay
           \/ id \in DOMAIN episodes /\ episodes[id].status # "CLOSED" /\ old = episodes[id].used
        /\ postings' = postings \cup Lines(TierKeys(r), Negative(units), Positive(units), id)
        /\ sick' = [sick EXCEPT ![r] = [status |-> "APPROVED", first |-> first, last |-> last,
                                        episode |-> id, pay |-> units]]
    BY <1>p DEF Approves
  <1> DEFINE X == Positive(units)
             N == Lines(TierKeys(r), Negative(units), X, id)
  <1>2. SickInv' BY <1>0, FinalizeInv
  <1>3. /\ sick'[r].status = "APPROVED" /\ sick'[r].episode = id /\ sick'[r].pay = units
        /\ \A o \in SickRequests \ {r} : sick'[o] = sick[o]
    BY <1>0, <1>1, RequestFields
  <1>4. \A p \in postings : p.key[1] # r BY DEF AddInv, Known
  <1>5. X \subseteq Tiers /\ \A t \in X : Negative(units)[t] \in Int /\ TierKeys(r)[t] = <<r, t>>
    BY <1>1 DEF Positive, Negative, TierKeys
  <1>6. \A t \in X : Posting(TierKeys(r)[t], t, Negative(units)[t], id) \notin postings
    <2>1. ASSUME NEW t \in X, Posting(TierKeys(r)[t], t, Negative(units)[t], id) \in postings PROVE FALSE
      <3>1. Posting(TierKeys(r)[t], t, Negative(units)[t], id).key = <<r, t>> BY <1>5, PostingFields
      <3>2. QED BY <1>4, <2>1, <3>1
    <2>2. QED BY <2>1
  <1>7. /\ Figured(postings')
        /\ \A t \in X : UnitSum(Entries(postings', id, t)) = UnitSum(Entries(postings, id, t)) + Negative(units)[t]
        /\ \A i, t : i # id \/ t \notin X => UnitSum(Entries(postings', i, t)) = UnitSum(Entries(postings, i, t))
    <2>1. Figured(postings) BY DEF AddInv
    <2>2. X \in SUBSET Tiers /\ \A t \in X : Negative(units)[t] \in Int BY <1>5
    <2> DEFINE k == TierKeys(r)
               m == Negative(units)
    <2>3. /\ \A t \in X : Posting(k[t], t, m[t], id) \notin postings
          /\ \A t \in X : m[t] \in Int
      BY <1>6, <2>2
    <2>4. N = Lines(k, m, X, id) /\ postings' = postings \cup N BY <1>1
    <2> HIDE DEF k, m, N, X
    <2> DEFINE M == Lines(k, m, X, id)
    <2>5. Figured(postings \cup M) BY ONLY <2>1, <2>2, <2>3, TierLinesAdd
    <2>6. \A t \in X : UnitSum(Entries(postings \cup M, id, t)) = UnitSum(Entries(postings, id, t)) + m[t]
      BY ONLY <2>1, <2>2, <2>3, TierLinesAdd
    <2>7. ASSUME NEW i, NEW t, i # id \/ t \notin X
          PROVE  UnitSum(Entries(postings \cup M, i, t)) = UnitSum(Entries(postings, i, t))
      <3>1. Entries(postings \cup M, i, t) = Entries(postings, i, t) BY <2>2, <2>7, LinesApart
      <3> HIDE DEF M
      <3>2. QED BY <3>1, Zenon
    <2> HIDE DEF M
    <2>8. postings' = postings \cup M BY <2>4 DEF M
    <2>9. QED BY <2>5, <2>6, <2>7, <2>8, Zenon DEF m
  <1>8. \A p \in postings' : Known(p)'
    <2>1. \A p \in postings : Known(p)'
      <3>1. \A p \in postings : Known(p) BY DEF AddInv
      <3>2. QED BY <3>1, <1>1, <1>3, KnownKept
    <2>2. ASSUME NEW t \in X PROVE Known(Posting(TierKeys(r)[t], t, Negative(units)[t], id))'
      <3> DEFINE p == Posting(TierKeys(r)[t], t, Negative(units)[t], id)
      <3>1. p.key = <<r, t>> /\ p.episode = id BY <1>5, PostingFields
      <3>2. p.key[1] = r /\ r # "OPEN" /\ r # "REV" BY <3>1, TakeOnAssumption
      <3> HIDE DEF p
      <3>3. id \in DOMAIN episodes' BY <1>1
      <3>4. \A o \in SickRequests : p.key[1] = o => sick'[o].status \in {"APPROVED", "CANCELLED"} BY <1>3, <3>2
      <3>5. Known(p)' BY <3>1, <3>2, <3>3, <3>4 DEF Known
      <3>6. QED BY <3>5 DEF p
    <2>3. QED BY <1>1, <2>1, <2>2 DEF Lines
  <1>9. \A s : LinesOfSource(postings', s) = IF s = r THEN N ELSE LinesOfSource(postings, s)
    <2>1. LinesOfSource(postings, r) = {} BY <1>4 DEF LinesOfSource
    <2>2. ASSUME NEW s PROVE LinesOfSource(postings', s) = IF s = r THEN N ELSE LinesOfSource(postings, s)
      <3>1. postings' = postings \cup N BY <1>1
      <3>2. /\ s = r /\ LinesOfSource(postings, s) = {} => LinesOfSource(postings \cup N, s) = N
            /\ s # r => LinesOfSource(postings \cup N, s) = LinesOfSource(postings, s)
        <4> HIDE DEF X
        <4>1. s # r => LinesOfSource(postings \cup N, s) = LinesOfSource(postings, s) BY <1>5, LinesOf
        <4>2. s = r /\ LinesOfSource(postings, s) = {} => LinesOfSource(postings \cup N, s) = N BY <1>5, LinesOf
        <4>3. QED BY <4>1, <4>2
      <3>3. s = r => LinesOfSource(postings, s) = {} BY <2>1
      <3> HIDE DEF N
      <3>4. LinesOfSource(postings \cup N, s) = IF s = r THEN N ELSE LinesOfSource(postings, s) BY <3>2, <3>3, Zenon
      <3>5. QED BY <3>1, <3>4, Zenon
    <2>3. QED BY <2>2
  <1>10. \A o \in SickRequests : sick'[o].status = "APPROVED" => InLedger(o)'
    <2>1. InLedger(r)' BY <1>3, <1>9 DEF InLedger, Written
    <2>2. ASSUME NEW o \in SickRequests \ {r}, sick'[o].status = "APPROVED" PROVE InLedger(o)'
      BY <1>3, <1>9, <2>2 DEF AddInv, InLedger, Written
    <2>3. QED BY <2>1, <2>2
  <1>11. takeOn'.status = "POSTED" => BatchInLedger'
    <2>1. r # "OPEN" BY TakeOnAssumption
    <2>2. QED BY <1>1, <1>9, <2>1 DEF AddInv, BatchInLedger, Written
  <1>12. /\ \A o \in SickRequests : sick'[o].pay \in [Tiers -> Nat]
         /\ IsFiniteSet({o \in SickRequests : sick'[o].status = "APPROVED"})
    <2>1. \A o \in SickRequests : sick'[o].pay \in [Tiers -> Nat] BY <1>1, <1>3 DEF AddInv
    <2> DEFINE A == {o \in SickRequests : sick[o].status = "APPROVED"}
    <2>2. IsFiniteSet(A) BY DEF AddInv
    <2>3. {o \in SickRequests : sick'[o].status = "APPROVED"} \subseteq A \cup {r} BY <1>3
    <2> HIDE DEF A
    <2>4. IsFiniteSet(A \cup {r}) BY <2>2, FS_AddElement
    <2>5. QED BY <2>1, <2>3, <2>4, FS_Subset
  <1>13. ASSUME NEW i \in DOMAIN episodes', NEW t \in Tiers PROVE Adds(i, t)'
    <2>0. Brings(i, t)' = Brings(i, t) BY DEF Brings
    <2>a. units[t] \in Nat /\ Negative(units)[t] = - units[t] /\ (t \notin X => units[t] = 0)
      BY <1>1 DEF Negative, Positive
    <2>1. CASE i = id
      <3>1. /\ UnitSum(Entries(postings, id, t)) = - Tally(id, t)
            /\ old[t] = Tally(id, t)
        <4>1. CASE id \notin DOMAIN episodes
          <5>1. Tally(id, t) = 0 /\ UnitSum(Entries(postings, id, t)) = 0 BY <4>1, NewEpisodeEmpty
          <5>2. old[t] = 0 BY <1>1, <4>1 DEF NoPay
          <5>3. - Tally(id, t) = 0
            <6> DEFINE n == Tally(id, t)
            <6>1. n \in Int /\ n = 0 BY <5>1
            <6> HIDE DEF n
            <6>2. n + 0 = 0 /\ 0 \in Int BY <6>1
            <6>3. - n = 0 BY <6>1, <6>2, Opposite, Zenon
            <6>4. QED BY <6>3 DEF n
          <5>4. QED BY <5>1, <5>2, <5>3, Zenon
        <4>2. CASE id \in DOMAIN episodes
          <5>1. Adds(id, t) BY <4>2 DEF AddInv
          <5>2. QED BY <1>1, <4>2, <5>1 DEF Adds
        <4>3. QED BY <4>1, <4>2
      <3>2. Tally(id, t)' = Tally(id, t) + units[t]
        <4> DEFINE f == PayAt(t)
                   g == PayAt(t)'
                   S == ApprovedIn(id)
                   T == ApprovedIn(id)'
        <4>1. T = S \cup {r} /\ r \notin S BY <1>3 DEF ApprovedIn
        <4>2. (\A o \in S : g[o] = f[o]) /\ g[r] = units[t] BY <1>3 DEF PayAt, ApprovedIn
        <4>3. IsFiniteSet(S) /\ \A o \in S : f[o] \in Nat BY TallyTyped DEF ApprovedIn
        <4>4. Tally(id, t)' = SumFunctionOnSet(g, T) + Brings(id, t)' BY DEF Tally
        <4>5. Tally(id, t) = SumFunctionOnSet(f, S) + Brings(id, t) BY DEF Tally
        <4> HIDE DEF f, g, S, T
        <4>6. SumFunctionOnSet(g, S \cup {r}) = SumFunctionOnSet(g, S) + g[r]
          BY <2>a, <4>1, <4>2, <4>3, SumAdd
        <4>7. SumFunctionOnSet(g, S) = SumFunctionOnSet(f, S) BY <4>2, <4>3, SumSame
        <4>8. SumFunctionOnSet(f, S) \in Int BY <4>3, SumType
        <4>9. Brings(id, t) \in Int BY TallyTyped
        <4>10. QED BY <2>0, <2>1, <2>a, <4>1, <4>2, <4>4, <4>5, <4>6, <4>7, <4>8, <4>9
      <3>3. Tally(id, t) \in Int BY TallyTyped
      <3>4. UnitSum(Entries(postings', id, t)) = - (Tally(id, t) + units[t])
        BY <1>7, <2>a, <3>1, <3>3
      <3>5. episodes'[id].used[t] = Tally(id, t) + units[t] BY <1>1, <3>1
      <3>6. QED BY <2>1, <3>2, <3>4, <3>5 DEF Adds
    <2>2. CASE i # id
      <3>1. i \in DOMAIN episodes /\ episodes'[i] = episodes[i] BY <1>1, <2>2
      <3>2. ApprovedIn(i)' = ApprovedIn(i) /\ \A o \in ApprovedIn(i) : sick'[o].pay = sick[o].pay
        BY <1>3, <2>2 DEF ApprovedIn
      <3>3. SumFunctionOnSet(PayAt(t), ApprovedIn(i))' = SumFunctionOnSet(PayAt(t), ApprovedIn(i)) BY <3>2, SumKept
      <3>4. Tally(i, t)' = Tally(i, t) BY <2>0, <3>3 DEF Tally
      <3>5. Adds(i, t) BY <3>1 DEF AddInv
      <3>6. Tally(i, t) \in Int BY TallyTyped
      <3>7. UnitSum(Entries(postings', i, t)) = - Tally(i, t) BY <1>7, <2>2, <3>5, <3>6 DEF Adds
      <3>8. QED BY <3>1, <3>4, <3>5, <3>7 DEF Adds
    <2>3. QED BY <2>1, <2>2
  <1>14. takeOn' = [status |-> takeOn'.status, line |-> takeOn'.line, episode |-> takeOn'.episode] BY DEF AddInv
  <1>15. QED BY <1>2, <1>7, <1>8, <1>10, <1>11, <1>12, <1>13, <1>14 DEF AddInv

\* A step that touches neither a ledger entry nor an approved request.
LEMMA QuietAdds ==
  ASSUME AddInv, SickInv', UNCHANGED <<episodes, postings, takeOn>>,
         NEW r \in SickRequests, sick[r].status \in {"NONE", "PENDING"}, NEW q,
         q.status # "APPROVED", q.pay \in [Tiers -> Nat], sick' = [sick EXCEPT ![r] = q]
  PROVE  AddInv'
  <1>1. sick'[r] = q /\ \A o \in SickRequests \ {r} : sick'[o] = sick[o]
    <2>1. SickInv BY DEF AddInv
    <2>2. QED BY <2>1, RequestFields
  <1>2. \A p \in postings' : Known(p)'
    <2>1. \A p \in postings : Known(p) BY DEF AddInv
    <2>2. \A p \in postings : Known(p)' BY <1>1, <2>1, KnownKept
    <2>3. QED BY <2>2
  <1>3. \A o \in SickRequests : sick'[o].status = "APPROVED" => InLedger(o)' BY <1>1 DEF AddInv, InLedger, Written
  <1>4. takeOn'.status = "POSTED" => BatchInLedger' BY DEF AddInv, BatchInLedger, Written
  <1>5. \A o \in SickRequests : sick'[o].pay \in [Tiers -> Nat] BY <1>1 DEF AddInv
  <1>6. {o \in SickRequests : sick'[o].status = "APPROVED"} = {o \in SickRequests : sick[o].status = "APPROVED"}
    BY <1>1
  <1>7. ASSUME NEW i \in DOMAIN episodes', NEW t \in Tiers PROVE Adds(i, t)'
    <2>1. ApprovedIn(i)' = ApprovedIn(i) /\ \A o \in ApprovedIn(i) : sick'[o].pay = sick[o].pay
      BY <1>1 DEF ApprovedIn
    <2>2. SumFunctionOnSet(PayAt(t), ApprovedIn(i))' = SumFunctionOnSet(PayAt(t), ApprovedIn(i)) BY <2>1, SumKept
    <2>3. Tally(i, t)' = Tally(i, t) BY <2>2 DEF Tally, Brings
    <2>4. Adds(i, t) BY DEF AddInv
    <2>5. QED BY <2>3, <2>4 DEF Adds
  <1>8. IsFiniteSet({o \in SickRequests : sick'[o].status = "APPROVED"}) BY <1>6 DEF AddInv
  <1>9. Figured(postings') BY DEF AddInv
  <1>10. takeOn' = [status |-> takeOn'.status, line |-> takeOn'.line, episode |-> takeOn'.episode] BY DEF AddInv
  <1>11. QED BY <1>2, <1>3, <1>4, <1>5, <1>7, <1>8, <1>9, <1>10 DEF AddInv

\* What is taken back was counted, so the counter does not stop at 0.
LEMMA MaxIs == ASSUME NEW n \in Nat PROVE Max({0, n}) = n
  BY DEF Max

\* Reversing the lines of a source.
LEMMA ReversalLines ==
  ASSUME Figured(postings), NEW source, NEW n \in [Tiers -> Nat], NEW e,
         Written(source, n, e), Unreversed(source), NEW L, TakenBack(L, source)
  PROVE  /\ Figured(L)
         /\ \A t \in Tiers : UnitSum(Entries(L, e, t)) = UnitSum(Entries(postings, e, t)) + n[t]
         /\ \A i, t : i # e => UnitSum(Entries(L, i, t)) = UnitSum(Entries(postings, i, t))
         /\ \A p \in L : p \in postings \/ (p.key[1] = "REV" /\ p.key[2][1] = source /\ p.episode = e)
         /\ \A s : s # "REV" => LinesOfSource(L, s) = LinesOfSource(postings, s)
  <1> DEFINE X == Positive(n)
             k == [t \in Tiers |-> <<"REV", <<source, t>>>>]
             N == Lines(k, n, X, e)
  <1>1. Reversals(source) = N BY ReversalsAre DEF Written
  <1>2. X \subseteq Tiers /\ (\A t \in X : n[t] \in Int) /\ (\A t : t \in X <=> t \in Tiers /\ n[t] > 0)
    BY DEF Positive
  <1>3. \A t \in X : k[t][1] = "REV" /\ k[t][2][1] = source BY <1>2
  <1> HIDE DEF X, k
  <1>4. \A p \in N : p.key[1] = "REV" /\ p.key[2][1] = source /\ p.episode = e
    <2>1. ASSUME NEW t \in X
          PROVE  LET p == Posting(k[t], t, n[t], e) IN p.key[1] = "REV" /\ p.key[2][1] = source /\ p.episode = e
      BY <1>3, PostingFields
    <2>2. QED BY <2>1 DEF Lines
  <1>5. \A t \in X : Posting(k[t], t, n[t], e) \notin postings
    <2>1. \A t \in X : Posting(k[t], t, n[t], e).key = k[t] BY PostingFields
    <2>2. QED BY <1>3, <2>1 DEF Unreversed
  <1>6. /\ Figured(postings \cup N)
        /\ \A t \in X : UnitSum(Entries(postings \cup N, e, t)) = UnitSum(Entries(postings, e, t)) + n[t]
        /\ \A i, t : i # e \/ t \notin X => UnitSum(Entries(postings \cup N, i, t)) = UnitSum(Entries(postings, i, t))
    <2>1. Figured(postings) /\ X \in SUBSET Tiers /\ \A t \in X : n[t] \in Int BY <1>2
    <2> HIDE DEF N
    <2> DEFINE M == Lines(k, n, X, e)
    <2>2. Figured(postings \cup M) BY ONLY <1>5, <2>1, TierLinesAdd
    <2>3. \A t \in X : UnitSum(Entries(postings \cup M, e, t)) = UnitSum(Entries(postings, e, t)) + n[t]
      BY ONLY <1>5, <2>1, TierLinesAdd
    <2>4. ASSUME NEW i, NEW t, i # e \/ t \notin X
          PROVE  UnitSum(Entries(postings \cup M, i, t)) = UnitSum(Entries(postings, i, t))
      <3>1. Entries(postings \cup M, i, t) = Entries(postings, i, t) BY <2>1, <2>4, LinesApart
      <3> HIDE DEF M
      <3>2. QED BY <3>1, Zenon
    <2> HIDE DEF M
    <2>6. N = M BY DEF N, M
    <2>5. QED BY <2>2, <2>3, <2>4, <2>6, Zenon
  <1>7. \A s : s # "REV" => LinesOfSource(postings \cup N, s) = LinesOfSource(postings, s) BY <1>4 DEF LinesOfSource
  <1> HIDE DEF N
  <1>8. ASSUME NEW t \in Tiers PROVE UnitSum(Entries(postings \cup N, e, t)) = UnitSum(Entries(postings, e, t)) + n[t]
    <2>1. CASE t \in X BY <1>6, <2>1
    <2>2. CASE t \notin X
      <3>1. n[t] = 0 BY <1>2, <2>2
      <3>2. UnitSum(Entries(postings, e, t)) \in Int
        <4>1. Entries(postings, e, t) \subseteq postings BY DEF Entries
        <4>2. IsFiniteSet(Entries(postings, e, t)) /\ \A p \in Entries(postings, e, t) : p.units \in Int
          BY <4>1, FS_Subset DEF Figured
        <4>3. QED BY <4>2, UnitSumType
      <3>3. UnitSum(Entries(postings \cup N, e, t)) = UnitSum(Entries(postings, e, t)) BY <1>6, <2>2, Zenon
      <3>4. QED BY <3>1, <3>2, <3>3
    <2>3. QED BY <2>1, <2>2
  <1>9. \A i, t : i # e => UnitSum(Entries(postings \cup N, i, t)) = UnitSum(Entries(postings, i, t)) BY <1>6
  <1>10. L = postings \cup N BY <1>1 DEF TakenBack
  <1>11. \A p \in postings \cup N : p \in postings \/ (p.key[1] = "REV" /\ p.key[2][1] = source /\ p.episode = e)
    BY <1>4
  <1>12. Figured(postings \cup N) BY <1>6
  <1>13. QED BY <1>7, <1>8, <1>9, <1>10, <1>11, <1>12, Zenon

LEMMA CancelAdds ==
  ASSUME AddInv, NEW r \in SickRequests, CancelSick(r), sick[r].status = "APPROVED"
  PROVE  AddInv'
  <1>e. PICK e, n : e = sick[r].episode /\ n = sick[r].pay OBVIOUS
  <1>0. SickInv /\ SickInv'
    <2>1. SickInv BY DEF AddInv
    <2>2. QED BY <2>1, StepInv DEF SickStep
  <1>1. /\ postings' = postings \cup Reversals(r)
        /\ episodes' = [episodes EXCEPT ![e] =
                         [episodes[e] EXCEPT !.used = [t \in Tiers |-> Max({0, episodes[e].used[t] - n[t]})]]]
        /\ sick' = [sick EXCEPT ![r].status = "CANCELLED"]
        /\ UNCHANGED takeOn
    BY <1>e DEF CancelSick
  <1>2. /\ sick'[r].status = "CANCELLED" /\ sick'[r].pay = n /\ sick'[r].episode = e
        /\ \A o \in SickRequests \ {r} : sick'[o] = sick[o]
    BY <1>e, <1>0, <1>1, RequestFields DEF Requests
  <1>3. e \in DOMAIN episodes /\ n \in [Tiers -> Nat] /\ InLedger(r)
    BY <1>e, <1>0 DEF AddInv, SickInv, AllInside, Inside
  <1>4. r # "OPEN" /\ r # "REV" BY TakeOnAssumption
  <1>5. /\ Figured(postings')
        /\ \A t \in Tiers : UnitSum(Entries(postings', e, t)) = UnitSum(Entries(postings, e, t)) + n[t]
        /\ \A i, t : i # e => UnitSum(Entries(postings', i, t)) = UnitSum(Entries(postings, i, t))
        /\ \A p \in postings' : p \in postings \/ (p.key[1] = "REV" /\ p.key[2][1] = r /\ p.episode = e)
        /\ \A s : s # "REV" => LinesOfSource(postings', s) = LinesOfSource(postings, s)
    <2>1. Written(r, n, e) BY <1>e, <1>3 DEF InLedger
    <2>2. Unreversed(r) BY DEF AddInv, Known, Unreversed
    <2>3. Figured(postings) BY DEF AddInv
    <2>4. PICK L : L = postings' OBVIOUS
    <2>5. TakenBack(L, r) BY <1>1, <2>4 DEF TakenBack
    <2>6. /\ Figured(L)
          /\ \A t \in Tiers : UnitSum(Entries(L, e, t)) = UnitSum(Entries(postings, e, t)) + n[t]
          /\ \A i, t : i # e => UnitSum(Entries(L, i, t)) = UnitSum(Entries(postings, i, t))
          /\ \A p \in L : p \in postings \/ (p.key[1] = "REV" /\ p.key[2][1] = r /\ p.episode = e)
          /\ \A s : s # "REV" => LinesOfSource(L, s) = LinesOfSource(postings, s)
      BY <1>3, <2>1, <2>2, <2>3, <2>5, ReversalLines
    <2>7. QED BY <2>4, <2>6, Zenon
  <1>6. /\ DOMAIN episodes' = DOMAIN episodes
        /\ episodes'[e].status = episodes[e].status
        /\ \A t \in Tiers : episodes'[e].used[t] = Max({0, episodes[e].used[t] - n[t]})
        /\ \A i \in DOMAIN episodes \ {e} : episodes'[i] = episodes[i]
    <2>1. PICK U : episodes \in Seq(Rows(U)) BY <1>0 DEF SickInv, Shape
    <2>2. episodes[e] \in Rows(U) BY <1>3, <2>1
    <2> DEFINE u == [t \in Tiers |-> Max({0, episodes[e].used[t] - n[t]})]
               row == [episodes[e] EXCEPT !.used = u]
    <2>3. row.status = episodes[e].status /\ row.used = u
      <3> HIDE DEF u
      <3>1. QED BY <2>2 DEF Rows
    <2>4. \A t \in Tiers : u[t] = Max({0, episodes[e].used[t] - n[t]}) OBVIOUS
    <2>5. episodes' = [episodes EXCEPT ![e] = row] BY <1>1
    <2> HIDE DEF row, u
    <2>6. DOMAIN episodes' = DOMAIN episodes /\ episodes'[e] = row
          /\ \A i \in DOMAIN episodes \ {e} : episodes'[i] = episodes[i]
      BY <1>3, <2>5
    <2>7. QED BY <2>3, <2>4, <2>6
  <1>7. \A p \in postings' : Known(p)'
    <2>1. \A p \in postings : Known(p)'
      <3>1. \A p \in postings : Known(p) BY DEF AddInv
      <3>2. QED BY <3>1, <1>1, <1>2, <1>6, KnownKept
    <2>2. ASSUME NEW p \in postings', p \notin postings PROVE Known(p)'
      <3>1. "REV" \notin SickRequests BY TakeOnAssumption
      <3>2. p.key[1] = "REV" /\ p.key[2][1] = r /\ p.episode = e BY <1>5, <2>2
      <3>3. QED BY <1>2, <1>3, <1>4, <1>6, <3>1, <3>2 DEF Known
    <2>3. QED BY <2>1, <2>2
  <1>8. \A o \in SickRequests : sick'[o].status = "APPROVED" => InLedger(o)'
    <2>1. ASSUME NEW o \in SickRequests, sick'[o].status = "APPROVED" PROVE InLedger(o)'
      <3>1. o # r /\ o # "REV" BY <1>2, <2>1, TakeOnAssumption
      <3>2. sick'[o] = sick[o] /\ InLedger(o) BY <1>2, <2>1, <3>1 DEF AddInv
      <3>3. LinesOfSource(postings', o) = LinesOfSource(postings, o) BY <1>5, <3>1
      <3>4. QED BY <3>2, <3>3 DEF InLedger, Written
    <2>2. QED BY <2>1
  <1>9. takeOn'.status = "POSTED" => BatchInLedger'
    <2>1. LinesOfSource(postings', "OPEN") = LinesOfSource(postings, "OPEN") BY <1>5
    <2>2. QED BY <1>1, <1>6, <2>1 DEF AddInv, BatchInLedger, Written
  <1>10. /\ \A o \in SickRequests : sick'[o].pay \in [Tiers -> Nat]
         /\ IsFiniteSet({o \in SickRequests : sick'[o].status = "APPROVED"})
    <2>1. \A o \in SickRequests : sick'[o].pay \in [Tiers -> Nat] BY <1>2, <1>3 DEF AddInv
    <2>2. {o \in SickRequests : sick'[o].status = "APPROVED"} \subseteq {o \in SickRequests : sick[o].status = "APPROVED"}
      BY <1>2
    <2>3. QED BY <2>1, <2>2, FS_Subset DEF AddInv
  <1>11. ASSUME NEW i \in DOMAIN episodes', NEW t \in Tiers PROVE Adds(i, t)'
    <2>0. Brings(i, t)' = Brings(i, t) BY <1>1 DEF Brings
    <2>1. CASE i = e
      <3>1. Tally(e, t) = Tally(e, t)' + n[t] /\ Tally(e, t)' \in Nat /\ n[t] \in Nat
        <4> DEFINE f == PayAt(t)
                   g == PayAt(t)'
                   S == ApprovedIn(e)
                   T == ApprovedIn(e)'
        <4>1. T = S \ {r} /\ r \in S BY <1>e, <1>2 DEF ApprovedIn
        <4>2. (\A o \in T : g[o] = f[o]) /\ f[r] = n[t] BY <1>e, <1>2 DEF PayAt, ApprovedIn
        <4>3. IsFiniteSet(S) /\ \A o \in S : f[o] \in Nat BY TallyTyped DEF ApprovedIn
        <4>4. Tally(e, t)' = SumFunctionOnSet(g, T) + Brings(e, t) BY <2>0, <2>1 DEF Tally
        <4>5. Tally(e, t) = SumFunctionOnSet(f, S) + Brings(e, t) BY DEF Tally
        <4>6. Brings(e, t) \in Nat BY TakeOnAssumption DEF Brings, AddInv, BatchInLedger
        <4>7. n[t] \in Nat BY <1>3
        <4> HIDE DEF f, g, S, T
        <4>8. SumFunctionOnSet(f, S) = f[r] + SumFunctionOnSet(f, S \ {r}) BY <4>1, <4>3, SumTakeOut
        <4>9. IsFiniteSet(T) BY <4>1, <4>3, FS_Subset
        <4>10. SumFunctionOnSet(g, T) = SumFunctionOnSet(f, T) BY <4>2, <4>9, SumSame
        <4>11. SumFunctionOnSet(f, T) \in Nat
          <5>1. \A o \in T : f[o] \in Nat BY <4>1, <4>3
          <5>2. SumFunctionOnSet(f, T) \in Int BY <4>9, <5>1, SumType
          <5>3. SumFunctionOnSet(f, {}) <= SumFunctionOnSet(f, T) BY <4>9, <5>1, SumPart
          <5>4. SumFunctionOnSet(f, {}) = 0 BY SumEmpty
          <5>5. QED BY <5>2, <5>3, <5>4
        <4>12. QED BY <4>1, <4>2, <4>4, <4>5, <4>6, <4>7, <4>8, <4>10, <4>11
      <3>2. Adds(e, t) BY <1>3 DEF AddInv
      <3> DEFINE m == Tally(e, t)'
                 k == Tally(e, t)
                 u == n[t]
      <3>3. UnitSum(Entries(postings', e, t)) = - k + u BY <1>5, <3>2 DEF Adds
      <3>4. episodes[e].status # "CLOSED" => episodes'[e].used[t] = Max({0, k - u}) BY <1>6, <3>2 DEF Adds
      <3>5. k = m + u /\ m \in Nat /\ u \in Nat BY <3>1
      <3> HIDE DEF m, k, u
      <3>6. k - u = m /\ - k + u = - m BY <3>5
      <3>7. Max({0, m}) = m BY <3>5, MaxIs
      <3>8. UnitSum(Entries(postings', e, t)) = - m BY <3>3, <3>6
      <3>9. episodes'[e].status # "CLOSED" => episodes'[e].used[t] = m BY <1>6, <3>4, <3>6, <3>7
      <3>10. QED BY <2>1, <3>8, <3>9 DEF Adds, m
    <2>2. CASE i # e
      <3>1. i \in DOMAIN episodes /\ episodes'[i] = episodes[i] BY <1>6, <2>2
      <3>2. ApprovedIn(i)' = ApprovedIn(i) /\ \A o \in ApprovedIn(i) : sick'[o].pay = sick[o].pay
        BY <1>e, <1>2, <2>2 DEF ApprovedIn
      <3>3. SumFunctionOnSet(PayAt(t), ApprovedIn(i))' = SumFunctionOnSet(PayAt(t), ApprovedIn(i)) BY <3>2, SumKept
      <3>4. Tally(i, t)' = Tally(i, t) BY <2>0, <3>3 DEF Tally
      <3>5. Adds(i, t) BY <3>1 DEF AddInv
      <3>6. UnitSum(Entries(postings', i, t)) = - Tally(i, t) BY <1>5, <2>2, <3>5 DEF Adds
      <3>7. QED BY <3>1, <3>4, <3>5, <3>6 DEF Adds
    <2>3. QED BY <2>1, <2>2
  <1>12. takeOn' = [status |-> takeOn'.status, line |-> takeOn'.line, episode |-> takeOn'.episode] BY <1>1 DEF AddInv
  <1>13. QED BY <1>0, <1>5, <1>7, <1>8, <1>9, <1>10, <1>11, <1>12 DEF AddInv

LEMMA PostAdds ==
  ASSUME AddInv, NEW l \in TakeOns, PostTakeOn(l)
  PROVE  AddInv'
  <1>0. SickInv /\ SickInv'
    <2>1. SickInv BY DEF AddInv
    <2>2. QED BY <2>1, PostInv
  <1>e. PICK id, n : id = Len(episodes) + 1 /\ n = l.pay OBVIOUS
  <1>1. /\ takeOn.status = "NONE"
        /\ takeOn' = [status |-> "POSTED", line |-> l, episode |-> id]
        /\ UNCHANGED sick
        /\ n \in [Tiers -> Nat] /\ n["UNPAID"] = 0
    BY <1>e, TakeOnAssumption DEF PostTakeOn
  <1> DEFINE X == Positive(n)
             N == Lines(TierKeys("OPEN"), Negative(n), X, id)
  <1>2. postings' = postings \cup N
    <2>1. \A t \in Tiers : TierKeys("OPEN")[t] = <<"OPEN", t>> /\ Negative(n)[t] = - n[t] BY DEF TierKeys, Negative
    <2>2. X = {x \in {"FULL", "HALF"} : n[x] > 0}
      <3>1. ~ (n["UNPAID"] > 0) BY <1>1
      <3>2. QED BY <3>1 DEF Positive, Tiers
    <2>3. N = {Posting(<<"OPEN", t>>, t, - n[t], id) : t \in {x \in {"FULL", "HALF"} : n[x] > 0}}
      BY <2>1, <2>2 DEF Lines, Positive, Tiers
    <2> HIDE DEF N
    <2>4. QED BY <1>e, <2>3 DEF PostTakeOn
  <1>3. /\ id \notin DOMAIN episodes
        /\ DOMAIN episodes' = DOMAIN episodes \cup {id}
        /\ \A i \in DOMAIN episodes : episodes'[i] = episodes[i]
        /\ episodes'[id].used = n /\ episodes'[id].status = "OPEN"
    <2>1. PICK U : episodes \in Seq(Rows(U)) BY <1>0 DEF SickInv, Shape
    <2> DEFINE row == [startedOn |-> l.start, lastDay |-> l.cut, used |-> n, status |-> "OPEN"]
               m == Len(episodes)
    <2>2. episodes' = Append(episodes, row) BY <1>e DEF PostTakeOn
    <2>3. row.used = n /\ row.status = "OPEN" OBVIOUS
    <2>4. m \in Nat /\ DOMAIN episodes = 1 .. m BY <2>1
    <2> HIDE DEF row
    <2>5. DOMAIN episodes' = 1 .. m + 1 BY <2>1, <2>2
    <2>6. \A i \in 1 .. m : episodes'[i] = episodes[i] BY <2>1, <2>2
    <2>7. episodes'[m + 1] = row BY <2>1, <2>2
    <2>8. id = m + 1 BY <1>e
    <2> HIDE DEF m
    <2>9. QED BY <2>3, <2>4, <2>5, <2>6, <2>7, <2>8
  <1>4. \A p \in postings : p.key[1] # "OPEN" BY <1>1 DEF AddInv, Known
  <1>5. X \subseteq Tiers /\ \A t \in X : Negative(n)[t] \in Int /\ TierKeys("OPEN")[t] = <<"OPEN", t>>
    BY <1>1 DEF Positive, Negative, TierKeys
  <1>6. \A t \in X : Posting(TierKeys("OPEN")[t], t, Negative(n)[t], id) \notin postings
    <2>1. ASSUME NEW t \in X, Posting(TierKeys("OPEN")[t], t, Negative(n)[t], id) \in postings PROVE FALSE
      <3>1. Posting(TierKeys("OPEN")[t], t, Negative(n)[t], id).key = <<"OPEN", t>> BY <1>5, PostingFields
      <3>2. QED BY <1>4, <2>1, <3>1
    <2>2. QED BY <2>1
  <1>7. /\ Figured(postings')
        /\ \A t \in X : UnitSum(Entries(postings', id, t)) = UnitSum(Entries(postings, id, t)) + Negative(n)[t]
        /\ \A i, t : i # id \/ t \notin X => UnitSum(Entries(postings', i, t)) = UnitSum(Entries(postings, i, t))
    <2>1. Figured(postings) BY DEF AddInv
    <2> HIDE DEF X
    <2>2. X \in SUBSET Tiers /\ \A t \in X : Negative(n)[t] \in Int BY <1>5
    <2>3. Figured(postings \cup N) BY ONLY <1>6, <2>1, <2>2, TierLinesAdd
    <2>4. \A t \in X : UnitSum(Entries(postings \cup N, id, t)) = UnitSum(Entries(postings, id, t)) + Negative(n)[t]
      <3> DEFINE k == TierKeys("OPEN")
                 m == Negative(n)
      <3>1. /\ \A t \in X : Posting(k[t], t, m[t], id) \notin postings
            /\ \A t \in X : m[t] \in Int
        BY <1>6, <2>2
      <3>2. N = Lines(k, m, X, id) OBVIOUS
      <3> HIDE DEF k, m, N, X
      <3>3. \A t \in X : UnitSum(Entries(postings \cup Lines(k, m, X, id), id, t)) = UnitSum(Entries(postings, id, t)) + m[t]
        BY ONLY <2>1, <2>2, <3>1, TierLinesAdd
      <3>4. QED BY <3>2, <3>3, Zenon DEF m
    <2>5. ASSUME NEW i, NEW t, i # id \/ t \notin X
          PROVE  UnitSum(Entries(postings \cup N, i, t)) = UnitSum(Entries(postings, i, t))
      <3>1. Entries(postings \cup N, i, t) = Entries(postings, i, t) BY <2>2, <2>5, LinesApart
      <3> HIDE DEF N
      <3>2. QED BY <3>1, Zenon
    <2> HIDE DEF N
    <2>6. QED BY <1>2, <2>3, <2>4, <2>5, Zenon
  <1>8. \A p \in postings' : Known(p)'
    <2>1. \A p \in postings : Known(p)'
      <3>1. \A p \in postings : Known(p) BY DEF AddInv
      <3>2. QED BY <3>1, <1>1, <1>3, KnownKept
    <2>2. ASSUME NEW t \in X PROVE Known(Posting(TierKeys("OPEN")[t], t, Negative(n)[t], id))'
      <3> DEFINE p == Posting(TierKeys("OPEN")[t], t, Negative(n)[t], id)
      <3>1. p.key = <<"OPEN", t>> /\ p.episode = id BY <1>5, PostingFields
      <3>2. p.key[1] = "OPEN" /\ "OPEN" \notin SickRequests BY <3>1, TakeOnAssumption
      <3> HIDE DEF p
      <3>3. id \in DOMAIN episodes' BY <1>3
      <3>4. Known(p)' BY <1>1, <3>1, <3>2, <3>3 DEF Known
      <3>5. QED BY <3>4 DEF p
    <2>3. QED BY <1>2, <2>1, <2>2 DEF Lines
  <1>9. /\ LinesOfSource(postings', "OPEN") = N
        /\ \A s : s # "OPEN" => LinesOfSource(postings', s) = LinesOfSource(postings, s)
    <2>1. LinesOfSource(postings, "OPEN") = {} BY <1>4 DEF LinesOfSource
    <2> HIDE DEF X
    <2>2. \A s : s # "OPEN" => LinesOfSource(postings \cup N, s) = LinesOfSource(postings, s) BY <1>5, LinesOf
    <2>3. LinesOfSource(postings \cup N, "OPEN") = N BY <1>5, <2>1, LinesOf
    <2> HIDE DEF N
    <2>4. QED BY <1>2, <2>2, <2>3, Zenon
  <1>10. \A o \in SickRequests : sick'[o].status = "APPROVED" => InLedger(o)'
    <2>1. ASSUME NEW o \in SickRequests, sick'[o].status = "APPROVED" PROVE InLedger(o)'
      <3>1. InLedger(o) /\ sick' = sick BY <1>1, <2>1 DEF AddInv
      <3>2. LinesOfSource(postings', o) = LinesOfSource(postings, o) BY <1>9, TakeOnAssumption
      <3>3. QED BY <3>1, <3>2 DEF InLedger, Written
    <2>2. QED BY <2>1
  <1>11. BatchInLedger'
    <2>1. takeOn'.episode = id /\ takeOn'.line = l BY <1>1
    <2>2. Written("OPEN", n, id)' BY <1>9 DEF Written
    <2>3. QED BY <1>3, <1>e, <2>1, <2>2 DEF BatchInLedger
  <1>12. ASSUME NEW i \in DOMAIN episodes', NEW t \in Tiers PROVE Adds(i, t)'
    <2>1. /\ Brings(i, t) = 0
          /\ i = id => Brings(i, t)' = n[t]
          /\ i # id => Brings(i, t)' = 0
      BY <1>1, <1>e DEF Brings
    <2>2. ApprovedIn(i)' = ApprovedIn(i) /\ \A o \in ApprovedIn(i) : sick'[o].pay = sick[o].pay
      BY <1>1 DEF ApprovedIn
    <2>3. SumFunctionOnSet(PayAt(t), ApprovedIn(i))' = SumFunctionOnSet(PayAt(t), ApprovedIn(i)) BY <2>2, SumKept
    <2>4. SumFunctionOnSet(PayAt(t), ApprovedIn(i)) \in Int /\ Tally(i, t) \in Int BY TallyTyped
    <2>5. n[t] \in Nat /\ Negative(n)[t] = - n[t] /\ (t \notin X => n[t] = 0) BY <1>1 DEF Negative, Positive
    <2>6. CASE i = id
      <3>1. Tally(i, t) = 0 /\ UnitSum(Entries(postings, i, t)) = 0 BY <1>3, <2>6, NewEpisodeEmpty
      <3>2. Tally(i, t)' = n[t] BY <2>1, <2>3, <2>4, <2>5, <2>6, <3>1 DEF Tally
      <3>3. UnitSum(Entries(postings', i, t)) = - n[t]
        <4>1. CASE t \in X
          <5>1. UnitSum(Entries(postings', i, t)) = 0 + Negative(n)[t] BY <1>7, <2>6, <3>1, <4>1
          <5>2. QED BY <2>5, <5>1
        <4>2. CASE t \notin X
          <5>1. UnitSum(Entries(postings', i, t)) = 0 BY <1>7, <3>1, <4>2
          <5>2. - n[t] = 0
            <6>1. n[t] \in Int /\ n[t] + 0 = 0 /\ 0 \in Int BY <2>5, <4>2
            <6>2. QED BY <6>1, Opposite, Zenon
          <5>3. QED BY <5>1, <5>2, Zenon
        <4>3. QED BY <4>1, <4>2
      <3>4. episodes'[i].used[t] = n[t] BY <1>3, <2>6
      <3>5. QED BY <3>2, <3>3, <3>4 DEF Adds
    <2>7. CASE i # id
      <3>1. i \in DOMAIN episodes /\ episodes'[i] = episodes[i] BY <1>3, <2>7
      <3>2. Tally(i, t)' = Tally(i, t) BY <2>1, <2>3, <2>7 DEF Tally
      <3>3. Adds(i, t) BY <3>1 DEF AddInv
      <3>4. UnitSum(Entries(postings', i, t)) = - Tally(i, t) BY <1>7, <2>7, <3>3 DEF Adds
      <3>5. QED BY <3>1, <3>2, <3>3, <3>4 DEF Adds
    <2>8. QED BY <2>6, <2>7
  <1>13. /\ takeOn' = [status |-> takeOn'.status, line |-> takeOn'.line, episode |-> takeOn'.episode]
         /\ \A o \in SickRequests : sick'[o].pay \in [Tiers -> Nat]
         /\ IsFiniteSet({o \in SickRequests : sick'[o].status = "APPROVED"})
    BY <1>1 DEF AddInv
  <1>14. QED BY <1>0, <1>7, <1>8, <1>10, <1>11, <1>12, <1>13 DEF AddInv

LEMMA ReverseAdds ==
  ASSUME AddInv, ReverseTakeOn
  PROVE  AddInv'
  <1>0. SickInv /\ SickInv'
    <2>1. SickInv BY DEF AddInv
    <2>2. QED BY <2>1, ReverseInv
  <1>e. PICK e, n : e = takeOn.episode /\ n = takeOn.line.pay OBVIOUS
  <1>1. /\ takeOn.status = "POSTED" /\ BatchInLedger
        /\ UNCHANGED sick
        /\ takeOn' = [takeOn EXCEPT !.status = "REVERSED"]
    BY DEF ReverseTakeOn, AddInv
  <1>2. takeOn'.status = "REVERSED" /\ takeOn' = [status |-> takeOn'.status, line |-> takeOn'.line, episode |-> takeOn'.episode]
    BY <1>1 DEF AddInv
  <1>3. e \in DOMAIN episodes /\ n \in [Tiers -> Nat] BY <1>e, <1>1, TakeOnAssumption DEF BatchInLedger
  <1>4. /\ Figured(postings')
        /\ \A t \in Tiers : UnitSum(Entries(postings', e, t)) = UnitSum(Entries(postings, e, t)) + n[t]
        /\ \A i, t : i # e => UnitSum(Entries(postings', i, t)) = UnitSum(Entries(postings, i, t))
        /\ \A p \in postings' : p \in postings \/ (p.key[1] = "REV" /\ p.key[2][1] = "OPEN" /\ p.episode = e)
        /\ \A s : s # "REV" => LinesOfSource(postings', s) = LinesOfSource(postings, s)
    <2>1. Written("OPEN", n, e) BY <1>e, <1>1 DEF BatchInLedger
    <2>2. Unreversed("OPEN") BY <1>1 DEF AddInv, Known, Unreversed
    <2>3. Figured(postings) BY DEF AddInv
    <2>4. PICK L : L = postings' OBVIOUS
    <2>5. TakenBack(L, "OPEN") BY <2>4 DEF ReverseTakeOn, TakenBack
    <2>6. /\ Figured(L)
          /\ \A t \in Tiers : UnitSum(Entries(L, e, t)) = UnitSum(Entries(postings, e, t)) + n[t]
          /\ \A i, t : i # e => UnitSum(Entries(L, i, t)) = UnitSum(Entries(postings, i, t))
          /\ \A p \in L : p \in postings \/ (p.key[1] = "REV" /\ p.key[2][1] = "OPEN" /\ p.episode = e)
          /\ \A s : s # "REV" => LinesOfSource(L, s) = LinesOfSource(postings, s)
      BY <1>3, <2>1, <2>2, <2>3, <2>5, ReversalLines
    <2>7. QED BY <2>4, <2>6, Zenon
  <1>5. /\ DOMAIN episodes' = DOMAIN episodes
        /\ episodes'[e].status = "CLOSED"
        /\ \A i \in DOMAIN episodes \ {e} : episodes'[i] = episodes[i]
    <2>1. PICK U : episodes \in Seq(Rows(U)) BY <1>0 DEF SickInv, Shape
    <2>2. episodes[e] \in Rows(U) BY <1>3, <2>1
    <2> DEFINE row == [episodes[e] EXCEPT !.status = "CLOSED", !.used["FULL"] = 0, !.used["HALF"] = 0]
    <2>3. row.status = "CLOSED" BY <2>2 DEF Rows
    <2>4. episodes' = [episodes EXCEPT ![e] = row] BY <1>e DEF ReverseTakeOn
    <2> HIDE DEF row
    <2>5. QED BY <1>3, <2>3, <2>4
  <1>6. \A p \in postings' : Known(p)'
    <2>1. \A p \in postings : Known(p)'
      <3>1. \A p \in postings : Known(p) BY DEF AddInv
      <3>2. takeOn.status # "REVERSED" /\ takeOn.status # "NONE" BY <1>1
      <3>3. QED BY <3>1, <3>2, <1>1, <1>2, <1>5, KnownKept
    <2>2. ASSUME NEW p \in postings', p \notin postings PROVE Known(p)'
      <3>1. p.key[1] = "REV" /\ p.key[2][1] = "OPEN" /\ p.episode = e BY <1>4, <2>2
      <3>2. "REV" \notin SickRequests /\ "OPEN" \notin SickRequests BY TakeOnAssumption
      <3>3. QED BY <1>2, <1>3, <1>5, <3>1, <3>2 DEF Known
    <2>3. QED BY <2>1, <2>2
  <1>7. \A o \in SickRequests : sick'[o].status = "APPROVED" => InLedger(o)'
    <2>1. ASSUME NEW o \in SickRequests, sick'[o].status = "APPROVED" PROVE InLedger(o)'
      <3>1. InLedger(o) /\ sick' = sick BY <1>1, <2>1 DEF AddInv
      <3>2. LinesOfSource(postings', o) = LinesOfSource(postings, o) BY <1>4, TakeOnAssumption
      <3>3. QED BY <3>1, <3>2 DEF InLedger, Written
    <2>2. QED BY <2>1
  <1>8. ASSUME NEW i \in DOMAIN episodes', NEW t \in Tiers PROVE Adds(i, t)'
    <2>1. /\ Brings(i, t)' = 0
          /\ i = e => Brings(i, t) = n[t]
          /\ i # e => Brings(i, t) = 0
      BY <1>e, <1>1, <1>2 DEF Brings
    <2>2. ApprovedIn(i)' = ApprovedIn(i) /\ \A o \in ApprovedIn(i) : sick'[o].pay = sick[o].pay
      BY <1>1 DEF ApprovedIn
    <2>3. SumFunctionOnSet(PayAt(t), ApprovedIn(i))' = SumFunctionOnSet(PayAt(t), ApprovedIn(i)) BY <2>2, SumKept
    <2>4. SumFunctionOnSet(PayAt(t), ApprovedIn(i)) \in Int /\ Tally(i, t) \in Int BY TallyTyped
    <2>5. n[t] \in Nat BY <1>3
    <2>6. Adds(i, t) BY <1>5 DEF AddInv
    <2>7. CASE i = e
      <3> DEFINE m == Tally(i, t)'
                 k == Tally(i, t)
                 u == n[t]
      <3>1. k = m + u /\ m \in Int /\ u \in Int BY <2>1, <2>3, <2>4, <2>5, <2>7 DEF Tally
      <3>2. UnitSum(Entries(postings', i, t)) = - k + u BY <1>4, <2>6, <2>7 DEF Adds
      <3> HIDE DEF m, k, u
      <3>3. UnitSum(Entries(postings', i, t)) = - m BY <3>1, <3>2
      <3>4. QED BY <1>5, <2>7, <3>3 DEF Adds, m
    <2>8. CASE i # e
      <3>1. i \in DOMAIN episodes /\ episodes'[i] = episodes[i] BY <1>5, <2>8
      <3>2. Tally(i, t)' = Tally(i, t) BY <2>1, <2>3, <2>8 DEF Tally
      <3>3. UnitSum(Entries(postings', i, t)) = - Tally(i, t) BY <1>4, <2>6, <2>8 DEF Adds
      <3>4. QED BY <2>6, <3>1, <3>2, <3>3 DEF Adds
    <2>9. QED BY <2>7, <2>8
  <1>9. /\ \A o \in SickRequests : sick'[o].pay \in [Tiers -> Nat]
        /\ IsFiniteSet({o \in SickRequests : sick'[o].status = "APPROVED"})
    BY <1>1 DEF AddInv
  <1>10. QED BY <1>0, <1>2, <1>4, <1>6, <1>7, <1>8, <1>9 DEF AddInv

LEMMA StepAdds ==
  ASSUME AddInv, NEW r \in SickRequests, SickStep(r)
  PROVE  AddInv'
  <1>0. SickInv /\ SickInv'
    <2>1. SickInv BY DEF AddInv
    <2>2. QED BY <2>1, StepInv
  <1>1. PICK P : sick \in [SickRequests -> Requests(P)] BY <1>0, RequestFields
  <1>2. ASSUME NEW first \in SickDays, NEW last \in SickDays, NEW auto \in BOOLEAN,
               ReportSick(r, first, last, auto)
        PROVE  AddInv'
    <2>1. /\ first \in Int /\ last \in Int /\ first <= last /\ UNCHANGED takeOn /\ sick[r].status = "NONE"
      BY <1>2, SickAssumption DEF ReportSick, SickDays, NoRequest
    <2>2. CASE Finalize(r, first, last)
      BY <2>1, <2>2, FinalizeAdds
    <2>3. CASE ~Finalize(r, first, last)
      <3>1. PICK e \in Episode(first) :
              /\ paid' = [paid EXCEPT ![r] = PayOf(r, first, last, e)]
              /\ sick' = [sick EXCEPT ![r] = [status |-> "PENDING", first |-> first, last |-> last,
                                              episode |-> 0, pay |-> Breakdown(paid'[r])]]
        BY <1>2, <2>3 DEF ReportSick
      <3> DEFINE u == Breakdown(paid'[r])
                 q == [status |-> "PENDING", first |-> first, last |-> last, episode |-> 0, pay |-> u]
      <3>2. UNCHANGED <<episodes, postings>> BY <1>2, <2>3 DEF ReportSick
      <3>3. PICK D : paid \in [SickRequests -> D] BY <1>0 DEF SickInv, Shape
      <3>4. paid'[r] = PayOf(r, first, last, e) BY <3>1, <3>3
      <3>5. u \in [Tiers -> Nat] BY <2>1, <3>4, BreakdownIs
      <3>6. q.status # "APPROVED" /\ q.pay = u /\ sick' = [sick EXCEPT ![r] = q] BY <3>1
      <3> HIDE DEF u, q
      <3>7. QED BY <1>0, <2>1, <3>2, <3>5, <3>6, QuietAdds
    <2>4. QED BY <2>2, <2>3
  <1>3. CASE ApproveSick(r)
    <2>1. /\ sick[r].first \in Int /\ sick[r].last \in Int /\ sick[r].first <= sick[r].last
          /\ Finalize(r, sick[r].first, sick[r].last)
          /\ sick[r].status = "PENDING" /\ UNCHANGED takeOn
      BY <1>0, <1>1, <1>3 DEF ApproveSick, SickInv, DatesInOrder, Standing, Requests
    <2>2. QED BY <2>1, FinalizeAdds
  <1>4. CASE DeclineSick(r) \/ (CancelSick(r) /\ sick[r].status # "APPROVED")
    <2>1. PICK s \in {"DECLINED", "CANCELLED"} :
            sick' = [sick EXCEPT ![r].status = s] /\ UNCHANGED <<episodes, postings, takeOn>>
              /\ sick[r].status = "PENDING"
      BY <1>4 DEF DeclineSick, CancelSick, Standing
    <2> DEFINE q == [sick[r] EXCEPT !.status = s]
    <2>2. q.status = s /\ q.pay = sick[r].pay /\ sick' = [sick EXCEPT ![r] = q]
      BY <1>1, <2>1 DEF Requests
    <2>3. q.pay \in [Tiers -> Nat] BY <2>2 DEF AddInv
    <2> HIDE DEF q
    <2>4. QED BY <1>0, <2>1, <2>2, <2>3, QuietAdds
  <1>5. CASE CancelSick(r) /\ sick[r].status = "APPROVED" BY <1>5, CancelAdds
  <1>6. QED BY <1>2, <1>3, <1>4, <1>5 DEF SickStep

LEMMA InitAdds == SickInit => AddInv
  <1> SUFFICES ASSUME SickInit PROVE AddInv OBVIOUS
  <1>1. SickInv BY InitInv
  <1>2. takeOn.status = "NONE"
        /\ takeOn = [status |-> takeOn.status, line |-> takeOn.line, episode |-> takeOn.episode]
    BY DEF SickInit, NoBatch
  <1>3. \A r \in SickRequests : sick[r].status = "NONE" /\ sick[r].pay \in [Tiers -> Nat]
    BY DEF SickInit, NoRequest, NoPay
  <1>4. IsFiniteSet({r \in SickRequests : sick[r].status = "APPROVED"})
    <2>1. {r \in SickRequests : sick[r].status = "APPROVED"} = {} BY <1>3
    <2>2. QED BY <2>1, FS_EmptySet
  <1>5. postings = {} /\ DOMAIN episodes = {} BY DEF SickInit
  <1>6. Figured(postings) BY <1>5, FS_EmptySet DEF Figured
  <1>7. QED BY <1>1, <1>2, <1>3, <1>4, <1>5, <1>6 DEF AddInv

LEMMA NextAdds == AddInv /\ [SickNext]_sickVars => AddInv'
  <1> SUFFICES ASSUME AddInv, [SickNext]_sickVars PROVE AddInv' OBVIOUS
  <1>1. ASSUME NEW r \in SickRequests, SickStep(r) PROVE AddInv' BY <1>1, StepAdds
  <1>2. ASSUME NEW l \in TakeOns, PostTakeOn(l) PROVE AddInv' BY <1>2, PostAdds
  <1>3. CASE ReverseTakeOn BY <1>3, ReverseAdds
  <1>4. CASE UNCHANGED sickVars
    <2>1. SickInv'
      <3>1. SickInv BY DEF AddInv
      <3>2. QED BY <1>4, <3>1, NextInv
    <2>2. UNCHANGED <<sick, episodes, postings, takeOn>> BY <1>4 DEF sickVars
    <2>3. \A p : Known(p)' = Known(p) BY <2>2 DEF Known
    <2>4. \A i, t : Adds(i, t)' = Adds(i, t)
      BY <2>2 DEF Adds, Entries, Tally, PayAt, ApprovedIn, Brings
    <2>5. /\ \A r : InLedger(r)' = InLedger(r)
          /\ BatchInLedger' = BatchInLedger
      BY <2>2 DEF InLedger, BatchInLedger, Written
    <2>6. QED BY <2>1, <2>2, <2>3, <2>4, <2>5 DEF AddInv
  <1>5. QED BY <1>1, <1>2, <1>3, <1>4 DEF SickNext

\* The days payroll reads are those the requests were granted.
LEMMA CountedIs ==
  ASSUME AddInv, NEW i, NEW t \in Tiers
  PROVE  Counted(i, t) = Tally(i, t)
  <1> DEFINE S == ApprovedIn(i)
             f == [r \in S |-> Cardinality(PaidAt(paid[r], t))]
             G(g) == [T \in SUBSET S |-> IF T = {} THEN 0
                                         ELSE Cardinality(PaidAt(paid[Pick(T)], t)) + g[T \ {Pick(T)}]]
             h == CHOOSE g : g = G(g)
  <1>1. MapThenSumSet(LAMBDA r : Cardinality(PaidAt(paid[r], t)), S) = h[S] BY DEF MapThenSumSet, MapThenFoldSet, Pick
  <1>2. IsFiniteSet(S) BY TallyTyped
  <1>3. \A r \in S : f[r] = PayAt(t)[r]
    <2>1. ASSUME NEW r \in S PROVE Cardinality(PaidAt(paid[r], t)) = PayAt(t)[r]
      <3>1. r \in SickRequests /\ sick[r].status = "APPROVED" BY DEF ApprovedIn
      <3>2. sick[r].pay = Breakdown(paid[r]) BY <3>1 DEF AddInv, SickInv, AllInside, Inside
      <3>3. QED BY <3>1, <3>2 DEF Breakdown, PayAt
    <2>2. QED BY <2>1
  <1>4. \A g : Sums(g, f, S) <=> g = G(g)
    <2>1. \A T \in SUBSET S : T # {} => f[Pick(T)] = Cardinality(PaidAt(paid[Pick(T)], t)) BY DEF Pick
    <2>2. QED BY <2>1 DEF Sums
  <1> HIDE DEF f, G, S
  <1>5. \E g : g = G(g) BY <1>2, <1>4, Exists
  <1>6. h = G(h) BY <1>5, Zenon
  <1>7. Sums(h, f, S) BY <1>4, <1>6
  <1>8. h[S] = SumFunctionOnSet(f, S) BY <1>2, <1>7, SumBy
  <1>9. SumFunctionOnSet(f, S) = SumFunctionOnSet(PayAt(t), S) BY <1>2, <1>3, SumSame
  <1> HIDE DEF h
  <1>10. MapThenSumSet(LAMBDA r : Cardinality(PaidAt(paid[r], t)), ApprovedIn(i)) = SumFunctionOnSet(PayAt(t), ApprovedIn(i))
    BY <1>1, <1>8, <1>9, Zenon DEF S
  <1>11. QED BY <1>10 DEF Counted, Tally, Brings

\* The counters of an episode, its ledger entries, the pay on its requests, the
\* days payroll reads and what a batch brought say the same, whatever the order
\* of reports, approvals, cancellations, batches and their reversals.
THEOREM EpisodesAreAddedUp == SickSpec => []EpisodesAddUp
  <1>1. AddInv => EpisodesAddUp
    <2> SUFFICES ASSUME AddInv, NEW i \in DOMAIN episodes
                 PROVE  /\ \A t \in Tiers :
                             /\ MapThenSumSet(LAMBDA p : p.units, {p \in postings : p.episode = i /\ p.tier = t})
                                  = - Counted(i, t)
                             /\ episodes[i].status # "CLOSED" => episodes[i].used[t] = Counted(i, t)
                        /\ DaysInEpisode(i)
      BY DEF EpisodesAddUp
    <2>1. DaysInEpisode(i) BY DEF AddInv, SickInv, AllInside, Inside, DaysInEpisode, ApprovedIn
    <2>2. ASSUME NEW t \in Tiers
          PROVE  /\ MapThenSumSet(LAMBDA p : p.units, {p \in postings : p.episode = i /\ p.tier = t})
                      = - Counted(i, t)
                 /\ episodes[i].status # "CLOSED" => episodes[i].used[t] = Counted(i, t)
      <3>1. Adds(i, t) /\ Counted(i, t) = Tally(i, t) BY CountedIs DEF AddInv
      <3>2. MapThenSumSet(LAMBDA p : p.units, {p \in postings : p.episode = i /\ p.tier = t})
              = UnitSum(Entries(postings, i, t))
        BY DEF UnitSum, Entries
      <3>3. QED BY <3>1, <3>2, Zenon DEF Adds
    <2>3. QED BY <2>1, <2>2
  <1>2. QED BY <1>1, InitAdds, NextAdds, PTL DEF SickSpec

-----------------------------------------------------------------------------
(* Sick pay within the entitlement. What is paid in a cycle and what a batch  *)
(* brought into it are within the limit; so is what was paid by any day, while *)
(* leave is earned month by month: the last day judged saw all the others.     *)

LEMMA DivGrows == \A k \in Nat \ {0}, a, b \in Int : a <= b => a \div k <= b \div k OBVIOUS

Limit(t) == IF t = "FULL" THEN scheme.full ELSE scheme.half
Cap(d, t) == IF t = "FULL" THEN FullCap(d) ELSE scheme.half
StandingOnes == {r \in SickRequests : Standing(r)}
OfCycle(f, c, t) == {d \in PaidAt(f, t) : SickCycle(d) = c}
Upto(f, c, t, z) == {d \in OfCycle(f, c, t) : d <= z}
PaidUpto(U, f, c, t, z) == U = Upto(f, c, t, z)
DaysAt(c, t) == [r \in SickRequests |-> Cardinality(OfCycle(paid[r], c, t))]

LEMMA CapGrows ==
  ASSUME scheme \in Schemes, NEW d \in Int, NEW x \in Int, x <= d, NEW t \in {"FULL", "HALF"}
  PROVE  Cap(d, t) \in Int /\ Cap(x, t) <= Cap(d, t) /\ Cap(d, t) <= Limit(t) /\ Limit(t) \in Nat
  <1>1. /\ scheme.full \in Nat /\ scheme.half \in Nat /\ scheme.early \in Int /\ scheme.divisor \in Nat \ {0}
    BY SchemeAssumption
  <1> DEFINE p == x \div scheme.divisor
             q == d \div scheme.divisor
  <1>2. p <= q BY <1>1, DivGrows
  <1>3. p \in Int /\ q \in Int BY <1>1
  <1>4. /\ FullCap(x) = IF Yearly /\ x <= scheme.early /\ p < scheme.full THEN p ELSE scheme.full
        /\ FullCap(d) = IF Yearly /\ d <= scheme.early /\ q < scheme.full THEN q ELSE scheme.full
    BY DEF FullCap
  <1> HIDE DEF p, q
  <1>5. FullCap(d) \in Int /\ FullCap(x) <= FullCap(d) /\ FullCap(d) <= scheme.full BY <1>1, <1>2, <1>3, <1>4
  <1>6. QED BY <1>1, <1>5 DEF Cap, Limit

LEMMA PaysIs ==
  ASSUME NEW r, NEW first \in Int, NEW last \in Int, first <= last, NEW e,
         NEW g, g = PayOf(r, first, last, e)
  PROVE  /\ DOMAIN g = first .. last
         /\ \A d \in first .. last : g[d] = DayPay(r, first, e, g, d)
  <1>1. Pays(g, r, first, last, e) BY PayIs, PayExists
  <1>2. QED BY <1>1 DEF Pays

LEMMA DayWithin ==
  ASSUME NEW r, NEW first, NEW e, NEW g, NEW d, NEW t \in {"FULL", "HALF"},
         scheme.mode # "LONG", DayPay(r, first, e, g, d) = t
  PROVE  PaySoFar(r, first, e, g, d, t) < Cap(d, t)
  BY DEF DayPay, Cap

\* The last of some days is paid within the limit, so all are.
LEMMA YearlyWithin ==
  ASSUME scheme \in Schemes, Yearly, NEW r, NEW first \in Int, NEW last \in Int, first <= last, NEW e,
         NEW t \in {"FULL", "HALF"}, NEW c, NEW z \in Int, UsedInYear(r, c, t) \in Int,
         NEW g, g = PayOf(r, first, last, e), NEW U, PaidUpto(U, g, c, t, z), U # {}
  PROVE  IsFiniteSet(U) /\ \E x \in U : x \in Int /\ x <= z /\ UsedInYear(r, c, t) + Cardinality(U) <= Cap(x, t)
  <1>1. /\ DOMAIN g = first .. last
        /\ \A d \in first .. last : g[d] = DayPay(r, first, e, g, d)
    BY PaysIs
  <1>2. U = {d \in first .. last : g[d] = t /\ SickCycle(d) = c /\ d <= z}
    BY <1>1 DEF PaidUpto, Upto, OfCycle, PaidAt
  <1>3. IsFiniteSet(U)
    <2>1. IsFiniteSet(first .. last) BY FS_Interval
    <2>2. U \in SUBSET (first .. last) BY <1>2
    <2>3. QED BY <2>1, <2>2, FS_Subset
  <1>4. PICK x \in U : \A y \in U : y <= x
    <2>1. U \subseteq Int BY <1>2
    <2>2. QED BY <1>3, <2>1, Greatest
  <1>5. x \in Int /\ x \in first .. last /\ g[x] = t /\ SickCycle(x) = c /\ x <= z BY <1>2
  <1>6. Earlier(g, first, x, t) = U \ {x}
    <2>1. \A y \in U : y \in Int BY <1>2
    <2>2. \A y : y \in Earlier(g, first, x, t) <=> y \in first .. x - 1 /\ g[y] = t /\ SickCycle(y) = c
      BY <1>5 DEF Earlier
    <2>3. ASSUME NEW y \in U \ {x} PROVE y \in Earlier(g, first, x, t)
      <3>1. y <= x /\ y # x /\ y \in Int BY <1>4, <2>1
      <3>2. y \in first .. last /\ g[y] = t /\ SickCycle(y) = c BY <1>2
      <3>3. QED BY <1>5, <2>2, <3>1, <3>2
    <2>4. ASSUME NEW y \in Earlier(g, first, x, t) PROVE y \in U \ {x}
      <3>1. y \in first .. x - 1 /\ g[y] = t /\ SickCycle(y) = c BY <2>2
      <3>2. y \in first .. last /\ y <= z /\ y # x BY <1>5, <3>1
      <3>3. QED BY <1>2, <3>1, <3>2
    <2>5. QED BY <2>3, <2>4
  <1>7. PaySoFar(r, first, e, g, x, t) = UsedInYear(r, c, t) + Cardinality(U \ {x}) BY <1>5, <1>6 DEF PaySoFar
  <1>8. DayPay(r, first, e, g, x) = t BY <1>1, <1>5
  <1>9. PaySoFar(r, first, e, g, x, t) < Cap(x, t) BY <1>8, DayWithin DEF Yearly
  <1>10. Cardinality(U \ {x}) = Cardinality(U) - 1 /\ Cardinality(U) \in Nat
    BY <1>3, FS_RemoveElement, FS_CardinalityType
  <1>11. Cap(x, t) \in Int BY <1>5, CapGrows
  <1>12. UsedInYear(r, c, t) + Cardinality(U) <= Cap(x, t) BY <1>7, <1>9, <1>10, <1>11
  <1>13. QED BY <1>3, <1>5, <1>12

\* Under the rule for short contracts, in an episode.
LEMMA ShortWithin ==
  ASSUME scheme \in Schemes, scheme.mode = "SHORT", NEW r, NEW first \in Int, NEW last \in Int, first <= last,
         NEW e, NEW t \in {"FULL", "HALF"},
         NEW used \in Int, used = IF e = 0 THEN 0 ELSE episodes[e].used[t], used <= Limit(t)
  PROVE  used + Breakdown(PayOf(r, first, last, e))[t] <= Limit(t)
  <1>0. PICK g, U : g = PayOf(r, first, last, e) /\ U = PaidAt(g, t) OBVIOUS
  <1>1. /\ DOMAIN g = first .. last
        /\ \A d \in first .. last : g[d] = DayPay(r, first, e, g, d)
    BY <1>0, PaysIs
  <1>2. U = {d \in first .. last : g[d] = t} BY <1>0, <1>1 DEF PaidAt
  <1>3. IsFiniteSet(U) /\ U \subseteq Int
    <2>1. IsFiniteSet(first .. last) BY FS_Interval
    <2>2. U \in SUBSET (first .. last) BY <1>2
    <2>3. U \subseteq Int BY <2>2
    <2>4. QED BY <2>1, <2>2, <2>3, FS_Subset
  <1>4. Breakdown(PayOf(r, first, last, e))[t] = Cardinality(U)
    BY <1>0 DEF Breakdown, Tiers
  <1>5. Limit(t) \in Nat BY SchemeAssumption DEF Limit
  <1>6. CASE U = {}
    <2>1. Cardinality(U) = 0 BY <1>6, FS_EmptySet
    <2>2. QED BY <1>4, <1>5, <2>1
  <1>7. CASE U # {}
    <2>1. PICK x \in U : \A y \in U : y <= x BY <1>3, <1>7, Greatest
    <2>2. x \in Int /\ x \in first .. last /\ g[x] = t BY <1>2
    <2>3. Earlier(g, first, x, t) = U \ {x}
      <3>1. \A y : y \in Earlier(g, first, x, t) <=> y \in first .. x - 1 /\ g[y] = t BY DEF Earlier, Yearly
      <3>2. ASSUME NEW y \in U \ {x} PROVE y \in Earlier(g, first, x, t)
        <4>1. y <= x /\ y # x /\ y \in Int BY <1>3, <2>1
        <4>2. y \in first .. last /\ g[y] = t BY <1>2
        <4>3. QED BY <2>2, <3>1, <4>1, <4>2
      <3>3. ASSUME NEW y \in Earlier(g, first, x, t) PROVE y \in U \ {x}
        <4>1. y \in first .. x - 1 /\ g[y] = t BY <3>1
        <4>2. QED BY <1>2, <2>2, <4>1
      <3>4. QED BY <3>2, <3>3
    <2>4. PaySoFar(r, first, e, g, x, t) = used + Cardinality(U \ {x}) BY <2>3 DEF PaySoFar, Yearly
    <2>5. DayPay(r, first, e, g, x) = t BY <1>1, <2>2
    <2>6. PaySoFar(r, first, e, g, x, t) < Cap(x, t) BY <2>5, DayWithin
    <2>7. Cardinality(U \ {x}) = Cardinality(U) - 1 /\ Cardinality(U) \in Nat
      BY <1>3, FS_RemoveElement, FS_CardinalityType
    <2>8. Cap(x, t) <= Limit(t) /\ Cap(x, t) \in Int BY <2>2, CapGrows
    <2>9. QED BY <1>4, <1>5, <2>4, <2>6, <2>7, <2>8
  <1>8. QED BY <1>6, <1>7

\* Under the rule for long contracts, by the month of the illness.
LEMMA LongPays ==
  ASSUME scheme.mode = "LONG", NEW r, NEW first \in Int, NEW last \in Int, first <= last, NEW e,
         NEW g, g = PayOf(r, first, last, e), NEW d \in DOMAIN g
  PROVE  LET began == IF e = 0 THEN first ELSE episodes[e].startedOn
         IN g[d] = IF d < began + scheme.full THEN "FULL"
                   ELSE IF d < began + scheme.full + scheme.half THEN "HALF" ELSE "UNPAID"
  <1>1. g[d] = DayPay(r, first, e, g, d) BY PaysIs
  <1>2. QED BY <1>1 DEF DayPay

\* A request in force has the days it asks for.
PaidDays(r) ==
  /\ sick[r].first \in SickDays /\ sick[r].last \in SickDays
  /\ DOMAIN paid[r] = sick[r].first .. sick[r].last

\* Nobody is paid more in a cycle than the rule allows, nor, in early months,
\* by any day, than was earned by then.
CyclesIn ==
  \A c : \A t \in {"FULL", "HALF"} : SumFunctionOnSet(DaysAt(c, t), StandingOnes) + Brought(c, t) <= Limit(t)
PaidBy(d) == {x \in 1 .. d : SickCycle(x) = SickCycle(d) /\ \E r \in StandingOnes : x \in PaidAt(paid[r], "FULL")}
EarlyIn == \A d \in SickDays : Cardinality(PaidBy(d)) <= FullCap(d)
Counters(i) ==
  /\ episodes[i].used \in [Tiers -> Nat]
  /\ scheme.mode = "SHORT" /\ ~stretched => \A t \in {"FULL", "HALF"} : episodes[i].used[t] <= Limit(t)
Batch ==
  /\ stretched \in BOOLEAN
  /\ takeOn.status \in {"NONE", "POSTED", "REVERSED"}
  /\ takeOn.status = "NONE" => takeOn = NoBatch /\ ~stretched
  /\ takeOn.status = "POSTED" => takeOn.line \in TakeOns

Judgements ==
  /\ IsFiniteSet(StandingOnes)
  /\ \A r \in StandingOnes : PaidDays(r)
  /\ Yearly /\ ~stretched => CyclesIn
  /\ Yearly /\ takeOn = NoBatch => EarlyIn
WithinInv ==
  /\ AddInv /\ Batch /\ scheme \in Schemes /\ Judgements
  /\ \A i \in DOMAIN episodes : Counters(i) /\ (scheme.mode = "LONG" => MonthsWithin(i))

LEMMA DaysAtTyped ==
  ASSUME Judgements, NEW c, NEW t
  PROVE  \A r \in StandingOnes : /\ r \in SickRequests /\ IsFiniteSet(OfCycle(paid[r], c, t))
                            /\ DaysAt(c, t)[r] = Cardinality(OfCycle(paid[r], c, t)) /\ DaysAt(c, t)[r] \in Nat
  <1> SUFFICES ASSUME NEW r \in StandingOnes
               PROVE  /\ r \in SickRequests /\ IsFiniteSet(OfCycle(paid[r], c, t))
                      /\ DaysAt(c, t)[r] = Cardinality(OfCycle(paid[r], c, t)) /\ DaysAt(c, t)[r] \in Nat
    OBVIOUS
  <1>1. r \in SickRequests BY DEF StandingOnes
  <1>2. DOMAIN paid[r] = sick[r].first .. sick[r].last /\ sick[r].first \in Int /\ sick[r].last \in Int
    BY SickAssumption DEF Judgements, PaidDays, SickDays
  <1>3. IsFiniteSet(sick[r].first .. sick[r].last) BY <1>2, FS_Interval
  <1>4. OfCycle(paid[r], c, t) \in SUBSET (sick[r].first .. sick[r].last) BY <1>2 DEF OfCycle, PaidAt
  <1>5. IsFiniteSet(OfCycle(paid[r], c, t)) BY <1>3, <1>4, FS_Subset
  <1>6. DaysAt(c, t)[r] = Cardinality(OfCycle(paid[r], c, t)) BY <1>1 DEF DaysAt
  <1>7. QED BY <1>1, <1>5, <1>6, FS_CardinalityType

LEMMA TakenIs ==
  ASSUME NEW S \in SUBSET SickRequests, IsFiniteSet(S), NEW c, NEW t
  PROVE  TakenInCycle(S, c, t) = SumFunctionOnSet(DaysAt(c, t), S)
  <1> DEFINE f == DaysAt(c, t)
             G(g) == [T \in SUBSET S |-> IF T = {} THEN 0
                        ELSE Cardinality({d \in PaidAt(paid[Pick(T)], t) : SickCycle(d) = c}) + g[T \ {Pick(T)}]]
             h == CHOOSE g : g = G(g)
  <1>1. TakenInCycle(S, c, t) = h[S] BY DEF TakenInCycle, MapThenSumSet, MapThenFoldSet, Pick
  <1>2. \A g : Sums(g, f, S) <=> g = G(g)
    <2>1. \A T \in SUBSET S : T # {} =>
            f[Pick(T)] = Cardinality({d \in PaidAt(paid[Pick(T)], t) : SickCycle(d) = c})
      BY DEF Pick, DaysAt, OfCycle
    <2>2. QED BY <2>1 DEF Sums
  <1> HIDE DEF f, G
  <1>3. \E g : g = G(g) BY <1>2, Exists
  <1>4. h = G(h) BY <1>3, Zenon
  <1>5. Sums(h, f, S) BY <1>2, <1>4
  <1>6. QED BY <1>1, <1>5, SumBy DEF f

LEMMA BroughtTyped ==
  ASSUME Batch, NEW c, NEW t \in {"FULL", "HALF"}
  PROVE  Brought(c, t) \in Nat
  BY TakeOnAssumption DEF Batch, Brought, Tiers

\* Judging a request counts what the others in force take.
LEMMA UsedIs ==
  ASSUME Judgements, Batch, NEW r, NEW c, NEW t \in {"FULL", "HALF"}
  PROVE  /\ UsedInYear(r, c, t) = SumFunctionOnSet(DaysAt(c, t), StandingOnes \ {r}) + Brought(c, t)
         /\ UsedInYear(r, c, t) \in Int
  <1> DEFINE S == StandingOnes \ {r}
  <1>1. {o \in SickRequests \ {r} : Standing(o)} = S BY DEF StandingOnes
  <1>2. S \in SUBSET SickRequests /\ IsFiniteSet(S) BY FS_Subset DEF Judgements, StandingOnes
  <1>3. \A o \in S : DaysAt(c, t)[o] \in Int BY DaysAtTyped
  <1>4. UsedInYear(r, c, t) = TakenInCycle(S, c, t) + Brought(c, t) BY <1>1 DEF UsedInYear
  <1> HIDE DEF S
  <1>5. TakenInCycle(S, c, t) = SumFunctionOnSet(DaysAt(c, t), S) BY <1>2, TakenIs
  <1>6. SumFunctionOnSet(DaysAt(c, t), S) \in Int BY <1>2, <1>3, SumType
  <1>7. Brought(c, t) \in Nat BY BroughtTyped
  <1>8. QED BY <1>4, <1>5, <1>6, <1>7 DEF S

\* A request is judged, for the first time or again, and is in force.
LEMMA Judged ==
  ASSUME WithinInv, NEW r \in SickRequests, NEW first \in SickDays, NEW last \in SickDays, first <= last, NEW e,
         UNCHANGED <<scheme, takeOn, stretched>>,
         paid' = [paid EXCEPT ![r] = PayOf(r, first, last, e)],
         sick'[r].status \in {"PENDING", "APPROVED"}, sick'[r].first = first, sick'[r].last = last,
         \A o \in SickRequests \ {r} : sick'[o] = sick[o]
  PROVE  Judgements'
  <1>0. PICK g, S : g = PayOf(r, first, last, e) /\ S = StandingOnes \ {r} OBVIOUS
  <1>i. first \in Int /\ last \in Int /\ 1 <= first BY SickAssumption DEF SickDays
  <1>g. DOMAIN g = first .. last BY <1>0, <1>i, PaysIs
  <1>h. Judgements /\ Batch /\ scheme \in Schemes BY DEF WithinInv
  <1>p. paid'[r] = g /\ \A o \in SickRequests \ {r} : paid'[o] = paid[o]
    <2>1. PICK D : paid \in [SickRequests -> D] BY DEF WithinInv, AddInv, SickInv, Shape
    <2>2. QED BY <1>0, <2>1
  <1>1. /\ StandingOnes' = S \cup {r} /\ r \notin S /\ S \subseteq StandingOnes
        /\ S \subseteq SickRequests /\ IsFiniteSet(S)
    <2>1. StandingOnes' = S \cup {r} /\ r \notin S /\ S \subseteq StandingOnes /\ S \subseteq SickRequests
      BY <1>0 DEF StandingOnes, Standing
    <2>2. QED BY <1>h, <2>1, FS_Subset DEF Judgements
  <1>2. IsFiniteSet(StandingOnes') BY <1>1, FS_AddElement
  <1>3. ASSUME NEW o \in StandingOnes' PROVE PaidDays(o)'
    <2>1. CASE o = r BY <1>g, <1>p, <2>1 DEF PaidDays, SickDays
    <2>2. CASE o # r
      <3>1. o \in StandingOnes /\ sick'[o] = sick[o] /\ paid'[o] = paid[o] BY <1>1, <1>p, <2>2
      <3>2. PaidDays(o) BY <1>h, <3>1 DEF Judgements
      <3>3. QED BY <3>1, <3>2 DEF PaidDays, SickDays
    <2>3. QED BY <2>1, <2>2
  <1>c. \A f, c, t : OfCycle(f, c, t)' = OfCycle(f, c, t) BY DEF OfCycle, SickCycle, PaidAt
  <1>4. ASSUME NEW c, NEW t \in {"FULL", "HALF"}, NEW C, C = OfCycle(g, c, t)
        PROVE  /\ SumFunctionOnSet(DaysAt(c, t), StandingOnes)' = SumFunctionOnSet(DaysAt(c, t), S) + Cardinality(C)
               /\ SumFunctionOnSet(DaysAt(c, t), S) \in Int /\ IsFiniteSet(C) /\ Cardinality(C) \in Nat
    <2>1. PICK f, h : f = DaysAt(c, t) /\ h = DaysAt(c, t)' OBVIOUS
    <2>2. \A o \in S : h[o] = f[o] /\ f[o] \in Nat
      <3>1. \A o \in S : f[o] \in Nat BY <1>1, <1>h, <2>1, DaysAtTyped
      <3>2. ASSUME NEW o \in S PROVE h[o] = f[o]
        <4>1. o \in SickRequests /\ paid'[o] = paid[o] BY <1>1, <1>p
        <4>2. OfCycle(paid[o], c, t)' = OfCycle(paid[o], c, t) BY <4>1 DEF OfCycle, SickCycle, PaidAt
        <4>3. QED BY <2>1, <4>1, <4>2 DEF DaysAt
      <3>3. QED BY <3>1, <3>2
    <2>3. h[r] = Cardinality(C)
      <3>1. OfCycle(paid[r], c, t)' = C BY <1>p, <1>4 DEF OfCycle, SickCycle, PaidAt
      <3>2. QED BY <2>1, <3>1 DEF DaysAt
    <2>4. IsFiniteSet(C) /\ Cardinality(C) \in Nat
      <3>1. C \in SUBSET (first .. last) BY <1>4, <1>g DEF OfCycle, PaidAt
      <3>2. IsFiniteSet(first .. last) BY <1>i, FS_Interval
      <3>3. QED BY <3>1, <3>2, FS_Subset, FS_CardinalityType
    <2>5. \A o \in S \cup {r} : h[o] \in Int BY <2>2, <2>3, <2>4
    <2>6. SumFunctionOnSet(h, S \cup {r}) = SumFunctionOnSet(h, S) + h[r] BY <1>1, <2>5, SumAdd
    <2>7. SumFunctionOnSet(h, S) = SumFunctionOnSet(f, S) BY <1>1, <2>2, SumSame
    <2>8. SumFunctionOnSet(f, S) \in Int BY <1>1, <2>2, SumType
    <2>9. SumFunctionOnSet(DaysAt(c, t), StandingOnes)' = SumFunctionOnSet(h, S \cup {r}) BY <1>1, <2>1
    <2>10. SumFunctionOnSet(DaysAt(c, t), S) = SumFunctionOnSet(f, S) BY <2>1
    <2>11. QED BY <2>3, <2>4, <2>6, <2>7, <2>8, <2>9, <2>10
  <1>5. ASSUME Yearly, ~stretched, NEW c, NEW t \in {"FULL", "HALF"}
        PROVE  (SumFunctionOnSet(DaysAt(c, t), StandingOnes) + Brought(c, t) <= Limit(t))'
    <2>1. PICK C : C = OfCycle(g, c, t) OBVIOUS
    <2>2. /\ SumFunctionOnSet(DaysAt(c, t), StandingOnes)' = SumFunctionOnSet(DaysAt(c, t), S) + Cardinality(C)
          /\ SumFunctionOnSet(DaysAt(c, t), S) \in Int /\ IsFiniteSet(C) /\ Cardinality(C) \in Nat
      BY <1>4, <2>1
    <2>3. Brought(c, t)' = Brought(c, t) /\ Limit(t)' = Limit(t)
      BY DEF Brought, SickCycle, Limit
    <2>4. Brought(c, t) \in Nat BY <1>h, BroughtTyped
    <2>5. CASE C = {}
      <3>1. Cardinality(C) = 0 BY <2>5, FS_EmptySet
      <3>2. SumFunctionOnSet(DaysAt(c, t), S) <= SumFunctionOnSet(DaysAt(c, t), StandingOnes)
        <4>1. \A o \in StandingOnes : DaysAt(c, t)[o] \in Nat BY <1>h, DaysAtTyped
        <4>2. IsFiniteSet(StandingOnes) /\ S \in SUBSET StandingOnes BY <1>h, <1>1 DEF Judgements
        <4>3. QED BY <4>1, <4>2, SumPart
      <3>3. SumFunctionOnSet(DaysAt(c, t), StandingOnes) \in Int
        <4>1. \A o \in StandingOnes : DaysAt(c, t)[o] \in Int BY <1>h, DaysAtTyped
        <4>2. QED BY <1>h, <4>1, SumType DEF Judgements
      <3>4. SumFunctionOnSet(DaysAt(c, t), StandingOnes) + Brought(c, t) <= Limit(t) BY <1>5, <1>h DEF Judgements, CyclesIn
      <3>5. Limit(t) \in Nat BY <1>h, SchemeAssumption DEF Limit
      <3>6. QED BY <2>2, <2>3, <2>4, <3>1, <3>2, <3>3, <3>4, <3>5
    <2>6. CASE C # {}
      <3>1. PaidUpto(C, g, c, t, last) BY <2>1, <1>g, <1>i DEF PaidUpto, Upto, OfCycle, PaidAt
      <3>2. /\ UsedInYear(r, c, t) = SumFunctionOnSet(DaysAt(c, t), S) + Brought(c, t)
            /\ UsedInYear(r, c, t) \in Int
        BY <1>0, <1>h, UsedIs
      <3>a. /\ IsFiniteSet(C)
            /\ \E x \in C : x \in Int /\ x <= last /\ UsedInYear(r, c, t) + Cardinality(C) <= Cap(x, t)
        <4>1. CASE t = "FULL"
          <5>1. PaidUpto(C, g, c, "FULL", last) /\ UsedInYear(r, c, "FULL") \in Int BY <3>1, <3>2, <4>1
          <5>2. /\ IsFiniteSet(C)
                /\ \E x \in C : x \in Int /\ x <= last /\ UsedInYear(r, c, "FULL") + Cardinality(C) <= Cap(x, "FULL")
            BY <1>0, <1>5, <1>h, <1>i, <2>6, <5>1, YearlyWithin
          <5>3. QED BY <4>1, <5>2
        <4>2. CASE t = "HALF"
          <5>1. PaidUpto(C, g, c, "HALF", last) /\ UsedInYear(r, c, "HALF") \in Int BY <3>1, <3>2, <4>2
          <5>2. /\ IsFiniteSet(C)
                /\ \E x \in C : x \in Int /\ x <= last /\ UsedInYear(r, c, "HALF") + Cardinality(C) <= Cap(x, "HALF")
            BY <1>0, <1>5, <1>h, <1>i, <2>6, <5>1, YearlyWithin
          <5>3. QED BY <4>2, <5>2
        <4>3. QED BY <4>1, <4>2
      <3>3. PICK x \in C : x \in Int /\ UsedInYear(r, c, t) + Cardinality(C) <= Cap(x, t) BY <3>a
      <3>4. Cap(x, t) \in Int /\ Cap(x, t) <= Limit(t) /\ Limit(t) \in Nat BY <1>h, <3>3, CapGrows
      <3>5. QED BY <2>2, <2>3, <2>4, <3>2, <3>3, <3>4
    <2>7. QED BY <2>5, <2>6
  <1>6. ASSUME Yearly, takeOn = NoBatch, NEW d \in SickDays
        PROVE  (Cardinality(PaidBy(d)) <= FullCap(d))'
    <2>0. d \in Int /\ FullCap(d)' = FullCap(d) /\ FullCap(d) = Cap(d, "FULL") BY SickAssumption DEF SickDays, FullCap, Yearly, Cap
    <2>1. PICK c, P, U, A :
            /\ c = SickCycle(d) /\ P = PaidBy(d)' /\ U = Upto(g, c, "FULL", d)
            /\ A = {x \in P : \E o \in S : x \in PaidAt(paid[o], "FULL")}
      OBVIOUS
    <2>2. P = {x \in 1 .. d : SickCycle(x) = c /\ \E o \in StandingOnes' : x \in PaidAt(paid'[o], "FULL")}
      BY <2>1 DEF PaidBy, SickCycle, PaidAt
    <2>3. P \subseteq A \cup U
      <3>1. ASSUME NEW x \in P, x \notin A PROVE x \in U
        <4>1. x \in 1 .. d /\ SickCycle(x) = c BY <2>2
        <4>2. PICK o \in StandingOnes' : x \in PaidAt(paid'[o], "FULL") BY <2>2
        <4>3. o = r
          <5>1. ASSUME o # r PROVE FALSE
            <6>1. o \in S /\ paid'[o] = paid[o] BY <1>1, <1>p, <5>1
            <6>2. QED BY <2>1, <3>1, <4>2, <6>1
          <5>2. QED BY <5>1
        <4>4. x \in PaidAt(g, "FULL") BY <4>2, <4>3, <1>p
        <4>5. QED BY <2>0, <2>1, <4>1, <4>4 DEF Upto, OfCycle
      <3>2. QED BY <3>1
    <2>4. IsFiniteSet(P) /\ IsFiniteSet(PaidBy(d))
      <3>1. IsFiniteSet(1 .. d) BY <2>0, FS_Interval
      <3>2. P \in SUBSET (1 .. d) BY <2>2
      <3>3. PaidBy(d) \in SUBSET (1 .. d) BY DEF PaidBy
      <3>4. QED BY <3>1, <3>2, <3>3, FS_Subset
    <2>5. Cardinality(P) \in Nat /\ Cardinality(PaidBy(d)) \in Nat BY <2>4, FS_CardinalityType
    <2>6. Cap(d, "FULL") \in Int BY <1>h, <2>0, CapGrows
    <2>7. CASE U = {}
      <3>1. P \in SUBSET PaidBy(d)
        <4>1. ASSUME NEW x \in P PROVE x \in PaidBy(d)
          <5>1. x \in A BY <2>3, <2>7
          <5>2. PICK o \in S : x \in PaidAt(paid[o], "FULL") BY <2>1, <5>1
          <5>3. x \in 1 .. d /\ SickCycle(x) = SickCycle(d) BY <2>1, <2>2
          <5>4. o \in StandingOnes BY <1>1
          <5>5. QED BY <5>2, <5>3, <5>4 DEF PaidBy
        <4>2. QED BY <4>1
      <3>2. Cardinality(P) <= Cardinality(PaidBy(d)) BY <2>4, <3>1, FS_Subset
      <3>3. Cardinality(PaidBy(d)) <= FullCap(d) BY <1>6, <1>h DEF Judgements, EarlyIn
      <3>4. QED BY <2>0, <2>1, <2>5, <2>6, <3>2, <3>3
    <2>8. CASE U # {}
      <3> DEFINE f == DaysAt(c, "FULL")
                 D == [o \in S |-> OfCycle(paid[o], c, "FULL")]
      <3>1. \A o \in S : IsFiniteSet(D[o]) /\ f[o] = Cardinality(D[o]) /\ f[o] \in Int
        <4>1. ASSUME NEW o \in S PROVE IsFiniteSet(D[o]) /\ f[o] = Cardinality(D[o]) /\ f[o] \in Int
          <5>1. o \in StandingOnes BY <1>1
          <5>2. D[o] = OfCycle(paid[o], c, "FULL") OBVIOUS
          <5>3. IsFiniteSet(OfCycle(paid[o], c, "FULL")) /\ f[o] = Cardinality(OfCycle(paid[o], c, "FULL")) /\ f[o] \in Nat
            BY <1>h, <5>1, DaysAtTyped
          <5>4. QED BY <5>2, <5>3
        <4>2. QED BY <4>1
      <3>2. \A x \in A : \E o \in S : x \in D[o]
        <4>1. ASSUME NEW x \in A PROVE \E o \in S : x \in D[o]
          <5>1. PICK o \in S : x \in PaidAt(paid[o], "FULL") BY <2>1
          <5>2. SickCycle(x) = c BY <2>1, <2>2
          <5>3. QED BY <5>1, <5>2 DEF OfCycle
        <4>2. QED BY <4>1
      <3> HIDE DEF D, f
      <3>3. IsFiniteSet(A) /\ Cardinality(A) <= SumFunctionOnSet(f, S) BY <1>1, <3>1, <3>2, CoveredBy
      <3>4. SumFunctionOnSet(f, S) \in Int BY <1>1, <3>1, SumType
      <3>5. /\ UsedInYear(r, c, "FULL") = SumFunctionOnSet(f, S) + Brought(c, "FULL")
            /\ UsedInYear(r, c, "FULL") \in Int
        BY <1>0, <1>h, UsedIs DEF f
      <3>6. IsFiniteSet(U) /\ \E x \in U : x \in Int /\ x <= d /\ UsedInYear(r, c, "FULL") + Cardinality(U) <= Cap(x, "FULL")
        <4>1. PaidUpto(U, g, c, "FULL", d) BY <2>1 DEF PaidUpto
        <4>2. QED BY <1>0, <1>6, <1>h, <1>i, <2>0, <2>8, <3>5, <4>1, YearlyWithin
      <3>7. PICK x \in U : x \in Int /\ x <= d /\ UsedInYear(r, c, "FULL") + Cardinality(U) <= Cap(x, "FULL") BY <3>6
      <3>8. Cap(x, "FULL") <= Cap(d, "FULL") /\ Cap(x, "FULL") \in Int BY <1>h, <2>0, <3>7, CapGrows
      <3>9. IsFiniteSet(A \cup U) /\ Cardinality(A \cup U) = Cardinality(A) + Cardinality(U) - Cardinality(A \cap U)
        BY <3>3, <3>6, FS_Union
      <3>10. Cardinality(A) \in Nat /\ Cardinality(U) \in Nat /\ Cardinality(A \cap U) \in Nat /\ Cardinality(A \cup U) \in Nat
        BY <3>3, <3>6, <3>9, FS_CardinalityType, FS_Intersection
      <3>11. Cardinality(P) <= Cardinality(A \cup U) BY <2>3, <3>9, FS_Subset
      <3>12. Brought(c, "FULL") \in Nat BY <1>h, BroughtTyped
      <3>13. Cardinality(P) <= Cap(d, "FULL")
        BY <2>5, <2>6, <3>3, <3>4, <3>5, <3>7, <3>8, <3>9, <3>10, <3>11, <3>12
      <3>14. QED BY <2>0, <2>1, <3>13
    <2>9. QED BY <2>7, <2>8
  <1>7. Yearly' = Yearly /\ stretched' = stretched /\ takeOn' = takeOn BY DEF Yearly
  <1>8. Yearly' /\ ~stretched' => CyclesIn' BY <1>5, <1>7 DEF CyclesIn
  <1>9. Yearly' /\ takeOn' = NoBatch => EarlyIn' BY <1>6, <1>7 DEF EarlyIn, SickDays
  <1>10. (Yearly /\ takeOn = NoBatch => EarlyIn)'
    <2>1. NoBatch' = NoBatch BY DEF NoBatch
    <2>2. QED BY <1>9, <2>1
  <1>11. QED BY <1>2, <1>3, <1>8, <1>10 DEF Judgements

\* Requests leave force, and a batch what it brought.
LEMMA Dropped ==
  ASSUME WithinInv, UNCHANGED <<scheme, paid, stretched>>, StandingOnes' \subseteq StandingOnes,
         \A r \in StandingOnes' : sick'[r].first = sick[r].first /\ sick'[r].last = sick[r].last,
         \A c : \A t \in {"FULL", "HALF"} : Brought(c, t)' \in Nat /\ Brought(c, t)' <= Brought(c, t),
         takeOn' = NoBatch => takeOn = NoBatch
  PROVE  Judgements'
  <1>h. Judgements /\ Batch /\ scheme \in Schemes BY DEF WithinInv
  <1>1. IsFiniteSet(StandingOnes) /\ IsFiniteSet(StandingOnes') BY <1>h, FS_Subset DEF Judgements
  <1>2. \A r \in StandingOnes' : PaidDays(r)' BY <1>h DEF Judgements, PaidDays, SickDays
  <1>3. ASSUME Yearly, ~stretched, NEW c, NEW t \in {"FULL", "HALF"}
        PROVE  (SumFunctionOnSet(DaysAt(c, t), StandingOnes) + Brought(c, t) <= Limit(t))'
    <2>1. PICK f, S, T : f = DaysAt(c, t) /\ S = StandingOnes /\ T = StandingOnes' OBVIOUS
    <2>2. DaysAt(c, t)' = f /\ Limit(t)' = Limit(t) BY <2>1 DEF DaysAt, OfCycle, SickCycle, PaidAt, Limit
    <2>3. IsFiniteSet(S) /\ IsFiniteSet(T) /\ T \in SUBSET S BY <1>1, <2>1
    <2>4. \A o \in S : f[o] \in Nat BY <1>h, <2>1, DaysAtTyped
    <2>5. SumFunctionOnSet(f, T) <= SumFunctionOnSet(f, S) BY <2>3, <2>4, SumPart
    <2>6. SumFunctionOnSet(f, T) \in Int /\ SumFunctionOnSet(f, S) \in Int
      <3>1. (\A o \in S : f[o] \in Int) /\ (\A o \in T : f[o] \in Int) BY <2>3, <2>4
      <3>2. QED BY <2>3, <3>1, SumType
    <2>7. SumFunctionOnSet(f, S) + Brought(c, t) <= Limit(t) BY <1>3, <1>h, <2>1 DEF Judgements, CyclesIn
    <2>8. Brought(c, t) \in Nat /\ Limit(t) \in Nat BY <1>h, BroughtTyped, SchemeAssumption DEF Limit
    <2>9. PICK b : b = Brought(c, t)' OBVIOUS
    <2>10. b \in Nat /\ b <= Brought(c, t) BY <2>9
    <2>11. SumFunctionOnSet(f, T) + b <= Limit(t) BY <2>5, <2>6, <2>7, <2>8, <2>10
    <2>12. QED BY <2>1, <2>2, <2>9, <2>11
  <1>4. ASSUME Yearly, takeOn = NoBatch, NEW d \in SickDays
        PROVE  (Cardinality(PaidBy(d)) <= FullCap(d))'
    <2>1. d \in Int /\ FullCap(d)' = FullCap(d) /\ FullCap(d) = Cap(d, "FULL")
      BY SickAssumption DEF SickDays, FullCap, Yearly, Cap
    <2>2. PICK P : P = PaidBy(d)' OBVIOUS
    <2>3. P = {x \in 1 .. d : SickCycle(x) = SickCycle(d) /\ \E o \in StandingOnes' : x \in PaidAt(paid[o], "FULL")}
      BY <2>2 DEF PaidBy, SickCycle, PaidAt
    <2>4. P \in SUBSET PaidBy(d) BY <2>3 DEF PaidBy
    <2>5. IsFiniteSet(PaidBy(d))
      <3>1. IsFiniteSet(1 .. d) BY <2>1, FS_Interval
      <3>2. PaidBy(d) \in SUBSET (1 .. d) BY DEF PaidBy
      <3>3. QED BY <3>1, <3>2, FS_Subset
    <2>6. IsFiniteSet(P) /\ Cardinality(P) <= Cardinality(PaidBy(d)) BY <2>4, <2>5, FS_Subset
    <2>7. Cardinality(P) \in Nat /\ Cardinality(PaidBy(d)) \in Nat BY <2>5, <2>6, FS_CardinalityType
    <2>8. Cardinality(PaidBy(d)) <= FullCap(d) BY <1>4, <1>h DEF Judgements, EarlyIn
    <2>9. Cap(d, "FULL") \in Int BY <1>h, <2>1, CapGrows
    <2>10. QED BY <2>1, <2>2, <2>6, <2>7, <2>8, <2>9
  <1>5. Yearly' = Yearly /\ stretched' = stretched /\ NoBatch' = NoBatch BY DEF Yearly, NoBatch
  <1>6. Yearly' /\ ~stretched' => CyclesIn' BY <1>3, <1>5 DEF CyclesIn
  <1>7. (Yearly /\ takeOn = NoBatch => EarlyIn)' BY <1>4, <1>5 DEF EarlyIn, SickDays
  <1>8. QED BY <1>1, <1>2, <1>6, <1>7 DEF Judgements

LEMMA CounterIn == ASSUME NEW n \in Int PROVE Max({0, n}) \in Nat /\ Max({0, n}) \in {0, n}
  BY DEF Max

\* What an approval counts is within the entitlement.
LEMMA FinalizeWithin ==
  ASSUME WithinInv, NEW r \in SickRequests, sick[r].status \in {"NONE", "PENDING"},
         NEW first \in SickDays, NEW last \in SickDays, first <= last,
         Finalize(r, first, last), UNCHANGED <<scheme, takeOn, stretched>>
  PROVE  WithinInv'
  <1>h. AddInv /\ SickInv /\ Judgements /\ Batch /\ scheme \in Schemes BY DEF WithinInv, AddInv
  <1>i. first \in Int /\ last \in Int BY SickAssumption DEF SickDays
  <1>p. PICK e, id, units, row, old : Approves(r, first, last, e, id, units, row, old) BY <1>h, <1>i, FinalizeDoes
  <1>1. AddInv' BY <1>h, <1>i, FinalizeAdds
  <1>2. /\ units \in [Tiers -> Nat]
        /\ units = Breakdown(PayOf(r, first, last, e))
        /\ paid' = [paid EXCEPT ![r] = PayOf(r, first, last, e)]
        /\ row.startedOn = IF e = 0 THEN first ELSE episodes[e].startedOn
        /\ DOMAIN episodes' = DOMAIN episodes \cup {id}
        /\ \A i \in DOMAIN episodes' : episodes'[i] = IF i = id THEN row ELSE episodes[i]
        /\ row.used = [t \in Tiers |-> old[t] + units[t]]
        /\ \/ e = 0 /\ id \notin DOMAIN episodes /\ old = NoPay
           \/ e # 0 /\ e = id /\ id \in DOMAIN episodes /\ old = episodes[id].used
        /\ sick' = [sick EXCEPT ![r] = [status |-> "APPROVED", first |-> first, last |-> last,
                                        episode |-> id, pay |-> units]]
    BY <1>p DEF Approves
  <1>3. /\ sick'[r].status = "APPROVED" /\ sick'[r].first = first /\ sick'[r].last = last /\ sick'[r].episode = id
        /\ \A o \in SickRequests \ {r} : sick'[o] = sick[o]
    BY <1>h, <1>2, RequestFields
  <1>4. Judgements' BY <1>2, <1>3, Judged
  <1>5. Batch' BY <1>h DEF Batch, NoBatch
  <1>6. PICK g : g = PayOf(r, first, last, e) OBVIOUS
  <1>7. paid'[r] = g /\ \A o \in SickRequests \ {r} : paid'[o] = paid[o]
    <2>1. PICK D : paid \in [SickRequests -> D] BY <1>h DEF SickInv, Shape
    <2>2. QED BY <1>2, <1>6, <2>1
  <1>8. Counters(id)'
    <2>1. old \in [Tiers -> Nat]
      <3>1. CASE e = 0 BY <1>2, <3>1 DEF NoPay
      <3>2. CASE e # 0 BY <1>2, <3>2 DEF WithinInv, Counters
      <3>3. QED BY <3>1, <3>2
    <2>2. row.used \in [Tiers -> Nat] BY <1>2, <2>1
    <2>3. ASSUME scheme.mode = "SHORT", ~stretched, NEW t \in {"FULL", "HALF"} PROVE row.used[t] <= Limit(t)
      <3>1. t \in Tiers BY DEF Tiers
      <3>2. old[t] \in Int /\ old[t] = (IF e = 0 THEN 0 ELSE episodes[e].used[t]) /\ old[t] <= Limit(t)
        <4>1. Limit(t) \in Nat BY <1>h, SchemeAssumption DEF Limit
        <4>2. CASE e = 0
          <5>1. old[t] = 0 BY <1>2, <3>1, <4>2 DEF NoPay
          <5>2. QED BY <4>1, <4>2, <5>1
        <4>3. CASE e # 0
          <5>1. e = id /\ id \in DOMAIN episodes /\ old = episodes[e].used BY <1>2, <4>3
          <5>2. Counters(e) BY <5>1 DEF WithinInv
          <5>3. old[t] <= Limit(t) BY <2>3, <5>1, <5>2 DEF Counters
          <5>4. QED BY <2>1, <3>1, <4>3, <5>1, <5>3
        <4>4. QED BY <4>2, <4>3
      <3>3. old[t] + units[t] <= Limit(t) BY <1>2, <1>h, <1>i, <2>3, <3>2, ShortWithin
      <3>4. QED BY <1>2, <3>1, <3>3
    <2>4. episodes'[id] = row BY <1>2
    <2>5. \A t : Limit(t)' = Limit(t) BY DEF Limit
    <2>6. QED BY <2>2, <2>3, <2>4, <2>5 DEF Counters
  <1>9. ASSUME scheme.mode = "LONG" PROVE MonthsWithin(id)'
    <2>1. episodes'[id] = row BY <1>2
    <2>2. row.startedOn \in Int
      <3>1. PICK U : episodes \in Seq(Rows(U)) BY <1>h DEF SickInv, Shape
      <3>2. ASSUME NEW i \in DOMAIN episodes PROVE episodes[i].startedOn \in Int
        <4>1. episodes[i] \in Rows(U) BY <3>1
        <4>2. QED BY <4>1 DEF Rows
      <3>3. QED BY <1>2, <1>i, <3>2
    <2>3. scheme.full \in Nat /\ scheme.half \in Nat BY <1>h, SchemeAssumption
    <2>4. ASSUME NEW d \in DOMAIN g
          PROVE  g[d] = IF d - row.startedOn < scheme.full THEN "FULL"
                        ELSE IF d - row.startedOn < scheme.full + scheme.half THEN "HALF" ELSE "UNPAID"
      <3>1. d \in Int BY <1>6, <1>i, PaysIs
      <3>2. g[d] = IF d < row.startedOn + scheme.full THEN "FULL"
                   ELSE IF d < row.startedOn + scheme.full + scheme.half THEN "HALF" ELSE "UNPAID"
        BY <1>2, <1>6, <1>9, <1>i, LongPays
      <3>3. QED BY <2>2, <2>3, <3>1, <3>2
    <2>5. ASSUME NEW o \in ApprovedIn(id)', o # r, NEW d \in DOMAIN paid[o]
          PROVE  paid[o][d] = IF d - row.startedOn < scheme.full THEN "FULL"
                              ELSE IF d - row.startedOn < scheme.full + scheme.half THEN "HALF" ELSE "UNPAID"
      <3>1. o \in SickRequests /\ sick[o].status = "APPROVED" /\ sick[o].episode = id BY <1>3, <2>5 DEF ApprovedIn
      <3>2. id \in DOMAIN episodes BY <1>h, <3>1 DEF SickInv, AllInside, Inside
      <3>3. row.startedOn = episodes[id].startedOn BY <1>2, <3>2
      <3>4. MonthsWithin(id) BY <1>9, <3>2 DEF WithinInv
      <3>5. o \in ApprovedIn(id) BY <3>1 DEF ApprovedIn
      <3>6. QED BY <2>5, <3>3, <3>4, <3>5 DEF MonthsWithin
    <2>6. \A o \in ApprovedIn(id)' : paid'[o] = IF o = r THEN g ELSE paid[o] BY <1>7 DEF ApprovedIn
    <2>7. QED BY <2>1, <2>4, <2>5, <2>6 DEF MonthsWithin
  <1>10. ASSUME NEW i \in DOMAIN episodes', i # id PROVE Counters(i)' /\ (scheme.mode = "LONG" => MonthsWithin(i)')
    <2>1. i \in DOMAIN episodes /\ episodes'[i] = episodes[i] BY <1>2, <1>10
    <2>2. Counters(i) /\ (scheme.mode = "LONG" => MonthsWithin(i)) BY <2>1 DEF WithinInv
    <2>3. Counters(i)' BY <2>1, <2>2 DEF Counters, Limit
    <2>4. ApprovedIn(i)' = ApprovedIn(i) /\ \A o \in ApprovedIn(i) : paid'[o] = paid[o]
      BY <1>3, <1>7, <1>10 DEF ApprovedIn
    <2>5. ASSUME scheme.mode = "LONG" PROVE MonthsWithin(i)' BY <2>1, <2>2, <2>4, <2>5 DEF MonthsWithin
    <2>6. QED BY <2>3, <2>5
  <1>11. QED BY <1>1, <1>4, <1>5, <1>8, <1>9, <1>10, <1>h DEF WithinInv

\* An episode keeps its first day; its counters fall, if anything.
LEMMA EpisodeKept ==
  ASSUME scheme \in Schemes, NEW i, UNCHANGED scheme,
         Counters(i), scheme.mode = "LONG" => MonthsWithin(i),
         episodes'[i].startedOn = episodes[i].startedOn, episodes'[i].used \in [Tiers -> Nat],
         \A t \in {"FULL", "HALF"} : episodes'[i].used[t] <= episodes[i].used[t],
         stretched => stretched', ApprovedIn(i)' \subseteq ApprovedIn(i),
         \A o \in ApprovedIn(i)' : paid'[o] = paid[o]
  PROVE  Counters(i)' /\ (scheme.mode = "LONG" => MonthsWithin(i))'
  <1>1. ASSUME scheme.mode = "SHORT", ~stretched', NEW t \in {"FULL", "HALF"} PROVE episodes'[i].used[t] <= Limit(t)'
    <2>1. Limit(t) \in Nat /\ Limit(t)' = Limit(t) BY SchemeAssumption DEF Limit
    <2>2. episodes[i].used[t] <= Limit(t) BY <1>1 DEF Counters
    <2>3. t \in Tiers BY DEF Tiers
    <2>4. episodes'[i].used[t] \in Nat /\ episodes[i].used[t] \in Nat BY <2>3 DEF Counters
    <2>5. episodes'[i].used[t] <= episodes[i].used[t] OBVIOUS
    <2>6. QED BY <2>1, <2>2, <2>4, <2>5
  <1>2. Counters(i)' BY <1>1 DEF Counters
  <1>3. ASSUME scheme.mode = "LONG" PROVE MonthsWithin(i)' BY <1>3 DEF MonthsWithin
  <1>4. QED BY <1>2, <1>3

\* A step that leaves the episodes and the approvals as they are.
LEMMA QuietWithin ==
  ASSUME WithinInv, AddInv', Judgements', UNCHANGED <<scheme, episodes, takeOn, stretched>>,
         NEW r \in SickRequests, sick[r].status # "APPROVED", sick'[r].status # "APPROVED",
         \A o \in SickRequests \ {r} : sick'[o] = sick[o] /\ paid'[o] = paid[o]
  PROVE  WithinInv'
  <1>1. Batch' /\ scheme' \in Schemes BY DEF WithinInv, Batch, NoBatch
  <1>2. ASSUME NEW i \in DOMAIN episodes' PROVE Counters(i)' /\ (scheme.mode = "LONG" => MonthsWithin(i))'
    <2>1. Counters(i) /\ (scheme.mode = "LONG" => MonthsWithin(i)) /\ scheme \in Schemes BY <1>2 DEF WithinInv
    <2>2. ApprovedIn(i)' = ApprovedIn(i) /\ \A o \in ApprovedIn(i) : paid'[o] = paid[o] BY DEF ApprovedIn
    <2>3. episodes[i].used \in [Tiers -> Nat] BY <2>1 DEF Counters
    <2>4. \A t \in {"FULL", "HALF"} : episodes'[i].used[t] <= episodes[i].used[t] BY <2>3 DEF Tiers
    <2>5. episodes'[i].startedOn = episodes[i].startedOn /\ episodes'[i].used \in [Tiers -> Nat] BY <2>3
    <2>6. QED BY <2>1, <2>2, <2>4, <2>5, EpisodeKept
  <1>3. QED BY <1>1, <1>2 DEF WithinInv

LEMMA CancelWithin ==
  ASSUME WithinInv, NEW r \in SickRequests, CancelSick(r), sick[r].status = "APPROVED"
  PROVE  WithinInv'
  <1>h. AddInv /\ SickInv /\ Judgements /\ Batch /\ scheme \in Schemes BY DEF WithinInv, AddInv
  <1>1. AddInv' BY <1>h, CancelAdds
  <1>e. PICK e, n : e = sick[r].episode /\ n = sick[r].pay OBVIOUS
  <1>2. /\ episodes' = [episodes EXCEPT ![e] =
                         [episodes[e] EXCEPT !.used = [t \in Tiers |-> Max({0, episodes[e].used[t] - n[t]})]]]
        /\ sick' = [sick EXCEPT ![r].status = "CANCELLED"]
        /\ UNCHANGED <<scheme, paid, takeOn, stretched>>
    BY <1>e DEF CancelSick
  <1>3. /\ sick'[r].status = "CANCELLED" /\ sick'[r].first = sick[r].first /\ sick'[r].last = sick[r].last
        /\ \A o \in SickRequests \ {r} : sick'[o] = sick[o]
    <2>1. PICK P : sick \in [SickRequests -> Requests(P)] BY <1>h, RequestFields
    <2>2. QED BY <1>2, <2>1 DEF Requests
  <1>4. e \in DOMAIN episodes /\ n \in [Tiers -> Nat]
    BY <1>e, <1>h DEF AddInv, SickInv, AllInside, Inside
  <1>5. Judgements'
    <2>1. StandingOnes' \subseteq StandingOnes BY <1>3 DEF StandingOnes, Standing
    <2>2. ASSUME NEW c, NEW t \in {"FULL", "HALF"} PROVE Brought(c, t)' \in Nat /\ Brought(c, t)' <= Brought(c, t)
      <3>1. Brought(c, t)' = Brought(c, t) BY <1>2 DEF Brought, SickCycle
      <3>2. Brought(c, t) \in Nat BY <1>h, BroughtTyped
      <3>3. QED BY <3>1, <3>2
    <2>3. NoBatch' = NoBatch BY DEF NoBatch
    <2>4. \A o \in StandingOnes' : sick'[o].first = sick[o].first /\ sick'[o].last = sick[o].last
      BY <1>3, <2>1 DEF StandingOnes
    <2>5. QED BY <1>2, <2>1, <2>2, <2>3, <2>4, Dropped
  <1>6. /\ DOMAIN episodes' = DOMAIN episodes
        /\ episodes'[e].startedOn = episodes[e].startedOn
        /\ episodes'[e].used = [t \in Tiers |-> Max({0, episodes[e].used[t] - n[t]})]
        /\ \A i \in DOMAIN episodes \ {e} : episodes'[i] = episodes[i]
    <2>1. PICK U : episodes \in Seq(Rows(U)) BY <1>h DEF SickInv, Shape
    <2>2. episodes[e] \in Rows(U) BY <1>4, <2>1
    <2> DEFINE u == [t \in Tiers |-> Max({0, episodes[e].used[t] - n[t]})]
               row == [episodes[e] EXCEPT !.used = u]
    <2>3. row.startedOn = episodes[e].startedOn /\ row.used = u
      <3> HIDE DEF u
      <3>1. QED BY <2>2 DEF Rows
    <2>4. episodes' = [episodes EXCEPT ![e] = row] BY <1>2
    <2> HIDE DEF row
    <2>5. DOMAIN episodes' = DOMAIN episodes /\ episodes'[e] = row
          /\ \A i \in DOMAIN episodes \ {e} : episodes'[i] = episodes[i]
      BY <1>4, <2>4
    <2>6. QED BY <2>3, <2>5
  <1>7. Batch' BY <1>h, <1>2 DEF Batch, NoBatch
  <1>8. ASSUME NEW i \in DOMAIN episodes' PROVE Counters(i)' /\ (scheme.mode = "LONG" => MonthsWithin(i))'
    <2>1. i \in DOMAIN episodes /\ Counters(i) /\ (scheme.mode = "LONG" => MonthsWithin(i)) BY <1>6, <1>8 DEF WithinInv
    <2>2. ApprovedIn(i)' \subseteq ApprovedIn(i) /\ \A o \in ApprovedIn(i)' : paid'[o] = paid[o]
      BY <1>2, <1>3 DEF ApprovedIn
    <2>3. episodes[i].used \in [Tiers -> Nat] BY <2>1 DEF Counters
    <2>4. /\ episodes'[i].startedOn = episodes[i].startedOn
          /\ episodes'[i].used \in [Tiers -> Nat]
          /\ \A t \in Tiers : episodes'[i].used[t] <= episodes[i].used[t]
      <3>1. CASE i = e
        <4> DEFINE m == episodes[e].used
                   k == episodes'[e].used
        <4>1. m \in [Tiers -> Nat] /\ k = [t \in Tiers |-> Max({0, m[t] - n[t]})] BY <1>6, <2>3, <3>1
        <4> HIDE DEF m, k
        <4>2. ASSUME NEW t \in Tiers PROVE k[t] \in Nat /\ k[t] <= m[t]
          <5>1. m[t] \in Nat /\ n[t] \in Nat /\ m[t] - n[t] \in Int BY <1>4, <4>1
          <5>2. Max({0, m[t] - n[t]}) \in Nat /\ Max({0, m[t] - n[t]}) \in {0, m[t] - n[t]} BY <5>1, CounterIn
          <5>3. k[t] = Max({0, m[t] - n[t]}) BY <4>1
          <5>4. QED BY <5>1, <5>2, <5>3
        <4>3. k \in [Tiers -> Nat] BY <4>1, <4>2
        <4>4. QED BY <1>6, <3>1, <4>2, <4>3 DEF m, k
      <3>2. CASE i # e
        <4>1. episodes'[i] = episodes[i] BY <1>6, <2>1, <3>2
        <4>2. \A t \in Tiers : episodes[i].used[t] <= episodes[i].used[t] BY <2>3
        <4>3. QED BY <2>3, <4>1, <4>2
      <3>3. QED BY <3>1, <3>2
    <2>5. \A t \in {"FULL", "HALF"} : episodes'[i].used[t] <= episodes[i].used[t] BY <2>4 DEF Tiers
    <2>6. QED BY <1>2, <1>h, <2>1, <2>2, <2>4, <2>5, EpisodeKept
  <1>9. QED BY <1>1, <1>2, <1>5, <1>7, <1>8, <1>h DEF WithinInv

LEMMA StepWithin ==
  ASSUME WithinInv, NEW r \in SickRequests, SickStep(r)
  PROVE  WithinInv'
  <1>h. AddInv /\ SickInv /\ Judgements /\ Batch /\ scheme \in Schemes BY DEF WithinInv, AddInv
  <1>a. AddInv' BY <1>h, StepAdds
  <1>1. PICK P : sick \in [SickRequests -> Requests(P)] BY <1>h, RequestFields
  <1>2. ASSUME NEW first \in SickDays, NEW last \in SickDays, NEW auto \in BOOLEAN,
               ReportSick(r, first, last, auto)
        PROVE  WithinInv'
    <2>1. /\ first <= last /\ UNCHANGED <<scheme, takeOn, stretched>> /\ sick[r].status = "NONE"
      BY <1>2 DEF ReportSick, NoRequest
    <2>2. CASE Finalize(r, first, last) BY <2>1, <2>2, FinalizeWithin
    <2>3. CASE ~Finalize(r, first, last)
      <3>1. PICK e \in Episode(first) :
              /\ paid' = [paid EXCEPT ![r] = PayOf(r, first, last, e)]
              /\ sick' = [sick EXCEPT ![r] = [status |-> "PENDING", first |-> first, last |-> last,
                                              episode |-> 0, pay |-> Breakdown(paid'[r])]]
        BY <1>2, <2>3 DEF ReportSick
      <3>2. UNCHANGED episodes BY <1>2, <2>3 DEF ReportSick
      <3>3. PICK D : paid \in [SickRequests -> D] BY <1>h DEF SickInv, Shape
      <3>4. \A o \in SickRequests \ {r} : sick'[o] = sick[o] /\ paid'[o] = paid[o] BY <1>1, <3>1, <3>3
      <3>5. sick'[r].status = "PENDING" /\ sick'[r].first = first /\ sick'[r].last = last BY <1>1, <3>1
      <3>6. Judgements' BY <2>1, <3>1, <3>4, <3>5, Judged
      <3>7. QED BY <1>a, <2>1, <3>2, <3>4, <3>5, <3>6, QuietWithin
    <2>4. QED BY <2>2, <2>3
  <1>3. CASE ApproveSick(r)
    <2>1. /\ sick[r].status = "PENDING" /\ UNCHANGED <<scheme, takeOn, stretched>>
          /\ Finalize(r, sick[r].first, sick[r].last)
      BY <1>3 DEF ApproveSick
    <2>2. sick[r].first <= sick[r].last BY <1>h, <2>1 DEF SickInv, DatesInOrder, Standing
    <2>3. r \in StandingOnes BY <2>1 DEF StandingOnes, Standing
    <2>4. sick[r].first \in SickDays /\ sick[r].last \in SickDays BY <1>h, <2>3 DEF Judgements, PaidDays
    <2>5. QED BY <2>1, <2>2, <2>4, FinalizeWithin
  <1>4. CASE DeclineSick(r) \/ (CancelSick(r) /\ sick[r].status # "APPROVED")
    <2>1. PICK s \in {"DECLINED", "CANCELLED"} :
            sick' = [sick EXCEPT ![r].status = s] /\ UNCHANGED <<scheme, paid, episodes, takeOn, stretched>>
              /\ sick[r].status = "PENDING"
      BY <1>4 DEF DeclineSick, CancelSick, Standing
    <2>2. sick'[r].status = s /\ \A o \in SickRequests \ {r} : sick'[o] = sick[o]
      BY <1>1, <2>1 DEF Requests
    <2>3. StandingOnes' \subseteq StandingOnes \ {r} BY <2>2 DEF StandingOnes, Standing
    <2>4. ASSUME NEW c, NEW t \in {"FULL", "HALF"} PROVE Brought(c, t)' \in Nat /\ Brought(c, t)' <= Brought(c, t)
      <3>1. Brought(c, t)' = Brought(c, t) BY <2>1 DEF Brought, SickCycle
      <3>2. Brought(c, t) \in Nat BY <1>h, BroughtTyped
      <3>3. QED BY <3>1, <3>2
    <2>5. NoBatch' = NoBatch BY DEF NoBatch
    <2>6. \A o \in StandingOnes' : sick'[o].first = sick[o].first /\ sick'[o].last = sick[o].last
      BY <2>2, <2>3 DEF StandingOnes
    <2>7. StandingOnes' \subseteq StandingOnes BY <2>3
    <2>8. Judgements' BY <2>1, <2>4, <2>5, <2>6, <2>7, Dropped
    <2>9. QED BY <1>a, <2>1, <2>2, <2>8, QuietWithin
  <1>5. CASE CancelSick(r) /\ sick[r].status = "APPROVED" BY <1>5, CancelWithin
  <1>6. QED BY <1>2, <1>3, <1>4, <1>5 DEF SickStep

\* A batch that is posted over no request in force, and within the limit,
\* leaves the cycles within it.
LEMMA PostWithin ==
  ASSUME WithinInv, NEW l \in TakeOns, PostTakeOn(l)
  PROVE  WithinInv'
  <1>h. AddInv /\ SickInv /\ Judgements /\ Batch /\ scheme \in Schemes BY DEF WithinInv, AddInv
  <1>1. AddInv' BY <1>h, PostAdds
  <1>e. PICK id, n : id = Len(episodes) + 1 /\ n = l.pay OBVIOUS
  <1>2. /\ takeOn.status = "NONE"
        /\ takeOn' = [status |-> "POSTED", line |-> l, episode |-> id]
        /\ stretched' = ((\E r \in SickRequests : Standing(r)) \/ n["FULL"] > scheme.full \/ n["HALF"] > scheme.half)
        /\ UNCHANGED <<scheme, sick, paid>>
        /\ n \in [Tiers -> Nat]
    BY <1>e, TakeOnAssumption DEF PostTakeOn
  <1>3. takeOn'.status = "POSTED" /\ takeOn'.line = l /\ ~stretched BY <1>2, <1>h DEF Batch
  <1>4. Batch'
    <2>1. stretched' \in BOOLEAN BY <1>2
    <2>2. QED BY <1>3, <2>1 DEF Batch
  <1>5. ~stretched' => StandingOnes = {} /\ \A t \in {"FULL", "HALF"} : n[t] <= Limit(t)
    <2>1. scheme.full \in Nat /\ scheme.half \in Nat BY <1>h, SchemeAssumption
    <2>2. n["FULL"] \in Nat /\ n["HALF"] \in Nat BY <1>2 DEF Tiers
    <2>3. ASSUME ~stretched' PROVE StandingOnes = {} /\ ~ (n["FULL"] > scheme.full) /\ ~ (n["HALF"] > scheme.half)
      <3>1. ~ ((\E r \in SickRequests : Standing(r)) \/ n["FULL"] > scheme.full \/ n["HALF"] > scheme.half)
        BY <1>2, <2>3, Zenon
      <3>2. QED BY <3>1, Zenon DEF StandingOnes
    <2>4. ASSUME ~stretched' PROVE n["FULL"] <= Limit("FULL") /\ n["HALF"] <= Limit("HALF")
      BY <2>1, <2>2, <2>3, <2>4 DEF Limit
    <2>5. QED BY <2>3, <2>4
  <1>6. Judgements'
    <2>1. StandingOnes' = StandingOnes /\ \A r : PaidDays(r)' = PaidDays(r)
      BY <1>2 DEF StandingOnes, Standing, PaidDays, SickDays
    <2>2. takeOn' # NoBatch'
      <3>1. takeOn'.status = "POSTED" /\ NoBatch.status = "NONE" /\ NoBatch' = NoBatch BY <1>3 DEF NoBatch
      <3>2. QED BY <3>1
    <2>3. ASSUME ~stretched', NEW c, NEW t \in {"FULL", "HALF"}
          PROVE  (SumFunctionOnSet(DaysAt(c, t), StandingOnes) + Brought(c, t) <= Limit(t))'
      <3>1. StandingOnes' = {} /\ n[t] <= Limit(t) BY <1>5, <2>1, <2>3
      <3>2. PICK f : f = DaysAt(c, t)' OBVIOUS
      <3>3. SumFunctionOnSet(f, {}) = 0 BY SumEmpty
      <3>4. SumFunctionOnSet(DaysAt(c, t), StandingOnes)' = 0 BY <3>1, <3>2, <3>3
      <3>5. Brought(c, t)' \in {0, n[t]} BY <1>e, <1>3 DEF Brought
      <3>6. Limit(t)' = Limit(t) /\ Limit(t) \in Nat BY <1>2, <1>h, SchemeAssumption DEF Limit
      <3>7. n[t] \in Nat BY <1>2 DEF Tiers
      <3>8. PICK b : b = Brought(c, t)' OBVIOUS
      <3>9. 0 + b <= Limit(t) BY <3>1, <3>5, <3>6, <3>7, <3>8
      <3>10. QED BY <3>4, <3>6, <3>8, <3>9
    <2>4. ~stretched' => CyclesIn' BY <2>3 DEF CyclesIn
    <2>5. QED BY <1>h, <2>1, <2>2, <2>4 DEF Judgements
  <1>7. /\ id \notin DOMAIN episodes
        /\ DOMAIN episodes' = DOMAIN episodes \cup {id}
        /\ \A i \in DOMAIN episodes : episodes'[i] = episodes[i]
        /\ episodes'[id].used = n
    <2>1. PICK U : episodes \in Seq(Rows(U)) BY <1>h DEF SickInv, Shape
    <2> DEFINE row == [startedOn |-> l.start, lastDay |-> l.cut, used |-> n, status |-> "OPEN"]
               m == Len(episodes)
    <2>2. episodes' = Append(episodes, row) BY <1>e DEF PostTakeOn
    <2>3. row.used = n OBVIOUS
    <2>4. m \in Nat /\ DOMAIN episodes = 1 .. m BY <2>1
    <2> HIDE DEF row
    <2>5. DOMAIN episodes' = 1 .. m + 1 BY <2>1, <2>2
    <2>6. \A i \in 1 .. m : episodes'[i] = episodes[i] BY <2>1, <2>2
    <2>7. episodes'[m + 1] = row BY <2>1, <2>2
    <2>8. id = m + 1 BY <1>e
    <2> HIDE DEF m
    <2>9. QED BY <2>3, <2>4, <2>5, <2>6, <2>7, <2>8
  <1>8. \A i : ApprovedIn(i)' = ApprovedIn(i) BY <1>2 DEF ApprovedIn
  <1>9. Counters(id)' /\ (scheme.mode = "LONG" => MonthsWithin(id))'
    <2>1. "FULL" \in Tiers BY DEF Tiers
    <2>2. ApprovedIn(id)' = {} BY <1>h, <1>7, <1>8, <2>1, NewEpisodeEmpty
    <2>3. MonthsWithin(id)' BY <2>2 DEF MonthsWithin
    <2>4. \A t : Limit(t)' = Limit(t) BY <1>2 DEF Limit
    <2>5. Counters(id)' BY <1>2, <1>5, <1>7, <2>4 DEF Counters
    <2>6. QED BY <2>3, <2>5
  <1>10. ASSUME NEW i \in DOMAIN episodes PROVE Counters(i)' /\ (scheme.mode = "LONG" => MonthsWithin(i))'
    <2>1. Counters(i) /\ (scheme.mode = "LONG" => MonthsWithin(i)) /\ episodes'[i] = episodes[i]
      BY <1>7 DEF WithinInv
    <2>2. episodes[i].used \in [Tiers -> Nat] BY <2>1 DEF Counters
    <2>3. \A t \in {"FULL", "HALF"} : episodes'[i].used[t] <= episodes[i].used[t] BY <2>1, <2>2 DEF Tiers
    <2>4. episodes'[i].startedOn = episodes[i].startedOn /\ episodes'[i].used \in [Tiers -> Nat] BY <2>1, <2>2
    <2>5. \A o \in ApprovedIn(i)' : paid'[o] = paid[o] BY <1>2
    <2>6. QED BY <1>2, <1>3, <1>8, <1>h, <2>1, <2>3, <2>4, <2>5, EpisodeKept
  <1>11. \A i \in DOMAIN episodes' : Counters(i)' /\ (scheme.mode = "LONG" => MonthsWithin(i))' BY <1>7, <1>9, <1>10
  <1>12. QED BY <1>1, <1>2, <1>4, <1>6, <1>11, <1>h DEF WithinInv

LEMMA ReverseWithin ==
  ASSUME WithinInv, ReverseTakeOn
  PROVE  WithinInv'
  <1>h. AddInv /\ SickInv /\ Judgements /\ Batch /\ scheme \in Schemes BY DEF WithinInv, AddInv
  <1>1. AddInv' BY <1>h, ReverseAdds
  <1>e. PICK e : e = takeOn.episode OBVIOUS
  <1>2. /\ takeOn.status = "POSTED"
        /\ takeOn' = [takeOn EXCEPT !.status = "REVERSED"]
        /\ UNCHANGED <<scheme, sick, paid, stretched>>
        /\ e \in DOMAIN episodes
    BY <1>e, <1>h DEF ReverseTakeOn, AddInv, BatchInLedger
  <1>3. takeOn'.status = "REVERSED"
    <2>1. takeOn = [status |-> takeOn.status, line |-> takeOn.line, episode |-> takeOn.episode] BY <1>h DEF AddInv
    <2>2. QED BY <1>2, <2>1
  <1>4. Batch' BY <1>2, <1>3, <1>h DEF Batch
  <1>5. Judgements'
    <2>1. StandingOnes' = StandingOnes /\ \A r : sick'[r] = sick[r] BY <1>2 DEF StandingOnes, Standing
    <2>2. ASSUME NEW c, NEW t \in {"FULL", "HALF"} PROVE Brought(c, t)' \in Nat /\ Brought(c, t)' <= Brought(c, t)
      <3>1. Brought(c, t)' = 0 BY <1>3 DEF Brought
      <3>2. Brought(c, t) \in Nat BY <1>h, BroughtTyped
      <3>3. QED BY <3>1, <3>2
    <2>3. takeOn' # NoBatch
      <3>1. NoBatch.status = "NONE" BY DEF NoBatch
      <3>2. QED BY <1>3, <3>1
    <2>4. QED BY <1>2, <2>1, <2>2, <2>3, Dropped
  <1>6. /\ DOMAIN episodes' = DOMAIN episodes
        /\ episodes'[e].startedOn = episodes[e].startedOn
        /\ episodes'[e].used = [episodes[e].used EXCEPT !["FULL"] = 0, !["HALF"] = 0]
        /\ \A i \in DOMAIN episodes \ {e} : episodes'[i] = episodes[i]
    <2>1. PICK U : episodes \in Seq(Rows(U)) BY <1>h DEF SickInv, Shape
    <2>2. episodes[e] \in Rows(U) BY <1>2, <2>1
    <2> DEFINE row == [episodes[e] EXCEPT !.status = "CLOSED", !.used["FULL"] = 0, !.used["HALF"] = 0]
    <2>3. row.startedOn = episodes[e].startedOn /\ row.used = [episodes[e].used EXCEPT !["FULL"] = 0, !["HALF"] = 0]
      BY <2>2 DEF Rows
    <2>4. episodes' = [episodes EXCEPT ![e] = row] BY <1>e DEF ReverseTakeOn
    <2> HIDE DEF row
    <2>5. DOMAIN episodes' = DOMAIN episodes /\ episodes'[e] = row
          /\ \A i \in DOMAIN episodes \ {e} : episodes'[i] = episodes[i]
      BY <1>2, <2>4
    <2>6. QED BY <2>3, <2>5
  <1>7. ASSUME NEW i \in DOMAIN episodes' PROVE Counters(i)' /\ (scheme.mode = "LONG" => MonthsWithin(i))'
    <2>1. i \in DOMAIN episodes /\ Counters(i) /\ (scheme.mode = "LONG" => MonthsWithin(i)) BY <1>6, <1>7 DEF WithinInv
    <2>2. ApprovedIn(i)' = ApprovedIn(i) /\ \A o \in ApprovedIn(i)' : paid'[o] = paid[o] BY <1>2 DEF ApprovedIn
    <2>3. episodes[i].used \in [Tiers -> Nat] BY <2>1 DEF Counters
    <2>4. /\ episodes'[i].startedOn = episodes[i].startedOn
          /\ episodes'[i].used \in [Tiers -> Nat]
          /\ \A t \in Tiers : episodes'[i].used[t] <= episodes[i].used[t]
      <3>1. CASE i = e
        <4> DEFINE m == episodes[e].used
                   k == episodes'[e].used
        <4>1. m \in [Tiers -> Nat] /\ k = [m EXCEPT !["FULL"] = 0, !["HALF"] = 0] BY <1>6, <2>3, <3>1
        <4> HIDE DEF m, k
        <4>2. k \in [Tiers -> Nat] /\ \A t \in Tiers : k[t] <= m[t] BY <4>1 DEF Tiers
        <4>3. QED BY <1>6, <3>1, <4>2 DEF m, k
      <3>2. CASE i # e
        <4>1. episodes'[i] = episodes[i] BY <1>6, <2>1, <3>2
        <4>2. \A t \in Tiers : episodes[i].used[t] <= episodes[i].used[t] BY <2>3
        <4>3. QED BY <2>3, <4>1, <4>2
      <3>3. QED BY <3>1, <3>2
    <2>5. \A t \in {"FULL", "HALF"} : episodes'[i].used[t] <= episodes[i].used[t] BY <2>4 DEF Tiers
    <2>6. QED BY <1>2, <1>h, <2>1, <2>2, <2>4, <2>5, EpisodeKept
  <1>8. QED BY <1>1, <1>2, <1>4, <1>5, <1>7, <1>h DEF WithinInv

LEMMA InitWithin == SickInit => WithinInv
  <1> SUFFICES ASSUME SickInit PROVE WithinInv OBVIOUS
  <1>1. AddInv BY InitAdds
  <1>2. takeOn = NoBatch /\ takeOn.status = "NONE" /\ ~stretched /\ scheme \in Schemes /\ DOMAIN episodes = {}
    BY DEF SickInit, NoBatch
  <1>3. Batch BY <1>2 DEF Batch, SickInit
  <1>4. StandingOnes = {} BY DEF SickInit, NoRequest, StandingOnes, Standing
  <1>5. CyclesIn
    <2>1. ASSUME NEW c, NEW t \in {"FULL", "HALF"} PROVE SumFunctionOnSet(DaysAt(c, t), StandingOnes) + Brought(c, t) <= Limit(t)
      <3>1. SumFunctionOnSet(DaysAt(c, t), StandingOnes) = 0 BY <1>4, SumEmpty, Zenon
      <3>2. Brought(c, t) = 0 BY <1>2 DEF Brought
      <3>3. Limit(t) \in Nat BY <1>2, SchemeAssumption DEF Limit
      <3>4. QED BY <3>1, <3>2, <3>3
    <2>2. QED BY <2>1 DEF CyclesIn
  <1>6. EarlyIn
    <2>1. ASSUME NEW d \in SickDays PROVE Cardinality(PaidBy(d)) <= FullCap(d)
      <3>1. PaidBy(d) = {} BY <1>4 DEF PaidBy
      <3>2. Cardinality(PaidBy(d)) = 0 BY <3>1, FS_EmptySet
      <3>3. d \in Int /\ 0 <= d /\ scheme.full \in Nat /\ scheme.divisor \in Nat \ {0}
        BY <1>2, SickAssumption, SchemeAssumption DEF SickDays
      <3>4. 0 \div scheme.divisor <= d \div scheme.divisor BY <3>3, DivGrows
      <3>5. 0 \div scheme.divisor = 0 BY <3>3
      <3>6. 0 <= FullCap(d) BY <3>3, <3>4, <3>5 DEF FullCap
      <3>7. QED BY <3>2, <3>6
    <2>2. QED BY <2>1 DEF EarlyIn
  <1>7. IsFiniteSet(StandingOnes) /\ \A r \in StandingOnes : PaidDays(r) BY <1>4, FS_EmptySet
  <1>8. Judgements BY <1>5, <1>6, <1>7 DEF Judgements
  <1>9. QED BY <1>1, <1>2, <1>3, <1>8 DEF WithinInv

LEMMA NextWithin == WithinInv /\ [SickNext]_sickVars => WithinInv'
  <1> SUFFICES ASSUME WithinInv, [SickNext]_sickVars PROVE WithinInv' OBVIOUS
  <1>1. ASSUME NEW r \in SickRequests, SickStep(r) PROVE WithinInv' BY <1>1, StepWithin
  <1>2. ASSUME NEW l \in TakeOns, PostTakeOn(l) PROVE WithinInv' BY <1>2, PostWithin
  <1>3. CASE ReverseTakeOn BY <1>3, ReverseWithin
  <1>4. CASE UNCHANGED sickVars
    <2>1. AddInv'
      <3>1. AddInv BY DEF WithinInv
      <3>2. QED BY <1>4, <3>1, NextAdds
    <2>2. UNCHANGED <<scheme, sick, paid, episodes, takeOn, stretched>> BY <1>4 DEF sickVars
    <2>3. Batch' = Batch BY <2>2 DEF Batch, NoBatch
    <2>4. StandingOnes' = StandingOnes /\ NoBatch' = NoBatch /\ \A r : PaidDays(r)' = PaidDays(r)
      BY <2>2 DEF StandingOnes, Standing, NoBatch, PaidDays, SickDays
    <2>5. CyclesIn' = CyclesIn
      <3>1. \A c, t : DaysAt(c, t)' = DaysAt(c, t) /\ Brought(c, t)' = Brought(c, t) /\ Limit(t)' = Limit(t)
        BY <2>2 DEF DaysAt, OfCycle, PaidAt, SickCycle, Brought, Limit
      <3>2. QED BY <2>4, <3>1 DEF CyclesIn
    <2>6. EarlyIn' = EarlyIn
      <3>1. \A d : PaidBy(d)' = PaidBy(d) /\ FullCap(d)' = FullCap(d)
        BY <2>2, <2>4 DEF PaidBy, PaidAt, SickCycle, FullCap, Yearly
      <3>2. QED BY <3>1 DEF EarlyIn, SickDays
    <2>7. Judgements' = Judgements BY <2>2, <2>4, <2>5, <2>6 DEF Judgements, Yearly
    <2>8. \A i : Counters(i)' = Counters(i) /\ MonthsWithin(i)' = MonthsWithin(i)
      BY <2>2 DEF Counters, Limit, MonthsWithin, ApprovedIn
    <2>9. QED BY <2>1, <2>2, <2>3, <2>7, <2>8 DEF WithinInv
  <1>5. QED BY <1>1, <1>2, <1>3, <1>4 DEF SickNext

\* Nobody is paid more sick leave than the rule of the contract allows, per
\* cycle, per episode or by the months of an illness, in whatever order requests
\* are judged, approved and cancelled.
THEOREM SickPayIsWithin == SickSpec => []SickPayWithinEntitlement
  <1>1. WithinInv => SickPayWithinEntitlement
    <2> SUFFICES ASSUME WithinInv PROVE SickPayWithinEntitlement OBVIOUS
    <2>1. SickInv /\ Judgements /\ Batch /\ scheme \in Schemes BY DEF WithinInv, AddInv
    <2>2. ASSUME Yearly, ~stretched PROVE CycleWithin
      <3>1. {r \in SickRequests : Standing(r)} = StandingOnes BY DEF StandingOnes
      <3>2. StandingOnes \in SUBSET SickRequests /\ IsFiniteSet(StandingOnes) BY <2>1 DEF StandingOnes, Judgements
      <3>3. ASSUME NEW d \in SickDays, NEW t \in {"FULL", "HALF"}
            PROVE  InLimit(TakenInCycle(StandingOnes, SickCycle(d), t) + Brought(SickCycle(d), t), t)
        <4>1. PICK c : c = SickCycle(d) OBVIOUS
        <4>2. TakenInCycle(StandingOnes, c, t) = SumFunctionOnSet(DaysAt(c, t), StandingOnes) BY <3>2, TakenIs
        <4>3. SumFunctionOnSet(DaysAt(c, t), StandingOnes) + Brought(c, t) <= Limit(t)
          BY <2>1, <2>2 DEF Judgements, CyclesIn
        <4>4. TakenInCycle(StandingOnes, c, t) + Brought(c, t) <= Limit(t) BY <4>2, <4>3
        <4>5. QED BY <4>1, <4>4 DEF InLimit, Limit
      <3>4. ASSUME takeOn = NoBatch, NEW d \in SickDays
            PROVE  Cardinality({x \in 1 .. d : SickCycle(x) = SickCycle(d)
                                  /\ \E r \in StandingOnes : x \in PaidAt(paid[r], "FULL")}) <= FullCap(d)
        BY <2>1, <2>2, <3>4 DEF Judgements, EarlyIn, PaidBy
      <3>5. QED BY <3>1, <3>3, <3>4 DEF CycleWithin
    <2>3. ASSUME NEW i \in DOMAIN episodes
          PROVE  /\ scheme.mode = "SHORT" /\ ~stretched => \A t \in {"FULL", "HALF"} : InLimit(episodes[i].used[t], t)
                 /\ scheme.mode = "LONG" => MonthsWithin(i)
      <3>1. Counters(i) /\ (scheme.mode = "LONG" => MonthsWithin(i)) BY DEF WithinInv
      <3>2. QED BY <3>1 DEF Counters, InLimit, Limit
    <2>4. IllnessIsOneEpisode BY <2>1 DEF SickInv
    <2>5. QED BY <2>2, <2>3, <2>4 DEF SickPayWithinEntitlement
  <1>2. QED BY <1>1, InitWithin, NextWithin, PTL DEF SickSpec

-----------------------------------------------------------------------------
(* The days of a request are those it asks for *)

DaysAreItsOwn == \A r \in SickRequests : DOMAIN paid[r] \in {{}, sick[r].first .. sick[r].last}

\* A request that is judged is paid from its first day to its last.
LEMMA JudgedDays ==
  ASSUME Shape, DaysAreItsOwn, NEW r \in SickRequests, NEW first \in Int, NEW last \in Int, first <= last, NEW e, NEW q,
         paid' = [paid EXCEPT ![r] = PayOf(r, first, last, e)],
         sick' = [sick EXCEPT ![r] = q], q.first = first, q.last = last
  PROVE  DaysAreItsOwn'
  <1> DEFINE g == PayOf(r, first, last, e)
  <1>1. DOMAIN g = first .. last BY PaysIs
  <1>2. paid' = [paid EXCEPT ![r] = g] OBVIOUS
  <1> HIDE DEF g
  <1>3. sick'[r] = q /\ \A o \in SickRequests : o # r => sick'[o] = sick[o] BY DEF Shape
  <1>4. paid'[r] = g /\ \A o \in SickRequests : o # r => paid'[o] = paid[o] BY <1>2 DEF Shape
  <1>5. QED BY <1>1, <1>3, <1>4 DEF DaysAreItsOwn

LEMMA StepDays == SickInv /\ DaysAreItsOwn /\ [SickNext]_sickVars => DaysAreItsOwn'
  <1>1. SUFFICES ASSUME SickInv, DaysAreItsOwn, [SickNext]_sickVars PROVE DaysAreItsOwn' OBVIOUS
  <1>s. Shape BY <1>1 DEF SickInv
  <1>f. ASSUME NEW r \in SickRequests, NEW first \in Int, NEW last \in Int, first <= last, Finalize(r, first, last)
        PROVE  DaysAreItsOwn'
    <2>1. PICK e, id, units, row, old : Approves(r, first, last, e, id, units, row, old) BY <1>1, <1>f, FinalizeDoes
    <2> DEFINE q == [status |-> "APPROVED", first |-> first, last |-> last, episode |-> id, pay |-> units]
    <2>2. /\ paid' = [paid EXCEPT ![r] = PayOf(r, first, last, e)]
          /\ sick' = [sick EXCEPT ![r] = q] /\ q.first = first /\ q.last = last
      BY <2>1 DEF Approves
    <2> HIDE DEF q
    <2>3. QED BY <1>1, <1>s, <1>f, <2>2, JudgedDays
  <1>k. ASSUME NEW r \in SickRequests, NEW status, sick' = [sick EXCEPT ![r].status = status], UNCHANGED paid
        PROVE  DaysAreItsOwn'
    <2> DEFINE q == [sick[r] EXCEPT !.status = status]
    <2>1. sick' = [sick EXCEPT ![r] = q] /\ q.first = sick[r].first /\ q.last = sick[r].last BY <1>k
    <2> HIDE DEF q
    <2>2. \A o \in SickRequests : sick'[o].first = sick[o].first /\ sick'[o].last = sick[o].last BY <1>s, <2>1 DEF Shape
    <2>3. QED BY <1>1, <1>k, <2>2 DEF DaysAreItsOwn
  <1>u. ASSUME UNCHANGED <<sick, paid>> PROVE DaysAreItsOwn' BY <1>1, <1>u DEF DaysAreItsOwn
  <1>2. ASSUME NEW r \in SickRequests, NEW first \in SickDays, NEW last \in SickDays, NEW auto \in BOOLEAN,
               ReportSick(r, first, last, auto)
        PROVE  DaysAreItsOwn'
    <2>1. first \in Int /\ last \in Int /\ first <= last BY <1>2, SickAssumption DEF ReportSick, SickDays
    <2>2. CASE Finalize(r, first, last) BY <1>f, <2>1, <2>2
    <2>3. CASE ~Finalize(r, first, last)
      <3>1. PICK e \in Episode(first) :
              /\ paid' = [paid EXCEPT ![r] = PayOf(r, first, last, e)]
              /\ sick' = [sick EXCEPT ![r] = [status |-> "PENDING", first |-> first, last |-> last,
                                              episode |-> 0, pay |-> Breakdown(paid'[r])]]
        BY <1>2, <2>3 DEF ReportSick
      <3> DEFINE q == [status |-> "PENDING", first |-> first, last |-> last, episode |-> 0, pay |-> Breakdown(paid'[r])]
      <3>2. sick' = [sick EXCEPT ![r] = q] /\ q.first = first /\ q.last = last BY <3>1
      <3> HIDE DEF q
      <3>3. QED BY <1>1, <1>s, <2>1, <3>1, <3>2, JudgedDays
    <2>4. QED BY <2>2, <2>3
  <1>3. ASSUME NEW r \in SickRequests, ApproveSick(r) PROVE DaysAreItsOwn'
    <2>1. PICK P : sick \in [SickRequests -> Requests(P)] BY <1>s DEF Shape
    <2>2. sick[r].first \in Int /\ sick[r].last \in Int /\ sick[r].status = "PENDING" BY <1>3, <2>1 DEF Requests, ApproveSick
    <2>3. sick[r].first <= sick[r].last BY <1>1, <2>2 DEF SickInv, DatesInOrder, Standing
    <2>4. QED BY <1>3, <1>f, <2>2, <2>3 DEF ApproveSick
  <1>4. ASSUME NEW r \in SickRequests, DeclineSick(r) \/ CancelSick(r) PROVE DaysAreItsOwn'
    BY <1>4, <1>k DEF DeclineSick, CancelSick
  <1>5. ASSUME ReverseTakeOn \/ \E l \in TakeOns : PostTakeOn(l) PROVE DaysAreItsOwn'
    BY <1>5, <1>u DEF ReverseTakeOn, PostTakeOn
  <1>6. QED BY <1>1, <1>u, <1>2, <1>3, <1>4, <1>5 DEF SickNext, SickStep, sickVars

LEMMA SickInvTyped == SickInv /\ DaysAreItsOwn => SickTyped
  <1>1. SUFFICES ASSUME SickInv, DaysAreItsOwn PROVE SickTyped OBVIOUS
  <1>2. PICK U : episodes \in Seq(Rows(U)) BY <1>1 DEF SickInv, Shape
  <1>3. \A i \in DOMAIN episodes : episodes[i] \in Rows(U) BY <1>2
  <1>4. QED BY <1>1, <1>3 DEF Rows, DaysAreItsOwn, SickTyped

\* Before anything is asked for no day is paid.
LEMMA InitDays == SickInit => DaysAreItsOwn
  <1>1. SUFFICES ASSUME SickInit, NEW r \in SickRequests PROVE DOMAIN paid[r] = {} BY DEF DaysAreItsOwn
  <1>2. paid[r] = <<>> BY <1>1 DEF SickInit
  <1>3. DOMAIN <<>> = {} OBVIOUS
  <1>4. QED BY <1>2, <1>3
====
