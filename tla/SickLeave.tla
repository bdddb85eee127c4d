------------------------------- MODULE SickLeave -------------------------------
(***************************************************************************)
(* Sick leave of one employee (kind EPISODE in evaluate.ts and             *)
(* leave.service.ts): requests within LinkDays of an earlier illness       *)
(* continue its episode, and every day is at full, half or no pay. What    *)
(* is paid depends on what was paid before: in the episode, or, under a    *)
(* yearly rule, in the sick-leave cycle.                                   *)
(*                                                                         *)
(* Requests are judged when they are made and again when they are approved, *)
(* in any order, about days past or to come; a take-on batch brings an     *)
(* open episode from outside. Every day is a working day, service begins   *)
(* on day 1, and a month is one day long.                                  *)
(***************************************************************************)
EXTENDS Integers, FiniteSetsExt, Sequences

CONSTANTS SickRequests,
          LastSickDay,
          LinkDays,  \* leave_settings.sick_episode_link_days
          Schemes,   \* pay rules of the policy, with the employee's contract term
          TakeOns    \* lines of take-on batches: cut-over, start, days at each pay

ASSUME SickAssumption ==
  /\ LastSickDay \in Nat /\ LinkDays \in Nat
  /\ \A l \in TakeOns : l.start \in Int /\ l.cut \in Int /\ l.start <= l.cut

VARIABLES scheme,    \* the scheme in force
          sick,      \* the leave requests
          paid,      \* leave_request_days: the pay of each day of a request
          episodes,  \* sick_leave_episodes
          postings,  \* leave_ledger
          takeOn,    \* the batch, once posted
          stretched, \* ghost: the batch was posted on top of requests, or over the cap
          backdated  \* ghost: an illness became known after one that began later
sickVars == <<scheme, sick, paid, episodes, postings, takeOn, stretched, backdated>>

SickDays == 1 .. LastSickDay
Tiers == {"FULL", "HALF", "UNPAID"}
NoPay == [t \in Tiers |-> 0]
NoRequest == [status |-> "NONE", first |-> 1, last |-> 0, episode |-> 0, pay |-> NoPay]
NoBatch == [status |-> "NONE", line |-> CHOOSE l \in TakeOns : TRUE, episode |-> 0]

\* Ids are no words of the ledger's keys; a batch brings days at full and at
\* half pay, none of them below zero.
ASSUME TakeOnAssumption ==
  /\ SickRequests \cap {"OPEN", "REV"} = {}
  /\ \A l \in TakeOns : l.pay \in [Tiers -> Nat] /\ l.pay["UNPAID"] = 0

\* yearlySickRule takes at least one year for a cycle, earlyEarned another
\* divisor for 0.
ASSUME SchemeAssumption ==
  \A s \in Schemes :
    /\ s.mode \in {"YEARLY", "SHORT", "LONG"}
    /\ s.full \in Nat /\ s.half \in Nat /\ s.early \in Int /\ s.minService \in Int
    /\ s.cycle \in Nat \ {0} /\ s.divisor \in Nat \ {0}

Standing(r) == sick[r].status \in {"PENDING", "APPROVED"}
Yearly == scheme.mode = "YEARLY"
SickCycle(d) == (d - 1) \div scheme.cycle
PaidAt(f, t) == {d \in DOMAIN f : f[d] = t}

-----------------------------------------------------------------------------
(* evaluate, for kind EPISODE *)

\* The open episodes a request that begins on this day continues: the one with
\* the latest last day is taken.
Open(i, first) ==
  /\ episodes[i].status # "CLOSED"
  /\ episodes[i].startedOn <= first
  /\ episodes[i].lastDay >= first - LinkDays - 1
Continued(first) ==
  {i \in DOMAIN episodes : Open(i, first)
     /\ \A j \in DOMAIN episodes : Open(j, first) => episodes[j].lastDay <= episodes[i].lastDay}
Episode(first) == IF \E i \in DOMAIN episodes : Open(i, first) THEN Continued(first) ELSE {0}

\* sickUsedInYear: approved and pending days of the cycle, and what the batch
\* brought into it.
Brought(c, t) == IF takeOn.status = "POSTED" /\ SickCycle(takeOn.line.cut) = c THEN takeOn.line.pay[t] ELSE 0
TakenInCycle(others, c, t) ==
  MapThenSumSet(LAMBDA r : Cardinality({d \in PaidAt(paid[r], t) : SickCycle(d) = c}), others)
UsedInYear_Approved(r, c, t) ==
  TakenInCycle({o \in SickRequests \ {r} : sick[o].status = "APPROVED"}, c, t) + Brought(c, t)
UsedInYear(r, c, t) ==
  TakenInCycle({o \in SickRequests \ {r} : Standing(o)}, c, t) + Brought(c, t)

\* earlyEarned: one day for so many days of service.
FullCap(d) ==
  IF Yearly /\ d <= scheme.early /\ d \div scheme.divisor < scheme.full THEN d \div scheme.divisor
  ELSE scheme.full

\* The pay of each day, if the request continues episode e (0: a new one).
PayOf(r, first, last, e) ==
  LET began == IF e = 0 THEN first ELSE episodes[e].startedOn
      used(d, t) == IF Yearly THEN UsedInYear(r, SickCycle(d), t)
                    ELSE IF e = 0 THEN 0 ELSE episodes[e].used[t]
      pay[d \in first .. last] ==
        LET earlier(t) == {x \in first .. d - 1 : pay[x] = t /\ (Yearly => SickCycle(x) = SickCycle(d))}
            sofar(t) == used(d, t) + Cardinality(earlier(t))
        IN IF scheme.mode = "LONG"
           THEN IF d < began + scheme.full THEN "FULL"
                ELSE IF d < began + scheme.full + scheme.half THEN "HALF" ELSE "UNPAID"
           ELSE IF Yearly /\ d <= scheme.minService THEN "UNPAID"
           ELSE IF sofar("FULL") < FullCap(d) THEN "FULL"
           ELSE IF sofar("HALF") < scheme.half THEN "HALF" ELSE "UNPAID"
  IN pay
Breakdown(f) == [t \in Tiers |-> Cardinality(PaidAt(f, t))]

Free(r, first, last) ==
  \A o \in SickRequests \ {r} : Standing(o) => sick[o].last < first \/ last < sick[o].first

-----------------------------------------------------------------------------
(* The ledger, append-only and keyed *)

Posting(key, t, units, e) == [key |-> key, tier |-> t, units |-> units, episode |-> e]
Reversals(source) ==
  {Posting(<<"REV", p.key>>, p.tier, - p.units, p.episode) : p \in {q \in postings : q.key[1] = source}}

-----------------------------------------------------------------------------
(* Requests *)

\* finalize: judged again, posted, and counted in its episode.
Finalize(r, first, last) ==
  \E e \in Episode(first) :
    LET pay == PayOf(r, first, last, e)
        units == Breakdown(pay)
        status == IF units["UNPAID"] > 0 /\ ~Yearly THEN "DISCHARGE_REVIEW" ELSE "OPEN"
        id == IF e = 0 THEN Len(episodes) + 1 ELSE e
        old == IF e = 0 THEN [startedOn |-> first, lastDay |-> last, used |-> NoPay] ELSE episodes[e]
        row == [startedOn |-> old.startedOn,
                lastDay |-> IF old.lastDay < last THEN last ELSE old.lastDay,
                used |-> [t \in Tiers |-> old.used[t] + units[t]],
                status |-> status]
    IN /\ Free(r, first, last)
       /\ episodes' = IF e = 0 THEN Append(episodes, row) ELSE [episodes EXCEPT ![e] = row]
       /\ paid' = [paid EXCEPT ![r] = pay]
       /\ postings' = postings \cup
            {Posting(<<r, t>>, t, - units[t], id) : t \in {x \in Tiers : units[x] > 0}}
       /\ sick' = [sick EXCEPT ![r] = [status |-> "APPROVED", first |-> first, last |-> last,
                                       episode |-> id, pay |-> units]]
       /\ backdated' = (backdated \/ \E i \in DOMAIN episodes : episodes[i].startedOn > first)

\* create: approved at once if the type or HR asks for no steps.
ReportSick(r, first, last, auto) ==
  /\ sick[r] = NoRequest
  /\ first <= last
  /\ \/ auto /\ Finalize(r, first, last)
     \/ /\ ~auto /\ Free(r, first, last)
        /\ \E e \in Episode(first) :
             /\ paid' = [paid EXCEPT ![r] = PayOf(r, first, last, e)]
             /\ sick' = [sick EXCEPT ![r] = [status |-> "PENDING", first |-> first, last |-> last,
                                             episode |-> 0, pay |-> Breakdown(paid'[r])]]
        /\ UNCHANGED <<episodes, postings, backdated>>
  /\ UNCHANGED <<scheme, takeOn, stretched>>

\* decide: the last approval, or a refusal.
ApproveSick(r) ==
  /\ sick[r].status = "PENDING"
  /\ Finalize(r, sick[r].first, sick[r].last)
  /\ UNCHANGED <<scheme, takeOn, stretched>>
DeclineSick(r) ==
  /\ sick[r].status = "PENDING"
  /\ sick' = [sick EXCEPT ![r].status = "DECLINED"]
  /\ UNCHANGED <<scheme, paid, episodes, postings, takeOn, stretched, backdated>>

\* cancel: the episode keeps its dates.
CancelSick_Kept(r) ==
  /\ Standing(r)
  /\ postings' = IF sick[r].status = "APPROVED" THEN postings \cup Reversals(r) ELSE postings
  /\ sick' = [sick EXCEPT ![r].status = "CANCELLED"]
  /\ UNCHANGED <<scheme, paid, episodes, takeOn, stretched, backdated>>
CancelSick(r) ==
  /\ Standing(r)
  /\ IF sick[r].status = "APPROVED"
     THEN /\ postings' = postings \cup Reversals(r)
          /\ episodes' = [episodes EXCEPT ![sick[r].episode].used =
               [t \in Tiers |-> Max({0, @[t] - sick[r].pay[t]})]]
     ELSE UNCHANGED <<postings, episodes>>
  /\ sick' = [sick EXCEPT ![r].status = "CANCELLED"]
  /\ UNCHANGED <<scheme, paid, takeOn, stretched, backdated>>

-----------------------------------------------------------------------------
(* The take-on batch: postBatch and reverseBatch, for its sick-leave line *)

PostTakeOn(l) ==
  LET id == Len(episodes) + 1
  IN /\ takeOn.status = "NONE"
     /\ episodes' = Append(episodes, [startedOn |-> l.start, lastDay |-> l.cut, used |-> l.pay, status |-> "OPEN"])
     /\ postings' = postings \cup
          {Posting(<<"OPEN", t>>, t, - l.pay[t], id) : t \in {x \in {"FULL", "HALF"} : l.pay[x] > 0}}
     /\ takeOn' = [status |-> "POSTED", line |-> l, episode |-> id]
     /\ stretched' = ((\E r \in SickRequests : Standing(r)) \/ l.pay["FULL"] > scheme.full \/ l.pay["HALF"] > scheme.half)
     /\ backdated' = (episodes # <<>>)
     /\ UNCHANGED <<scheme, sick, paid>>
ReverseTakeOn ==
  /\ takeOn.status = "POSTED"
  /\ postings' = postings \cup Reversals("OPEN")
  /\ episodes' = [episodes EXCEPT ![takeOn.episode] = [@ EXCEPT !.status = "CLOSED",
                                                                 !.used["FULL"] = 0, !.used["HALF"] = 0]]
  /\ takeOn' = [takeOn EXCEPT !.status = "REVERSED"]
  /\ UNCHANGED <<scheme, sick, paid, stretched, backdated>>

-----------------------------------------------------------------------------
SickInit ==
  /\ scheme \in Schemes
  /\ sick = [r \in SickRequests |-> NoRequest]
  /\ paid = [r \in SickRequests |-> <<>>]
  /\ episodes = <<>>
  /\ postings = {}
  /\ takeOn = NoBatch
  /\ stretched = FALSE /\ backdated = FALSE

SickStep(r) ==
  \/ \E first, last \in SickDays, auto \in BOOLEAN : ReportSick(r, first, last, auto)
  \/ ApproveSick(r) \/ DeclineSick(r) \/ CancelSick(r)
SickNext ==
  \/ \E r \in SickRequests : SickStep(r)
  \/ \E l \in TakeOns : PostTakeOn(l)
  \/ ReverseTakeOn
SickSpec == SickInit /\ [][SickNext]_sickVars
-----------------------------------------------------------------------------
SickTyped ==
  /\ \A r \in SickRequests : DOMAIN paid[r] \in {{}, sick[r].first .. sick[r].last}
  /\ \A i \in DOMAIN episodes : episodes[i].status \in {"OPEN", "DISCHARGE_REVIEW", "CLOSED"}

\* The counters of an episode, the ledger entries under its key, the pay on its
\* approved requests and the days payroll reads say the same, in whatever order
\* requests were made, approved and cancelled and batches posted and reversed;
\* and all its days lie between its first and its last.
ApprovedIn(i) == {r \in SickRequests : sick[r].status = "APPROVED" /\ sick[r].episode = i}
Counted(i, t) ==
  MapThenSumSet(LAMBDA r : Cardinality(PaidAt(paid[r], t)), ApprovedIn(i))
    + (IF takeOn.status = "POSTED" /\ takeOn.episode = i THEN takeOn.line.pay[t] ELSE 0)
DaysInEpisode(i) ==
  \A r \in ApprovedIn(i) :
    /\ sick[r].pay = Breakdown(paid[r])
    /\ episodes[i].startedOn <= sick[r].first /\ sick[r].last <= episodes[i].lastDay
EpisodesAddUp ==
  \A i \in DOMAIN episodes :
    /\ \A t \in Tiers :
         /\ MapThenSumSet(LAMBDA p : p.units, {p \in postings : p.episode = i /\ p.tier = t}) = - Counted(i, t)
         /\ episodes[i].status # "CLOSED" => episodes[i].used[t] = Counted(i, t)
    /\ DaysInEpisode(i)

\* "4 weeks full pay then 8 weeks half pay" in a cycle, "26 + 26 working days" in
\* an episode, "1 day per 26 worked in the first 6 months", "3 + 3 months" from
\* its first day: never more, although requests are judged while others wait,
\* approved in another order, cancelled and made again. Only a batch posted over
\* requests already made, or itself above the limit, can stretch it. And one
\* illness is one episode, unless a part of it became known late.
InLimit(n, t) == n <= IF t = "FULL" THEN scheme.full ELSE scheme.half
CycleWithin ==
  LET standing == {r \in SickRequests : Standing(r)}
      fullBy(d) == {x \in 1 .. d : SickCycle(x) = SickCycle(d) /\ \E r \in standing : x \in PaidAt(paid[r], "FULL")}
  IN /\ \A d \in SickDays, t \in {"FULL", "HALF"} :
          InLimit(TakenInCycle(standing, SickCycle(d), t) + Brought(SickCycle(d), t), t)
     /\ takeOn = NoBatch => \A d \in SickDays : Cardinality(fullBy(d)) <= FullCap(d)
MonthsWithin(i) ==
  \A r \in ApprovedIn(i) : \A d \in DOMAIN paid[r] :
    LET month == d - episodes[i].startedOn
    IN paid[r][d] = IF month < scheme.full THEN "FULL"
                    ELSE IF month < scheme.full + scheme.half THEN "HALF" ELSE "UNPAID"
IllnessIsOneEpisode ==
  ~backdated => \A i, j \in DOMAIN episodes :
    i < j /\ "CLOSED" \notin {episodes[i].status, episodes[j].status} =>
      episodes[i].lastDay + LinkDays + 1 < episodes[j].startedOn
SickPayWithinEntitlement ==
  /\ IllnessIsOneEpisode
  /\ Yearly /\ ~stretched => CycleWithin
  /\ \A i \in DOMAIN episodes :
       /\ scheme.mode = "SHORT" /\ ~stretched => \A t \in {"FULL", "HALF"} : InLimit(episodes[i].used[t], t)
       /\ scheme.mode = "LONG" => MonthsWithin(i)
=============================================================================
