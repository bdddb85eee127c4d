------------------------------- MODULE EventLeave -------------------------------
(***************************************************************************)
(* Leave for an event (kind EVENT in evaluate.ts and leave.service.ts):     *)
(* maternity, paternity, bereavement. Every event has its own entitlement,  *)
(* shared by the requests that name its date, and a policy may pay for one  *)
(* event in so many years. Requests are judged when they are made and when  *)
(* they are approved. One employee, one type; every day counts as one unit. *)
(***************************************************************************)
EXTENDS Integers, FiniteSetsExt

CONSTANTS EventRequests,  \* in the order they are made: 1 .. n
          Births,      \* <<date, multiple>>: the events people name, and whether of several children
          Spans,      \* <<first, last>> of the leave asked for
          EventRules  \* policies: entitlement, extra days, windows, pay by service

ASSUME EventAssumption ==
  /\ EventRequests \subseteq Nat
  /\ \A b \in Births : b[2] \in BOOLEAN
  /\ \A s \in Spans : s[1] \in Int /\ s[2] \in Int
  /\ \A e \in EventRules : {e.days, e.extra, e.every} \subseteq Nat

VARIABLES rules,   \* the policy in force
          leave,   \* the leave requests
          entries  \* leave_ledger
eventVars == <<rules, leave, entries>>

EventDates == {b[1] : b \in Births}
NoWindow == -1  \* eventRules.windowDaysAfterEvent not set
NotAsked == [status |-> "NONE", event |-> 0, multiple |-> FALSE, first |-> 1, last |-> 0, pay |-> "UNPAID"]
Stands(r) == leave[r].status \in {"PENDING", "APPROVED"}
Length(q) == q.last - q.first + 1

-----------------------------------------------------------------------------
(* evaluate, for kind EVENT *)

Others(r) == {leave[o] : o \in {x \in EventRequests \ {r} : Stands(x)}}
Entitlement(multiple) == rules.days + IF multiple THEN rules.extra ELSE 0
UsedForEvent_Approved(r, event) ==
  MapThenSumSet(LAMBDA o : Length(leave[o]),
    {o \in EventRequests \ {r} : leave[o].status = "APPROVED" /\ leave[o].event = event})
UsedForEvent(r, event) ==
  MapThenSumSet(LAMBDA o : Length(leave[o]),
    {o \in EventRequests \ {r} : Stands(o) /\ leave[o].event = event})

\* recentEvent: another request, whatever its event, that starts less than so
\* many years before or after this one.
RecentEvent(r, first) ==
  \E q \in Others(r) : q.first # first /\ first - rules.every < q.first /\ q.first < first + rules.every
Pay(r, event, first) ==
  IF RecentEvent(r, first) THEN "UNPAID"
  ELSE IF event < rules.fullPayFrom THEN rules.underService ELSE "FULL"

Accepted(r, q) ==
  /\ q.first <= q.last
  /\ \A o \in Others(r) : o.last < q.first \/ q.last < o.first
  /\ Length(q) <= Entitlement(q.multiple) - UsedForEvent(r, q.event)
  /\ rules.window = NoWindow \/ (q.event <= q.first /\ q.first <= q.event + rules.window)

-----------------------------------------------------------------------------
(* The ledger: an event's days are allotted once, under its date *)

Line(key, units, event) == [key |-> key, units |-> units, event |-> event]
Allotted(event) == \E e \in entries : e.key = <<"EVT", event>>

FinalizeEvent(r, q) ==
  /\ Accepted(r, q)
  /\ leave' = [leave EXCEPT ![r] = [q EXCEPT !.status = "APPROVED", !.pay = Pay(r, q.event, q.first)]]
  /\ entries' = entries
       \cup (IF Allotted(q.event) THEN {} ELSE {Line(<<"EVT", q.event>>, Entitlement(q.multiple), q.event)})
       \cup {Line(<<"USE", r>>, - Length(q), q.event)}

RequestEvent(r, birth, span, auto) ==
  LET q == [status |-> "PENDING", event |-> birth[1], multiple |-> birth[2],
            first |-> span[1], last |-> span[2], pay |-> Pay(r, birth[1], span[1])]
  IN /\ leave[r] = NotAsked /\ \A o \in EventRequests : o < r => leave[o] # NotAsked
     /\ \/ auto /\ FinalizeEvent(r, q)
        \/ ~auto /\ Accepted(r, q) /\ leave' = [leave EXCEPT ![r] = q] /\ UNCHANGED entries
     /\ UNCHANGED rules

ApproveEvent(r) ==
  /\ leave[r].status = "PENDING"
  /\ FinalizeEvent(r, leave[r])
  /\ UNCHANGED rules
DeclineEvent(r) ==
  /\ leave[r].status = "PENDING"
  /\ leave' = [leave EXCEPT ![r].status = "DECLINED"]
  /\ UNCHANGED <<rules, entries>>

\* cancel: the use is reversed, the allotment stays.
CancelEvent(r) ==
  /\ Stands(r)
  /\ leave' = [leave EXCEPT ![r].status = "CANCELLED"]
  /\ entries' = entries \cup {Line(<<"RET", r>>, - e.units, e.event) : e \in {x \in entries : x.key = <<"USE", r>>}}
  /\ UNCHANGED rules

-----------------------------------------------------------------------------
EventInit ==
  /\ rules \in EventRules
  /\ leave = [r \in EventRequests |-> NotAsked]
  /\ entries = {}

EventNext ==
  \E r \in EventRequests :
    \/ \E birth \in Births, span \in Spans, auto \in BOOLEAN : RequestEvent(r, birth, span, auto)
    \/ ApproveEvent(r) \/ DeclineEvent(r) \/ CancelEvent(r)
EventSpec == EventInit /\ [][EventNext]_eventVars
-----------------------------------------------------------------------------
EventTyped ==
  \A r \in EventRequests : leave[r].status = "NONE" \/ (leave[r].event \in EventDates /\ leave[r].first <= leave[r].last)

\* In whatever order requests for events are made, approved and cancelled:
\* those for one event never take more days than it gives, the extra days only
\* if one that stands names a multiple birth; "once every N years": no two for
\* different events that start within the window are both paid; and the ledger
\* of an event is what it gives less what is approved, once, as long as all
\* requests for it agree on the birth.
DaysFor(event) == MapThenSumSet(LAMBDA r : Length(leave[r]), {r \in EventRequests : Stands(r) /\ leave[r].event = event})
WithinEntitlement ==
  \A event \in EventDates :
    DaysFor(event) <= Entitlement(\E r \in EventRequests : Stands(r) /\ leave[r].event = event /\ leave[r].multiple)
PaidOncePerWindow ==
  \A r, o \in EventRequests :
    /\ Stands(r) /\ Stands(o) /\ leave[r].event # leave[o].event
    /\ leave[r].first <= leave[o].first /\ leave[o].first < leave[r].first + rules.every
    => "UNPAID" \in {leave[r].pay, leave[o].pay}
EventOnLedger ==
  \A event \in EventDates :
    LET asked == {leave[r].multiple : r \in {o \in EventRequests : leave[o].event = event}}
        taken == {r \in EventRequests : leave[r].status = "APPROVED" /\ leave[r].event = event}
    IN Cardinality(asked) = 1 /\ Allotted(event) =>
         MapThenSumSet(LAMBDA e : e.units, {e \in entries : e.event = event})
           = Entitlement(TRUE \in asked) - MapThenSumSet(LAMBDA r : Length(leave[r]), taken)
EventLeaveRight == WithinEntitlement /\ PaidOncePerWindow /\ EventOnLedger

\* docs/VERSION-LOG.md v028.C: "A second event inside the window is allowed but
\* unpaid". Leave is unpaid only if somebody asked for leave for another event.
UnpaidOnlyForAnother ==
  \A r \in EventRequests :
    leave[r].status = "APPROVED" /\ leave[r].pay = "UNPAID" /\ rules.underService # "UNPAID" =>
      \E o \in EventRequests : leave[o].status # "NONE" /\ leave[o].event # leave[r].event
=============================================================================
