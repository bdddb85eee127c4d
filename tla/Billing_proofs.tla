--------------------------- MODULE Billing_proofs ---------------------------
(***************************************************************************)
(* Whatever fails, no billing event takes effect twice, and none that      *)
(* Stripe will not send again is missing unless its handler was lost.      *)
(*                                                                         *)
(* The argument: an event that has not been remembered has not taken       *)
(* effect; one that is being handled is remembered, has not taken effect   *)
(* and has one handler; and, while no handler was lost, one that is        *)
(* remembered has taken effect or is being handled. The second part shows  *)
(* that the row of a tenant mirrors its subscription.                      *)
(***************************************************************************)
EXTENDS Billing, SequenceTheorems, TLAPS

Rows ==
  [status : {"NONE", "INACTIVE", "ACTIVE"},
   billing : {"NONE", "MANUAL", "INCOMPLETE", "TRIALING", "ACTIVE", "PAST_DUE", "UNPAID", "PAUSED", "CANCELED"},
   band : Nat, seatCap : Nat, attached : BOOLEAN]
Subscriptions == [status : Turns \cup {"none", "trialing"}, band : Nat, version : Nat]
Jobs ==
  [kind : {"signup", "checkout", "sync", "failed", "retrieved", "nothing", "changed", "plan"},
   event : Nat, tenant : Attempts, sub : Subscriptions]

Whole(row) ==
  /\ row \in Rows
  /\ row.billing = "NONE" <=> row.status = "NONE"
  /\ row.status = "NONE" => row = NoTenant

TablesTyped ==
  /\ tenants \in [Attempts -> Rows]
  /\ \A t \in Attempts : Whole(tenants[t])
  /\ checkout \in [Attempts -> {"none", "open", "complete"}]
  /\ stripe \in [Attempts -> Subscriptions]
  /\ events \in Seq([kind : {"checkout", "sync", "failed"}, tenant : Attempts, sub : Subscriptions])
  /\ Len(events) <= MaxEvents
  /\ work \subseteq Jobs

DeliveriesTyped ==
  /\ acked \subseteq EventIds /\ remembered \subseteq EventIds
  /\ applied \in [1 .. MaxEvents -> Nat]
  /\ lossy \in BOOLEAN

\* A handler of an event is the only one, and the event has not taken effect.
OneHandler ==
  /\ \A w \in work : w.kind \in {"signup", "changed", "plan"} => w.event = 0
  /\ \A w \in work : w.event # 0 => w.event \in remembered /\ applied[w.event] = 0
  /\ \A v, w \in work : v.event = w.event /\ w.event # 0 => v = w

\* Taking effect leaves a trace.
Remembering ==
  /\ \A e \in 1 .. MaxEvents : applied[e] <= 1
  /\ \A e \in (1 .. MaxEvents) \ remembered : applied[e] = 0

NothingLost ==
  ~lossy => /\ \A e \in remembered : applied[e] = 1 \/ InProgress(e)
            /\ \A e \in acked : e \in remembered /\ applied[e] = 1

IInv == TablesTyped /\ DeliveriesTyped /\ OneHandler /\ Remembering /\ NothingLost

USE BillingAssumption

LEMMA IdsInRange ==
  ASSUME TablesTyped
  PROVE  EventIds \subseteq 1 .. MaxEvents /\ EventIds \subseteq Nat \ {0} /\ 0 \notin EventIds
BY DEF TablesTyped, EventIds

LEMMA InitInvariant == Init => IInv
<1> SUFFICES ASSUME Init PROVE IInv
  OBVIOUS
<1>1. TablesTyped
  BY DEF Init, TablesTyped, Whole, Rows, Subscriptions, NoTenant, NoSubscription
<1>2. DeliveriesTyped
  BY DEF Init, DeliveriesTyped, EventIds
<1> QED
  BY <1>1, <1>2 DEF Init, IInv, OneHandler, Remembering, NothingLost, InProgress

\* What Stripe adds to its list changes nothing of what was delivered.
LEMMA Telling ==
  ASSUME IInv, NEW t \in Attempts, NEW status \in Turns \cup {"none", "trialing"}, NEW band \in Nat,
         NEW kinds \in Seq({"checkout", "sync", "failed"}),
         Becomes(t, status, band, kinds)
  PROVE  /\ stripe' \in [Attempts -> Subscriptions]
         /\ events' \in Seq([kind : {"checkout", "sync", "failed"}, tenant : Attempts, sub : Subscriptions])
         /\ Len(events') <= MaxEvents
         /\ EventIds \subseteq EventIds'
<1> DEFINE sub == [status |-> status, band |-> band, version |-> stripe[t].version + 1]
           Event == [kind : {"checkout", "sync", "failed"}, tenant : Attempts, sub : Subscriptions]
           new == [i \in DOMAIN kinds |-> [kind |-> kinds[i], tenant |-> t, sub |-> sub]]
<1>1. stripe[t].version \in Nat
  BY DEF IInv, TablesTyped, Subscriptions
<1>2. sub \in Subscriptions
  BY <1>1 DEF Subscriptions
<1>3. stripe' \in [Attempts -> Subscriptions]
  BY <1>2 DEF Becomes, IInv, TablesTyped
<1>4. new \in Seq(Event) /\ Len(new) = Len(kinds)
  <2>1. DOMAIN kinds = 1 .. Len(kinds) /\ Len(kinds) \in Nat
    OBVIOUS
  <2>2. \A i \in 1 .. Len(kinds) : new[i] \in Event
    BY <1>2
  <2> HIDE DEF sub
  <2> QED
    BY <2>1, <2>2
<1>5. events \in Seq(Event) /\ Len(events) \in Nat
  BY DEF IInv, TablesTyped
<1>6. events' = events \o new /\ Len(events) + Len(kinds) <= MaxEvents
  BY DEF Becomes, Tell
<1> HIDE DEF new, Event
<1>7. events' \in Seq(Event) /\ Len(events') = Len(events) + Len(kinds)
  BY <1>4, <1>5, <1>6, ConcatProperties
<1>8. EventIds \subseteq EventIds'
  BY <1>4, <1>5, <1>7 DEF EventIds
<1> QED
  BY <1>3, <1>6, <1>7, <1>8 DEF Event

\* A step that leaves the deliveries alone keeps the invariant if the tables
\* keep their types and the handlers of events stay as they are.
LEMMA Elsewhere ==
  ASSUME IInv, TablesTyped', EventIds \subseteq EventIds',
         UNCHANGED <<acked, remembered, applied, lossy>>,
         \A w \in work' : w.event # 0 => w \in work,
         \A w \in work : w.event # 0 => w \in work'
  PROVE  IInv'
<1> USE DEF IInv
<1>1. DeliveriesTyped'
  BY DEF DeliveriesTyped
<1>2. OneHandler'
  BY DEF OneHandler
<1>3. Remembering'
  BY DEF Remembering
<1>4. ASSUME NEW e \in remembered, InProgress(e) PROVE InProgress(e)'
  BY <1>4, IdsInRange DEF InProgress, DeliveriesTyped
<1>5. NothingLost'
  BY <1>4 DEF NothingLost
<1> QED
  BY <1>1, <1>2, <1>3, <1>5

LEMMA CustomerStep ==
  ASSUME IInv, NEW t \in Attempts, Customer(t)
  PROVE  IInv'
<1> USE DEF IInv
<1>1. ASSUME NEW band \in FirstBands, Signup(t, band) PROVE IInv'
  <2> DEFINE job == Job("signup", 0, t, [NoSubscription EXCEPT !.band = band])
             row == [NoTenant EXCEPT !.status = "INACTIVE", !.billing = "MANUAL", !.band = band, !.seatCap = band]
  <2>1. row \in Rows /\ NoTenant \in Rows /\ row.billing # "NONE" /\ row.status # "NONE"
    BY DEF Rows, NoTenant
  <2>2. job \in Jobs /\ job.event = 0
    BY DEF Job, Jobs, NoSubscription, Subscriptions
  <2>3. tenants' \in [Attempts -> Rows]
    BY <1>1, <2>1 DEF Signup, TablesTyped
  <2>4. \A u \in Attempts : Whole(tenants'[u])
    BY <1>1, <2>1 DEF Signup, TablesTyped, Whole, NoTenant
  <2> HIDE DEF job, row
  <2>5. work' = work \cup {job} /\ UNCHANGED <<checkout, stripe, events, acked, remembered, applied, lossy>>
    BY <1>1 DEF Signup, atStripe, ghosts, job
  <2>6. TablesTyped'
    BY <2>2, <2>3, <2>4, <2>5 DEF TablesTyped
  <2> QED
    BY <2>2, <2>5, <2>6, Elsewhere DEF EventIds
<1>2. ASSUME Pay(t) PROVE IInv'
  <2>1. stripe[t].band \in Nat
    BY DEF TablesTyped, Subscriptions
  <2>2. Becomes(t, "trialing", stripe[t].band, <<"sync", "checkout">>)
    BY <1>2 DEF Pay
  <2>3. checkout' \in [Attempts -> {"none", "open", "complete"}]
    BY <1>2 DEF Pay, TablesTyped
  <2>4. /\ stripe' \in [Attempts -> Subscriptions]
        /\ events' \in Seq([kind : {"checkout", "sync", "failed"}, tenant : Attempts, sub : Subscriptions])
        /\ Len(events') <= MaxEvents
        /\ EventIds \subseteq EventIds'
    <3>1. <<"sync", "checkout">> \in Seq({"checkout", "sync", "failed"})
      OBVIOUS
    <3> QED
      BY <2>1, <2>2, <3>1, Telling
  <2> QED
    BY <1>2, <2>2, <2>3, <2>4, Elsewhere DEF Pay, FarSide, TablesTyped, ghosts
<1>3. ASSUME NEW status \in Turns, Turn(t, status) PROVE IInv'
  <2>1. stripe[t].band \in Nat
    BY DEF TablesTyped, Subscriptions
  <2>2. PICK kinds \in Seq({"checkout", "sync", "failed"}) : Becomes(t, status, stripe[t].band, kinds)
    <3>1. <<"sync">> \in Seq({"checkout", "sync", "failed"}) /\ <<"failed", "sync">> \in Seq({"checkout", "sync", "failed"})
      OBVIOUS
    <3>2. CASE status = "past_due"
      <4>1. Becomes(t, status, stripe[t].band, <<"failed", "sync">>)
        BY <1>3, <3>2 DEF Turn
      <4> QED
        BY <3>1, <4>1
    <3>3. CASE status # "past_due"
      <4>1. Becomes(t, status, stripe[t].band, <<"sync">>)
        BY <1>3, <3>3 DEF Turn
      <4> QED
        BY <3>1, <4>1
    <3> QED
      BY <3>2, <3>3
  <2> QED
    BY <1>3, <2>1, <2>2, Telling, Elsewhere DEF Turn, FarSide, TablesTyped, ghosts
<1>4. ASSUME NEW band \in Bands, Switch(t, band) PROVE IInv'
  <2>1. stripe[t].status \in Turns \cup {"none", "trialing"}
    BY DEF TablesTyped, Subscriptions
  <2>2. Becomes(t, stripe[t].status, band, <<"sync">>)
    BY <1>4 DEF Switch
  <2>3. /\ stripe' \in [Attempts -> Subscriptions]
        /\ events' \in Seq([kind : {"checkout", "sync", "failed"}, tenant : Attempts, sub : Subscriptions])
        /\ Len(events') <= MaxEvents
        /\ EventIds \subseteq EventIds'
    <3>1. <<"sync">> \in Seq({"checkout", "sync", "failed"})
      OBVIOUS
    <3> QED
      BY <2>1, <2>2, <3>1, Telling
  <2> QED
    BY <1>4, <2>3, Elsewhere DEF Switch, FarSide, TablesTyped, ghosts
<1>5. ASSUME NEW band \in Bands, ChangePlan(t, band) PROVE IInv'
  <2>1. stripe[t].status \in Turns \cup {"none", "trialing"}
    BY DEF TablesTyped, Subscriptions
  <2>2. Becomes(t, stripe[t].status, band, <<"sync">>)
    BY <1>5 DEF ChangePlan
  <2>3. /\ stripe' \in [Attempts -> Subscriptions]
        /\ events' \in Seq([kind : {"checkout", "sync", "failed"}, tenant : Attempts, sub : Subscriptions])
        /\ Len(events') <= MaxEvents
        /\ EventIds \subseteq EventIds'
    <3>1. <<"sync">> \in Seq({"checkout", "sync", "failed"})
      OBVIOUS
    <3> QED
      BY <2>1, <2>2, <3>1, Telling
  <2>4. Job("changed", 0, t, stripe'[t]) \in Jobs /\ Job("changed", 0, t, stripe'[t]).event = 0
    BY <2>3 DEF Job, Jobs
  <2> QED
    BY <1>5, <2>3, <2>4, Elsewhere DEF ChangePlan, TablesTyped, ghosts
<1>6. ASSUME Poll(t) PROVE IInv'
  <2>1. Job("checkout", 0, t, NoSubscription) \in Jobs /\ Job("checkout", 0, t, NoSubscription).event = 0
    BY DEF Job, Jobs, NoSubscription, Subscriptions
  <2> QED
    BY <1>6, <2>1, Elsewhere DEF Poll, TablesTyped, atStripe, ghosts, EventIds
<1> QED
  BY <1>1, <1>2, <1>3, <1>4, <1>5, <1>6 DEF Customer

LEMMA OwnerStep ==
  ASSUME IInv, NEW t \in Attempts, Owner(t)
  PROVE  IInv'
<1>1. /\ tenants' \in [Attempts -> Rows]
      /\ \A u \in Attempts : Whole(tenants'[u])
  <2>1. tenants \in [Attempts -> Rows] /\ \A u \in Attempts : Whole(tenants[u])
    BY DEF IInv, TablesTyped
  <2>2. PICK row : Whole(row) /\ tenants' = [tenants EXCEPT ![t] = row]
    <3>1. ASSUME NEW status \in {"ACTIVE", "INACTIVE"}, SetStatus(t, status)
          PROVE \E row : Whole(row) /\ tenants' = [tenants EXCEPT ![t] = row]
      <4> DEFINE row == [tenants[t] EXCEPT !.status = status]
      <4>1. tenants[t] \in Rows /\ tenants[t].status # "NONE" /\ tenants[t].billing # "NONE"
        BY <3>1, <2>1 DEF SetStatus, Exists, Whole
      <4>2. Whole(row)
        BY <4>1 DEF Whole, Rows
      <4> QED
        BY <3>1, <4>2 DEF SetStatus
    <3>2. ASSUME NEW cap \in Bands, UpdateTenant(t, cap)
          PROVE \E row : Whole(row) /\ tenants' = [tenants EXCEPT ![t] = row]
      <4> DEFINE row == [tenants[t] EXCEPT !.seatCap = cap]
      <4>1. tenants[t] \in Rows /\ tenants[t].status # "NONE" /\ tenants[t].billing # "NONE"
        BY <3>2, <2>1 DEF UpdateTenant, Exists, Whole
      <4>2. Whole(row)
        BY <4>1 DEF Whole, Rows
      <4> QED
        BY <3>2, <4>2 DEF UpdateTenant
    <3>3. ASSUME Remove(t)
          PROVE \E row : Whole(row) /\ tenants' = [tenants EXCEPT ![t] = row]
      <4>1. Whole(NoTenant)
        BY DEF Whole, Rows, NoTenant
      <4> QED
        BY <3>3, <4>1 DEF Remove
    <3> QED
      BY <3>1, <3>2, <3>3 DEF Owner
  <2>3. row \in Rows
    BY <2>2 DEF Whole
  <2> QED
    BY <2>1, <2>2, <2>3
<1>2. UNCHANGED <<checkout, stripe, events, acked, remembered, work, applied, lossy>>
  BY DEF Owner, SetStatus, UpdateTenant, Remove, atStripe, ghosts
<1> QED
  BY <1>1, <1>2, Elsewhere DEF IInv, TablesTyped, EventIds

\* Delivering: the event is acknowledged if it is remembered, and remembered
\* and handed to a handler otherwise.
LEMMA DeliverStep ==
  ASSUME IInv, NEW e \in EventIds, Deliver(e)
  PROVE  IInv'
<1> USE DEF IInv
<1> DEFINE job == Job(events[e].kind, e, events[e].tenant, events[e].sub)
<1>1. e \in 1 .. MaxEvents /\ e # 0 /\ e \in Nat
  BY IdsInRange
<1>2. job \in Jobs /\ job.event = e /\ job.kind \in {"checkout", "sync", "failed"}
  <2>1. events[e] \in [kind : {"checkout", "sync", "failed"}, tenant : Attempts, sub : Subscriptions]
    <3>1. events \in Seq([kind : {"checkout", "sync", "failed"}, tenant : Attempts, sub : Subscriptions])
      BY DEF TablesTyped
    <3>2. e \in 1 .. Len(events)
      BY <3>1 DEF EventIds
    <3> QED
      BY <3>1, <3>2, ElementOfSeq
  <2> QED
    BY <1>1, <2>1 DEF Job, Jobs
<1> HIDE DEF job
<1>3. UNCHANGED <<tenants, checkout, stripe, events, applied, lossy>> /\ ~InProgress(e)
  BY DEF Deliver, atStripe, ghosts
<1>4. CASE e \in remembered
  <2>1. acked' = acked \cup {e} /\ UNCHANGED <<remembered, work>>
    BY <1>4 DEF Deliver
  <2>2. ~lossy => applied[e] = 1
    BY <1>3, <1>4 DEF NothingLost
  <2>3. TablesTyped' /\ DeliveriesTyped' /\ OneHandler' /\ Remembering'
    BY <1>3, <2>1 DEF TablesTyped, DeliveriesTyped, OneHandler, Remembering, EventIds
  <2>4. NothingLost'
    BY <1>3, <1>4, <2>1, <2>2 DEF NothingLost, InProgress
  <2> QED
    BY <2>3, <2>4
<1>5. CASE e \notin remembered
  <2>1. remembered' = remembered \cup {e} /\ work' = work \cup {job} /\ UNCHANGED acked
    BY <1>5 DEF Deliver, job
  <2>2. TablesTyped'
    BY <1>2, <1>3, <2>1 DEF TablesTyped
  <2>3. DeliveriesTyped'
    BY <1>3, <2>1 DEF DeliveriesTyped, EventIds
  <2>4. applied[e] = 0
    BY <1>1, <1>5 DEF Remembering
  <2>5. OneHandler'
    BY <1>2, <1>3, <2>1, <2>4 DEF OneHandler, InProgress
  <2>6. Remembering'
    BY <1>3, <2>1 DEF Remembering
  <2>7. ~lossy => \A f \in remembered' : applied[f] = 1 \/ InProgress(f)'
    BY <1>2, <2>1 DEF NothingLost, InProgress
  <2>8. NothingLost'
    BY <1>3, <2>1, <2>7 DEF NothingLost
  <2> QED
    BY <2>2, <2>3, <2>5, <2>6, <2>8
<1> QED
  BY <1>4, <1>5

\* What a handler writes is a row, whoever removed or edited it meanwhile.
LEMMA RowWritten ==
  ASSUME TablesTyped, NEW w \in work
  PROVE  Whole(Written(w))
<1>1. w.tenant \in Attempts /\ w.sub.band \in Nat /\ Whole(tenants[w.tenant])
  BY DEF TablesTyped, Jobs, Subscriptions
<1>2. Whole(Patched(tenants[w.tenant], w.sub))
  BY <1>1 DEF Whole, Rows, Patched, BillingStatus
<1>3. ASSUME Exists(w.tenant) PROVE Whole([tenants[w.tenant] EXCEPT !.billing = "PAST_DUE"])
  <2>1. tenants[w.tenant] \in Rows /\ tenants[w.tenant].status # "NONE"
    BY <1>1, <1>3 DEF Exists, Whole
  <2> QED
    BY <2>1 DEF Whole, Rows
<1>4. CASE ~Exists(w.tenant) \/ w.kind = "nothing"
  <2>1. Written(w) = tenants[w.tenant]
    BY <1>4 DEF Written
  <2> QED
    BY <1>1, <2>1
<1>5. CASE Exists(w.tenant) /\ w.kind = "failed"
  BY <1>1, <1>3, <1>5 DEF Written
<1>6. CASE Exists(w.tenant) /\ w.kind = "plan"
  <2> DEFINE row == [tenants[w.tenant] EXCEPT !.band = w.sub.band, !.seatCap = w.sub.band]
  <2>1. tenants[w.tenant] \in Rows /\ tenants[w.tenant].status # "NONE"
    BY <1>1, <1>6 DEF Exists, Whole
  <2>2. row \in Rows /\ row.billing = tenants[w.tenant].billing /\ row.status = tenants[w.tenant].status
    BY <1>1, <2>1 DEF Rows
  <2>3. Written(w) = row
    BY <1>6 DEF Written
  <2> HIDE DEF row
  <2> QED
    BY <1>1, <2>1, <2>2, <2>3 DEF Whole
<1>7. CASE Exists(w.tenant) /\ w.kind \notin {"nothing", "failed", "plan"}
  BY <1>2, <1>7 DEF Written
<1> QED
  BY <1>4, <1>5, <1>6, <1>7

\* A handler takes its next step, or a job that is not about an event ends.
LEMMA HandedOn ==
  ASSUME IInv, NEW w \in work, NEW n \in Jobs, n.event = w.event, n.kind \notin {"signup", "changed", "plan"},
         work' = (work \ {w}) \cup {n},
         UNCHANGED <<tenants, checkout, stripe, events, acked, remembered, applied, lossy>>
  PROVE  IInv'
<1> USE DEF IInv
<1>1. TablesTyped' /\ DeliveriesTyped' /\ Remembering'
  BY DEF TablesTyped, DeliveriesTyped, Remembering, EventIds
<1>2. OneHandler'
  BY DEF OneHandler
<1>3. \A e : InProgress(e) => InProgress(e)'
  BY DEF InProgress
<1>4. NothingLost'
  BY <1>3 DEF NothingLost
<1> QED
  BY <1>1, <1>2, <1>4

\* The handler of an event has written what it had to write.
LEMMA FinishStep ==
  ASSUME IInv, NEW w \in work, Finish(w)
  PROVE  IInv'
<1> USE DEF IInv
<1>1. w.event \in Nat /\ w.tenant \in Attempts
  BY DEF TablesTyped, Jobs
<1> DEFINE plan == Job("plan", 0, w.tenant, w.sub)
<1>2. /\ UNCHANGED <<checkout, stripe, events, remembered, lossy>>
      /\ work' = (work \ {w}) \cup (IF w.kind = "changed" THEN {plan} ELSE {})
  BY DEF Finish, Noted, atStripe
<1>p. plan \in Jobs /\ plan.event = 0 /\ plan.kind = "plan"
  <2>1. w.sub \in Subscriptions
    BY DEF TablesTyped, Jobs
  <2> QED
    BY <1>1, <2>1 DEF Job, Jobs
<1> HIDE DEF plan
<1>3. TablesTyped'
  <2>1. Whole(Written(w)) /\ Written(w) \in Rows
    BY RowWritten DEF Whole
  <2>2. tenants' = [tenants EXCEPT ![w.tenant] = Written(w)]
    BY DEF Finish
  <2>3. work' \subseteq Jobs
    BY <1>2, <1>p DEF TablesTyped
  <2> QED
    BY <1>1, <1>2, <2>1, <2>2, <2>3 DEF TablesTyped
<1>4. CASE w.event = 0
  <2>1. UNCHANGED <<applied, acked>>
    BY <1>4 DEF Finish, Noted
  <2> QED
    BY <1>2, <1>3, <1>4, <1>p, <2>1, Elsewhere DEF EventIds
<1>5. CASE w.event # 0
  <2>0. work' = work \ {w}
    BY <1>2, <1>5 DEF OneHandler
  <2>1. w.event \in remembered /\ applied[w.event] = 0 /\ w.event \in EventIds /\ w.event \in 1 .. MaxEvents
    BY <1>5, IdsInRange DEF OneHandler, DeliveriesTyped
  <2>2. applied' = [applied EXCEPT ![w.event] = @ + 1]
    BY <1>5 DEF Finish, Noted
  <2>3. acked \subseteq acked' /\ acked' \subseteq acked \cup {w.event}
    BY DEF Finish
  <2>4. \A e \in 1 .. MaxEvents : applied'[e] = IF e = w.event THEN 1 ELSE applied[e]
    BY <2>1, <2>2 DEF DeliveriesTyped
  <2>5. DeliveriesTyped'
    BY <1>2, <2>1, <2>2, <2>3 DEF DeliveriesTyped, EventIds
  <2>6. \A v \in work' : v \in work /\ (v.event # 0 => v.event # w.event /\ v.event \in 1 .. MaxEvents)
    BY <2>0, <1>5, IdsInRange DEF OneHandler, DeliveriesTyped
  <2>7. OneHandler'
    BY <1>2, <2>0, <2>4, <2>6 DEF OneHandler
  <2>8. Remembering'
    BY <1>2, <2>1, <2>4 DEF Remembering
  <2>9. \A e : InProgress(e) => e = w.event \/ InProgress(e)'
    BY <2>0 DEF InProgress
  <2>10. remembered \subseteq 1 .. MaxEvents /\ acked \subseteq 1 .. MaxEvents
    BY IdsInRange DEF DeliveriesTyped
  <2>11. NothingLost'
    BY <1>2, <2>1, <2>3, <2>4, <2>9, <2>10 DEF NothingLost
  <2> QED
    BY <1>3, <2>5, <2>7, <2>8, <2>11
<1> QED
  BY <1>4, <1>5

LEMMA ProceedStep ==
  ASSUME IInv, NEW w \in work, Proceed(w)
  PROVE  IInv'
<1>1. w \in Jobs /\ w.event \in Nat /\ w.tenant \in Attempts /\ w.sub \in Subscriptions
  BY DEF IInv, TablesTyped, Jobs
<1>2. ASSUME OpenCheckout(w) PROVE IInv'
  <2>1. w.event = 0
    BY <1>2 DEF OpenCheckout, IInv, OneHandler
  <2>2. Whole(tenants[w.tenant])
    BY <1>1 DEF IInv, TablesTyped
  <2> DEFINE row == [tenants[w.tenant] EXCEPT !.billing = IF Exists(w.tenant) THEN "INCOMPLETE" ELSE @]
  <2>3. Whole(row) /\ row \in Rows
    <3>1. CASE Exists(w.tenant)
      <4>1. tenants[w.tenant] \in Rows /\ tenants[w.tenant].status # "NONE"
        BY <2>2, <3>1 DEF Exists, Whole
      <4> QED
        BY <3>1, <4>1 DEF Whole, Rows
    <3>2. CASE ~Exists(w.tenant)
      BY <2>2, <3>2 DEF Exists, Whole, Rows, NoTenant
    <3> QED
      BY <3>1, <3>2
  <2>4. tenants' = [tenants EXCEPT ![w.tenant] = row]
    BY <1>2 DEF OpenCheckout
  <2> HIDE DEF row
  <2>5. TablesTyped'
    <3>1. /\ checkout' = [checkout EXCEPT ![w.tenant] = "open"]
          /\ stripe' = [stripe EXCEPT ![w.tenant] = w.sub]
          /\ work' = work \ {w} /\ events' = events
      BY <1>2 DEF OpenCheckout
    <3>2. tenants' \in [Attempts -> Rows] /\ \A u \in Attempts : Whole(tenants'[u])
      BY <1>1, <2>3, <2>4 DEF IInv, TablesTyped
    <3>3. checkout' \in [Attempts -> {"none", "open", "complete"}] /\ stripe' \in [Attempts -> Subscriptions]
      BY <1>1, <3>1 DEF IInv, TablesTyped
    <3> QED
      BY <3>1, <3>2, <3>3 DEF IInv, TablesTyped
  <2> QED
    BY <1>2, <2>1, <2>5, Elsewhere DEF OpenCheckout, ghosts, EventIds
<1>3. ASSUME Retrieve(w) PROVE IInv'
  <2>1. stripe[w.tenant] \in Subscriptions /\ NoSubscription \in Subscriptions
    BY <1>1 DEF IInv, TablesTyped, NoSubscription, Subscriptions
  <2>2. PICK n \in Jobs : /\ n.event = w.event /\ n.kind \notin {"signup", "changed", "plan"}
                          /\ work' = (work \ {w}) \cup {n}
    <3>1. /\ Job("retrieved", w.event, w.tenant, stripe[w.tenant]) \in Jobs
          /\ Job("nothing", w.event, w.tenant, NoSubscription) \in Jobs
      BY <1>1, <2>1 DEF Job, Jobs
    <3> QED
      BY <1>3, <3>1 DEF Retrieve, Job
  <2> QED
    BY <1>3, <2>2, HandedOn DEF Retrieve, atStripe, ghosts
<1> QED
  BY <1>2, <1>3, FinishStep DEF Proceed

\* Losing handlers is what lossy records; a handler that fails takes the memory
\* of its event along.
LEMMA TroubleStep ==
  ASSUME IInv, Trouble
  PROVE  IInv'
<1> USE DEF IInv
<1>1. ASSUME Crash PROVE IInv'
  <2>1. UNCHANGED <<tenants, checkout, stripe, events, acked, remembered, applied>> /\ work' = {}
        /\ lossy' = (lossy \/ \E w \in work : w.event # 0)
    BY <1>1 DEF Crash, atStripe
  <2>2. TablesTyped' /\ DeliveriesTyped' /\ OneHandler' /\ Remembering'
    BY <2>1 DEF TablesTyped, DeliveriesTyped, OneHandler, Remembering, EventIds
  <2>3. ~lossy' => ~lossy /\ \A e \in remembered : ~InProgress(e)
    BY <2>1, IdsInRange DEF InProgress, DeliveriesTyped
  <2>4. NothingLost'
    BY <2>1, <2>3 DEF NothingLost
  <2> QED
    BY <2>2, <2>4
<1>2. ASSUME NEW e \in EventIds, TimeOut(e) PROVE IInv'
  <2>1. UNCHANGED <<tenants, checkout, stripe, events, remembered, work, applied>>
        /\ acked' = acked \cup {e} /\ lossy' = TRUE
    BY <1>2 DEF TimeOut, atStripe
  <2> QED
    BY <2>1 DEF TablesTyped, DeliveriesTyped, OneHandler, Remembering, NothingLost, EventIds
<1>3. ASSUME NEW w \in work, Fail(w) PROVE IInv'
  <2>1. UNCHANGED <<checkout, stripe, events, acked, applied, lossy>>
        /\ work' = work \ {w} /\ remembered' = remembered \ {w.event}
    BY <1>3 DEF Fail, atStripe, ghosts
  <2>2. w.tenant \in Attempts /\ w.event \in Nat
    BY DEF TablesTyped, Jobs
  <2>3. TablesTyped'
    <3>1. Whole(NoTenant) /\ NoTenant \in Rows
      BY DEF Whole, Rows, NoTenant
    <3> QED
      BY <1>3, <2>1, <2>2, <3>1 DEF Fail, TablesTyped
  <2>4. w.event # 0 => applied[w.event] = 0
    BY DEF OneHandler
  <2>5. DeliveriesTyped'
    BY <2>1 DEF DeliveriesTyped, EventIds
  <2>6. OneHandler'
    BY <2>1 DEF OneHandler
  <2>7. Remembering'
    BY <2>1, <2>4 DEF Remembering
  <2>8. 0 \notin remembered /\ 0 \notin acked
    BY IdsInRange DEF DeliveriesTyped
  <2>9. \A e : InProgress(e) => e = w.event \/ InProgress(e)'
    BY <2>1 DEF InProgress
  <2>10. NothingLost'
    BY <2>1, <2>4, <2>8, <2>9 DEF NothingLost
  <2> QED
    BY <2>3, <2>5, <2>6, <2>7, <2>10
<1> QED
  BY <1>1, <1>2, <1>3 DEF Trouble

LEMMA NextInvariant == IInv /\ [Next]_vars => IInv'
<1> SUFFICES ASSUME IInv, [Next]_vars PROVE IInv'
  OBVIOUS
<1>1. CASE UNCHANGED vars
  BY <1>1, Elsewhere DEF vars, atStripe, ghosts, IInv, TablesTyped, EventIds
<1>2. CASE Next
  BY <1>2, CustomerStep, OwnerStep, DeliverStep, ProceedStep, TroubleStep DEF Next
<1> QED
  BY <1>1, <1>2

THEOREM Invariant == Spec => []IInv
BY InitInvariant, NextInvariant, PTL DEF Spec

\* The rows, jobs and lists keep their types for any sign-ups, bands and faults.
THEOREM TypeCorrect == Spec => []TypeOK
<1>1. IInv => TypeOK
  BY DEF IInv, TablesTyped, DeliveriesTyped, OneHandler, TypeOK, Whole, Rows, Jobs
<1> QED
  BY <1>1, Invariant, PTL

\* Every event takes effect once, with any number of failures, crashes, time-outs
\* and lost answers: never twice, and it has once Stripe will not send it again,
\* unless a handler was lost.
THEOREM EventsAppliedOnce == Spec => []EachEventOnce
<1>1. IInv => AppliedOnce
  BY IdsInRange DEF IInv, Remembering, AppliedOnce
<1>2. IInv => AckedIsApplied
  BY DEF IInv, NothingLost, AckedIsApplied
<1> QED
  BY <1>1, <1>2, Invariant, PTL DEF EachEventOnce

----------------------------------------------------------------------------
(* The row mirrors the subscription. Stripe numbers the changes of a       *)
(* subscription; what is told of one number is always the same, and an     *)
(* event of the latest exists. Unless something older was written, the row *)
(* shows the newest number that took effect, and, unless the owner edited  *)
(* it since, says what Stripe said of that number.                         *)

HIDE BillingAssumption

\* What a row has when it says what Stripe says.
Mirrors(row, sub) ==
  /\ row.billing = BillingStatus(sub.status)
  /\ row.status = "ACTIVE" <=> sub.status \in Live
  /\ {row.band, row.seatCap} = {sub.band}

\* A version of a subscription is always told the same way, and the latest
\* one is told.
OneTruth ==
  /\ \A e \in EventIds :
       /\ checkout[events[e].tenant] = "complete"
       /\ events[e].sub.version <= stripe[events[e].tenant].version
       /\ events[e].sub.version = stripe[events[e].tenant].version
            => events[e].sub = stripe[events[e].tenant]
       /\ events[e].kind = "failed" => events[e].sub.status = "past_due"
  /\ \A e, f \in EventIds :
       events[e].tenant = events[f].tenant /\ events[e].sub.version = events[f].sub.version
         => events[e].sub = events[f].sub

LatestTold ==
  \A t \in Attempts :
    /\ checkout[t] = "complete" =>
         \E e \in EventIds : events[e].kind = "sync" /\ events[e].tenant = t /\ events[e].sub = stripe[t]
    /\ checkout[t] # "complete" => stripe[t].status = "none" /\ shown[t] = 0

\* Kinds of handlers that are about to write.
Writing == {"sync", "failed", "retrieved", "changed", "plan"}

\* A handler writes what Stripe said at some time; the handler of an event
\* that is about the subscription writes what the event says.
JobsTell ==
  \A w \in work :
    /\ w.kind \in Writing \cup {"checkout"} => checkout[w.tenant] = "complete"
    /\ w.kind \in Writing =>
         /\ w.sub.version <= stripe[w.tenant].version
         /\ w.sub.version = stripe[w.tenant].version => w.sub = stripe[w.tenant]
         /\ \A e \in EventIds : events[e].tenant = w.tenant /\ events[e].sub.version = w.sub.version
                                  => w.sub = events[e].sub
    /\ w.kind = "failed" => w.sub.status = "past_due"
    /\ w.event # 0 =>
         /\ w.tenant = events[w.event].tenant
         /\ events[w.event].kind = "sync" => w.kind = "sync" /\ w.sub = events[w.event].sub
    /\ w.kind = "signup" => checkout[w.tenant] = "none" /\ w.sub.status = "none"

OneSignup == \A v, w \in work : v.kind = "signup" /\ w.kind = "signup" => v = w

\* An event about the subscription that has taken effect is not newer than
\* the newest that was ever written, and if it is what was last written the row
\* says what it says.
Shows(t, e) == events[e].sub.version = shown[t] /\ ~Overtaken(t) /\ Exists(t) /\ t \notin byHand
Followed(t, e) ==
  events[e].kind = "sync" /\ events[e].tenant = t /\ applied[e] # 0 =>
    /\ events[e].sub.version <= newest[t]
    /\ Shows(t, e) => Mirrors(tenants[t], events[e].sub)
RowFollows ==
  \A t \in Attempts : shown[t] <= stripe[t].version /\ \A e \in EventIds : Followed(t, e)

MInv ==
  /\ shown \in [Attempts -> Nat] /\ newest \in [Attempts -> Nat]
  /\ OneTruth
  /\ LatestTold
  /\ JobsTell
  /\ OneSignup
  /\ RowFollows

Told == [kind : {"checkout", "sync", "failed"}, tenant : Attempts, sub : Subscriptions]

\* An event in Stripe's list has a tenant and a subscription.
LEMMA EventTyped ==
  ASSUME TablesTyped, NEW e \in EventIds
  PROVE  events[e] \in Told /\ events[e].tenant \in Attempts /\ events[e].sub \in Subscriptions
         /\ events[e].sub.version \in Nat
<1>1. events \in Seq(Told)
  BY DEF TablesTyped, Told
<1>2. e \in 1 .. Len(events)
  BY <1>1 DEF EventIds
<1>3. events[e] \in Told
  BY <1>1, <1>2, ElementOfSeq
<1> QED
  BY <1>3 DEF Told, Subscriptions

\* Before the first sign-up there is nothing to mirror.
LEMMA InitMirror == Init => MInv
<1> SUFFICES ASSUME Init PROVE MInv
  OBVIOUS
<1>1. EventIds = {}
  BY DEF Init, EventIds
<1>2. \A t \in Attempts : /\ checkout[t] = "none" /\ shown[t] = 0
                          /\ stripe[t].status = "none" /\ stripe[t].version = 0
  BY DEF Init, NoSubscription
<1> QED
  BY <1>1, <1>2 DEF Init, MInv, OneTruth, LatestTold, JobsTell, OneSignup, RowFollows

\* What is new in Stripe's list.
LEMMA News ==
  ASSUME IInv, NEW t \in Attempts, NEW status, NEW band,
         NEW kinds \in Seq({"checkout", "sync", "failed"}), Becomes(t, status, band, kinds),
         NEW s, s = [status |-> status, band |-> band, version |-> stripe[t].version + 1]
  PROVE  /\ EventIds \subseteq EventIds' /\ EventIds' \subseteq 1 .. MaxEvents
         /\ \A e \in EventIds : events'[e] = events[e]
         /\ \A e \in EventIds' \ EventIds :
              \E i \in DOMAIN kinds : events'[e] = [kind |-> kinds[i], tenant |-> t, sub |-> s]
         /\ \A i \in DOMAIN kinds :
              \E e \in EventIds' \ EventIds : events'[e] = [kind |-> kinds[i], tenant |-> t, sub |-> s]
<1> DEFINE new == [i \in DOMAIN kinds |-> [kind |-> kinds[i], tenant |-> t, sub |-> s]]
           S == {new[i] : i \in DOMAIN kinds} \cup Told
<1>1. DOMAIN kinds = 1 .. Len(kinds) /\ Len(kinds) \in Nat
  OBVIOUS
<1>2. new \in Seq(S) /\ Len(new) = Len(kinds)
  BY <1>1
<1>3. events \in Seq(Told) /\ Len(events) \in Nat /\ DOMAIN events = 1 .. Len(events)
  BY DEF IInv, TablesTyped, Told
<1>4. events \in Seq(S)
  BY <1>3, ElementOfSeq
<1>5. events' = events \o new /\ Len(events) + Len(kinds) <= MaxEvents
  BY DEF Becomes, Tell
<1>6. \A i \in DOMAIN kinds : new[i] = [kind |-> kinds[i], tenant |-> t, sub |-> s]
  OBVIOUS
<1> HIDE DEF new, S
<1>7. /\ Len(events') = Len(events) + Len(kinds)
      /\ \A i \in 1 .. Len(events') : events'[i] = IF i <= Len(events) THEN events[i] ELSE new[i - Len(events)]
      /\ events' \in Seq(S)
  <2>1. /\ (events \o new) \in Seq(S)
        /\ Len(events \o new) = Len(events) + Len(new)
        /\ \A i \in 1 .. Len(events) + Len(new) :
             (events \o new)[i] = IF i <= Len(events) THEN events[i] ELSE new[i - Len(events)]
    BY <1>2, <1>4, ConcatProperties, Zenon
  <2> QED
    BY <1>2, <1>5, <2>1
<1>8. EventIds = 1 .. Len(events) /\ EventIds' = 1 .. Len(events')
  BY <1>3, <1>7 DEF EventIds
<1>9. \A e \in EventIds' \ EventIds : e - Len(events) \in DOMAIN kinds
                                      /\ events'[e] = new[e - Len(events)]
  BY <1>1, <1>3, <1>7, <1>8
<1>10. \A i \in DOMAIN kinds : i + Len(events) \in EventIds' \ EventIds
                               /\ events'[i + Len(events)] = new[i]
  BY <1>1, <1>3, <1>7, <1>8
<1>11. \A e \in EventIds' \ EventIds :
         \E i \in DOMAIN kinds : events'[e] = [kind |-> kinds[i], tenant |-> t, sub |-> s]
  BY <1>6, <1>9
<1>12. \A i \in DOMAIN kinds :
         \E e \in EventIds' \ EventIds : events'[e] = [kind |-> kinds[i], tenant |-> t, sub |-> s]
  BY <1>6, <1>10
<1>13. /\ EventIds \subseteq EventIds' /\ EventIds' \subseteq 1 .. MaxEvents
       /\ \A e \in EventIds : events'[e] = events[e]
  <2>1. Len(events') \in Nat /\ Len(events) <= Len(events') /\ Len(events') <= MaxEvents
    BY <1>1, <1>3, <1>5, <1>7
  <2>2. EventIds \subseteq EventIds'
    BY <1>3, <1>8, <2>1
  <2>3. EventIds' \subseteq 1 .. MaxEvents
    <3>1. MaxEvents \in Nat
      BY BillingAssumption
    <3> QED
      BY <1>8, <2>1, <3>1
  <2>4. \A e \in EventIds : events'[e] = events[e]
    BY <1>3, <1>7, <1>8, <2>1, <2>2
  <2> QED
    BY <2>2, <2>3, <2>4
<1> QED
  BY <1>11, <1>12, <1>13

\* Stripe changes a subscription and says so, to the customer who asked too.
LEMMA ChangeKeeps ==
  ASSUME IInv, MInv, NEW t \in Attempts, NEW status \in Turns \cup {"none", "trialing"}, NEW band \in Nat,
         NEW kinds \in Seq({"checkout", "sync", "failed"}), Becomes(t, status, band, kinds),
         NEW k \in DOMAIN kinds, kinds[k] = "sync",
         \A i \in DOMAIN kinds : kinds[i] = "failed" => status = "past_due",
         checkout[t] # "none",
         \A u \in Attempts : checkout'[u] = IF u = t THEN "complete" ELSE checkout[u],
         UNCHANGED <<tenants, applied, shown, newest, byHand>>,
         \A w \in work' \ work : w.kind = "changed" /\ w.event = 0 /\ w.tenant = t /\ w.sub = stripe'[t]
  PROVE  MInv'
<1> DEFINE s == [status |-> status, band |-> band, version |-> stripe[t].version + 1]
<1>1. /\ EventIds \subseteq EventIds' /\ EventIds' \subseteq 1 .. MaxEvents
      /\ \A e \in EventIds : events'[e] = events[e]
      /\ \A e \in EventIds' \ EventIds :
           \E i \in DOMAIN kinds : events'[e] = [kind |-> kinds[i], tenant |-> t, sub |-> s]
      /\ \E e \in EventIds' \ EventIds : events'[e] = [kind |-> "sync", tenant |-> t, sub |-> s]
  BY News
<1>2. stripe[t].version \in Nat /\ \A u \in Attempts : stripe[u].version \in Nat
  BY DEF IInv, TablesTyped, Subscriptions
<1>3. \A u \in Attempts : stripe'[u] = IF u = t THEN s ELSE stripe[u]
  BY DEF Becomes, IInv, TablesTyped
<1>4. s.version = stripe[t].version + 1 /\ s.status = status
  OBVIOUS
<1> HIDE DEF s
<1>5. \A e \in EventIds' \ EventIds :
        /\ events'[e].tenant = t /\ events'[e].sub = s /\ applied[e] = 0
        /\ events'[e].kind = "failed" => s.status = "past_due"
  <2>1. \A e \in EventIds' \ EventIds : e \in 1 .. MaxEvents /\ e \notin remembered
    BY <1>1 DEF IInv, DeliveriesTyped
  <2>2. \A e \in EventIds' \ EventIds : applied[e] = 0
    BY <2>1 DEF IInv, Remembering
  <2>3. ASSUME NEW e \in EventIds' \ EventIds
        PROVE  /\ events'[e].tenant = t /\ events'[e].sub = s
               /\ events'[e].kind = "failed" => s.status = "past_due"
    <3>1. PICK i \in DOMAIN kinds : events'[e] = [kind |-> kinds[i], tenant |-> t, sub |-> s]
      BY <1>1
    <3>2. events'[e].tenant = t /\ events'[e].sub = s /\ events'[e].kind = kinds[i]
      BY <3>1
    <3> QED
      BY <1>4, <3>2
  <2> QED
    BY <2>2, <2>3
<1>6. \A e \in EventIds : /\ events[e].tenant \in Attempts /\ events[e].sub.version \in Nat
                          /\ checkout[events[e].tenant] = "complete"
                          /\ events[e].sub.version <= stripe[events[e].tenant].version
  BY EventTyped DEF IInv, MInv, OneTruth
<1>7. OneTruth'
  <2>1. \A e \in EventIds' :
          /\ checkout'[events'[e].tenant] = "complete"
          /\ events'[e].sub.version <= stripe'[events'[e].tenant].version
          /\ events'[e].sub.version = stripe'[events'[e].tenant].version
               => events'[e].sub = stripe'[events'[e].tenant]
          /\ events'[e].kind = "failed" => events'[e].sub.status = "past_due"
    <3> SUFFICES ASSUME NEW e \in EventIds'
                 PROVE  /\ checkout'[events'[e].tenant] = "complete"
                        /\ events'[e].sub.version <= stripe'[events'[e].tenant].version
                        /\ events'[e].sub.version = stripe'[events'[e].tenant].version
                             => events'[e].sub = stripe'[events'[e].tenant]
                        /\ events'[e].kind = "failed" => events'[e].sub.status = "past_due"
      OBVIOUS
    <3>1. CASE e \in EventIds
      <4>1. events'[e] = events[e] /\ events[e].tenant \in Attempts
            /\ checkout[events[e].tenant] = "complete" /\ events[e].sub.version \in Nat
        BY <1>1, <1>6, <3>1
      <4>2. /\ events[e].sub.version <= stripe[events[e].tenant].version
            /\ events[e].sub.version = stripe[events[e].tenant].version
                 => events[e].sub = stripe[events[e].tenant]
            /\ events[e].kind = "failed" => events[e].sub.status = "past_due"
        BY <3>1 DEF MInv, OneTruth
      <4>3. CASE events[e].tenant = t
        BY <1>2, <1>3, <1>4, <4>1, <4>2, <4>3
      <4>4. CASE events[e].tenant # t
        BY <1>3, <4>1, <4>2, <4>4
      <4> QED
        BY <4>3, <4>4
    <3>2. CASE e \notin EventIds
      BY <1>2, <1>3, <1>4, <1>5, <3>2
    <3> QED
      BY <3>1, <3>2
  <2>2. \A e, f \in EventIds' :
          events'[e].tenant = events'[f].tenant /\ events'[e].sub.version = events'[f].sub.version
            => events'[e].sub = events'[f].sub
    <3> SUFFICES ASSUME NEW e \in EventIds', NEW f \in EventIds', events'[e].tenant = events'[f].tenant,
                        events'[e].sub.version = events'[f].sub.version
                 PROVE  events'[e].sub = events'[f].sub
      OBVIOUS
    <3>1. CASE e \in EventIds /\ f \in EventIds
      BY <1>1, <3>1 DEF MInv, OneTruth
    <3>2. CASE e \notin EventIds /\ f \notin EventIds
      BY <1>5, <3>2
    <3>3. ASSUME NEW g \in EventIds, NEW h \in EventIds' \ EventIds
          PROVE  events'[g].tenant = events'[h].tenant => events'[g].sub.version # events'[h].sub.version
      <4>1. events'[g] = events[g] /\ events'[h].tenant = t /\ events'[h].sub = s
        BY <1>1, <1>5
      <4>2. events[g].sub.version \in Nat /\ events[g].sub.version <= stripe[events[g].tenant].version
        BY <1>6
      <4> QED
        BY <1>2, <1>4, <4>1, <4>2
    <3>4. e \in EventIds <=> f \in EventIds
      BY <3>3
    <3> QED
      BY <3>1, <3>2, <3>4
  <2> QED
    BY <2>1, <2>2, Zenon DEF OneTruth
<1>8. LatestTold'
  <2> SUFFICES ASSUME NEW u \in Attempts
               PROVE  /\ checkout'[u] = "complete" =>
                           \E e \in EventIds' : /\ events'[e].kind = "sync" /\ events'[e].tenant = u
                                                /\ events'[e].sub = stripe'[u]
                      /\ checkout'[u] # "complete" => stripe'[u].status = "none" /\ shown'[u] = 0
    BY Zenon DEF LatestTold
  <2>1. CASE u = t
    <3>1. PICK e \in EventIds' \ EventIds : events'[e] = [kind |-> "sync", tenant |-> t, sub |-> s]
      BY <1>1
    <3> QED
      BY <1>3, <2>1, <3>1
  <2>2. CASE u # t
    <3>1. checkout'[u] = checkout[u] /\ stripe'[u] = stripe[u] /\ shown'[u] = shown[u]
      BY <1>3, <2>2
    <3>2. /\ checkout[u] = "complete" =>
               \E e \in EventIds : events[e].kind = "sync" /\ events[e].tenant = u /\ events[e].sub = stripe[u]
          /\ checkout[u] # "complete" => stripe[u].status = "none" /\ shown[u] = 0
      BY Zenon DEF MInv, LatestTold
    <3>3. ASSUME checkout[u] = "complete"
          PROVE  \E e \in EventIds' : /\ events'[e].kind = "sync" /\ events'[e].tenant = u
                                       /\ events'[e].sub = stripe[u]
      <4>1. PICK e \in EventIds : events[e].kind = "sync" /\ events[e].tenant = u /\ events[e].sub = stripe[u]
        BY <3>2, <3>3
      <4>2. e \in EventIds' /\ events'[e] = events[e]
        BY <1>1
      <4> QED
        BY <4>1, <4>2
    <3> QED
      BY <3>1, <3>2, <3>3
  <2> QED
    BY <2>1, <2>2
<1>9. \A w \in work : w.tenant \in Attempts /\ w.sub.version \in Nat /\ w.event \in Nat
                      /\ (w.event # 0 => w.event \in EventIds)
  BY DEF IInv, TablesTyped, Jobs, Subscriptions, OneHandler, DeliveriesTyped
<1>10. JobsTell'
  <2> SUFFICES ASSUME NEW w \in work'
               PROVE  /\ w.kind \in Writing \cup {"checkout"} => checkout'[w.tenant] = "complete"
                      /\ w.kind \in Writing =>
                           /\ w.sub.version <= stripe'[w.tenant].version
                           /\ w.sub.version = stripe'[w.tenant].version => w.sub = stripe'[w.tenant]
                           /\ \A e \in EventIds' :
                                events'[e].tenant = w.tenant /\ events'[e].sub.version = w.sub.version
                                  => w.sub = events'[e].sub
                      /\ w.kind = "failed" => w.sub.status = "past_due"
                      /\ w.event # 0 =>
                           /\ w.tenant = events'[w.event].tenant
                           /\ events'[w.event].kind = "sync" => w.kind = "sync" /\ w.sub = events'[w.event].sub
                      /\ w.kind = "signup" => checkout'[w.tenant] = "none" /\ w.sub.status = "none"
    BY Zenon DEF JobsTell
  <2>1. CASE w \in work
    <3>1. /\ w.kind \in Writing \cup {"checkout"} => checkout'[w.tenant] = "complete"
          /\ w.kind = "failed" => w.sub.status = "past_due"
          /\ w.event # 0 =>
               /\ w.tenant = events'[w.event].tenant
               /\ events'[w.event].kind = "sync" => w.kind = "sync" /\ w.sub = events'[w.event].sub
          /\ w.kind = "signup" => checkout'[w.tenant] = "none" /\ w.sub.status = "none"
      <4>1. /\ w.kind \in Writing \cup {"checkout"} => checkout[w.tenant] = "complete"
            /\ w.kind = "failed" => w.sub.status = "past_due"
            /\ w.event # 0 =>
                 /\ w.tenant = events[w.event].tenant
                 /\ events[w.event].kind = "sync" => w.kind = "sync" /\ w.sub = events[w.event].sub
            /\ w.kind = "signup" => checkout[w.tenant] = "none" /\ w.sub.status = "none"
        BY <2>1, Zenon DEF MInv, JobsTell
      <4>2. w.event # 0 => events'[w.event] = events[w.event]
        BY <1>1, <1>9, <2>1
      <4>3. /\ checkout[w.tenant] = "complete" => checkout'[w.tenant] = "complete"
            /\ checkout[w.tenant] = "none" => checkout'[w.tenant] = "none"
        BY <1>9, <2>1
      <4> QED
        BY <4>1, <4>2, <4>3
    <3>2. ASSUME w.kind \in Writing
          PROVE  /\ w.sub.version <= stripe'[w.tenant].version
                 /\ w.sub.version = stripe'[w.tenant].version => w.sub = stripe'[w.tenant]
                 /\ w.sub.version <= stripe[w.tenant].version
      <4>1. /\ w.sub.version <= stripe[w.tenant].version
            /\ w.sub.version = stripe[w.tenant].version => w.sub = stripe[w.tenant]
        BY <2>1, <3>2, Zenon DEF MInv, JobsTell
      <4>2. w.tenant \in Attempts /\ w.sub.version \in Nat
        BY <1>9, <2>1
      <4> QED
        BY <1>2, <1>3, <1>4, <4>1, <4>2
    <3>3. ASSUME w.kind \in Writing, NEW e \in EventIds', events'[e].tenant = w.tenant,
                 events'[e].sub.version = w.sub.version
          PROVE  w.sub = events'[e].sub
      <4>1. CASE e \in EventIds
        <5>1. events[e].tenant = w.tenant /\ events[e].sub.version = w.sub.version
                => w.sub = events[e].sub
          BY <2>1, <3>3, <4>1, Zenon DEF MInv, JobsTell
        <5>2. events'[e] = events[e]
          BY <1>1, <4>1
        <5> QED
          BY <3>3, <5>1, <5>2
      <4>2. CASE e \notin EventIds
        BY <1>2, <1>4, <1>5, <1>9, <2>1, <3>2, <3>3, <4>2
      <4> QED
        BY <4>1, <4>2
    <3> QED
      BY <3>1, <3>2, <3>3
  <2>2. CASE w \notin work
    <3>1. w.kind = "changed" /\ w.event = 0 /\ w.tenant = t /\ w.sub = s
      BY <1>3, <2>2
    <3>2. ASSUME NEW e \in EventIds', events'[e].tenant = w.tenant, events'[e].sub.version = w.sub.version
          PROVE  w.sub = events'[e].sub
      <4>1. CASE e \in EventIds
        <5>1. events'[e] = events[e] /\ events[e].sub.version \in Nat
              /\ events[e].sub.version <= stripe[events[e].tenant].version
          BY <1>1, <1>6, <4>1
        <5> QED
          BY <1>2, <1>4, <3>1, <3>2, <5>1
      <4>2. CASE e \notin EventIds
        BY <1>5, <3>1, <4>2
      <4> QED
        BY <4>1, <4>2
    <3> QED
      BY <1>2, <1>3, <1>4, <3>1, <3>2
  <2> QED
    BY <2>1, <2>2
<1>11. OneSignup'
  BY DEF MInv, OneSignup
<1>12. shown \in [Attempts -> Nat] /\ newest \in [Attempts -> Nat]
  BY DEF MInv
<1>13. RowFollows'
  <2> SUFFICES ASSUME NEW u \in Attempts
               PROVE  shown'[u] <= stripe'[u].version /\ \A e \in EventIds' : Followed(u, e)'
    BY DEF RowFollows
  <2>1. shown'[u] <= stripe'[u].version
    BY <1>2, <1>3, <1>4, <1>12 DEF MInv, RowFollows
  <2>2. ASSUME NEW e \in EventIds' PROVE Followed(u, e)'
    <3>1. CASE e \in EventIds
      <4>1. events'[e] = events[e] /\ Followed(u, e)
        BY <1>1, <3>1 DEF MInv, RowFollows
      <4> QED
        BY <4>1 DEF Followed, Shows, Overtaken, Exists, Mirrors
    <3>2. CASE e \notin EventIds
      BY <1>5, <3>2 DEF Followed
    <3> QED
      BY <3>1, <3>2
  <2> QED
    BY <2>1, <2>2
<1> QED
  BY <1>7, <1>8, <1>10, <1>11, <1>12, <1>13 DEF MInv

\* A step that only starts or ends a handler.
LEMMA SameTables ==
  ASSUME MInv, UNCHANGED <<tenants, checkout, stripe, events, applied, shown, newest, byHand>>
  PROVE  OneTruth' /\ LatestTold' /\ RowFollows' /\ shown' \in [Attempts -> Nat] /\ newest' \in [Attempts -> Nat]
<1>1. OneTruth' /\ LatestTold'
  BY DEF MInv, OneTruth, LatestTold, EventIds
<1>2. RowFollows'
  <2>1. \A u \in Attempts, e \in EventIds : Followed(u, e) => Followed(u, e)'
    BY DEF Followed, Shows, Overtaken, Exists, Mirrors
  <2> QED
    BY <2>1 DEF MInv, RowFollows, EventIds
<1> QED
  BY <1>1, <1>2 DEF MInv

\* A step at the customer's: payment, the end of a trial, a change of plan.
LEMMA CustomerKeeps ==
  ASSUME IInv, MInv, NEW t \in Attempts, Customer(t)
  PROVE  MInv'
<1>1. stripe[t].band \in Nat /\ stripe[t].status \in Turns \cup {"none", "trialing"}
  BY DEF IInv, TablesTyped, Subscriptions
<1>2. /\ <<"sync", "checkout">> \in Seq({"checkout", "sync", "failed"})
      /\ <<"sync">> \in Seq({"checkout", "sync", "failed"})
      /\ <<"failed", "sync">> \in Seq({"checkout", "sync", "failed"})
      /\ DOMAIN <<"sync", "checkout">> = 1 .. 2
      /\ DOMAIN <<"sync">> = 1 .. 1
      /\ DOMAIN <<"failed", "sync">> = 1 .. 2
  OBVIOUS
<1>3. checkout \in [Attempts -> {"none", "open", "complete"}]
  BY DEF IInv, TablesTyped
<1>4. stripe[t].status \in Live => checkout[t] = "complete"
  BY DEF MInv, LatestTold, Live
<1>5. ASSUME Pay(t) PROVE MInv'
  <2>1. Becomes(t, "trialing", stripe[t].band, <<"sync", "checkout">>)
    BY <1>5 DEF Pay
  <2>2. checkout[t] # "none" /\ \A u \in Attempts : checkout'[u] = IF u = t THEN "complete" ELSE checkout[u]
    BY <1>3, <1>5 DEF Pay
  <2>3. UNCHANGED <<tenants, applied, shown, newest, byHand, work>>
    BY <1>5 DEF Pay, FarSide, ghosts
  <2>4. PICK kinds \in Seq({"checkout", "sync", "failed"}) :
          /\ kinds = <<"sync", "checkout">> /\ DOMAIN kinds = 1 .. 2
          /\ kinds[1] = "sync" /\ kinds[2] = "checkout"
    BY <1>2
  <2>5. 1 \in DOMAIN kinds /\ \A i \in DOMAIN kinds : kinds[i] # "failed"
    BY <2>4
  <2>6. Becomes(t, "trialing", stripe[t].band, kinds)
    BY <2>1, <2>4
  <2>7. "trialing" \in Turns \cup {"none", "trialing"} /\ work' \ work = {}
    BY <2>3
  <2> QED
    BY <1>1, <2>2, <2>3, <2>4, <2>5, <2>6, <2>7, ChangeKeeps
<1>6. ASSUME NEW status \in Turns, Turn(t, status) PROVE MInv'
  <2>1. checkout[t] = "complete" /\ UNCHANGED <<checkout, tenants, applied, shown, newest, byHand, work>>
    BY <1>4, <1>6 DEF Turn, FarSide, ghosts
  <2>2. \A u \in Attempts : checkout'[u] = IF u = t THEN "complete" ELSE checkout[u]
    BY <2>1
  <2>3. CASE status = "past_due"
    <3>1. Becomes(t, status, stripe[t].band, <<"failed", "sync">>)
      BY <1>6, <2>3 DEF Turn
    <3>2. <<"failed", "sync">>[2] = "sync" /\ 2 \in 1 .. 2
      OBVIOUS
    <3> QED
      BY <1>1, <1>2, <2>1, <2>2, <2>3, <3>1, <3>2, ChangeKeeps
  <2>4. CASE status # "past_due"
    <3>1. Becomes(t, status, stripe[t].band, <<"sync">>)
      BY <1>6, <2>4 DEF Turn
    <3>2. <<"sync">>[1] = "sync" /\ 1 \in 1 .. 1 /\ \A i \in 1 .. 1 : <<"sync">>[i] # "failed"
      OBVIOUS
    <3> QED
      BY <1>1, <1>2, <2>1, <2>2, <3>1, <3>2, ChangeKeeps
  <2> QED
    BY <2>3, <2>4
<1>7. <<"sync">>[1] = "sync" /\ 1 \in 1 .. 1 /\ \A i \in 1 .. 1 : <<"sync">>[i] # "failed"
  OBVIOUS
<1>8. ASSUME NEW band \in Bands, Switch(t, band) PROVE MInv'
  <2>1. checkout[t] = "complete" /\ UNCHANGED <<checkout, tenants, applied, shown, newest, byHand, work>>
    BY <1>4, <1>8 DEF Switch, FarSide, ghosts
  <2>2. \A u \in Attempts : checkout'[u] = IF u = t THEN "complete" ELSE checkout[u]
    BY <2>1
  <2>3. Becomes(t, stripe[t].status, band, <<"sync">>) /\ band \in Nat
    BY <1>8, BillingAssumption DEF Switch
  <2> QED
    BY <1>1, <1>2, <1>7, <2>1, <2>2, <2>3, ChangeKeeps
<1>9. ASSUME NEW band \in Bands, ChangePlan(t, band) PROVE MInv'
  <2>1. checkout[t] = "complete" /\ UNCHANGED <<checkout, tenants, applied, shown, newest, byHand>>
    BY <1>4, <1>9 DEF ChangePlan, ghosts
  <2>2. \A u \in Attempts : checkout'[u] = IF u = t THEN "complete" ELSE checkout[u]
    BY <2>1
  <2>3. Becomes(t, stripe[t].status, band, <<"sync">>) /\ band \in Nat
    BY <1>9, BillingAssumption DEF ChangePlan
  <2>4. work' = work \cup {Job("changed", 0, t, stripe'[t])}
    BY <1>9 DEF ChangePlan
  <2>5. \A w \in work' \ work : w.kind = "changed" /\ w.event = 0 /\ w.tenant = t /\ w.sub = stripe'[t]
    BY <2>4 DEF Job
  <2> QED
    BY <1>1, <1>2, <1>7, <2>1, <2>2, <2>3, <2>5, ChangeKeeps
<1>10. ASSUME Poll(t) PROVE MInv'
  <2>1. /\ checkout[t] = "complete"
        /\ work' = work \cup {Job("checkout", 0, t, NoSubscription)}
        /\ UNCHANGED <<tenants, checkout, stripe, events, applied, shown, newest, byHand>>
    BY <1>10 DEF Poll, atStripe, ghosts
  <2>2. JobsTell' /\ OneSignup'
    BY <2>1 DEF MInv, JobsTell, OneSignup, EventIds, Job, Writing
  <2>3. OneTruth' /\ LatestTold' /\ RowFollows'
    BY <2>1, SameTables
  <2> QED
    BY <2>1, <2>2, <2>3 DEF MInv
<1>11. ASSUME NEW band \in FirstBands, Signup(t, band) PROVE MInv'
  <2> DEFINE job == Job("signup", 0, t, [NoSubscription EXCEPT !.band = band])
  <2>1. /\ ~Exists(t) /\ checkout[t] = "none" /\ \A w \in work : w.kind # "signup"
        /\ work' = work \cup {job}
        /\ UNCHANGED <<checkout, stripe, events, applied, shown, newest, byHand>>
    BY <1>11 DEF Signup, atStripe, ghosts
  <2>2. job.kind = "signup" /\ job.event = 0 /\ job.tenant = t /\ job.sub.status = "none"
    BY DEF Job, NoSubscription
  <2> HIDE DEF job
  <2>3. JobsTell' /\ OneSignup'
    BY <2>1, <2>2 DEF MInv, JobsTell, OneSignup, EventIds, Writing
  <2>4. \A u \in Attempts \ {t} : tenants'[u] = tenants[u] \/ tenants'[u] = NoTenant
    BY <1>11 DEF Signup
  <2>5. \A e \in EventIds : events[e].tenant # t
    BY <2>1 DEF MInv, OneTruth
  <2>6. RowFollows'
    <3> SUFFICES ASSUME NEW u \in Attempts
                 PROVE  shown'[u] <= stripe'[u].version /\ \A e \in EventIds' : Followed(u, e)'
      BY DEF RowFollows
    <3>1. u # t => (Exists(u)' => Exists(u) /\ tenants'[u] = tenants[u])
      BY <2>4 DEF Exists
    <3>2. \A e \in EventIds : Followed(u, e)'
      BY <2>1, <2>5, <3>1 DEF MInv, RowFollows, Followed, Shows, Overtaken, Mirrors
    <3> QED
      BY <2>1, <3>2 DEF MInv, RowFollows, EventIds
  <2>7. OneTruth' /\ LatestTold'
    BY <2>1 DEF MInv, OneTruth, LatestTold, EventIds
  <2> QED
    BY <2>1, <2>3, <2>6, <2>7 DEF MInv
<1> QED
  BY <1>5, <1>6, <1>8, <1>9, <1>10, <1>11 DEF Customer

\* A step that leaves Stripe and the record of what was written alone keeps the
\* invariant if it adds no job and rewrites no row but by hand.
LEMMA QuietStep ==
  ASSUME MInv, UNCHANGED <<checkout, stripe, events, applied, shown, newest>>,
         work' \subseteq work, byHand \subseteq byHand',
         \A u \in Attempts : u \in byHand' \/ tenants'[u] = tenants[u] \/ tenants'[u] = NoTenant
  PROVE  MInv'
<1>1. OneTruth' /\ LatestTold'
  BY DEF MInv, OneTruth, LatestTold, EventIds
<1>2. JobsTell' /\ OneSignup'
  BY DEF MInv, JobsTell, OneSignup, EventIds
<1>3. RowFollows'
  <2> SUFFICES ASSUME NEW u \in Attempts
               PROVE  shown'[u] <= stripe'[u].version /\ \A e \in EventIds' : Followed(u, e)'
    BY DEF RowFollows
  <2>1. Exists(u)' /\ u \notin byHand' => Exists(u) /\ u \notin byHand /\ tenants'[u] = tenants[u]
    BY DEF Exists
  <2>2. \A e \in EventIds : Followed(u, e)'
    BY <2>1 DEF MInv, RowFollows, Followed, Shows, Overtaken, Mirrors
  <2> QED
    BY <2>2 DEF MInv, RowFollows, EventIds
<1> QED
  BY <1>1, <1>2, <1>3 DEF MInv

\* Edits by hand.
LEMMA OwnerKeeps ==
  ASSUME IInv, MInv, NEW t \in Attempts, Owner(t)
  PROVE  MInv'
<1>1. /\ UNCHANGED <<checkout, stripe, events, applied, shown, newest, work>>
      /\ byHand \subseteq byHand'
      /\ t \in byHand' \/ tenants' = [tenants EXCEPT ![t] = NoTenant]
      /\ \E row : tenants' = [tenants EXCEPT ![t] = row]
  <2>1. ASSUME NEW status, SetStatus(t, status)
        PROVE  /\ UNCHANGED <<checkout, stripe, events, applied, shown, newest, work>>
               /\ byHand \subseteq byHand' /\ t \in byHand'
               /\ tenants' = [tenants EXCEPT ![t] = [tenants[t] EXCEPT !.status = status]]
    BY <2>1 DEF SetStatus, atStripe
  <2>2. ASSUME NEW cap, UpdateTenant(t, cap)
        PROVE  /\ UNCHANGED <<checkout, stripe, events, applied, shown, newest, work>>
               /\ byHand \subseteq byHand' /\ t \in byHand'
               /\ tenants' = [tenants EXCEPT ![t] = [tenants[t] EXCEPT !.seatCap = cap]]
    BY <2>2 DEF UpdateTenant, atStripe
  <2>3. ASSUME Remove(t)
        PROVE  /\ UNCHANGED <<checkout, stripe, events, applied, shown, newest, work, byHand>>
               /\ tenants' = [tenants EXCEPT ![t] = NoTenant]
    BY <2>3 DEF Remove, atStripe, ghosts
  <2> QED
    BY <2>1, <2>2, <2>3 DEF Owner
<1>2. \A u \in Attempts : u \in byHand' \/ tenants'[u] = tenants[u] \/ tenants'[u] = NoTenant
  BY <1>1 DEF IInv, TablesTyped
<1> QED
  BY <1>1, <1>2, QuietStep

\* A handler starts with what its event says.
LEMMA DeliverKeeps ==
  ASSUME IInv, MInv, NEW e \in EventIds, Deliver(e)
  PROVE  MInv'
<1>1. UNCHANGED <<tenants, checkout, stripe, events, applied, shown, newest, byHand>>
  BY DEF Deliver, atStripe, ghosts
<1>2. CASE work' = work
  BY <1>1, <1>2, QuietStep
<1>3. CASE work' = work \cup {Job(events[e].kind, e, events[e].tenant, events[e].sub)}
  <2> DEFINE job == Job(events[e].kind, e, events[e].tenant, events[e].sub)
  <2>1. /\ job.kind = events[e].kind /\ job.event = e /\ job.tenant = events[e].tenant
        /\ job.sub = events[e].sub
    BY DEF Job
  <2>2. events[e].kind \in {"checkout", "sync", "failed"}
    BY EventTyped DEF IInv, Told
  <2> HIDE DEF job
  <2>3. work' = work \cup {job}
    BY <1>3 DEF job
  <2>4. /\ job.kind \in Writing \cup {"checkout"} => checkout[job.tenant] = "complete"
        /\ job.kind \in Writing =>
             /\ job.sub.version <= stripe[job.tenant].version
             /\ job.sub.version = stripe[job.tenant].version => job.sub = stripe[job.tenant]
             /\ \A f \in EventIds : events[f].tenant = job.tenant /\ events[f].sub.version = job.sub.version
                                      => job.sub = events[f].sub
        /\ job.kind = "failed" => job.sub.status = "past_due"
        /\ job.event # 0 =>
             /\ job.tenant = events[job.event].tenant
             /\ events[job.event].kind = "sync" => job.kind = "sync" /\ job.sub = events[job.event].sub
        /\ job.kind # "signup"
    BY <2>1, <2>2 DEF MInv, OneTruth
  <2>5. JobsTell' /\ OneSignup'
    BY <1>1, <2>3, <2>4 DEF MInv, JobsTell, OneSignup, EventIds
  <2>6. OneTruth' /\ LatestTold' /\ RowFollows'
    BY <1>1, SameTables
  <2> QED
    BY <1>1, <2>5, <2>6 DEF MInv
<1> QED
  BY <1>2, <1>3 DEF Deliver

\* A row that is written says what was written, whatever it said before.
LEMMA WrittenMirrors ==
  ASSUME NEW w \in work, Exists(w.tenant), w.kind \in {"sync", "retrieved", "changed"}
  PROVE  Mirrors(Written(w), w.sub)
<1>1. Written(w) = Patched(tenants[w.tenant], w.sub)
  BY DEF Written
<1> QED
  BY <1>1 DEF Patched, Mirrors

\* A failed payment changes nothing of a row that shows it already.
LEMMA FailedMirrors ==
  ASSUME NEW w \in work, NEW sub, w.kind = "failed", sub.status = "past_due",
         Mirrors(tenants[w.tenant], sub), tenants \in [Attempts -> Rows], w.tenant \in Attempts
  PROVE  Mirrors(Written(w), sub)
<1>1. tenants[w.tenant].billing = "PAST_DUE"
  BY DEF Mirrors, BillingStatus
<1>2. Written(w) = tenants[w.tenant] \/ Written(w) = [tenants[w.tenant] EXCEPT !.billing = "PAST_DUE"]
  BY DEF Written
<1>3. tenants[w.tenant] \in Rows
  OBVIOUS
<1>4. [tenants[w.tenant] EXCEPT !.billing = "PAST_DUE"] = tenants[w.tenant]
  BY <1>1, <1>3 DEF Rows
<1> QED
  BY <1>2, <1>4

\* Nor does the second UPDATE of a change of plan.
LEMMA PlanMirrors ==
  ASSUME NEW w \in work, NEW sub, w.kind = "plan", sub.band = w.sub.band,
         Mirrors(tenants[w.tenant], sub), tenants \in [Attempts -> Rows], w.tenant \in Attempts
  PROVE  Mirrors(Written(w), sub)
<1>1. tenants[w.tenant] \in Rows
  OBVIOUS
<1>2. Written(w) = tenants[w.tenant]
      \/ Written(w) = [tenants[w.tenant] EXCEPT !.band = w.sub.band, !.seatCap = w.sub.band]
  BY DEF Written
<1> DEFINE row == [tenants[w.tenant] EXCEPT !.band = w.sub.band, !.seatCap = w.sub.band]
<1>3. /\ row.billing = tenants[w.tenant].billing /\ row.status = tenants[w.tenant].status
      /\ row.band = sub.band /\ row.seatCap = sub.band
  BY <1>1 DEF Rows
<1> HIDE DEF row
<1>4. Mirrors(row, sub)
  BY <1>3 DEF Mirrors
<1> QED
  BY <1>2, <1>4 DEF row

\* A handler writes: what it writes is as new as anything written before, or the
\* tenant counts as overtaken.
LEMMA FinishKeeps ==
  ASSUME IInv, MInv, NEW w \in work, Finish(w)
  PROVE  MInv'
<1> DEFINE t == w.tenant
<1> DEFINE plan == Job("plan", 0, t, w.sub)
<1>1. /\ UNCHANGED <<checkout, stripe, events, remembered>>
      /\ work' = (work \ {w}) \cup (IF w.kind = "changed" THEN {plan} ELSE {})
      /\ tenants' = [tenants EXCEPT ![t] = Written(w)]
      /\ w.kind \in Writing \cup {"nothing"}
  BY DEF Finish, atStripe, Writing
<1>p. plan.kind = "plan" /\ plan.event = 0 /\ plan.tenant = t /\ plan.sub = w.sub
  BY DEF Job
<1>2. /\ t \in Attempts /\ w.event \in Nat /\ w.sub.version \in Nat
      /\ tenants \in [Attempts -> Rows]
      /\ shown \in [Attempts -> Nat] /\ newest \in [Attempts -> Nat]
      /\ applied \in [1 .. MaxEvents -> Nat]
  BY DEF IInv, TablesTyped, DeliveriesTyped, Jobs, Subscriptions, MInv
<1>3. \A u \in Attempts : stripe[u].version \in Nat
  BY DEF IInv, TablesTyped, Subscriptions
<1>4. /\ w.kind \in Writing =>
           /\ checkout[t] = "complete"
           /\ w.sub.version <= stripe[t].version
           /\ \A e \in EventIds : events[e].tenant = t /\ events[e].sub.version = w.sub.version
                                    => w.sub = events[e].sub
      /\ w.kind = "failed" => w.sub.status = "past_due"
      /\ w.event # 0 =>
           /\ t = events[w.event].tenant
           /\ events[w.event].kind = "sync" => w.kind = "sync" /\ w.sub = events[w.event].sub
  BY DEF MInv, JobsTell
<1> DEFINE whole == w.kind \in {"sync", "retrieved", "changed"}
           part == w.kind \in {"failed", "plan"}
<1>5. /\ \A u \in Attempts \ {t} : shown'[u] = shown[u] /\ newest'[u] = newest[u]
      /\ whole => shown'[t] = w.sub.version /\ newest'[t] = Larger(newest[t], w.sub.version)
      /\ w.kind = "nothing" \/ (part /\ Overtaken(t)) => shown'[t] = shown[t] /\ newest'[t] = newest[t]
      /\ part /\ ~Overtaken(t) =>
           /\ shown'[t] = w.sub.version
           /\ newest'[t] = IF w.kind = "plan" THEN newest[t] ELSE Larger(newest[t], w.sub.version)
  BY <1>2 DEF Finish, Noted
<1>6. shown' \in [Attempts -> Nat] /\ newest' \in [Attempts -> Nat]
  BY <1>2 DEF Finish, Noted, Larger
<1>7. /\ \A u \in Attempts : newest[u] <= newest'[u] /\ newest[u] \in Nat /\ newest'[u] \in Nat
      /\ whole => w.sub.version <= newest'[t]
  <2>1. \A x, y \in Nat : x <= Larger(x, y) /\ y <= Larger(x, y)
    BY DEF Larger
  <2>2. \A u \in Attempts : newest[u] \in Nat /\ newest'[u] \in Nat
    BY <1>2, <1>6
  <2>3. newest'[t] = newest[t] \/ newest'[t] = Larger(newest[t], w.sub.version)
    BY <1>1, <1>5 DEF Writing
  <2>4. newest[t] <= newest'[t]
    BY <1>2, <2>1, <2>2, <2>3
  <2>5. \A u \in Attempts \ {t} : newest[u] <= newest'[u]
    BY <1>5, <2>2
  <2> QED
    BY <1>2, <1>5, <2>1, <2>2, <2>4, <2>5
<1>8. /\ byHand \ {t} \subseteq byHand'
      /\ ~whole => byHand' = byHand
  BY DEF Finish, Noted
<1>9. \A e \in EventIds : applied'[e] # 0 => e = w.event \/ applied[e] # 0
  <2>1. EventIds \subseteq 1 .. MaxEvents
    BY IdsInRange DEF IInv
  <2> QED
    BY <1>2, <2>1 DEF Finish, Noted
<1>10. 0 \notin EventIds /\ \A e \in EventIds : events[e].sub.version \in Nat
  BY IdsInRange, EventTyped DEF IInv
<1> HIDE DEF t, plan
<1>11. OneTruth'
  BY <1>1 DEF MInv, OneTruth, EventIds
<1>12. LatestTold'
  <2>1. \A u \in Attempts : checkout[u] # "complete" => shown'[u] = shown[u]
    BY <1>1, <1>4, <1>5 DEF Writing
  <2> QED
    BY <1>1, <2>1 DEF MInv, LatestTold, EventIds
<1>13. JobsTell' /\ OneSignup'
  <2>1. \A v \in work' : v \in work \/ (v = plan /\ w.kind = "changed")
    BY <1>1
  <2>2. OneSignup'
    BY <1>p, <2>1 DEF MInv, OneSignup
  <2> DEFINE Tells(v) ==
        /\ v.kind \in Writing \cup {"checkout"} => checkout[v.tenant] = "complete"
        /\ v.kind \in Writing =>
             /\ v.sub.version <= stripe[v.tenant].version
             /\ v.sub.version = stripe[v.tenant].version => v.sub = stripe[v.tenant]
             /\ \A e \in EventIds : events[e].tenant = v.tenant /\ events[e].sub.version = v.sub.version
                                      => v.sub = events[e].sub
        /\ v.kind = "failed" => v.sub.status = "past_due"
        /\ v.event # 0 =>
             /\ v.tenant = events[v.event].tenant
             /\ events[v.event].kind = "sync" => v.kind = "sync" /\ v.sub = events[v.event].sub
        /\ v.kind = "signup" => checkout[v.tenant] = "none" /\ v.sub.status = "none"
  <2>3. \A v \in work : Tells(v)
    BY Zenon DEF MInv, JobsTell
  <2>4. w.kind = "changed" => Tells(plan)
    BY <1>p, <2>3 DEF t, Writing
  <2>5. \A v : Tells(v) => Tells(v)'
    BY <1>1 DEF EventIds
  <2> HIDE DEF Tells
  <2>6. \A v \in work' : Tells(v)'
    BY <2>1, <2>3, <2>4, <2>5
  <2>7. JobsTell'
    BY <2>6 DEF JobsTell, Tells
  <2> QED
    BY <2>2, <2>7
<1>14. RowFollows'
  <2> SUFFICES ASSUME NEW u \in Attempts
               PROVE  shown'[u] <= stripe'[u].version /\ \A e \in EventIds' : Followed(u, e)'
    BY DEF RowFollows
  <2>1. shown'[u] <= stripe'[u].version
    BY <1>1, <1>4, <1>5 DEF MInv, RowFollows, Writing
  <2>2. ASSUME NEW e \in EventIds, events[e].kind = "sync", events[e].tenant = u, applied'[e] # 0
        PROVE  /\ events[e].sub.version <= newest'[u]
               /\ Shows(u, e)' => Mirrors(tenants'[u], events[e].sub)
    <3>1. applied[e] # 0 =>
            events[e].sub.version <= newest[u] /\ (Shows(u, e) => Mirrors(tenants[u], events[e].sub))
      BY <2>2 DEF MInv, RowFollows, Followed
    <3>2. applied[e] = 0 => u = t /\ w.kind = "sync" /\ w.sub = events[e].sub
      BY <1>4, <1>9, <1>10, <2>2
    <3>3. events[e].sub.version <= newest'[u]
      BY <1>7, <1>10, <3>1, <3>2
    <3>4. CASE u # t
      <4>1. /\ applied[e] # 0 /\ shown'[u] = shown[u] /\ newest'[u] = newest[u]
            /\ tenants'[u] = tenants[u] /\ (u \notin byHand' => u \notin byHand)
        BY <1>1, <1>2, <1>5, <1>8, <3>2, <3>4
      <4>2. Shows(u, e)' => Shows(u, e)
        BY <1>1, <4>1 DEF Shows, Overtaken, Exists
      <4> QED
        BY <3>1, <3>3, <4>1, <4>2
    <3>5. CASE u = t /\ w.kind = "nothing"
      <4>1. /\ applied[e] # 0 /\ shown'[u] = shown[u] /\ newest'[u] = newest[u]
            /\ Written(w) = tenants[t] /\ byHand' = byHand
        BY <1>5, <1>8, <3>2, <3>5 DEF Written, t
      <4>2. tenants'[u] = tenants[u]
        BY <1>1, <1>2, <3>5, <4>1
      <4>3. Shows(u, e)' => Shows(u, e)
        BY <1>1, <4>1, <4>2 DEF Shows, Overtaken, Exists
      <4> QED
        BY <3>1, <3>3, <4>1, <4>2, <4>3
    <3>6. CASE u = t /\ whole
      <4> SUFFICES ASSUME Shows(u, e)' PROVE Mirrors(tenants'[u], events[e].sub)
        BY <3>3
      <4>1. events[e].sub.version = w.sub.version
        BY <1>1, <1>5, <3>6 DEF Shows
      <4>2. w.sub = events[e].sub
        BY <1>4, <2>2, <3>6, <4>1 DEF Writing
      <4>3. tenants'[u] = Written(w)
        BY <1>1, <1>2, <3>6
      <4>4. Exists(w.tenant)
        BY <3>6, <4>3 DEF Shows, Exists, Written, t
      <4> QED
        BY <3>6, <4>2, <4>3, <4>4, WrittenMirrors
    <3>7. CASE u = t /\ part
      <4> SUFFICES ASSUME Shows(u, e)' PROVE Mirrors(tenants'[u], events[e].sub)
        BY <3>3
      <4>1. applied[e] # 0 /\ byHand' = byHand /\ tenants'[u] = Written(w)
        BY <1>1, <1>2, <1>8, <3>2, <3>7
      <4>2. events[e].sub.version = shown'[u] /\ shown'[u] = newest'[u]
        BY <1>1 DEF Shows, Overtaken
      <4>3. ~Overtaken(t) /\ shown[u] = newest[u]
        BY <1>5, <3>7, <4>2 DEF Overtaken
      <4>4. shown'[u] = w.sub.version /\ events[e].sub.version = w.sub.version /\ events[e].sub.version = shown[u]
        <5>1. w.sub.version = newest'[u] /\ events[e].sub.version = w.sub.version
          BY <1>5, <3>7, <4>2, <4>3
        <5> QED
          BY <1>5, <1>7, <1>10, <3>1, <3>7, <4>1, <4>3, <5>1
      <4>5. w.sub = events[e].sub
        BY <1>4, <2>2, <3>7, <4>4 DEF Writing
      <4>6. Exists(u)
        BY <3>7, <4>1 DEF Shows, Exists, Written, t
      <4>7. u \notin byHand
        BY <4>1 DEF Shows
      <4>8. Mirrors(tenants[t], events[e].sub)
        BY <3>1, <3>7, <4>1, <4>3, <4>4, <4>6, <4>7 DEF Shows, Overtaken
      <4>9. CASE w.kind = "failed"
        <5>1. events[e].sub.status = "past_due"
          BY <1>4, <4>5, <4>9
        <5> QED
          BY <1>2, <3>7, <4>1, <4>8, <4>9, <5>1, FailedMirrors DEF t
      <4>10. CASE w.kind = "plan"
        BY <1>2, <3>7, <4>1, <4>5, <4>8, <4>10, PlanMirrors DEF t
      <4> QED
        BY <3>7, <4>9, <4>10
    <3> QED
      BY <1>1, <3>4, <3>5, <3>6, <3>7 DEF Writing
  <2>3. \A e \in EventIds : Followed(u, e)'
    BY <1>1, <2>2 DEF Followed
  <2> QED
    BY <1>1, <2>1, <2>3 DEF EventIds
<1> QED
  BY <1>6, <1>11, <1>12, <1>13, <1>14 DEF MInv

\* The session opens: nothing was told or written about the tenant before.
LEMMA OpenCheckoutKeeps ==
  ASSUME IInv, MInv, NEW w \in work, OpenCheckout(w)
  PROVE  MInv'
<1> DEFINE t == w.tenant
<1>1. /\ w.kind = "signup" /\ checkout[t] = "none" /\ w.sub.status = "none"
  BY DEF OpenCheckout, MInv, JobsTell
<1>2. t \in Attempts /\ w.sub.version \in Nat
  BY DEF IInv, TablesTyped, Jobs, Subscriptions
<1> HIDE DEF t
<1>3. /\ work' = work \ {w} /\ UNCHANGED <<events, applied, shown, newest, byHand>>
      /\ \A u \in Attempts : /\ checkout'[u] = IF u = t THEN "open" ELSE checkout[u]
                             /\ stripe'[u] = IF u = t THEN w.sub ELSE stripe[u]
                             /\ u # t => tenants'[u] = tenants[u]
  BY <1>2 DEF OpenCheckout, IInv, TablesTyped, ghosts, t
<1>4. \A e \in EventIds : events[e].tenant \in Attempts \ {t} /\ events'[e].tenant = events[e].tenant
  BY <1>1, <1>3, EventTyped DEF MInv, OneTruth, IInv
<1>5. \A v \in work' : v \in work /\ v.kind # "signup" /\ v.tenant \in Attempts
                       /\ (v.kind \in Writing \cup {"checkout"} => v.tenant # t)
  BY <1>1, <1>3 DEF MInv, OneSignup, JobsTell, IInv, TablesTyped, Jobs
<1>6. OneTruth'
  BY <1>3, <1>4 DEF MInv, OneTruth, EventIds
<1>7. LatestTold'
  <2> SUFFICES ASSUME NEW u \in Attempts
               PROVE  /\ checkout'[u] = "complete" =>
                           \E e \in EventIds' : /\ events'[e].kind = "sync" /\ events'[e].tenant = u
                                                /\ events'[e].sub = stripe'[u]
                      /\ checkout'[u] # "complete" => stripe'[u].status = "none" /\ shown'[u] = 0
    BY Zenon DEF LatestTold
  <2>1. CASE u = t
    BY <1>1, <1>3, <2>1 DEF MInv, LatestTold
  <2>2. CASE u # t
    BY <1>3, <2>2 DEF MInv, LatestTold, EventIds
  <2> QED
    BY <2>1, <2>2
<1>8. JobsTell'
  BY <1>3, <1>5 DEF MInv, JobsTell, EventIds, Writing
<1>9. OneSignup'
  BY <1>5 DEF OneSignup
<1>10. RowFollows'
  <2> SUFFICES ASSUME NEW u \in Attempts
               PROVE  shown'[u] <= stripe'[u].version /\ \A e \in EventIds' : Followed(u, e)'
    BY DEF RowFollows
  <2>1. CASE u = t
    <3>1. shown'[u] = 0 /\ stripe'[u].version \in Nat
      BY <1>1, <1>2, <1>3, <2>1 DEF MInv, LatestTold
    <3>2. \A e \in EventIds' : events'[e].tenant # u
      BY <1>3, <1>4, <2>1 DEF EventIds
    <3> QED
      BY <3>1, <3>2 DEF Followed
  <2>2. CASE u # t
    <3>1. \A e \in EventIds : Followed(u, e)'
      <4>1. tenants'[u] = tenants[u] /\ UNCHANGED <<events, applied, shown, newest, byHand>>
        BY <1>3, <2>2
      <4>2. \A e \in EventIds : Followed(u, e)
        BY DEF MInv, RowFollows
      <4> QED
        BY <4>1, <4>2 DEF Followed, Shows, Overtaken, Exists, Mirrors
    <3> QED
      BY <1>3, <2>2, <3>1 DEF MInv, RowFollows, EventIds
  <2> QED
    BY <2>1, <2>2
<1> QED
  BY <1>3, <1>6, <1>7, <1>8, <1>9, <1>10 DEF MInv

\* The handler of a finished checkout has asked Stripe.
LEMMA RetrieveKeeps ==
  ASSUME IInv, MInv, NEW w \in work, Retrieve(w)
  PROVE  MInv'
<1>1. /\ UNCHANGED <<tenants, checkout, stripe, events, applied, shown, newest, byHand>>
      /\ w.kind = "checkout"
  BY DEF Retrieve, atStripe, ghosts
<1>2. /\ checkout[w.tenant] = "complete"
      /\ w.event # 0 => w.tenant = events[w.event].tenant /\ events[w.event].kind # "sync"
      /\ w.tenant \in Attempts /\ stripe[w.tenant].version \in Nat
  BY <1>1 DEF MInv, JobsTell, IInv, TablesTyped, Jobs, Subscriptions
<1>3. PICK n : /\ work' = (work \ {w}) \cup {n}
               /\ n.event = w.event /\ n.tenant = w.tenant
               /\ n.kind = "nothing" \/ (n.kind = "retrieved" /\ n.sub = stripe[w.tenant])
  <2>1. CASE Exists(w.tenant)
    <3> DEFINE n == Job("retrieved", w.event, w.tenant, stripe[w.tenant])
    <3>1. work' = (work \ {w}) \cup {n}
      BY <2>1 DEF Retrieve
    <3>2. n.event = w.event /\ n.tenant = w.tenant /\ n.kind = "retrieved" /\ n.sub = stripe[w.tenant]
      BY DEF Job
    <3> QED
      BY <3>1, <3>2
  <2>2. CASE ~Exists(w.tenant)
    <3> DEFINE n == Job("nothing", w.event, w.tenant, NoSubscription)
    <3>1. work' = (work \ {w}) \cup {n}
      BY <2>2 DEF Retrieve
    <3>2. n.event = w.event /\ n.tenant = w.tenant /\ n.kind = "nothing"
      BY DEF Job
    <3> QED
      BY <3>1, <3>2
  <2> QED
    BY <2>1, <2>2
<1>4. \A e \in EventIds : events[e].tenant = w.tenant /\ events[e].sub.version = stripe[w.tenant].version
                           => events[e].sub = stripe[w.tenant]
  BY DEF MInv, OneTruth
<1>5. JobsTell'
  BY <1>1, <1>2, <1>3, <1>4 DEF MInv, JobsTell, EventIds, Writing
<1>6. OneSignup'
  BY <1>3 DEF MInv, OneSignup
<1> QED
  BY <1>1, <1>5, <1>6, SameTables DEF MInv

\* Whatever fails, Stripe and the rows stay as they were.
LEMMA TroubleKeeps ==
  ASSUME IInv, MInv, Trouble
  PROVE  MInv'
<1>1. ASSUME Crash PROVE MInv'
  BY <1>1, QuietStep DEF Crash, atStripe
<1>2. ASSUME NEW e \in EventIds, TimeOut(e) PROVE MInv'
  BY <1>2, QuietStep DEF TimeOut, atStripe
<1>3. ASSUME NEW w \in work, Fail(w) PROVE MInv'
  <2>1. /\ UNCHANGED <<checkout, stripe, events, applied, shown, newest, byHand>> /\ work' \subseteq work
        /\ tenants' = [tenants EXCEPT ![w.tenant] = NoTenant] \/ tenants' = tenants
    BY <1>3 DEF Fail, atStripe, ghosts
  <2>2. \A u \in Attempts : tenants'[u] = tenants[u] \/ tenants'[u] = NoTenant
    BY <2>1 DEF IInv, TablesTyped
  <2> QED
    BY <2>1, <2>2, QuietStep
<1> QED
  BY <1>1, <1>2, <1>3 DEF Trouble

\* Every step keeps the invariant.
LEMMA NextMirror == IInv /\ MInv /\ [Next]_vars => MInv'
<1> SUFFICES ASSUME IInv, MInv, [Next]_vars PROVE MInv'
  OBVIOUS
<1>1. CASE UNCHANGED vars
  BY <1>1, QuietStep DEF vars, atStripe, ghosts
<1>2. ASSUME NEW w \in work, Proceed(w) PROVE MInv'
  BY <1>2, OpenCheckoutKeeps, RetrieveKeeps, FinishKeeps DEF Proceed
<1>3. CASE Next
  BY <1>2, <1>3, CustomerKeeps, OwnerKeeps, DeliverKeeps, TroubleKeeps DEF Next
<1> QED
  BY <1>1, <1>3

\* Once every event is answered and no handler is at work, status, plan, seats
\* and access are the subscription's, unless a handler was lost, something
\* older was written over something newer or the owner decided otherwise.
THEOREM RowMirrorsStripe == Spec => []MirrorsStripe
<1>1. IInv /\ MInv => MirrorsStripe
  <2> SUFFICES ASSUME IInv, MInv, NEW t \in Attempts, Settled(t), checkout[t] = "complete"
               PROVE  Mirrors(tenants[t], stripe[t])
    BY DEF MirrorsStripe, Mirrors
  <2>1. PICK e \in EventIds : events[e].kind = "sync" /\ events[e].tenant = t /\ events[e].sub = stripe[t]
    BY DEF MInv, LatestTold
  <2>2. applied[e] = 1
    BY DEF Settled, IInv, NothingLost
  <2>3. ~Overtaken(t) /\ t \notin byHand /\ Exists(t)
    BY DEF Settled
  <2>4. /\ events[e].sub.version <= shown[t] /\ shown[t] <= stripe[t].version
        /\ events[e].sub.version = shown[t] => Mirrors(tenants[t], events[e].sub)
    BY <2>1, <2>2, <2>3 DEF MInv, RowFollows, Followed, Shows, Overtaken
  <2>5. shown[t] \in Nat /\ stripe[t].version \in Nat
    BY DEF MInv, IInv, TablesTyped, Subscriptions
  <2> QED
    BY <2>1, <2>4, <2>5
<1>2. Spec => []MInv
  BY InitInvariant, NextInvariant, InitMirror, NextMirror, PTL DEF Spec
<1> QED
  BY <1>1, <1>2, Invariant, PTL
=============================================================================
