------------------------------- MODULE Billing -------------------------------
(***************************************************************************)
(* Self-serve subscriptions (billing/billing.service.ts): one customer who *)
(* signs up, perhaps more than once, pays at Stripe's checkout and changes *)
(* plan; Stripe, which delivers its events late, twice, in any order; and  *)
(* the platform owner, who edits tenants by hand (tenants-admin.service).  *)
(* Each statement is a transaction of its own; a handler in progress holds *)
(* what it has read in work, and a crash loses it.                         *)
(*                                                                         *)
(* A band stands for plan and band; it is named by the seats it holds.     *)
(***************************************************************************)
EXTENDS Integers, Sequences, FiniteSets

CONSTANTS Attempts,   \* sign-ups, in the order they may happen: 1 .. n
          Payers,     \* those of them that may get to the end of checkout
          Bands,      \* sizes on offer
          FirstBands, \* and the ones chosen at sign-up
          Turns,      \* statuses a subscription may turn to
          MaxEvents,  \* events Stripe sends
          MaxUpsets   \* failures, crashes, time-outs, lost answers, edits by the owner

ASSUME BillingAssumption ==
  Attempts \subseteq Nat \ {0} /\ Bands \cup FirstBands \subseteq Nat /\ {MaxEvents, MaxUpsets} \subseteq Nat

VARIABLES tenants,    \* tenants[t]: the row, or NoTenant
          checkout,   \* checkout[t]: the session at Stripe
          stripe,     \* stripe[t]: the subscription at Stripe; version counts its changes
          events,     \* what Stripe has to tell, each with the subscription as it was
          acked,      \* events Stripe got an answer for
          remembered, \* billing_events
          work,       \* handlers in progress
          upsets,
          applied,    \* ghost: how often each event took effect
          shown,      \* ghost: version of the subscription last written to the row
          newest,     \* ghost: the newest version that was ever written to it
          byHand,     \* ghost: tenants edited by the owner since the last write
          lossy       \* ghost: an event's handler was lost with its process, or answered for

ghosts == <<applied, shown, newest, byHand, lossy>>
atStripe == <<checkout, stripe, events>>
vars == <<tenants, atStripe, acked, remembered, work, upsets, ghosts>>

NoTenant == [status |-> "NONE", billing |-> "NONE", band |-> 0, seatCap |-> 0, attached |-> FALSE]
NoSubscription == [status |-> "none", band |-> 0, version |-> 0]

\* mapStatus
Live == {"trialing", "active", "past_due"}
BillingStatus(s) ==
  CASE s = "trialing" -> "TRIALING"
    [] s = "active" -> "ACTIVE"
    [] s = "past_due" -> "PAST_DUE"
    [] s = "unpaid" -> "UNPAID"
    [] s \in {"canceled", "incomplete_expired"} -> "CANCELED"
    [] s = "paused" -> "PAUSED"
    [] OTHER -> "INCOMPLETE"

\* applySubscription: what it writes on the row.
Patched_CapKept(row, sub) ==
  [status |-> IF sub.status \in Live THEN "ACTIVE" ELSE "INACTIVE",
   billing |-> BillingStatus(sub.status),
   band |-> sub.band, seatCap |-> row.seatCap, attached |-> TRUE]
Patched(row, sub) ==
  [status |-> IF sub.status \in Live THEN "ACTIVE" ELSE "INACTIVE",
   billing |-> BillingStatus(sub.status),
   band |-> sub.band, seatCap |-> sub.band, attached |-> TRUE]

Exists(t) == tenants[t] # NoTenant
Overtaken(t) == shown[t] # newest[t]   \* something older was written over something newer
EventIds == DOMAIN events
Job(kind, e, t, sub) == [kind |-> kind, event |-> e, tenant |-> t, sub |-> sub]
InProgress(e) == \E w \in work : w.event = e

Larger(x, y) == IF x >= y THEN x ELSE y
Upset == upsets < MaxUpsets /\ upsets' = upsets + 1
Smooth == UNCHANGED upsets

-----------------------------------------------------------------------------
(* Sign-up *)

\* "Clear out their earlier, never-paid tenant", insert the new one. It is
\* MANUAL and INACTIVE, as the columns' defaults have it, until Stripe answers.
Signup(t, band) ==
  /\ ~Exists(t) /\ checkout[t] = "none"
  /\ \A u \in Attempts : u < t => Exists(u) \/ checkout[u] # "none"
  /\ \A w \in work : w.kind # "signup"
  /\ tenants' = [u \in Attempts |->
       IF u = t THEN [NoTenant EXCEPT !.status = "INACTIVE", !.billing = "MANUAL", !.band = band, !.seatCap = band]
       ELSE IF tenants[u].billing = "INCOMPLETE" /\ tenants[u].status = "INACTIVE" THEN NoTenant
       ELSE tenants[u]]
  /\ work' = work \cup {Job("signup", 0, t, [NoSubscription EXCEPT !.band = band])}
  /\ Smooth /\ UNCHANGED <<atStripe, acked, remembered, ghosts>>

\* Customer and session exist at Stripe, and the row says so.
OpenCheckout_Upsert(w) ==
  /\ w.kind = "signup"
  /\ tenants' = [tenants EXCEPT ![w.tenant].billing = "INCOMPLETE"]
  /\ checkout' = [checkout EXCEPT ![w.tenant] = "open"]
  /\ stripe' = [stripe EXCEPT ![w.tenant] = w.sub]
  /\ work' = work \ {w}
  /\ Smooth /\ UNCHANGED <<events, acked, remembered, ghosts>>
OpenCheckout(w) ==
  /\ w.kind = "signup"
  /\ tenants' = [tenants EXCEPT ![w.tenant].billing = IF Exists(w.tenant) THEN "INCOMPLETE" ELSE @]
  /\ checkout' = [checkout EXCEPT ![w.tenant] = "open"]
  /\ stripe' = [stripe EXCEPT ![w.tenant] = w.sub]
  /\ work' = work \ {w}
  /\ Smooth /\ UNCHANGED <<events, acked, remembered, ghosts>>

-----------------------------------------------------------------------------
(* Stripe *)

Tell(t, sub, kinds) ==
  /\ Len(events) + Len(kinds) <= MaxEvents
  /\ events' = events \o [i \in DOMAIN kinds |-> [kind |-> kinds[i], tenant |-> t, sub |-> sub]]
Becomes(t, status, band, kinds) ==
  LET sub == [status |-> status, band |-> band, version |-> stripe[t].version + 1]
  IN stripe' = [stripe EXCEPT ![t] = sub] /\ Tell(t, sub, kinds)
FarSide == Smooth /\ UNCHANGED <<tenants, acked, remembered, work, ghosts>>

Pay(t) ==
  /\ checkout[t] = "open" /\ t \in Payers
  /\ checkout' = [checkout EXCEPT ![t] = "complete"]
  /\ Becomes(t, "trialing", stripe[t].band, <<"sync", "checkout">>)
  /\ FarSide

\* A trial ends, a payment fails, is made good or is given up, the customer cancels.
Turn(t, status) ==
  /\ stripe[t].status \in Live /\ status # stripe[t].status
  /\ Becomes(t, status, stripe[t].band, IF status = "past_due" THEN <<"failed", "sync">> ELSE <<"sync">>)
  /\ UNCHANGED checkout /\ FarSide

\* The Customer Portal.
Switch(t, band) ==
  /\ stripe[t].status \in Live /\ band # stripe[t].band
  /\ Becomes(t, stripe[t].status, band, <<"sync">>)
  /\ UNCHANGED checkout /\ FarSide

-----------------------------------------------------------------------------
(* Webhooks *)

\* handleWebhook: remember the event, then handle it; an event that is
\* remembered already is only acknowledged.
Deliver_Unchecked(e) ==
  /\ e \in EventIds \ acked /\ ~InProgress(e)
  /\ remembered' = remembered \cup {e}
  /\ work' = work \cup {Job(events[e].kind, e, events[e].tenant, events[e].sub)}
  /\ Smooth /\ UNCHANGED <<tenants, atStripe, acked, ghosts>>
Deliver(e) ==
  /\ e \in EventIds \ acked /\ ~InProgress(e)
  /\ IF e \in remembered
     THEN acked' = acked \cup {e} /\ UNCHANGED <<remembered, work>>
     ELSE /\ remembered' = remembered \cup {e}
          /\ work' = work \cup {Job(events[e].kind, e, events[e].tenant, events[e].sub)}
          /\ UNCHANGED acked
  /\ Smooth /\ UNCHANGED <<tenants, atStripe, ghosts>>

\* finalizeCheckout asks Stripe for the subscription, if there is a tenant;
\* what the event says of it is not used.
Retrieve(w) ==
  /\ w.kind = "checkout"
  /\ work' = (work \ {w}) \cup
       (IF Exists(w.tenant) THEN {Job("retrieved", w.event, w.tenant, stripe[w.tenant])}
                            ELSE {Job("nothing", w.event, w.tenant, NoSubscription)})
  /\ Smooth /\ UNCHANGED <<tenants, atStripe, acked, remembered, ghosts>>

\* applySubscription, onPaymentFailed, or the second UPDATE of changePlan; the
\* row may be gone.
Written_Attached(w) ==
  IF Exists(w.tenant) /\ tenants[w.tenant].attached /\ w.kind \in {"sync", "retrieved", "changed"}
  THEN Patched(tenants[w.tenant], w.sub) ELSE tenants[w.tenant]
Written(w) ==
  LET row == tenants[w.tenant]
  IN IF ~Exists(w.tenant) \/ w.kind = "nothing" \/ (w.kind = "failed" /\ row.billing = "MANUAL") THEN row
     ELSE IF w.kind = "failed" THEN [row EXCEPT !.billing = "PAST_DUE"]
     ELSE IF w.kind = "plan" THEN [row EXCEPT !.band = w.sub.band, !.seatCap = w.sub.band]
     ELSE Patched(row, w.sub)

\* A version is current until something older is written over it; what rewrites
\* only part of the row does not make it current again.
Noted(w) ==
  LET whole == w.kind \in {"sync", "retrieved", "changed"}
      dates == whole \/ (w.kind # "nothing" /\ ~Overtaken(w.tenant))
  IN /\ applied' = IF w.event = 0 THEN applied ELSE [applied EXCEPT ![w.event] = @ + 1]
     /\ shown' = IF dates THEN [shown EXCEPT ![w.tenant] = w.sub.version] ELSE shown
     /\ newest' = IF dates /\ w.kind # "plan" THEN [newest EXCEPT ![w.tenant] = Larger(@, w.sub.version)]
                  ELSE newest
     /\ byHand' = IF whole THEN byHand \ {w.tenant} ELSE byHand
     /\ UNCHANGED lossy

\* The handler ends and answers; the answer may be lost. changePlan writes once
\* more: plan, modules and seats.
Finish(w) ==
  /\ w.kind \in {"sync", "failed", "retrieved", "nothing", "changed", "plan"}
  /\ tenants' = [tenants EXCEPT ![w.tenant] = Written(w)]
  /\ work' = (work \ {w}) \cup (IF w.kind = "changed" THEN {Job("plan", 0, w.tenant, w.sub)} ELSE {})
  /\ Noted(w)
  /\ \/ acked' = acked \cup ({w.event} \ {0}) /\ Smooth
     \/ w.event # 0 /\ Upset /\ UNCHANGED acked
  /\ UNCHANGED <<atStripe, remembered>>

\* An error in the middle: the event is forgotten so that Stripe retries; a
\* sign-up takes its tenant back.
Fail(w) ==
  /\ Upset
  /\ work' = work \ {w}
  /\ remembered' = remembered \ {w.event}
  /\ tenants' = IF w.kind = "signup" THEN [tenants EXCEPT ![w.tenant] = NoTenant] ELSE tenants
  /\ UNCHANGED <<atStripe, acked, ghosts>>

\* Stripe gives up waiting and delivers again while the handler still runs.
TimeOut(e) ==
  /\ e \in EventIds \ acked /\ InProgress(e) /\ Upset
  /\ acked' = acked \cup {e}
  /\ lossy' = TRUE
  /\ UNCHANGED <<tenants, atStripe, remembered, work, applied, shown, newest, byHand>>

Crash ==
  /\ work # {} /\ Upset
  /\ work' = {}
  /\ lossy' = (lossy \/ \E w \in work : w.event # 0)
  /\ UNCHANGED <<tenants, atStripe, acked, remembered, applied, shown, newest, byHand>>

-----------------------------------------------------------------------------
(* The customer's browser, and the owner of the platform *)

\* checkoutStatus: the success page, for as long as it is open.
Poll(t) ==
  /\ checkout[t] = "complete" /\ Exists(t)
  /\ ~InProgress(0)
  /\ work' = work \cup {Job("checkout", 0, t, NoSubscription)}
  /\ Smooth /\ UNCHANGED <<tenants, atStripe, acked, remembered, ghosts>>

\* changePlan, once the band holds the headcount: it asks Stripe and writes
\* Stripe's answer at once.
ChangePlan(t, band) ==
  /\ tenants[t].billing \notin {"MANUAL", "NONE"} /\ tenants[t].attached
  /\ band # tenants[t].band
  /\ ~InProgress(0)
  /\ stripe[t].status \in Live
  /\ Becomes(t, stripe[t].status, band, <<"sync">>)
  /\ work' = work \cup {Job("changed", 0, t, stripe'[t])}
  /\ Smooth /\ UNCHANGED <<checkout, tenants, acked, remembered, ghosts>>

SetStatus(t, status) ==
  /\ Exists(t) /\ status # tenants[t].status
  /\ tenants' = [tenants EXCEPT ![t].status = status]
  /\ byHand' = byHand \cup {t}
  /\ Upset /\ UNCHANGED <<atStripe, acked, remembered, work, applied, shown, newest, lossy>>
UpdateTenant(t, cap) ==
  /\ Exists(t) /\ cap # tenants[t].seatCap
  /\ tenants' = [tenants EXCEPT ![t].seatCap = cap]
  /\ byHand' = byHand \cup {t}
  /\ Upset /\ UNCHANGED <<atStripe, acked, remembered, work, applied, shown, newest, lossy>>
Remove(t) ==
  /\ Exists(t)
  /\ tenants' = [tenants EXCEPT ![t] = NoTenant]
  /\ Upset /\ UNCHANGED <<atStripe, acked, remembered, work, ghosts>>

-----------------------------------------------------------------------------
Init ==
  /\ tenants = [t \in Attempts |-> NoTenant]
  /\ checkout = [t \in Attempts |-> "none"]
  /\ stripe = [t \in Attempts |-> NoSubscription]
  /\ events = <<>> /\ acked = {} /\ remembered = {} /\ work = {}
  /\ upsets = 0
  /\ applied = [e \in 1 .. MaxEvents |-> 0]
  /\ shown = [t \in Attempts |-> 0]
  /\ newest = shown /\ byHand = {} /\ lossy = FALSE

Customer(t) ==
  \/ Pay(t) \/ Poll(t)
  \/ \E band \in FirstBands : Signup(t, band)
  \/ \E band \in Bands : Switch(t, band) \/ ChangePlan(t, band)
  \/ \E status \in Turns : Turn(t, status)
Owner(t) ==
  \/ \E status \in {"ACTIVE", "INACTIVE"} : SetStatus(t, status)
  \/ \E cap \in Bands : UpdateTenant(t, cap)
  \/ Remove(t)
Proceed(w) == OpenCheckout(w) \/ Retrieve(w) \/ Finish(w)
Trouble == Crash \/ (\E w \in work : Fail(w)) \/ (\E e \in EventIds : TimeOut(e))

Next ==
  \/ \E t \in Attempts : Customer(t) \/ Owner(t)
  \/ \E e \in EventIds : Deliver(e)
  \/ \E w \in work : Proceed(w)
  \/ Trouble

\* Stripe delivers events until they are acknowledged, and a handler that has
\* started goes on; nobody else needs to do anything.
Handle ==
  \/ \E e \in EventIds : Deliver(e)
  \/ \E w \in work : w.event # 0 /\ Proceed(w)
Fairness == WF_vars(Handle)

Spec == Init /\ [][Next]_vars
FairSpec == Spec /\ Fairness
-----------------------------------------------------------------------------
\* One type invariant.
TypeOK ==
  /\ \A t \in Attempts :
       /\ tenants[t].status \in {"NONE", "INACTIVE", "ACTIVE"}
       /\ tenants[t].billing \in {"NONE", "MANUAL", "INCOMPLETE", "TRIALING", "ACTIVE", "PAST_DUE", "UNPAID", "PAUSED", "CANCELED"}
       /\ tenants[t].billing = "NONE" <=> tenants[t].status = "NONE"
       /\ checkout[t] \in {"none", "open", "complete"}
  /\ acked \subseteq EventIds /\ remembered \subseteq EventIds
  /\ \A w \in work : w.event \in EventIds \cup {0} /\ w.tenant \in Attempts

\* "Stripe retries deliveries, so apply each event once", although answers get
\* lost, handlers fail and processes die: no event takes effect twice; and one
\* that Stripe will not send again has taken effect, unless the process died or
\* was too slow while it handled one.
AppliedOnce == \A e \in EventIds : applied[e] <= 1
AckedIsApplied == ~lossy => \A e \in acked : applied[e] = 1
EachEventOnce == AppliedOnce /\ AckedIsApplied

\* With no event on its way and no handler at work, the row of a tenant says what
\* Stripe says of its subscription: status, plan and seats, and whether its people
\* may sign in. Three things excuse a difference: an event was lost with its
\* process, something older was written over something newer and nothing since,
\* or the owner of the platform decided otherwise since.
Settled(t) ==
  acked = EventIds /\ work = {} /\ ~lossy /\ ~Overtaken(t) /\ t \notin byHand /\ Exists(t)
MirrorsStripe ==
  \A t \in Attempts :
    Settled(t) /\ checkout[t] = "complete" =>
      /\ tenants[t].billing = BillingStatus(stripe[t].status)
      /\ tenants[t].status = "ACTIVE" <=> stripe[t].status \in Live
      /\ {tenants[t].band, tenants[t].seatCap} = {stripe[t].band}

\* A customer who has paid may sign in at last, whatever fails and in whatever
\* order Stripe's events arrive, a failed payment's first of all, unless the
\* subscription ended, the tenant was removed (see the next property) or the owner
\* locked it; a crash in the wrong moment, or an answer that takes too long, is the
\* one way to be kept waiting.
Waiting(t) == checkout[t] = "complete" /\ stripe[t].status \in Live /\ Exists(t)
              /\ tenants[t].status # "ACTIVE" /\ t \notin byHand /\ ~lossy
PaidIsOpened == \A t \in Payers : Waiting(t) ~> ~Waiting(t)

\* "Someone who abandoned Checkout and is trying again: clear out their earlier,
\* never-paid tenant" (billing.service.ts:120): a tenant whose checkout is complete
\* is not cleared away by another sign-up.
OnlyAbandonedCleared ==
  [][\A t \in Attempts : \A band \in FirstBands : Signup(t, band) =>
       \A u \in Attempts : Exists(u) /\ checkout[u] = "complete" => Exists(u)']_vars
=============================================================================
