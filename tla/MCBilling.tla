------------------------------ MODULE MCBilling ------------------------------
(***************************************************************************)
(* Three stories of the customer of Billing, one at a time: signing up     *)
(* again; changing plan; and payments that fail and are made good, of one  *)
(* tenant of one size. The last needs an event more.                       *)
(***************************************************************************)
EXTENDS Billing

VARIABLE story
OneTenant == \A t \in Attempts \ {1} : checkout[t] = "none" /\ ~Exists(t)
OneSize == \A t \in Attempts : {stripe[t].band, tenants[t].seatCap} \subseteq FirstBands \cup {0}
Short == Len(events) < MaxEvents /\ \A t \in Attempts : stripe[t].status # "active"
Told(s) ==
  CASE s = "again" -> Short /\ OneSize
    [] s = "plans" -> Short /\ OneTenant
    [] s = "payments" -> OneTenant /\ OneSize /\ \A e \in EventIds : events[e].sub.status # "canceled"

StoryInit == story \in {"again", "plans", "payments"} /\ Init
StoryNext == Next /\ UNCHANGED story /\ Told(story)'
StorySpec == StoryInit /\ [][StoryNext]_<<vars, story>> /\ Fairness
===============================================================================
