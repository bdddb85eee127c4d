-------------------------------- MODULE Account --------------------------------
(***************************************************************************)
(* Password resets (auth.service.ts, account-security.ts): links mailed to *)
(* the owner of an account, who may use them late, twice, or after a newer *)
(* one was sent, and the limiter in front of "Forgot password?", which     *)
(* counts in the memory of one process (rate-limit.guard.ts).              *)
(***************************************************************************)
EXTENDS Employment

CONSTANTS Links,    \* links issued, in this order
          Slots,    \* resets that may be in progress together
          TTL,      \* RESET_TOKEN_TTL_MS
          Limit, Window

ASSUME AccountAssumption == Links \subseteq Nat \ {0} /\ {TTL, Limit, Window} \subseteq Nat

VARIABLES token,     \* resetTokenHash and resetTokenExpiresAt of each account
          sent,      \* links that reached their owner
          resets,    \* resets in progress: their link's account has been found
          hits,      \* hits[p][e][t]: attempts of time t that process p remembers
          passed,    \* ghost: all the attempts p let through since it started
          uses,      \* ghost: how often each link set a password
          contested  \* ghost: links that two requests had looked up at once
accVars == <<token, sent, resets, hits, passed, uses, contested>>

NoToken == [link |-> 0, expires |-> 0]
Times == 0 .. MaxClock
Never == [t \in Times |-> 0]
Issued(l) == uses[l] > 0 \/ l \in sent \/ \E e \in Employees : token[e].link = l
NextLink == {l \in Links : ~Issued(l) /\ \A k \in Links : k < l => Issued(k)}

-----------------------------------------------------------------------------
\* RateLimitGuard: what is older than the window is dropped, the rest counted.
Total(f) == FoldFunction(LAMBDA x, y : x + y, 0, f)
Recent(p, e) == [t \in Times |-> IF t > clock - Window THEN hits[p][e][t] ELSE 0]
Admits_Calendar(p, e) == hits[p][e][clock] < Limit
Admits(p, e) == Total(Recent(p, e)) < Limit
Hit(p, e) ==
  /\ Admits(p, e)
  /\ hits' = [hits EXCEPT ![p][e] = [Recent(p, e) EXCEPT ![clock] = @ + 1]]
  /\ passed' = [passed EXCEPT ![p][e][clock] = @ + 1]

\* issueResetToken: the new link replaces the old; the mail may not arrive.
Issue(e) ==
  \E l \in NextLink :
    /\ token' = [token EXCEPT ![e] = [link |-> l, expires |-> clock + TTL]]
    /\ sent' \in {sent, sent \cup {l}}

\* forgotPassword answers everyone alike, and does nothing for a leaver.
ForgotPassword(p, e) ==
  /\ Hit(p, e)
  /\ IF AccessEnded(e) THEN UNCHANGED <<token, sent>> ELSE Issue(e)
  /\ UNCHANGED <<resets, uses, contested>>
\* EmployeesService.resetPassword, by Admin or HR.
ResetPassword(e) ==
  /\ Issue(e)
  /\ UNCHANGED <<resets, hits, passed, uses, contested>>

-----------------------------------------------------------------------------
\* resetPasswordWithToken: the account is found by the link; then, once the
\* new password is hashed, password and link are written by its id alone.
Find(k, p, e) ==
  LET l == token[e].link
  IN /\ \A r \in resets : r.slot # k
     /\ l \in sent /\ clock <= token[e].expires
     /\ resets' = resets \cup {[slot |-> k, server |-> p, emp |-> e, link |-> l]}
     /\ contested' = contested \cup {r.link : r \in {q \in resets : q.link = l}}
  /\ UNCHANGED <<token, sent, hits, passed, uses>>
SetPassword_Kept(r) ==
  /\ resets' = resets \ {r}
  /\ uses' = [uses EXCEPT ![r.link] = @ + 1]
  /\ UNCHANGED <<token, sent, hits, passed, contested>>
SetPassword(r) ==
  /\ token' = [token EXCEPT ![r.emp] = NoToken]
  /\ resets' = resets \ {r}
  /\ uses' = [uses EXCEPT ![r.link] = @ + 1]
  /\ UNCHANGED <<sent, hits, passed, contested>>

\* What a process loses when it restarts.
Forget(p) ==
  /\ hits' = [hits EXCEPT ![p] = [e \in Employees |-> Never]]
  /\ passed' = [passed EXCEPT ![p] = [e \in Employees |-> Never]]
  /\ resets' = {r \in resets : r.server # p}
  /\ UNCHANGED <<token, sent, uses, contested>>
-----------------------------------------------------------------------------
AccInit ==
  /\ token = [e \in Employees |-> NoToken]
  /\ sent = {}
  /\ resets = {}
  /\ hits = [p \in Servers |-> [e \in Employees |-> Never]]
  /\ passed = hits
  /\ uses = [l \in Links |-> 0]
  /\ contested = {}

AccountNext ==
  \/ \E p \in Servers, e \in Employees : ForgotPassword(p, e) \/ \E k \in Slots : Find(k, p, e)
  \/ \E e \in Employees : ResetPassword(e)
  \/ \E r \in resets : SetPassword(r)
AccStep ==
  \/ AccountNext /\ UNCHANGED empVars
  \/ (EditHistory \/ Visit \/ Tick) /\ UNCHANGED accVars
  \/ \E p \in Servers : Restart(p) /\ Forget(p)
AccSpec == EmpInit /\ AccInit /\ [][AccStep]_<<empVars, accVars>>
-----------------------------------------------------------------------------
AccountTyped ==
  /\ \A e \in Employees : token[e].link \in Links \cup {0}
  /\ sent \subseteq Links /\ contested \subseteq Links
  /\ \A r \in resets : r.slot \in Slots /\ r.link \in Links

\* "5 requests per 15 minutes": in any window, wherever it starts, one process
\* lets no more than Limit attempts for an address through.
AtMostLimit ==
  \A p \in Servers, e \in Employees, w \in Times :
    Total([t \in Times |-> IF t \in w - Window + 1 .. w THEN passed[p][e][t] ELSE 0]) <= Limit

\* "It expires in 1 hour and works once": a link sets a password once, however
\* often its owner opens it and whatever newer links were sent, unless two
\* requests had looked the same link up before either wrote.
LinkServesOnce == \A l \in Links \ contested : uses[l] <= 1
=============================================================================
