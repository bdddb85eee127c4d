--------------------------- MODULE MCPayRunRaces ---------------------------
(* Small instances of PayRunRaces: the operations that meet in each race. *)
EXTENDS PayRunRaces

CONSTANTS ann, bob, cat

MCUsers == {ann, bob, cat}
MCAdmins == {ann}
MCPreparers == {ann, bob}

Two == [required |-> 2, costLimit |-> FALSE, increaseLimit |-> FALSE,
        override |-> FALSE, preparerRule |-> TRUE]
SteadySettings == {Two}
SteadyApprovers == {[u \in MCUsers |-> IF u = ann THEN NotListed ELSE "ANY"]}
NoneGrantable == {}

PaidOps == {"submit", "approve", "reopen", "markPaid"}
=============================================================================
