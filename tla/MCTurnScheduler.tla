--------------------------- MODULE MCTurnScheduler ---------------------------
(***************************************************************************)
(* Small instances of TurnScheduler: session s1 has two turns, or three.   *)
(***************************************************************************)
EXTENDS TurnScheduler, TLC

CONSTANTS s1, s2, t1, t2, t3

TwoSessions == (t1 :> s1) @@ (t2 :> s1) @@ (t3 :> s2)

OneSession == (t1 :> s1) @@ (t2 :> s1) @@ (t3 :> s1)

OneTurnEach == (t1 :> s1) @@ (t2 :> s1)
=============================================================================
