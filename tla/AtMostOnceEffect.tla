-------------------------- MODULE AtMostOnceEffect --------------------------
(***************************************************************************)
(* What effect receipts promise (src/doc/session-engine.md, "Idempotency   *)
(* And Side Effects"): a tool call runs at most once, only after it was    *)
(* claimed, and every answer given for it is the result of that one run,   *)
(* whoever asks and whoever dies.                                          *)
(***************************************************************************)
EXTENDS Naturals

CONSTANTS Effect, Value, NoValue

VARIABLES claimed, runs, outcome, answers

vars == <<claimed, runs, outcome, answers>>

Init ==
  /\ claimed = {}
  /\ runs = [k \in Effect |-> 0]
  /\ outcome = [k \in Effect |-> NoValue]
  /\ answers = [k \in Effect |-> {}]

Claim(k) == /\ k \notin claimed
            /\ claimed' = claimed \cup {k}
            /\ UNCHANGED <<runs, outcome, answers>>

Run(k, v) == /\ k \in claimed /\ runs[k] = 0
             /\ runs' = [runs EXCEPT ![k] = 1]
             /\ outcome' = [outcome EXCEPT ![k] = v]
             /\ UNCHANGED <<claimed, answers>>

Answer(k) == /\ runs[k] = 1
             /\ answers' = [answers EXCEPT ![k] = {outcome[k]}]
             /\ UNCHANGED <<claimed, runs, outcome>>

Next == \E k \in Effect : Claim(k) \/ (\E v \in Value : Run(k, v)) \/ Answer(k)

Spec == Init /\ [][Next]_vars
=============================================================================
