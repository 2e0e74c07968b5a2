---------------------------- MODULE MCContextPack ----------------------------
(* A small session for ContextPack: what every pack begins with, and how   *)
(* far a text is cut.                                                      *)
EXTENDS ContextPack

Rule(name) == [Item(<<"instruction", name>>, "instruction", 100, TRUE, 0)
                 EXCEPT !.stable = TRUE, !.sent = FALSE, !.text = <<"rules", 0>>]
SomeFixed ==
  <<Rule("ours"), Rule("theirs"),
    [Item(<<"system", 0>>, "system", 100, TRUE, 3) EXCEPT !.stable = TRUE]>>

SomeQuestions == {<<1, 0>>, <<4, 0>>, <<1, 4>>}
SomeReplies == {<<1, <<>>, FALSE>>, <<4, <<4>>, FALSE>>, <<1, <<4, 1>>, TRUE>>}

SomeSessionItems ==
  <<Item(<<"goal", 0>>, "goal", 97, TRUE, 1), Item(<<"checkpoint", 0>>, "checkpoint", 65, FALSE, 1)>>

SomeFloors ==
  [checkpoint |-> 1, attachment |-> 2, goal |-> 1, work_state |-> 2, system |-> 3, message |-> 2]
=============================================================================
