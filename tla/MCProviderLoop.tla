--------------------------- MODULE MCProviderLoop ---------------------------
(* A small turn for ProviderLoop: what one answer of the model may call,   *)
(* and what the host offers.                                               *)
EXTENDS ProviderLoop

SomeBatches ==
  {<<>>, <<"plain", "approval">>, <<"hidden", "plain">>}

SomeGiven ==
  {<<"question", "approval">>, <<"plain", "plain", "plain">>, <<"plain">>}
=============================================================================
