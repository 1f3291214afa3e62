------------------------------- MODULE MCHost -------------------------------
(* Small updates for TLC: what an update may emit, by purpose of the run. *)
EXTENDS Host, TLC

CONSTANTS c1, c2, here, missing, own, child

\* Every kind of command, alone and before or after another one.
AllLists ==
  {<<>>, <<"plain">>, <<"send">>, <<"plain", "send">>, <<"send", "send">>,
   <<here>>, <<missing>>}

\* Commands that never send.
QuietLists == {<<>>, <<"plain">>, <<here, "plain">>, <<missing>>}

\* How often each client sends.
TwoAndOne == (c1 :> 2) @@ (c2 :> 1)
TwoEach == (c1 :> 2) @@ (c2 :> 2)
OneEach == (c1 :> 1) @@ (c2 :> 1)
=============================================================================
