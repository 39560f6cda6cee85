------------------------------- MODULE MCLegacy -------------------------------
(* Two programs that share no memory: the daily run, or the server's key check.  *)
EXTENDS Legacy, ApiKeys

MCUniverse == <<"AAPL", "MSFT">>
MCPrices == {-1, 0, 2}

MCInit == (Init /\ Unasked) \/ (ApiInit /\ Unused)

MCNext ==
    \/ Next /\ UNCHANGED apiVars
    \/ ApiNext /\ UNCHANGED vars

MCSpec == MCInit /\ [][MCNext]_<<vars, apiVars>>
===============================================================================
