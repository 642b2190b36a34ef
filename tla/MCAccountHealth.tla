--------------------------- MODULE MCAccountHealth ---------------------------
(* Reloads of AccountHealth: the loop's, the prober's and the operator's. The   *)
(* clock stands still, since what a reload publishes does not depend on it;     *)
(* requests, and the clock, run in MCServices.                                  *)
EXTENDS AccountHealth

ReloadNext == LoopRead \/ LoopEnd \/ Probe \/ Operate \/ Restart

ReloadSpec == Init /\ [][ReloadNext]_vars /\ Fairness
=============================================================================
