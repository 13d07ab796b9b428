--------------------------- MODULE MCStatsCounter ---------------------------
(* The instances of StatsCounter that TLC checks; their constants are in   *)
(* MCStatsCounter.cfg and MCStatsLoss.cfg.                                  *)
EXTENDS StatsCounter
=============================================================================
