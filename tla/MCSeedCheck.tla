---------------------------- MODULE MCSeedCheck ----------------------------
(* The instances of SeedCheck that TLC checks: MCSeedCheck.cfg and           *)
(* MCSeedReload.cfg.                                                       *)
EXTENDS SeedCheck
=============================================================================
