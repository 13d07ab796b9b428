---------------------------- MODULE MCLogFiles ----------------------------
(* The instance of LogFiles that TLC checks: MCLogFiles.cfg.                *)
EXTENDS LogFiles, TLC

WriterSymmetry == Permutations(Writers)
=============================================================================
