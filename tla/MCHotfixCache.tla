--------------------------- MODULE MCHotfixCache ---------------------------
(* The instances of HotfixCache that TLC checks: MCHotfixCache.cfg and       *)
(* MCHotfixStale.cfg.                                                       *)
EXTENDS HotfixCache
=============================================================================
