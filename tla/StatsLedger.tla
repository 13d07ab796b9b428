----------------------------- MODULE StatsLedger -----------------------------
(***************************************************************************)
(* What the request statistics promise, without buffers, flusher or locks: *)
(* a counter has a live value, which every counted request raises by one,  *)
(* and a saved value, which may lag behind the live one but never runs     *)
(* ahead of it and never goes back.  When the process ends, the live value *)
(* falls back to what was saved.  StatsCounter implements this ledger once *)
(* for the dispatch counter and once for every (version, platform) row.    *)
(***************************************************************************)
EXTENDS Naturals

VARIABLES saved,   \* the count in the database
          live     \* saved plus everything counted and not yet saved

LedgerInit == saved = 0 /\ live = 0

Count == live' = live + 1 /\ saved' = saved

Persist == saved' \in saved .. live /\ live' = live

ProcessEnds == live' = saved /\ saved' = saved

LedgerNext == Count \/ Persist \/ ProcessEnds

LedgerStep == [LedgerNext]_<<saved, live>>

LedgerSpec == LedgerInit /\ [][LedgerNext]_<<saved, live>>
==============================================================================
