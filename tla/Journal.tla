------------------------------- MODULE Journal -------------------------------
(***************************************************************************)
(* What a log promises, without files, rotation, compression or mutex:     *)
(* lines are numbered in the order in which they are written, a line that  *)
(* is kept is kept for good, nothing but writing a line adds one, and a    *)
(* line is lost only while the log is astray.  LogFiles implements it, so  *)
(* no step of a rotation can be told from doing nothing.                   *)
(***************************************************************************)
EXTENDS Naturals

VARIABLES count,   \* the lines written so far
          kept,    \* those that can be read
          lost     \* those that were written astray, which may be kept or not

JournalInit == count = 0 /\ kept = {} /\ lost = {}

Write ==
    /\ count' = count + 1
    /\ kept' = kept \union {count + 1}
    /\ UNCHANGED lost

WriteAstray ==
    /\ count' = count + 1
    /\ kept' \in {kept, kept \union {count + 1}}
    /\ lost' = lost \union {count + 1}

JournalNext == Write \/ WriteAstray

JournalSpec == JournalInit /\ [][JournalNext]_<<count, kept, lost>>
==============================================================================
