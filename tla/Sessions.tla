------------------------------- MODULE Sessions -------------------------------
(***************************************************************************)
(* What a login promises, without tables, statements, forms or expiry: a   *)
(* key is issued once, belongs to a session as long as that is live, and   *)
(* is never live again once the session has ended; a visitor gets inside   *)
(* with a key only in a moment in which the key is live.  The session keys *)
(* of the game (GameLogin) and the sessions of the panel (Server)          *)
(* implement it.                                                           *)
(***************************************************************************)
CONSTANT Visitors

VARIABLES
    known,    \* the keys that clients were given
    live,     \* the keys of the sessions in being
    ended,    \* the keys of those that are over
    asking,   \* the visitors at the door, each with the key it presents
    inside    \* the visitors that were let in

keys == <<known, live, ended>>
visits == <<asking, inside>>

SessionsInit ==
    known = {} /\ live = {} /\ ended = {} /\ asking = {} /\ inside = {}

(* A key nobody has seen is given away, or begins a session, or both; the   *)
(* session it replaces, one at most, ends.                                  *)
Issue ==
    \E k \in (known \union live)' \ (known \union live \union ended),
       replaced \in {{}} \union {{j} : j \in live} :
        /\ known' \in {known, known \union {k}}
        /\ live' \in {live \ replaced, (live \ replaced) \union {k}}
        /\ ended' = ended \union replaced
        /\ UNCHANGED visits

(* Sessions run out, or are ended.                                          *)
Lapse ==
    /\ live' \subseteq live
    /\ ended' = ended \union (live \ live')
    /\ UNCHANGED <<known, visits>>

(* Anybody may present anything.                                            *)
Ask ==
    \E visit \in asking' :
        /\ visit[1] \in Visitors \ (inside \union {other[1] : other \in asking})
        /\ asking' = asking \union {visit}
        /\ UNCHANGED <<keys, inside>>

Enter ==
    \E visit \in asking :
        /\ visit[2] \in live
        /\ asking' = asking \ {visit}
        /\ inside' = inside \union {visit[1]}
        /\ UNCHANGED keys

Leave ==
    /\ \/ \E visit \in asking : asking' = asking \ {visit} /\ UNCHANGED inside
       \/ \E visitor \in inside : inside' = inside \ {visitor} /\ UNCHANGED asking
    /\ UNCHANGED keys

(* The process that keeps the sessions ends.                                *)
Clear ==
    /\ live' = {} /\ ended' = ended \union live
    /\ asking' = {} /\ inside' = {}
    /\ UNCHANGED known

SessionsNext == Issue \/ Lapse \/ Ask \/ Enter \/ Leave \/ Clear

SessionsSpec == SessionsInit /\ [][SessionsNext]_<<keys, visits>>
===============================================================================
