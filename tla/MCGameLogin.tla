---------------------------- MODULE MCGameLogin ----------------------------
(* The instances of GameLogin that TLC checks.  Usernames are only ever     *)
(* compared, and requests too where all of them may serve either side      *)
(* (Players = Admins in MCGameLogin.cfg): then both are interchangeable.    *)
EXTENDS GameLogin, TLC

Symmetry == Permutations(Names) \union Permutations(Players)
=============================================================================
