------------------------------- MODULE MCServer -------------------------------
(* The instance of Server that TLC checks: MCServer.cfg.                    *)
EXTENDS Server, TLC

CONSTANTS cn, en, r1, r2, plain, window, hotfix, beta, a1, a2, n1, n2, p1, p2

HotfixEntry == [name |-> hotfix, address |-> a1]
BetaEntry == [name |-> beta, address |-> a2]
MCDefault == [language |-> cn, route |-> r1, rest |-> plain, regions |-> <<HotfixEntry>>]
(* The regions in another order, one without its address, and a route of     *)
(* the wrong type; another language and a window, without the regions.      *)
MCEdits ==
    {[MCDefault EXCEPT !.regions = <<BetaEntry, [HotfixEntry EXCEPT !.address = Absent]>>,
                       !.route = Bad],
     [MCDefault EXCEPT !.regions = Absent, !.language = en, !.rest = window]}

MCFirst == [name |-> n1, password |-> p1]
MCGuesses == {MCFirst, [name |-> n2, password |-> p2]}
MCChanges ==
    {[name |-> n2, password |-> None, route |-> r2],
     [name |-> None, password |-> p2, route |-> None]}

RequestSymmetry == Permutations(Requests) \union Permutations(EncryptionKeys)
=============================================================================
