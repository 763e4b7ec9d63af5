----------------------------- MODULE MCDevices -----------------------------
(* Two phones that complete two pairings or race for one, two refreshes    *)
(* that may present one token, and another request, with one fault.         *)
EXTENDS Devices, TLC

CONSTANTS code1, code2, phone1, phone2, refresh1, refresh2, request

MCPairings == {code1, code2}
MCCompletions == {phone1, phone2}
MCRefreshes == {refresh1, refresh2}
MCOthers == {request}
MCSymmetry == Permutations(MCPairings) \union Permutations(MCCompletions) \union Permutations(MCRefreshes)
=============================================================================
