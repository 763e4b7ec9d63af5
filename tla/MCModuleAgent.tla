--------------------------- MODULE MCModuleAgent ---------------------------
(* Two calls, two requests to hang up, one message, a refresher that makes *)
(* one event more than the journal keeps.  The agent is started again once. *)
EXTENDS ModuleAgent, TLC

CONSTANTS d1, d2, h1, h2, m1, ticker

MCDials == {d1, d2}
MCHangups == {h1, h2}
MCMessages == {m1}
MCRefreshers == {ticker}
MCRounds == [f \in MCRefreshers |-> 3]
MCSymmetry == Permutations(MCDials) \union Permutations(MCHangups)

=============================================================================
