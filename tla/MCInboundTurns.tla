--------------------------- MODULE MCInboundTurns ---------------------------
(* Constant values for TLC: see the .cfg files and README.md. *)
EXTENDS InboundTurns

CONSTANTS f1, f2, m1

NoHistory == <<>>

\* One bubble, answered.
OldHistory == <<[kind |-> "client", claim |-> "done"], [kind |-> "bot", claim |-> "free"]>>

Never == [e \in Events |-> 0]

BudgetSafety   == [Never EXCEPT !["client"] = 3, !["manager"] = 1, !["throw"] = 1]
BudgetInbox    == [Never EXCEPT !["client"] = 2, !["manager"] = 1]
BudgetTakeover == [Never EXCEPT !["client"] = 2, !["reaction"] = 1, !["manager"] = 1, !["toggle"] = 1, !["expire"] = 1]
BudgetRecovery == [Never EXCEPT !["client"] = 1, !["forced"] = 1, !["gone"] = 1, !["throw"] = 1, !["crash"] = 1]
BudgetReaction == [Never EXCEPT !["client"] = 1, !["reaction"] = 1]
=============================================================================
