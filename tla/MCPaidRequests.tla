--------------------------- MODULE MCPaidRequests ---------------------------
(***************************************************************************)
(* A small instance of PaidRequests: a user and a guest, caps of one, a    *)
(* breaker that opens at the first failure, windows of two tokens.         *)
(***************************************************************************)
EXTENDS PaidRequests, TLC

CONSTANTS a, x, y

MCCap == <<1, 1>>
MCSpan == <<1, 2>>
MCPhrase == <<x, y>>
MCScripts == { << <<a>>, <<x>>, <<y>> >>, << <<x>>, <<y, a>> >> }
MCAnswers == { <<a, x, y>>, <<x, a>> }
MCAlarms == { [safe |-> FALSE, severity |-> 3, confidence |-> 90] }
MCVerdicts == MCAlarms \cup { [safe |-> TRUE, severity |-> 0, confidence |-> 90],
                              [safe |-> FALSE, severity |-> 0, confidence |-> 90] }

Symmetry == Permutations(Requests)
=============================================================================
