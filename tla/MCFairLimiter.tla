--------------------------- MODULE MCFairLimiter ---------------------------
(* Two classes with weights 3:1 and four requests.  The trading class has   *)
(* two callers, one of them with two requests, so that both rotations and   *)
(* both kinds of queue occur.  (Three classes: MCWeightedTurns.)            *)
EXTENDS FairShare

CONSTANTS trading, bulk, collector, quoter, report, c1, c2, q1, b1

MCClasses == {trading, bulk}
MCWeight == (trading :> 3) @@ (bulk :> 1)
MCRank == (trading :> 0) @@ (bulk :> 1)
MCCallers == {collector, quoter, report}
MCClassOf == (collector :> trading) @@ (quoter :> trading) @@ (report :> bulk)
MCRequests == {c1, c2, q1, b1}
MCCallerOf == (c1 :> collector) @@ (c2 :> collector) @@ (q1 :> quoter) @@ (b1 :> report)
=============================================================================
