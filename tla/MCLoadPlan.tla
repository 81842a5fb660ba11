----------------------------- MODULE MCLoadPlan -----------------------------
EXTENDS LoadPlan

\* Nodes of very different size.
MCMaxBotsUneven == [n \in Node |-> IF n = 1 THEN 1 ELSE 5]

\* No weight differs from the default.
MCEven == {[n \in Node |-> Default]}
=============================================================================
