---------------------------- MODULE MCStockUpdate ----------------------------
(* Instance of StockUpdate: one index with the code of a stock. *)
EXTENDS StockUpdate

CONSTANTS c1, a, x

Index == [code |-> c1, name |-> x, first |-> x, index |-> TRUE, by |-> Hand]

\* An empty table, or one that starts with the index.
EmptyOrIndex == {<< >>, <<Index>>}

\* One stock is listed.
OneListed == {[c \in Codes |-> IF c = c1 THEN a ELSE Absent]}
=============================================================================
