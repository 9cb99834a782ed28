------------------------------ MODULE MCReports ------------------------------
(* Two sales of one order, and one reader.                                   *)
EXTENDS Reports

Prices == [o \in Purchases |-> 3]
=============================================================================
