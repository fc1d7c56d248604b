---------------------------- MODULE MCPageRequests ----------------------------
(***************************************************************************)
(* A file of two pages of one size, of which the first can be deleted;     *)
(* the worker can be replaced once.                                        *)
(***************************************************************************)
EXTENDS PageRequests
CONSTANTS a, b
MCFilePages == <<a, b>>
MCGeometry == [p \in {a, b} |-> "A4"]
MCOrders == {<<a, b>>, <<b>>}
MCWorkers == 1..2
=============================================================================
