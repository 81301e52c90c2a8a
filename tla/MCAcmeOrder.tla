------------------------------ MODULE MCAcmeOrder ------------------------------
(* Two nodes, one certificate and one name of it. *)
EXTENDS AcmeOrder

OneName == <<"host">>
BothKinds == {"http-01", "dns-01"}
OnlyUsable == {TRUE}
\* The answers to http-01 are published node by node, which costs states.
OrdersOf == [k \in BothKinds |-> IF k = "dns-01" THEN 2 ELSE 1]
\* The operator steps in where there is one order only.
EditsOf == [k \in BothKinds |-> IF k = "dns-01" THEN 0 ELSE 1]
==============================================================================
