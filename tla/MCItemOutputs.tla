--------------------------- MODULE MCItemOutputs ---------------------------
(* Instances of ItemOutputs for TLC. *)
EXTENDS ItemOutputs

CONSTANTS v1, p2, x1

\* Pages of HTML, and one of page XML; the second page of HTML is only in v1.
MCFamilyOf == [p \in Pages |-> IF p = x1 THEN "page-xml" ELSE "html"]
MCPagesOf == [v \in Versions |-> IF v = v1 THEN Pages ELSE Pages \ {p2}]
=============================================================================
