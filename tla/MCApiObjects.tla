-------------------------- MODULE MCApiObjects --------------------------
(***************************************************************************)
(* An instance of ApiObjects for TLC.                                      *)
(***************************************************************************)
EXTENDS ApiObjects, TLC

CONSTANTS a, b, c, p1, p2

MCObjects == {a, b, c}
MCPods == {p1, p2}
Symmetry == Permutations(MCObjects) \cup Permutations(MCPods)

\* The scheme of a kubelet.
MCUsedSchemes == {AddToScheme(Install(EmptyScheme), "draV1beta1")}

=============================================================================
