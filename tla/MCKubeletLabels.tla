------------------------- MODULE MCKubeletLabels -------------------------
(***************************************************************************)
(* Keys for KubeletLabels: a namespace that occurs in the code with up to  *)
(* two symbols before it and up to three after it.                         *)
(***************************************************************************)
EXTENDS KubeletLabels

Namespaces ==
  kubeletLabelNamespaces
    \cup {<<>>, Kubernetes, Topology, Beta, FailureDomainBeta, <<"node">>}

MCKeys ==
  {before \o n \o after :
     before \in BoundedSeq({"x", ".", "/"}, 2), n \in Namespaces,
     after \in BoundedSeq({"x", ".", "/", "zone", "os"}, 3)}

=============================================================================
