------------------------- MODULE KubeletLabels -------------------------
(***************************************************************************)
(* IsKubeletLabel decides whether a kubelet may set a label on its own     *)
(* Node.  It looks at the namespaces that are allowed in the order in      *)
(* which Go iterates over a map, that is, in any order.                    *)
(*                                                                         *)
(* A label key is a sequence of symbols: the slash, the dot, and letters.  *)
(* Neighbouring letters are one word: x before node is the word xnode.     *)
(***************************************************************************)
EXTENDS Sequences, SequencesExt, Naturals

CONSTANT Keys   \* the keys that are asked about

ASSUME KeysAssumption == \A k \in Keys : k \in Seq(ToSet(k))

\* Namespaces of labels, and labels in them.
Kubernetes == <<"kubernetes", ".", "io">>
In(word, domain) == <<word, ".">> \o domain
Label(namespace, name) == namespace \o <<"/">> \o name

LabelNamespaceSuffixKubelet == In("kubelet", Kubernetes)
LabelNamespaceSuffixNode == In("node", Kubernetes)

Topology == In("topology", Kubernetes)
Beta == In("beta", Kubernetes)
FailureDomainBeta == In("failure-domain", Beta)

LabelOS == Label(Beta, <<"os">>)
LabelArch == Label(Beta, <<"arch">>)

kubeletLabels ==
  {Label(Kubernetes, <<"hostname">>),
   Label(Topology, <<"zone">>), Label(Topology, <<"region">>),
   Label(FailureDomainBeta, <<"zone">>), Label(FailureDomainBeta, <<"region">>),
   Label(Beta, <<"instance-type">>),
   Label(LabelNamespaceSuffixNode, <<"instance-type">>),
   Label(Kubernetes, <<"os">>), Label(Kubernetes, <<"arch">>),
   LabelOS, LabelArch}

kubeletLabelNamespaces ==
  {LabelNamespaceSuffixKubelet, LabelNamespaceSuffixNode}

\* What precedes the first slash; nothing if there is none.
getLabelNamespace(k) ==
  IF Contains(k, "/")
  THEN SubSeq(k, 1, SelectInSeq(k, LAMBDA c : c = "/") - 1)
  ELSE <<>>

\* Mutant: the suffix need not begin at a dot.
IsOfAnywhere(namespace, allowed) ==
  namespace = allowed \/ IsSuffix(allowed, namespace)

IsOf(namespace, allowed) ==
  namespace = allowed \/ IsSuffix(<<".">> \o allowed, namespace)

-----------------------------------------------------------------------------
VARIABLES
  key,      \* the key that is asked about
  left,     \* the allowed namespaces that were not looked at yet
  verdict   \* what IsKubeletLabel returned; "none" before that

vars == <<key, left, verdict>>

Init ==
  /\ key \in Keys
  /\ left = kubeletLabelNamespaces
  /\ verdict = "none"

FindLabel ==
  /\ verdict = "none" /\ left = kubeletLabelNamespaces
  /\ key \in kubeletLabels
  /\ verdict' = "true"
  /\ UNCHANGED <<key, left>>

\* Mutant: the first namespace that does not fit ends the loop.
LookAtOne(allowed) ==
  /\ verdict = "none" /\ key \notin kubeletLabels
  /\ allowed \in left
  /\ left' = left \ {allowed}
  /\ verdict' = IF IsOf(getLabelNamespace(key), allowed) THEN "true" ELSE "false"
  /\ UNCHANGED key

LookAt(allowed) ==
  /\ verdict = "none" /\ key \notin kubeletLabels
  /\ allowed \in left
  /\ left' = left \ {allowed}
  /\ verdict' = IF IsOf(getLabelNamespace(key), allowed) THEN "true" ELSE "none"
  /\ UNCHANGED key

ReturnFalse ==
  /\ verdict = "none" /\ key \notin kubeletLabels
  /\ left = {}
  /\ verdict' = "false"
  /\ UNCHANGED <<key, left>>

Next == FindLabel \/ (\E allowed \in left : LookAt(allowed)) \/ ReturnFalse

Spec == Init /\ [][Next]_vars

-----------------------------------------------------------------------------
IsKubeletLabel(k) ==
  \/ k \in kubeletLabels
  \/ \E allowed \in kubeletLabelNamespaces : IsOf(getLabelNamespace(k), allowed)

\* The verdict does not depend on the order in which the map is iterated over.
VerdictInAnyOrder ==
  verdict # "none" => (verdict = "true" <=> IsKubeletLabel(key))

\* The words between the dots of a domain name, each a sequence of symbols:
\* with one symbol more the last word grows, or a new one begins.
Extend(parts, c) ==
  IF c = "." THEN Append(parts, <<>>)
  ELSE [parts EXCEPT ![Len(parts)] = Append(@, c)]

Parts(name) ==
  LET parts[n \in 0 .. Len(name)] ==
        IF n = 0 THEN << <<>> >> ELSE Extend(parts[n - 1], name[n])
  IN  parts[Len(name)]

\* The rule for names: beside the listed labels a kubelet may set those whose
\* part before the first slash, read as a domain name, is one of the two
\* domains or lies below it.  Names that end in the same letters, names that
\* have the domain behind a slash, and names without a slash do not count.
NamespaceRule ==
  verdict # "none" =>
    (verdict = "true" <=>
       \/ key \in kubeletLabels
       \/ \E i \in DOMAIN key :
            /\ key[i] = "/"
            /\ \A j \in 1 .. i - 1 : key[j] # "/"
            /\ \E allowed \in kubeletLabelNamespaces :
                 IsSuffix(Parts(allowed), Parts(SubSeq(key, 1, i - 1))))

=============================================================================
