--------------------------- MODULE MCDeepCopy ---------------------------
(***************************************************************************)
(* Instances of DeepCopy for TLC.                                          *)
(***************************************************************************)
EXTENDS DeepCopy

\* The kubelet's configuration: each of its reference fields gets set in turn,
\* and each reference field of what that one refers to.
KubeletRoot == {One("configV1beta1", "KubeletConfiguration")}

\* Objects with references inside arrays, maps and pointed-to structs.
NestedRoots ==
  {One("configV1", "CredentialProviderConfig"),
   One("configV1alpha1", "ImagePulledRecord"),
   One("configV1beta1", "MemoryReservation"),
   One("configV1beta1", "SerializedNodeConfigSource"),
   One("provider", "CredentialProviderRequest"),
   One("providerV1", "CredentialProviderResponse")}

\* One small nested object, for two goroutines.
SmallRoot == {One("configV1beta1", "ImagePulledRecord")}

=============================================================================
