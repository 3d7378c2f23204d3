------------------------- MODULE DeepCopyTypes -------------------------
(***************************************************************************)
(* The API types that have generated DeepCopy functions, reduced to what a *)
(* copy has to know about them: which of their fields refer to memory of   *)
(* their own (pointers, slices and maps).                                  *)
(*                                                                         *)
(* There are two tables.  The operators named ...Fields are read from the  *)
(* type declarations (types.go), those named ...Copied from the generated  *)
(* code (zz_generated.deepcopy.go).  Nothing in Go ties the two together:  *)
(* a field added to a type whose copy function is not generated again is   *)
(* copied by the `*out = *in` every function starts with, and is shared.   *)
(*                                                                         *)
(* A struct embedded by value contributes its fields to the struct it is   *)
(* in; the generated code must call its DeepCopyInto there.  Types without *)
(* a reference field are left out: `*out = *in` is all there is to copy.   *)
(***************************************************************************)

\* config/v1.
ConfigV1Fields ==
  [CredentialProviderConfig |-> {"Providers"},
   CredentialProvider |->
     {"MatchImages", "DefaultCacheDuration", "Args", "Env", "TokenAttributes"},
   ServiceAccountTokenAttributes |->
     {"RequireServiceAccount", "RequiredServiceAccountAnnotationKeys",
      "OptionalServiceAccountAnnotationKeys"}]

ConfigV1Copied ==
  [CredentialProviderConfig |-> {"Providers"},
   CredentialProvider |->
     {"MatchImages", "DefaultCacheDuration", "Args", "Env", "TokenAttributes"},
   ServiceAccountTokenAttributes |->
     {"RequireServiceAccount", "RequiredServiceAccountAnnotationKeys",
      "OptionalServiceAccountAnnotationKeys"}]

\* config/v1alpha1.
ConfigV1alpha1Fields ==
  [CredentialProviderConfig |-> {"Providers"},
   CredentialProvider |-> {"MatchImages", "DefaultCacheDuration", "Args", "Env"},
   ImagePulledRecord |-> {"CredentialMapping"},
   ImagePullCredentials |-> {"KubernetesSecrets", "KubernetesServiceAccounts"}]

ConfigV1alpha1Copied ==
  [CredentialProviderConfig |-> {"Providers"},
   CredentialProvider |-> {"MatchImages", "DefaultCacheDuration", "Args", "Env"},
   ImagePulledRecord |-> {"CredentialMapping"},
   ImagePullCredentials |-> {"KubernetesSecrets", "KubernetesServiceAccounts"}]

-----------------------------------------------------------------------------
(***************************************************************************)
(* config/v1beta1: the kubelet's configuration, in the order of its        *)
(* declaration and then of the generated function.                         *)
(***************************************************************************)
ServingFields ==
  {"EnableServer", "StaticPodURLHeader", "TLSCipherSuites",
   "TLSCurvePreferences", "RegistryPullQPS"}

NodeStatusFields ==
  {"PreloadedImagesVerificationAllowlist", "EventRecordQPS",
   "EnableDebuggingHandlers", "HealthzPort", "OOMScoreAdj", "ClusterDNS",
   "ImageGCHighThresholdPercent", "ImageGCLowThresholdPercent"}

ResourceManagerFields ==
  {"CgroupsPerQOS", "SingleProcessOOMKill", "CPUManagerPolicyOptions",
   "TopologyManagerPolicyOptions", "QOSReserved", "PodPidsLimit",
   "ResolverConfig", "CPUCFSQuota", "CPUCFSQuotaPeriod", "NodeStatusMaxImages"}

EvictionFields ==
  {"KubeAPIQPS", "SerializeImagePulls", "MaxParallelImagePulls", "EvictionHard",
   "EvictionSoft", "EvictionSoftGracePeriod", "EvictionMinimumReclaim",
   "MergeDefaultEvictionSettings", "EnableControllerAttachDetach",
   "MakeIPTablesUtilChains", "IPTablesMasqueradeBit", "IPTablesDropBit",
   "FeatureGates", "FailSwapOn", "ContainerLogMaxFiles"}

NodeAllocatableFields ==
  {"ContainerLogMaxWorkers", "ContainerLogMonitorInterval", "SystemReserved",
   "KubeReserved", "EnforceNodeAllocatable", "AllowedUnsafeSysctls", "Logging",
   "EnableSystemLogHandler", "EnableSystemLogQuery"}

ShutdownFields ==
  {"ShutdownGracePeriodByPodPriority", "ReservedMemory",
   "EnableProfilingHandler", "EnableDebugFlagsHandler", "SeccompDefault",
   "MemoryThrottlingFactor", "RegisterWithTaints", "RegisterNode", "Tracing",
   "LocalStorageCapacityIsolation", "FailCgroupV1", "UserNamespaces"}

AuthenticationFields == {"Webhook.Enabled", "Anonymous.Enabled"}

CrashLoopBackOffFields == {"MaxContainerRestartPeriod"}

KubeletConfigurationFields ==
  UNION {ServingFields, NodeStatusFields, ResourceManagerFields, EvictionFields,
         NodeAllocatableFields, ShutdownFields,
         AuthenticationFields, CrashLoopBackOffFields}

ConfigV1beta1Fields ==
  [KubeletConfiguration |-> KubeletConfigurationFields,
   KubeletAuthentication |-> AuthenticationFields,
   CrashLoopBackOffConfig |-> CrashLoopBackOffFields,
   SerializedNodeConfigSource |-> {"Source"},
   MemoryReservation |-> {"Limits"},
   CredentialProviderConfig |-> {"Providers"},
   CredentialProvider |-> {"MatchImages", "DefaultCacheDuration", "Args", "Env"},
   UserNamespaces |-> {"IDsPerPod"},
   ImagePulledRecord |-> {"CredentialMapping"},
   ImagePullCredentials |-> {"KubernetesSecrets", "KubernetesServiceAccounts"}]

\* Mutant: Authentication is copied by assignment, as Authorization is.
NothingCopied == {}

WebhookAndAnonymousCopied == {"Webhook.Enabled", "Anonymous.Enabled"}

CrashLoopBackOffCopied == {"MaxContainerRestartPeriod"}

\* The first, the second and the last part of DeepCopyInto.  It calls the
\* DeepCopyInto of Authentication and of CrashLoopBackOff, and copies
\* Authorization and MemorySwap by assignment.
EarlyCopied ==
  {"EnableServer", "StaticPodURLHeader", "TLSCipherSuites",
   "TLSCurvePreferences", "RegistryPullQPS",
   "PreloadedImagesVerificationAllowlist", "EventRecordQPS",
   "EnableDebuggingHandlers", "HealthzPort", "OOMScoreAdj", "ClusterDNS",
   "ImageGCHighThresholdPercent", "ImageGCLowThresholdPercent",
   "CgroupsPerQOS", "SingleProcessOOMKill", "CPUManagerPolicyOptions",
   "TopologyManagerPolicyOptions", "QOSReserved"} \cup WebhookAndAnonymousCopied

MiddleCopied ==
  {"PodPidsLimit", "ResolverConfig", "CPUCFSQuota", "CPUCFSQuotaPeriod",
   "NodeStatusMaxImages", "KubeAPIQPS", "SerializeImagePulls",
   "MaxParallelImagePulls", "EvictionHard", "EvictionSoft",
   "EvictionSoftGracePeriod", "EvictionMinimumReclaim",
   "MergeDefaultEvictionSettings", "EnableControllerAttachDetach",
   "MakeIPTablesUtilChains", "IPTablesMasqueradeBit", "IPTablesDropBit",
   "FeatureGates", "FailSwapOn", "ContainerLogMaxFiles",
   "ContainerLogMaxWorkers", "ContainerLogMonitorInterval", "SystemReserved",
   "KubeReserved", "EnforceNodeAllocatable", "AllowedUnsafeSysctls"}

LateCopied ==
  {"Logging", "EnableSystemLogHandler", "EnableSystemLogQuery",
   "ShutdownGracePeriodByPodPriority", "ReservedMemory",
   "EnableProfilingHandler", "EnableDebugFlagsHandler", "SeccompDefault",
   "MemoryThrottlingFactor", "RegisterWithTaints", "RegisterNode", "Tracing",
   "LocalStorageCapacityIsolation", "FailCgroupV1", "UserNamespaces"}
    \cup CrashLoopBackOffCopied

KubeletConfigurationCopied == UNION {EarlyCopied, MiddleCopied, LateCopied}

CredentialProviderCopied ==
  [CredentialProviderConfig |-> {"Providers"},
   CredentialProvider |-> {"MatchImages", "DefaultCacheDuration", "Args", "Env"}]

\* Mutant: the map is assigned.
ImagePullAssigned ==
  [ImagePulledRecord |-> {},
   ImagePullCredentials |-> {"KubernetesSecrets", "KubernetesServiceAccounts"}]

ImagePullCopied ==
  [ImagePulledRecord |-> {"CredentialMapping"},
   ImagePullCredentials |-> {"KubernetesSecrets", "KubernetesServiceAccounts"}]

ConfigV1beta1Copied ==
  [KubeletConfiguration |-> KubeletConfigurationCopied,
   KubeletAuthentication |-> WebhookAndAnonymousCopied,
   CrashLoopBackOffConfig |-> CrashLoopBackOffCopied,
   SerializedNodeConfigSource |-> {"Source"},
   MemoryReservation |-> {"Limits"},
   CredentialProviderConfig |-> CredentialProviderCopied.CredentialProviderConfig,
   CredentialProvider |-> CredentialProviderCopied.CredentialProvider,
   UserNamespaces |-> {"IDsPerPod"},
   ImagePulledRecord |-> ImagePullCopied.ImagePulledRecord,
   ImagePullCredentials |-> ImagePullCopied.ImagePullCredentials]

-----------------------------------------------------------------------------
(***************************************************************************)
(* credentialprovider: the internal version, v1, and the two versions that *)
(* know nothing of service accounts.                                       *)
(***************************************************************************)
ProviderInternalFields ==
  [CredentialProviderRequest |-> {"ServiceAccountAnnotations"},
   CredentialProviderResponse |-> {"CacheDuration", "Auth"}]

ProviderInternalCopied ==
  [CredentialProviderRequest |-> {"ServiceAccountAnnotations"},
   CredentialProviderResponse |-> {"CacheDuration", "Auth"}]

ProviderV1Fields ==
  [CredentialProviderRequest |-> {"ServiceAccountAnnotations"},
   CredentialProviderResponse |-> {"CacheDuration", "Auth"}]

ProviderV1Copied ==
  [CredentialProviderRequest |-> {"ServiceAccountAnnotations"},
   CredentialProviderResponse |-> {"CacheDuration", "Auth"}]

ProviderV1beta1Fields ==
  [CredentialProviderRequest |-> {},
   CredentialProviderResponse |-> {"CacheDuration", "Auth"}]

ProviderV1beta1Copied ==
  [CredentialProviderRequest |-> {},
   CredentialProviderResponse |-> {"CacheDuration", "Auth"}]

ProviderV1alpha1Fields ==
  [CredentialProviderRequest |-> {},
   CredentialProviderResponse |-> {"CacheDuration", "Auth"}]

ProviderV1alpha1Copied ==
  [CredentialProviderRequest |-> {},
   CredentialProviderResponse |-> {"CacheDuration", "Auth"}]

-----------------------------------------------------------------------------
(***************************************************************************)
(* What is not declared here: memory without references (the target of a   *)
(* pointer to a number, an array of strings, a map of strings), and the    *)
(* structs of other repositories, of which only their DeepCopyInto is      *)
(* called and which are given one reference each.  A []string is a         *)
(* reference too when it is the value of a map.                            *)
(***************************************************************************)
OtherFields ==
  [Flat |-> {}, Strings |-> {"Array"}, Taint |-> {"TimeAdded"},
   TracingConfiguration |-> {"Endpoint"}, Quantity |-> {"Dec"}]

OtherCopied ==
  [Flat |-> {}, Strings |-> {"Array"}, Taint |-> {"TimeAdded"},
   TracingConfiguration |-> {"Endpoint"}, Quantity |-> {"Dec"}]

Declared ==
  [configV1 |-> ConfigV1Fields, configV1alpha1 |-> ConfigV1alpha1Fields,
   configV1beta1 |-> ConfigV1beta1Fields, provider |-> ProviderInternalFields,
   providerV1 |-> ProviderV1Fields, providerV1beta1 |-> ProviderV1beta1Fields,
   providerV1alpha1 |-> ProviderV1alpha1Fields, other |-> OtherFields]

Copied ==
  [configV1 |-> ConfigV1Copied, configV1alpha1 |-> ConfigV1alpha1Copied,
   configV1beta1 |-> ConfigV1beta1Copied, provider |-> ProviderInternalCopied,
   providerV1 |-> ProviderV1Copied, providerV1beta1 |-> ProviderV1beta1Copied,
   providerV1alpha1 |-> ProviderV1alpha1Copied, other |-> OtherCopied]

Packages == DOMAIN Declared

\* The kinds of allocated memory: one struct, or an array or map of them.
Kinds ==
  UNION {[pkg : {g}, type : DOMAIN Declared[g], many : BOOLEAN] : g \in Packages}

One(g, t) == [pkg |-> g, type |-> t, many |-> FALSE]

Many(g, t) == [pkg |-> g, type |-> t, many |-> TRUE]

\* What a reference field of kind k refers to.
Pointee(k, field) ==
  CASE field = "Providers" -> Many(k.pkg, "CredentialProvider")
    [] field = "TokenAttributes" -> One(k.pkg, "ServiceAccountTokenAttributes")
    [] field = "CredentialMapping" -> Many(k.pkg, "ImagePullCredentials")
    [] field = "ReservedMemory" -> Many(k.pkg, "MemoryReservation")
    [] field = "UserNamespaces" -> One(k.pkg, "UserNamespaces")
    [] field = "StaticPodURLHeader" -> Many("other", "Strings")
    [] field = "RegisterWithTaints" -> Many("other", "Taint")
    [] field = "Tracing" -> One("other", "TracingConfiguration")
    [] field = "Limits" -> Many("other", "Quantity")
    [] OTHER -> One("other", "Flat")

=============================================================================
