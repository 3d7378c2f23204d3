---------------------------- MODULE Schemes ----------------------------
(***************************************************************************)
(* What the packages of this repository register in a runtime.Scheme: the  *)
(* types of an API version, the functions that convert them, and which     *)
(* version of a group comes first.  The scheme itself is a library's; of   *)
(* its methods the ones called here are modelled.                          *)
(***************************************************************************)
EXTENDS Conversions, Sequences, SequencesExt

\* A scheme: the packages whose types and functions were added to it, the
\* versions in the order in which they were added, and for each group the
\* versions that come first.
EmptyScheme ==
  [added |-> {}, observed |-> <<>>,
   priority |-> [group \in {"credentialprovider", "config"} |-> <<>>]]

\* SchemeGroupVersion of every package that registers types.
GroupVersion ==
  [provider |-> <<"credentialprovider", "__internal">>,
   providerV1alpha1 |-> <<"credentialprovider", "v1alpha1">>,
   providerV1beta1 |-> <<"credentialprovider", "v1beta1">>,
   providerV1 |-> <<"credentialprovider", "v1">>,
   configV1alpha1 |-> <<"config", "v1alpha1">>,
   configV1beta1 |-> <<"config", "v1beta1">>,
   configV1 |-> <<"config", "v1">>]

\* The types in each package's addKnownTypes.
ProviderKnownTypes == {"CredentialProviderRequest", "CredentialProviderResponse"}
ProviderV1alpha1KnownTypes ==
  {"CredentialProviderRequest", "CredentialProviderResponse"}
ProviderV1beta1KnownTypes ==
  {"CredentialProviderRequest", "CredentialProviderResponse"}
ProviderV1KnownTypes ==
  {"CredentialProviderRequest", "CredentialProviderResponse"}
ConfigV1alpha1KnownTypes ==
  {"CredentialProviderConfig", "ImagePullIntent", "ImagePulledRecord"}
ConfigV1beta1KnownTypes ==
  {"KubeletConfiguration", "SerializedNodeConfigSource",
   "CredentialProviderConfig", "ImagePullIntent", "ImagePulledRecord"}
ConfigV1KnownTypes == {"CredentialProviderConfig"}

KnownTypes ==
  [provider |-> ProviderKnownTypes,
   providerV1alpha1 |-> ProviderV1alpha1KnownTypes,
   providerV1beta1 |-> ProviderV1beta1KnownTypes,
   providerV1 |-> ProviderV1KnownTypes,
   configV1alpha1 |-> ConfigV1alpha1KnownTypes,
   configV1beta1 |-> ConfigV1beta1KnownTypes,
   configV1 |-> ConfigV1KnownTypes]

\* The pairs of types for which a package's RegisterConversions registers a
\* function.
Registered(conversions) == {<<c.type, c.from, c.to>> : c \in conversions}

ProviderV1RegisterConversions == Registered(ProviderV1Conversions)
\* Mutant: the manual function is not registered.
ProviderV1beta1RegisterGenerated ==
  Registered(ProviderV1beta1Conversions \ {V1beta1_Request_From_Internal})
ProviderV1beta1RegisterConversions == Registered(ProviderV1beta1Conversions)
ProviderV1alpha1RegisterConversions == Registered(ProviderV1alpha1Conversions)

DRARegisterConversions ==
  LET generated == {"UnimplementedDRAPluginServer"}
      manual == {"Claim", "Device",
                 "NodePrepareResourceResponse", "NodePrepareResourcesRequest",
                 "NodePrepareResourcesResponse",
                 "NodeUnprepareResourceResponse",
                 "NodeUnprepareResourcesRequest",
                 "NodeUnprepareResourcesResponse"}
      names == generated \cup manual
  IN  {<<t, "draV1beta1", "draV1">> : t \in names}
        \cup {<<t, "draV1", "draV1beta1">> : t \in names}

RegisterConversions ==
  [providerV1 |-> ProviderV1RegisterConversions,
   providerV1beta1 |-> ProviderV1beta1RegisterConversions,
   providerV1alpha1 |-> ProviderV1alpha1RegisterConversions,
   draV1beta1 |-> DRARegisterConversions]

\* AddToScheme of a package runs the functions that its SchemeBuilder has
\* collected: addKnownTypes, which adds a version that is not internal to the
\* versions observed so far, and RegisterConversions.
Registrants == DOMAIN KnownTypes \cup DOMAIN RegisterConversions

\* Mutant: the internal version is observed as well.
AddToSchemeObservesAll(s, g) ==
  [s EXCEPT
    !.added = @ \cup {g},
    !.observed = IF /\ g \in DOMAIN KnownTypes
                    /\ ~ Contains(@, GroupVersion[g])
                 THEN Append(@, GroupVersion[g])
                 ELSE @]

AddToScheme(s, g) ==
  [s EXCEPT
    !.added = @ \cup {g},
    !.observed =
       IF /\ g \in DOMAIN KnownTypes
          /\ GroupVersion[g][2] # "__internal"
          /\ ~ Contains(@, GroupVersion[g])
       THEN Append(@, GroupVersion[g])
       ELSE @]

\* What a scheme knows and can convert.
Known(s) ==
  UNION {{<<GroupVersion[g], t>> : t \in KnownTypes[g]} :
           g \in s.added \cap DOMAIN KnownTypes}

Converters(s) ==
  UNION {RegisterConversions[g] : g \in s.added \cap DOMAIN RegisterConversions}

\* Replaces the priorities the group had.
SetVersionPriority(s, g) ==
  [s EXCEPT !.priority[GroupVersion[g][1]] = <<GroupVersion[g]>>]

\* Mutant: the newest version is installed first.
InstallNewestFirst(s) ==
  LET s0 == AddToScheme(s, "provider")
      s1 == SetVersionPriority(AddToScheme(s0, "providerV1"), "providerV1")
      s2 == SetVersionPriority(AddToScheme(s1, "providerV1beta1"),
                               "providerV1beta1")
  IN  SetVersionPriority(AddToScheme(s2, "providerV1alpha1"),
                         "providerV1alpha1")

\* credentialprovider/install.Install.  None of the calls can fail, so that
\* utilruntime.Must never panics.
Install(s) ==
  LET s0 == AddToScheme(s, "provider")
      s1 == SetVersionPriority(AddToScheme(s0, "providerV1alpha1"),
                               "providerV1alpha1")
      s2 == SetVersionPriority(AddToScheme(s1, "providerV1beta1"),
                               "providerV1beta1")
  IN  SetVersionPriority(AddToScheme(s2, "providerV1"), "providerV1")

\* The versions of a group: those with a priority first, then the others in
\* the order in which they were added.
List(versions, gv, group) ==
  IF gv[1] = group /\ ~ Contains(versions, gv)
  THEN Append(versions, gv) ELSE versions

PrioritizedVersions(s, group) ==
  LET listed[n \in 0 .. Len(s.observed)] ==
        IF n = 0 THEN s.priority[group]
        ELSE List(listed[n - 1], s.observed[n], group)
  IN  listed[Len(s.observed)]

=============================================================================
