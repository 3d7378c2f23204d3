-------------------------- MODULE Conversions --------------------------
(***************************************************************************)
(* The types that this repository converts between API versions, and the   *)
(* generated functions that convert them: the types of the credential      *)
(* provider API between three versions and an internal one, and the Device *)
(* of the DRA API, whose lists are the only memory a converted DRA message *)
(* has in common with its original (module DRAConversion has the others,   *)
(* which are built anew or are strings).                                   *)
(*                                                                         *)
(* A package is one version of an API.  Kind and apiVersion of an object   *)
(* (TypeMeta) are set by the scheme and left out.                          *)
(***************************************************************************)
EXTENDS DeepCopyTypes

\* The fields of the types, as types.go declares them.
ProviderTypes ==
  [CredentialProviderRequest |->
     {"Image", "ServiceAccountToken", "ServiceAccountAnnotations"},
   CredentialProviderResponse |-> {"CacheKeyType", "CacheDuration", "Auth"},
   AuthConfig |-> {"Username", "Password"}]

ProviderV1Types ==
  [CredentialProviderRequest |->
     {"Image", "ServiceAccountToken", "ServiceAccountAnnotations"},
   CredentialProviderResponse |-> {"CacheKeyType", "CacheDuration", "Auth"},
   AuthConfig |-> {"Username", "Password"}]

ProviderV1beta1Types ==
  [CredentialProviderRequest |-> {"Image"},
   CredentialProviderResponse |-> {"CacheKeyType", "CacheDuration", "Auth"},
   AuthConfig |-> {"Username", "Password"}]

ProviderV1alpha1Types ==
  [CredentialProviderRequest |-> {"Image"},
   CredentialProviderResponse |-> {"CacheKeyType", "CacheDuration", "Auth"},
   AuthConfig |-> {"Username", "Password"}]

DRAV1Types ==
  [Device |->
     {"RequestNames", "PoolName", "DeviceName", "CdiDeviceIds", "ShareId"}]

DRAV1beta1Types ==
  [Device |-> {"RequestNames", "PoolName", "DeviceName", "CdiDeviceIds"}]

Types ==
  [provider |-> ProviderTypes, providerV1 |-> ProviderV1Types,
   providerV1beta1 |-> ProviderV1beta1Types,
   providerV1alpha1 |-> ProviderV1alpha1Types,
   draV1 |-> DRAV1Types, draV1beta1 |-> DRAV1beta1Types]

TypeNames == UNION {DOMAIN Types[g] : g \in DOMAIN Types}

\* The versions that have type t.
VersionsOf(t) == {g \in DOMAIN Types : t \in DOMAIN Types[g]}

FieldsOf(t, g) == Types[g][t]

\* The fields that are a pointer, a slice or a map.  Those of the credential
\* provider types are the ones of DeepCopyTypes.
DeviceReferences == {"RequestNames", "CdiDeviceIds", "ShareId"}

References(t, g) ==
  IF t = "Device" THEN DeviceReferences \cap FieldsOf(t, g)
  ELSE IF t \in DOMAIN Declared[g] THEN Declared[g][t]
  ELSE {}

\* The reference fields that a deep copy of the object makes anew: what the
\* generated DeepCopyInto copies, and for a message all (proto.Clone).
Recreated(t, g) ==
  IF t = "Device" THEN DeviceReferences \cap FieldsOf(t, g)
  ELSE IF t \in DOMAIN Copied[g] THEN Copied[g][t]
  ELSE {}

-----------------------------------------------------------------------------
(* The conversion functions.  Each assigns some fields of out from the     *)
(* fields of in that have the same name: a string is copied, a pointer, a  *)
(* slice or a map is reinterpreted (unsafe.Pointer), so that out refers to *)
(* the memory of in.  The other fields of out stay what they were.         *)

Conversion(t, from, to, sets) ==
  [type |-> t, from |-> from, to |-> to, sets |-> sets]

V1_AuthConfig_To_Internal ==
  Conversion("AuthConfig", "providerV1", "provider", {"Username", "Password"})
V1_AuthConfig_From_Internal ==
  Conversion("AuthConfig", "provider", "providerV1", {"Username", "Password"})
\* Mutant: the token is not assigned.
V1_Request_To_Internal_Tokenless ==
  Conversion("CredentialProviderRequest", "providerV1", "provider",
             {"Image", "ServiceAccountAnnotations"})
V1_Request_To_Internal ==
  Conversion("CredentialProviderRequest", "providerV1", "provider",
             {"Image", "ServiceAccountToken", "ServiceAccountAnnotations"})
V1_Request_From_Internal ==
  Conversion("CredentialProviderRequest", "provider", "providerV1",
             {"Image", "ServiceAccountToken", "ServiceAccountAnnotations"})
V1_Response_To_Internal ==
  Conversion("CredentialProviderResponse", "providerV1", "provider",
             {"CacheKeyType", "CacheDuration", "Auth"})
V1_Response_From_Internal ==
  Conversion("CredentialProviderResponse", "provider", "providerV1",
             {"CacheKeyType", "CacheDuration", "Auth"})

V1beta1_AuthConfig_To_Internal ==
  Conversion("AuthConfig", "providerV1beta1", "provider",
             {"Username", "Password"})
V1beta1_AuthConfig_From_Internal ==
  Conversion("AuthConfig", "provider", "providerV1beta1",
             {"Username", "Password"})
V1beta1_Request_To_Internal ==
  Conversion("CredentialProviderRequest", "providerV1beta1", "provider",
             {"Image"})
V1beta1_Request_From_Internal ==
  Conversion("CredentialProviderRequest", "provider", "providerV1beta1",
             {"Image"})
V1beta1_Response_To_Internal ==
  Conversion("CredentialProviderResponse", "providerV1beta1", "provider",
             {"CacheKeyType", "CacheDuration", "Auth"})
V1beta1_Response_From_Internal ==
  Conversion("CredentialProviderResponse", "provider", "providerV1beta1",
             {"CacheKeyType", "CacheDuration", "Auth"})

V1alpha1_AuthConfig_To_Internal ==
  Conversion("AuthConfig", "providerV1alpha1", "provider",
             {"Username", "Password"})
V1alpha1_AuthConfig_From_Internal ==
  Conversion("AuthConfig", "provider", "providerV1alpha1",
             {"Username", "Password"})
V1alpha1_Request_To_Internal ==
  Conversion("CredentialProviderRequest", "providerV1alpha1", "provider",
             {"Image"})
V1alpha1_Request_From_Internal ==
  Conversion("CredentialProviderRequest", "provider", "providerV1alpha1",
             {"Image"})
V1alpha1_Response_To_Internal ==
  Conversion("CredentialProviderResponse", "providerV1alpha1", "provider",
             {"CacheKeyType", "CacheDuration", "Auth"})
V1alpha1_Response_From_Internal ==
  Conversion("CredentialProviderResponse", "provider", "providerV1alpha1",
             {"CacheKeyType", "CacheDuration", "Auth"})

V1beta1_Device_To_V1 ==
  Conversion("Device", "draV1beta1", "draV1",
             {"RequestNames", "PoolName", "DeviceName", "CdiDeviceIds"})
V1_Device_To_V1beta1 ==
  Conversion("Device", "draV1", "draV1beta1",
             {"RequestNames", "PoolName", "DeviceName", "CdiDeviceIds"})

\* The functions of each package.
ProviderV1Conversions ==
  {V1_AuthConfig_To_Internal, V1_AuthConfig_From_Internal,
   V1_Request_To_Internal, V1_Request_From_Internal,
   V1_Response_To_Internal, V1_Response_From_Internal}

ProviderV1beta1Conversions ==
  {V1beta1_AuthConfig_To_Internal, V1beta1_AuthConfig_From_Internal,
   V1beta1_Request_To_Internal, V1beta1_Response_To_Internal,
   V1beta1_Response_From_Internal, V1beta1_Request_From_Internal}

ProviderV1alpha1Conversions ==
  {V1alpha1_AuthConfig_To_Internal, V1alpha1_AuthConfig_From_Internal,
   V1alpha1_Request_To_Internal, V1alpha1_Response_To_Internal,
   V1alpha1_Response_From_Internal, V1alpha1_Request_From_Internal}

AllConversions ==
  ProviderV1Conversions \cup ProviderV1beta1Conversions
    \cup ProviderV1alpha1Conversions
    \cup {V1beta1_Device_To_V1, V1_Device_To_V1beta1}

=============================================================================
