----------------------------- MODULE MCGrpcCalls -----------------------------
(***************************************************************************)
(* Instances of GrpcCalls for TLC.                                         *)
(***************************************************************************)
EXTENDS GrpcCalls

MCStubs == Stub

\* Everything a service's stubs may call.
MCMethods(S) ==
  UNION {{<<t, m>> : m \in DOMAIN Client[t].path} : t \in S}

MCBuild(S, methods) ==
  [serves |-> S, embeds |-> "value", implements |-> methods]

\* For every service a program that defines all of its methods, and one that
\* defines none of one service's; a driver of both DRA versions that defines
\* the newer; two versions of the registration API in one program, which
\* gets as far as this only if it tells protobuf to ignore that their names
\* clash (see ProtoFiles); and a nil embedded pointer.
MCBuilds ==
  {MCBuild({s}, MCMethods({s})) : s \in Services} \cup
  {MCBuild({"DevicePluginV1beta1"}, {}),
   MCBuild({"DRAPluginV1", "DRAPluginV1beta1"}, MCMethods({"DRAPluginV1"})),
   MCBuild({"PluginRegistrationV1", "PluginRegistrationV1beta1"},
           MCMethods(RegistrationVersions)),
   [MCBuild({"PodsV1alpha1"}, {}) EXCEPT !.embeds = "nil pointer"]}
=============================================================================
