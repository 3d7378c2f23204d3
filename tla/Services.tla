------------------------------ MODULE Services ------------------------------
(***************************************************************************)
(* The gRPC services of the kubelet's APIs (api_grpc.pb.go), in two        *)
(* tables.  The operators named ...Client are read from the client stubs:  *)
(* the path each stub calls and whether it opens a stream.  Those named    *)
(* ...Desc are read from the service descriptors and the handlers they     *)
(* point to: the name the service is registered under, and the method of   *)
(* the server each name leads to.  Client and server are two processes,    *)
(* possibly built from different versions of this repository; at run time  *)
(* only the strings tie the tables together.                               *)
(***************************************************************************)

\* Stub m of a client calls the path of <Service>_<m>_FullMethodName.
Stubs(service, unary, streams) ==
  [path    |-> [m \in unary \cup streams |-> <<service, m>>],
   streams |-> streams]

\* The handler of the wire name m calls the method m of the server.
Desc(service, unary, streams) ==
  [name    |-> service,
   handler |-> [m \in unary \cup streams |-> m],
   streams |-> streams]

-----------------------------------------------------------------------------
\* deviceplugin/v1alpha, service Registration.
\* Mutant: the stub calls the path of another version.
DeviceRegistrationV1alphaClientOther ==
  Stubs("v1beta1.Registration", {"Register"}, {})
DeviceRegistrationV1alphaClient ==
  Stubs("deviceplugin.Registration", {"Register"}, {})
DeviceRegistrationV1alphaDesc ==
  Desc("deviceplugin.Registration", {"Register"}, {})

\* deviceplugin/v1alpha, service DevicePlugin.
DevicePluginV1alphaClient ==
  Stubs("deviceplugin.DevicePlugin", {"Allocate"}, {"ListAndWatch"})
DevicePluginV1alphaDesc ==
  Desc("deviceplugin.DevicePlugin", {"Allocate"}, {"ListAndWatch"})

\* deviceplugin/v1beta1, service Registration.
DeviceRegistrationV1beta1Client ==
  Stubs("v1beta1.Registration", {"Register"}, {})
DeviceRegistrationV1beta1Desc ==
  Desc("v1beta1.Registration", {"Register"}, {})

\* deviceplugin/v1beta1, service DevicePlugin.
DevicePluginV1beta1Client ==
  Stubs("v1beta1.DevicePlugin",
        {"GetDevicePluginOptions", "GetPreferredAllocation", "Allocate",
         "PreStartContainer"},
        {"ListAndWatch"})
DevicePluginV1beta1Desc ==
  Desc("v1beta1.DevicePlugin",
       {"GetDevicePluginOptions", "GetPreferredAllocation", "Allocate",
        "PreStartContainer"},
       {"ListAndWatch"})

\* dra/v1beta1, service DRAPlugin.
DRAPluginV1beta1Client ==
  Stubs("k8s.io.kubelet.pkg.apis.dra.v1beta1.DRAPlugin",
        {"NodePrepareResources", "NodeUnprepareResources"},
        {})
DRAPluginV1beta1Desc ==
  Desc("k8s.io.kubelet.pkg.apis.dra.v1beta1.DRAPlugin",
       {"NodePrepareResources", "NodeUnprepareResources"},
       {})

\* dra/v1, service DRAPlugin.
DRAPluginV1Client ==
  Stubs("k8s.io.kubelet.pkg.apis.dra.v1.DRAPlugin",
        {"NodePrepareResources", "NodeUnprepareResources"},
        {})
DRAPluginV1Desc ==
  Desc("k8s.io.kubelet.pkg.apis.dra.v1.DRAPlugin",
       {"NodePrepareResources", "NodeUnprepareResources"},
       {})

\* dra-health/v1alpha1, service DRAResourceHealth.
DRAHealthV1alpha1Client ==
  Stubs("v1alpha1.DRAResourceHealth", {}, {"NodeWatchResources"})
DRAHealthV1alpha1Desc ==
  Desc("v1alpha1.DRAResourceHealth", {}, {"NodeWatchResources"})

\* pluginregistration/v1alpha1, service Registration.
PluginRegistrationV1alpha1Client ==
  Stubs("pluginregistration.Registration",
        {"GetInfo", "NotifyRegistrationStatus"},
        {})
PluginRegistrationV1alpha1Desc ==
  Desc("pluginregistration.Registration",
       {"GetInfo", "NotifyRegistrationStatus"},
       {})

\* pluginregistration/v1beta1, service Registration.
PluginRegistrationV1beta1Client ==
  Stubs("pluginregistration.Registration",
        {"GetInfo", "NotifyRegistrationStatus"},
        {})
PluginRegistrationV1beta1Desc ==
  Desc("pluginregistration.Registration",
       {"GetInfo", "NotifyRegistrationStatus"},
       {})

\* pluginregistration/v1, service Registration.
PluginRegistrationV1Client ==
  Stubs("pluginregistration.Registration",
        {"GetInfo", "NotifyRegistrationStatus"},
        {})
PluginRegistrationV1Desc ==
  Desc("pluginregistration.Registration",
       {"GetInfo", "NotifyRegistrationStatus"},
       {})

\* podresources/v1alpha1, service PodResourcesLister.
PodResourcesV1alpha1Client ==
  Stubs("v1alpha1.PodResourcesLister", {"List"}, {})
PodResourcesV1alpha1Desc ==
  Desc("v1alpha1.PodResourcesLister", {"List"}, {})

\* podresources/v1, service PodResourcesLister.
PodResourcesV1Client ==
  Stubs("v1.PodResourcesLister",
        {"List", "GetAllocatableResources", "Get"},
        {})
PodResourcesV1Desc ==
  Desc("v1.PodResourcesLister",
       {"List", "GetAllocatableResources", "Get"},
       {})

\* pods/v1alpha1, service Pods.
PodsV1alpha1Client ==
  Stubs("v1alpha1.Pods", {"ListPods", "GetPod"}, {"WatchPods"})
\* Mutant: an entry points to the handler of another method.
PodsV1alpha1DescSwapped ==
  [Desc("v1alpha1.Pods", {"ListPods", "GetPod"}, {"WatchPods"}) EXCEPT
     !.handler = [m \in DOMAIN @ |-> IF m = "GetPod" THEN "ListPods" ELSE m]]
PodsV1alpha1Desc ==
  Desc("v1alpha1.Pods", {"ListPods", "GetPod"}, {"WatchPods"})

-----------------------------------------------------------------------------
Client ==
  [DeviceRegistrationV1alpha |-> DeviceRegistrationV1alphaClient,
   DevicePluginV1alpha |-> DevicePluginV1alphaClient,
   DeviceRegistrationV1beta1 |-> DeviceRegistrationV1beta1Client,
   DevicePluginV1beta1 |-> DevicePluginV1beta1Client,
   DRAPluginV1beta1 |-> DRAPluginV1beta1Client,
   DRAPluginV1 |-> DRAPluginV1Client,
   DRAHealthV1alpha1 |-> DRAHealthV1alpha1Client,
   PluginRegistrationV1alpha1 |-> PluginRegistrationV1alpha1Client,
   PluginRegistrationV1beta1 |-> PluginRegistrationV1beta1Client,
   PluginRegistrationV1 |-> PluginRegistrationV1Client,
   PodResourcesV1alpha1 |-> PodResourcesV1alpha1Client,
   PodResourcesV1 |-> PodResourcesV1Client,
   PodsV1alpha1 |-> PodsV1alpha1Client]

ServiceDesc ==
  [DeviceRegistrationV1alpha |-> DeviceRegistrationV1alphaDesc,
   DevicePluginV1alpha |-> DevicePluginV1alphaDesc,
   DeviceRegistrationV1beta1 |-> DeviceRegistrationV1beta1Desc,
   DevicePluginV1beta1 |-> DevicePluginV1beta1Desc,
   DRAPluginV1beta1 |-> DRAPluginV1beta1Desc,
   DRAPluginV1 |-> DRAPluginV1Desc,
   DRAHealthV1alpha1 |-> DRAHealthV1alpha1Desc,
   PluginRegistrationV1alpha1 |-> PluginRegistrationV1alpha1Desc,
   PluginRegistrationV1beta1 |-> PluginRegistrationV1beta1Desc,
   PluginRegistrationV1 |-> PluginRegistrationV1Desc,
   PodResourcesV1alpha1 |-> PodResourcesV1alpha1Desc,
   PodResourcesV1 |-> PodResourcesV1Desc,
   PodsV1alpha1 |-> PodsV1alpha1Desc]

Services == DOMAIN ServiceDesc

\* The registration API has one wire name for all of its versions.
RegistrationVersions ==
  {"PluginRegistrationV1alpha1", "PluginRegistrationV1beta1",
   "PluginRegistrationV1"}
=============================================================================
