---------------------------- MODULE PluginDecls -----------------------------
(***************************************************************************)
(* The message files of the APIs that plugins and the kubelet speak with   *)
(* each other: device plugins, DRA drivers, their health, registration.    *)
(***************************************************************************)
EXTENDS ProtoDecls

-----------------------------------------------------------------------------
\* deviceplugin/v1alpha.  The descriptor in the generated file.
DevicePluginV1alpha_RegisterRequestDesc ==
  Message("RegisterRequest", <<One(1, Str), One(2, Str), One(3, Str)>>)
DevicePluginV1alpha_EmptyDesc == Message("Empty", <<>>)
DevicePluginV1alpha_ListAndWatchResponseDesc ==
  Message("ListAndWatchResponse", <<Many(1, Msg("Device"))>>)
DevicePluginV1alpha_DeviceDesc ==
  Message("Device", <<One(1, Str), One(2, Str)>>)
DevicePluginV1alpha_AllocateRequestDesc ==
  Message("AllocateRequest", <<Many(1, Str)>>)
DevicePluginV1alpha_AllocateResponseDesc ==
  Message("AllocateResponse",
    <<Many(1, Msg("AllocateResponse.EnvsEntry")), Many(2, Msg("Mount")),
      Many(3, Msg("DeviceSpec")),
      Many(4, Msg("AllocateResponse.AnnotationsEntry"))>>)
DevicePluginV1alpha_MountDesc ==
  Message("Mount", <<One(1, Str), One(2, Str), One(3, Bool)>>)
DevicePluginV1alpha_DeviceSpecDesc ==
  Message("DeviceSpec", <<One(1, Str), One(2, Str), One(3, Str)>>)
DevicePluginV1alpha_AllocateResponse_EnvsEntryDesc ==
  Entry("AllocateResponse.EnvsEntry", <<One(1, Str), One(2, Str)>>)
DevicePluginV1alpha_AllocateResponse_AnnotationsEntryDesc ==
  Entry("AllocateResponse.AnnotationsEntry", <<One(1, Str), One(2, Str)>>)
DevicePluginV1alphaDesc ==
  File("deviceplugin", <<>>, {},
   <<DevicePluginV1alpha_RegisterRequestDesc, DevicePluginV1alpha_EmptyDesc,
     DevicePluginV1alpha_ListAndWatchResponseDesc,
     DevicePluginV1alpha_DeviceDesc, DevicePluginV1alpha_AllocateRequestDesc,
     DevicePluginV1alpha_AllocateResponseDesc, DevicePluginV1alpha_MountDesc,
     DevicePluginV1alpha_DeviceSpecDesc,
     DevicePluginV1alpha_AllocateResponse_EnvsEntryDesc,
     DevicePluginV1alpha_AllocateResponse_AnnotationsEntryDesc>>,
   <<Service("Registration", <<
        Method("Register", "RegisterRequest", "Empty")>>),
    Service("DevicePlugin", <<
        Method("ListAndWatch", "Empty", "ListAndWatchResponse"),
        Method("Allocate", "AllocateRequest", "AllocateResponse")>>)>>)
DevicePluginV1alpha_RegisterRequest ==
  Struct("RegisterRequest", 0,
    [Version |-> Tag(1, Str), Endpoint |-> Tag(2, Str),
     ResourceName |-> Tag(3, Str)])
DevicePluginV1alpha_Empty == Struct("Empty", 1, NoFields)
DevicePluginV1alpha_ListAndWatchResponse ==
  Struct("ListAndWatchResponse", 2,
    [Devices |-> Tag(1, Slice(Ref("Device")))])
DevicePluginV1alpha_Device ==
  Struct("Device", 3, [ID |-> Tag(1, Str), Health |-> Tag(2, Str)])
DevicePluginV1alpha_AllocateRequest ==
  Struct("AllocateRequest", 4, [DevicesIDs |-> Tag(1, Slice(Str))])
DevicePluginV1alpha_AllocateResponse ==
  Struct("AllocateResponse", 5,
    [Envs |-> Tag(1, MapOf(Str, Str)), Mounts |-> Tag(2, Slice(Ref("Mount"))),
     Devices |-> Tag(3, Slice(Ref("DeviceSpec"))),
     Annotations |-> Tag(4, MapOf(Str, Str))])
DevicePluginV1alpha_Mount ==
  Struct("Mount", 6,
    [ContainerPath |-> Tag(1, Str), HostPath |-> Tag(2, Str),
     ReadOnly |-> Tag(3, Bool)])
DevicePluginV1alpha_DeviceSpec ==
  Struct("DeviceSpec", 7,
    [ContainerPath |-> Tag(1, Str), HostPath |-> Tag(2, Str),
     Permissions |-> Tag(3, Str)])
DevicePluginV1alphaGoTypes ==
  <<DevicePluginV1alpha_RegisterRequest, DevicePluginV1alpha_Empty,
    DevicePluginV1alpha_ListAndWatchResponse, DevicePluginV1alpha_Device,
    DevicePluginV1alpha_AllocateRequest, DevicePluginV1alpha_AllocateResponse,
    DevicePluginV1alpha_Mount, DevicePluginV1alpha_DeviceSpec, NilType,
    NilType>>
DevicePluginV1alphaDepIdxs ==
  <<3, 8, 6, 7, 9, 0, 1, 4, 1, 2, 5, 8, 5, 5, 5, 0>>
DevicePluginV1alpha ==
  TypeBuilder(DevicePluginV1alphaDesc, 0, 10, 0, 2,
              DevicePluginV1alphaGoTypes, DevicePluginV1alphaDepIdxs)
-----------------------------------------------------------------------------
\* deviceplugin/v1beta1.  The descriptor in the generated file.
DevicePluginV1beta1_DevicePluginOptionsDesc ==
  Message("DevicePluginOptions", <<One(1, Bool), One(2, Bool)>>)
DevicePluginV1beta1_RegisterRequestDesc ==
  Message("RegisterRequest",
    <<One(1, Str), One(2, Str), One(3, Str),
      One(4, Msg("DevicePluginOptions"))>>)
DevicePluginV1beta1_EmptyDesc == Message("Empty", <<>>)
DevicePluginV1beta1_ListAndWatchResponseDesc ==
  Message("ListAndWatchResponse", <<Many(1, Msg("Device"))>>)
DevicePluginV1beta1_TopologyInfoDesc ==
  Message("TopologyInfo", <<Many(1, Msg("NUMANode"))>>)
DevicePluginV1beta1_NUMANodeDesc == Message("NUMANode", <<One(1, Int64)>>)
DevicePluginV1beta1_DeviceDesc ==
  Message("Device",
    <<One(1, Str), One(2, Str), One(3, Msg("TopologyInfo"))>>)
DevicePluginV1beta1_PreStartContainerRequestDesc ==
  Message("PreStartContainerRequest", <<Many(1, Str)>>)
DevicePluginV1beta1_PreStartContainerResponseDesc ==
  Message("PreStartContainerResponse", <<>>)
DevicePluginV1beta1_PreferredAllocationRequestDesc ==
  Message("PreferredAllocationRequest",
    <<Many(1, Msg("ContainerPreferredAllocationRequest"))>>)
DevicePluginV1beta1_ContainerPreferredAllocationRequestDesc ==
  Message("ContainerPreferredAllocationRequest",
    <<Many(1, Str), Many(2, Str), One(3, Int32)>>)
DevicePluginV1beta1_PreferredAllocationResponseDesc ==
  Message("PreferredAllocationResponse",
    <<Many(1, Msg("ContainerPreferredAllocationResponse"))>>)
DevicePluginV1beta1_ContainerPreferredAllocationResponseDesc ==
  Message("ContainerPreferredAllocationResponse", <<Many(1, Str)>>)
DevicePluginV1beta1_AllocateRequestDesc ==
  Message("AllocateRequest", <<Many(1, Msg("ContainerAllocateRequest"))>>)
DevicePluginV1beta1_ContainerAllocateRequestDesc ==
  Message("ContainerAllocateRequest", <<Many(1, Str)>>)
DevicePluginV1beta1_CDIDeviceDesc == Message("CDIDevice", <<One(1, Str)>>)
DevicePluginV1beta1_AllocateResponseDesc ==
  Message("AllocateResponse", <<Many(1, Msg("ContainerAllocateResponse"))>>)
DevicePluginV1beta1_ContainerAllocateResponseDesc ==
  Message("ContainerAllocateResponse",
    <<Many(1, Msg("ContainerAllocateResponse.EnvsEntry")),
      Many(2, Msg("Mount")), Many(3, Msg("DeviceSpec")),
      Many(4, Msg("ContainerAllocateResponse.AnnotationsEntry")),
      Many(5, Msg("CDIDevice"))>>)
DevicePluginV1beta1_MountDesc ==
  Message("Mount", <<One(1, Str), One(2, Str), One(3, Bool)>>)
DevicePluginV1beta1_DeviceSpecDesc ==
  Message("DeviceSpec", <<One(1, Str), One(2, Str), One(3, Str)>>)
DevicePluginV1beta1_ContainerAllocateResponse_EnvsEntryDesc ==
  Entry("ContainerAllocateResponse.EnvsEntry", <<One(1, Str), One(2, Str)>>)
DevicePluginV1beta1_ContainerAllocateResponse_AnnotationsEntryDesc ==
  Entry("ContainerAllocateResponse.AnnotationsEntry",
    <<One(1, Str), One(2, Str)>>)
DevicePluginV1beta1Desc ==
  File("v1beta1", <<>>, {},
   <<DevicePluginV1beta1_DevicePluginOptionsDesc,
     DevicePluginV1beta1_RegisterRequestDesc, DevicePluginV1beta1_EmptyDesc,
     DevicePluginV1beta1_ListAndWatchResponseDesc,
     DevicePluginV1beta1_TopologyInfoDesc, DevicePluginV1beta1_NUMANodeDesc,
     DevicePluginV1beta1_DeviceDesc,
     DevicePluginV1beta1_PreStartContainerRequestDesc,
     DevicePluginV1beta1_PreStartContainerResponseDesc,
     DevicePluginV1beta1_PreferredAllocationRequestDesc,
     DevicePluginV1beta1_ContainerPreferredAllocationRequestDesc,
     DevicePluginV1beta1_PreferredAllocationResponseDesc,
     DevicePluginV1beta1_ContainerPreferredAllocationResponseDesc,
     DevicePluginV1beta1_AllocateRequestDesc,
     DevicePluginV1beta1_ContainerAllocateRequestDesc,
     DevicePluginV1beta1_CDIDeviceDesc,
     DevicePluginV1beta1_AllocateResponseDesc,
     DevicePluginV1beta1_ContainerAllocateResponseDesc,
     DevicePluginV1beta1_MountDesc, DevicePluginV1beta1_DeviceSpecDesc,
     DevicePluginV1beta1_ContainerAllocateResponse_EnvsEntryDesc,
     DevicePluginV1beta1_ContainerAllocateResponse_AnnotationsEntryDesc>>,
   <<Service("Registration", <<
        Method("Register", "RegisterRequest", "Empty")>>),
    Service("DevicePlugin", <<
        Method("GetDevicePluginOptions", "Empty", "DevicePluginOptions"),
        Method("ListAndWatch", "Empty", "ListAndWatchResponse"),
        Method("GetPreferredAllocation", "PreferredAllocationRequest",
               "PreferredAllocationResponse"),
        Method("Allocate", "AllocateRequest", "AllocateResponse"),
        Method("PreStartContainer", "PreStartContainerRequest",
               "PreStartContainerResponse")>>)>>)
DevicePluginV1beta1_DevicePluginOptions ==
  Struct("DevicePluginOptions", 0,
    [PreStartRequired |-> Tag(1, Bool),
     GetPreferredAllocationAvailable |-> Tag(2, Bool)])
DevicePluginV1beta1_RegisterRequest ==
  Struct("RegisterRequest", 1,
    [Version |-> Tag(1, Str), Endpoint |-> Tag(2, Str),
     ResourceName |-> Tag(3, Str),
     Options |-> Tag(4, Ref("DevicePluginOptions"))])
DevicePluginV1beta1_Empty == Struct("Empty", 2, NoFields)
DevicePluginV1beta1_ListAndWatchResponse ==
  Struct("ListAndWatchResponse", 3,
    [Devices |-> Tag(1, Slice(Ref("Device")))])
DevicePluginV1beta1_TopologyInfo ==
  Struct("TopologyInfo", 4, [Nodes |-> Tag(1, Slice(Ref("NUMANode")))])
DevicePluginV1beta1_NUMANode == Struct("NUMANode", 5, [ID |-> Tag(1, Int64)])
DevicePluginV1beta1_Device ==
  Struct("Device", 6,
    [ID |-> Tag(1, Str), Health |-> Tag(2, Str),
     Topology |-> Tag(3, Ref("TopologyInfo"))])
DevicePluginV1beta1_PreStartContainerRequest ==
  Struct("PreStartContainerRequest", 7, [DevicesIds |-> Tag(1, Slice(Str))])
DevicePluginV1beta1_PreStartContainerResponse ==
  Struct("PreStartContainerResponse", 8, NoFields)
DevicePluginV1beta1_PreferredAllocationRequest ==
  Struct("PreferredAllocationRequest", 9,
    [ContainerRequests |->
       Tag(1, Slice(Ref("ContainerPreferredAllocationRequest")))])
DevicePluginV1beta1_ContainerPreferredAllocationRequest ==
  Struct("ContainerPreferredAllocationRequest", 10,
    [AvailableDeviceIDs |-> Tag(1, Slice(Str)),
     MustIncludeDeviceIDs |-> Tag(2, Slice(Str)),
     AllocationSize |-> Tag(3, Int32)])
DevicePluginV1beta1_PreferredAllocationResponse ==
  Struct("PreferredAllocationResponse", 11,
    [ContainerResponses |->
       Tag(1, Slice(Ref("ContainerPreferredAllocationResponse")))])
DevicePluginV1beta1_ContainerPreferredAllocationResponse ==
  Struct("ContainerPreferredAllocationResponse", 12,
    [DeviceIDs |-> Tag(1, Slice(Str))])
DevicePluginV1beta1_AllocateRequest ==
  Struct("AllocateRequest", 13,
    [ContainerRequests |-> Tag(1, Slice(Ref("ContainerAllocateRequest")))])
DevicePluginV1beta1_ContainerAllocateRequest ==
  Struct("ContainerAllocateRequest", 14, [DevicesIds |-> Tag(1, Slice(Str))])
DevicePluginV1beta1_CDIDevice ==
  Struct("CDIDevice", 15, [Name |-> Tag(1, Str)])
DevicePluginV1beta1_AllocateResponse ==
  Struct("AllocateResponse", 16,
    [ContainerResponses |-> Tag(1, Slice(Ref("ContainerAllocateResponse")))])
DevicePluginV1beta1_ContainerAllocateResponse ==
  Struct("ContainerAllocateResponse", 17,
    [Envs |-> Tag(1, MapOf(Str, Str)), Mounts |-> Tag(2, Slice(Ref("Mount"))),
     Devices |-> Tag(3, Slice(Ref("DeviceSpec"))),
     Annotations |-> Tag(4, MapOf(Str, Str)),
     CdiDevices |-> Tag(5, Slice(Ref("CDIDevice")))])
DevicePluginV1beta1_Mount ==
  Struct("Mount", 18,
    [ContainerPath |-> Tag(1, Str), HostPath |-> Tag(2, Str),
     ReadOnly |-> Tag(3, Bool)])
DevicePluginV1beta1_DeviceSpec ==
  Struct("DeviceSpec", 19,
    [ContainerPath |-> Tag(1, Str), HostPath |-> Tag(2, Str),
     Permissions |-> Tag(3, Str)])
DevicePluginV1beta1GoTypes ==
  <<DevicePluginV1beta1_DevicePluginOptions,
    DevicePluginV1beta1_RegisterRequest, DevicePluginV1beta1_Empty,
    DevicePluginV1beta1_ListAndWatchResponse,
    DevicePluginV1beta1_TopologyInfo, DevicePluginV1beta1_NUMANode,
    DevicePluginV1beta1_Device, DevicePluginV1beta1_PreStartContainerRequest,
    DevicePluginV1beta1_PreStartContainerResponse,
    DevicePluginV1beta1_PreferredAllocationRequest,
    DevicePluginV1beta1_ContainerPreferredAllocationRequest,
    DevicePluginV1beta1_PreferredAllocationResponse,
    DevicePluginV1beta1_ContainerPreferredAllocationResponse,
    DevicePluginV1beta1_AllocateRequest,
    DevicePluginV1beta1_ContainerAllocateRequest,
    DevicePluginV1beta1_CDIDevice, DevicePluginV1beta1_AllocateResponse,
    DevicePluginV1beta1_ContainerAllocateResponse, DevicePluginV1beta1_Mount,
    DevicePluginV1beta1_DeviceSpec, NilType, NilType>>
DevicePluginV1beta1DepIdxs ==
  <<0, 6, 5, 4, 10, 12, 14, 17, 20, 18, 19, 21, 15, 1, 2, 2, 9, 13, 7, 2, 0,
    3, 11, 16, 8, 19, 13, 13, 13, 0>>
DevicePluginV1beta1 ==
  TypeBuilder(DevicePluginV1beta1Desc, 0, 22, 0, 2,
              DevicePluginV1beta1GoTypes, DevicePluginV1beta1DepIdxs)
-----------------------------------------------------------------------------
\* dra/v1beta1.  The descriptor in the generated file.
DRAV1beta1_NodePrepareResourcesRequestDesc ==
  Message("NodePrepareResourcesRequest", <<Many(1, Msg("Claim"))>>)
DRAV1beta1_NodePrepareResourcesResponseDesc ==
  Message("NodePrepareResourcesResponse",
    <<Many(1, Msg("NodePrepareResourcesResponse.ClaimsEntry"))>>)
DRAV1beta1_NodePrepareResourceResponseDesc ==
  Message("NodePrepareResourceResponse",
    <<Many(1, Msg("Device")), One(2, Str)>>)
DRAV1beta1_DeviceDesc ==
  Message("Device", <<Many(1, Str), One(2, Str), One(3, Str), Many(4, Str)>>)
DRAV1beta1_NodeUnprepareResourcesRequestDesc ==
  Message("NodeUnprepareResourcesRequest", <<Many(1, Msg("Claim"))>>)
DRAV1beta1_NodeUnprepareResourcesResponseDesc ==
  Message("NodeUnprepareResourcesResponse",
    <<Many(1, Msg("NodeUnprepareResourcesResponse.ClaimsEntry"))>>)
DRAV1beta1_NodeUnprepareResourceResponseDesc ==
  Message("NodeUnprepareResourceResponse", <<One(1, Str)>>)
DRAV1beta1_ClaimDesc ==
  Message("Claim", <<One(1, Str), One(2, Str), One(3, Str)>>)
DRAV1beta1_NodePrepareResourcesResponse_ClaimsEntryDesc ==
  Entry("NodePrepareResourcesResponse.ClaimsEntry",
    <<One(1, Str), One(2, Msg("NodePrepareResourceResponse"))>>)
DRAV1beta1_NodeUnprepareResourcesResponse_ClaimsEntryDesc ==
  Entry("NodeUnprepareResourcesResponse.ClaimsEntry",
    <<One(1, Str), One(2, Msg("NodeUnprepareResourceResponse"))>>)
DRAV1beta1Desc ==
  File("k8s.io.kubelet.pkg.apis.dra.v1beta1", <<>>, {},
   <<DRAV1beta1_NodePrepareResourcesRequestDesc,
     DRAV1beta1_NodePrepareResourcesResponseDesc,
     DRAV1beta1_NodePrepareResourceResponseDesc, DRAV1beta1_DeviceDesc,
     DRAV1beta1_NodeUnprepareResourcesRequestDesc,
     DRAV1beta1_NodeUnprepareResourcesResponseDesc,
     DRAV1beta1_NodeUnprepareResourceResponseDesc, DRAV1beta1_ClaimDesc,
     DRAV1beta1_NodePrepareResourcesResponse_ClaimsEntryDesc,
     DRAV1beta1_NodeUnprepareResourcesResponse_ClaimsEntryDesc>>,
   <<Service("DRAPlugin", <<
        Method("NodePrepareResources", "NodePrepareResourcesRequest",
               "NodePrepareResourcesResponse"),
        Method("NodeUnprepareResources", "NodeUnprepareResourcesRequest",
               "NodeUnprepareResourcesResponse")>>)>>)
DRAV1beta1_NodePrepareResourcesRequest ==
  Struct("NodePrepareResourcesRequest", 0,
    [Claims |-> Tag(1, Slice(Ref("Claim")))])
DRAV1beta1_NodePrepareResourcesResponse ==
  Struct("NodePrepareResourcesResponse", 1,
    [Claims |-> Tag(1, MapOf(Str, Ref("NodePrepareResourceResponse")))])
DRAV1beta1_NodePrepareResourceResponse ==
  Struct("NodePrepareResourceResponse", 2,
    [Devices |-> Tag(1, Slice(Ref("Device"))), Error |-> Tag(2, Str)])
DRAV1beta1_Device ==
  Struct("Device", 3,
    [RequestNames |-> Tag(1, Slice(Str)), PoolName |-> Tag(2, Str),
     DeviceName |-> Tag(3, Str), CdiDeviceIds |-> Tag(4, Slice(Str))])
DRAV1beta1_NodeUnprepareResourcesRequest ==
  Struct("NodeUnprepareResourcesRequest", 4,
    [Claims |-> Tag(1, Slice(Ref("Claim")))])
DRAV1beta1_NodeUnprepareResourcesResponse ==
  Struct("NodeUnprepareResourcesResponse", 5,
    [Claims |-> Tag(1, MapOf(Str, Ref("NodeUnprepareResourceResponse")))])
DRAV1beta1_NodeUnprepareResourceResponse ==
  Struct("NodeUnprepareResourceResponse", 6, [Error |-> Tag(1, Str)])
DRAV1beta1_Claim ==
  Struct("Claim", 7,
    [Namespace |-> Tag(1, Str), Uid |-> Tag(2, Str), Name |-> Tag(3, Str)])
DRAV1beta1GoTypes ==
  <<DRAV1beta1_NodePrepareResourcesRequest,
    DRAV1beta1_NodePrepareResourcesResponse,
    DRAV1beta1_NodePrepareResourceResponse, DRAV1beta1_Device,
    DRAV1beta1_NodeUnprepareResourcesRequest,
    DRAV1beta1_NodeUnprepareResourcesResponse,
    DRAV1beta1_NodeUnprepareResourceResponse, DRAV1beta1_Claim, NilType,
    NilType>>
DRAV1beta1DepIdxs == <<7, 8, 3, 7, 9, 2, 6, 0, 4, 1, 5, 9, 7, 7, 7, 0>>
DRAV1beta1 ==
  TypeBuilder(DRAV1beta1Desc, 0, 10, 0, 1,
              DRAV1beta1GoTypes, DRAV1beta1DepIdxs)
-----------------------------------------------------------------------------
\* dra/v1.  The descriptor in the generated file.
DRAV1_NodePrepareResourcesRequestDesc ==
  Message("NodePrepareResourcesRequest", <<Many(1, Msg("Claim"))>>)
DRAV1_NodePrepareResourcesResponseDesc ==
  Message("NodePrepareResourcesResponse",
    <<Many(1, Msg("NodePrepareResourcesResponse.ClaimsEntry"))>>)
DRAV1_NodePrepareResourceResponseDesc ==
  Message("NodePrepareResourceResponse",
    <<Many(1, Msg("Device")), One(2, Str)>>)
DRAV1_DeviceDesc ==
  Message("Device",
    <<Many(1, Str), One(2, Str), One(3, Str), Many(4, Str), Maybe(5, Str)>>)
DRAV1_NodeUnprepareResourcesRequestDesc ==
  Message("NodeUnprepareResourcesRequest", <<Many(1, Msg("Claim"))>>)
DRAV1_NodeUnprepareResourcesResponseDesc ==
  Message("NodeUnprepareResourcesResponse",
    <<Many(1, Msg("NodeUnprepareResourcesResponse.ClaimsEntry"))>>)
DRAV1_NodeUnprepareResourceResponseDesc ==
  Message("NodeUnprepareResourceResponse", <<One(1, Str)>>)
DRAV1_ClaimDesc ==
  Message("Claim", <<One(1, Str), One(2, Str), One(3, Str)>>)
DRAV1_NodePrepareResourcesResponse_ClaimsEntryDesc ==
  Entry("NodePrepareResourcesResponse.ClaimsEntry",
    <<One(1, Str), One(2, Msg("NodePrepareResourceResponse"))>>)
DRAV1_NodeUnprepareResourcesResponse_ClaimsEntryDesc ==
  Entry("NodeUnprepareResourcesResponse.ClaimsEntry",
    <<One(1, Str), One(2, Msg("NodeUnprepareResourceResponse"))>>)
DRAV1Desc ==
  File("k8s.io.kubelet.pkg.apis.dra.v1", <<>>, {},
   <<DRAV1_NodePrepareResourcesRequestDesc,
     DRAV1_NodePrepareResourcesResponseDesc,
     DRAV1_NodePrepareResourceResponseDesc, DRAV1_DeviceDesc,
     DRAV1_NodeUnprepareResourcesRequestDesc,
     DRAV1_NodeUnprepareResourcesResponseDesc,
     DRAV1_NodeUnprepareResourceResponseDesc, DRAV1_ClaimDesc,
     DRAV1_NodePrepareResourcesResponse_ClaimsEntryDesc,
     DRAV1_NodeUnprepareResourcesResponse_ClaimsEntryDesc>>,
   <<Service("DRAPlugin", <<
        Method("NodePrepareResources", "NodePrepareResourcesRequest",
               "NodePrepareResourcesResponse"),
        Method("NodeUnprepareResources", "NodeUnprepareResourcesRequest",
               "NodeUnprepareResourcesResponse")>>)>>)
DRAV1_NodePrepareResourcesRequest ==
  Struct("NodePrepareResourcesRequest", 0,
    [Claims |-> Tag(1, Slice(Ref("Claim")))])
DRAV1_NodePrepareResourcesResponse ==
  Struct("NodePrepareResourcesResponse", 1,
    [Claims |-> Tag(1, MapOf(Str, Ref("NodePrepareResourceResponse")))])
DRAV1_NodePrepareResourceResponse ==
  Struct("NodePrepareResourceResponse", 2,
    [Devices |-> Tag(1, Slice(Ref("Device"))), Error |-> Tag(2, Str)])
DRAV1_Device ==
  Struct("Device", 3,
    [RequestNames |-> Tag(1, Slice(Str)), PoolName |-> Tag(2, Str),
     DeviceName |-> Tag(3, Str), CdiDeviceIds |-> Tag(4, Slice(Str)),
     ShareId |-> Tag(5, Ptr(Str))])
DRAV1_NodeUnprepareResourcesRequest ==
  Struct("NodeUnprepareResourcesRequest", 4,
    [Claims |-> Tag(1, Slice(Ref("Claim")))])
DRAV1_NodeUnprepareResourcesResponse ==
  Struct("NodeUnprepareResourcesResponse", 5,
    [Claims |-> Tag(1, MapOf(Str, Ref("NodeUnprepareResourceResponse")))])
DRAV1_NodeUnprepareResourceResponse ==
  Struct("NodeUnprepareResourceResponse", 6, [Error |-> Tag(1, Str)])
DRAV1_Claim ==
  Struct("Claim", 7,
    [Namespace |-> Tag(1, Str), Uid |-> Tag(2, Str), Name |-> Tag(3, Str)])
DRAV1GoTypes ==
  <<DRAV1_NodePrepareResourcesRequest, DRAV1_NodePrepareResourcesResponse,
    DRAV1_NodePrepareResourceResponse, DRAV1_Device,
    DRAV1_NodeUnprepareResourcesRequest, DRAV1_NodeUnprepareResourcesResponse,
    DRAV1_NodeUnprepareResourceResponse, DRAV1_Claim, NilType, NilType>>
\* Mutant: the values of the two map entries are exchanged.
DRAV1DepIdxsExchanged ==
  <<7, 8, 3, 7, 9, 6, 2, 0, 4, 1, 5, 9, 7, 7, 7, 0>>
DRAV1DepIdxs == <<7, 8, 3, 7, 9, 2, 6, 0, 4, 1, 5, 9, 7, 7, 7, 0>>
DRAV1 ==
  TypeBuilder(DRAV1Desc, 0, 10, 0, 1,
              DRAV1GoTypes, DRAV1DepIdxs)
-----------------------------------------------------------------------------
\* dra-health/v1alpha1.  The descriptor in the generated file.
DRAHealthV1alpha1_NodeWatchResourcesRequestDesc ==
  Message("NodeWatchResourcesRequest", <<>>)
DRAHealthV1alpha1_DeviceIdentifierDesc ==
  Message("DeviceIdentifier", <<One(1, Str), One(2, Str)>>)
DRAHealthV1alpha1_DeviceHealthDesc ==
  Message("DeviceHealth",
    <<One(1, Msg("DeviceIdentifier")), One(2, Enum("HealthStatus")),
      One(3, Int64), One(4, Int64), One(5, Str)>>)
DRAHealthV1alpha1_NodeWatchResourcesResponseDesc ==
  Message("NodeWatchResourcesResponse", <<Many(1, Msg("DeviceHealth"))>>)
DRAHealthV1alpha1Desc ==
  File("v1alpha1", <<"HealthStatus">>,
   {"UNKNOWN", "HEALTHY", "UNHEALTHY"},
   <<DRAHealthV1alpha1_NodeWatchResourcesRequestDesc,
     DRAHealthV1alpha1_DeviceIdentifierDesc,
     DRAHealthV1alpha1_DeviceHealthDesc,
     DRAHealthV1alpha1_NodeWatchResourcesResponseDesc>>,
   <<Service("DRAResourceHealth", <<
        Method("NodeWatchResources", "NodeWatchResourcesRequest",
               "NodeWatchResourcesResponse")>>)>>)
DRAHealthV1alpha1_HealthStatus == EnumType("HealthStatus", 0)
DRAHealthV1alpha1_NodeWatchResourcesRequest ==
  Struct("NodeWatchResourcesRequest", 0, NoFields)
DRAHealthV1alpha1_DeviceIdentifier ==
  Struct("DeviceIdentifier", 1,
    [PoolName |-> Tag(1, Str), DeviceName |-> Tag(2, Str)])
DRAHealthV1alpha1_DeviceHealth ==
  Struct("DeviceHealth", 2,
    [Device |-> Tag(1, Ref("DeviceIdentifier")),
     Health |-> Tag(2, Enum("HealthStatus")),
     LastUpdatedTime |-> Tag(3, Int64),
     HealthCheckTimeoutSeconds |-> Tag(4, Int64), Message |-> Tag(5, Str)])
DRAHealthV1alpha1_NodeWatchResourcesResponse ==
  Struct("NodeWatchResourcesResponse", 3,
    [Devices |-> Tag(1, Slice(Ref("DeviceHealth")))])
DRAHealthV1alpha1GoTypes ==
  <<DRAHealthV1alpha1_HealthStatus,
    DRAHealthV1alpha1_NodeWatchResourcesRequest,
    DRAHealthV1alpha1_DeviceIdentifier, DRAHealthV1alpha1_DeviceHealth,
    DRAHealthV1alpha1_NodeWatchResourcesResponse>>
DRAHealthV1alpha1DepIdxs == <<2, 0, 3, 1, 4, 4, 3, 3, 3, 0>>
\* Mutant: a value of its enum has the name of one of pods/v1alpha1's.
DRAHealthV1alpha1Renamed ==
  TypeBuilder([DRAHealthV1alpha1Desc EXCEPT
                !.values = {"UNSPECIFIED", "HEALTHY", "UNHEALTHY"}], 1, 4, 0, 1,
              DRAHealthV1alpha1GoTypes, DRAHealthV1alpha1DepIdxs)
DRAHealthV1alpha1 ==
  TypeBuilder(DRAHealthV1alpha1Desc, 1, 4, 0, 1,
              DRAHealthV1alpha1GoTypes, DRAHealthV1alpha1DepIdxs)
-----------------------------------------------------------------------------
\* pluginregistration/v1alpha1.  The descriptor in the generated file.
PluginRegistrationV1alpha1_PluginInfoDesc ==
  Message("PluginInfo",
    <<One(1, Str), One(2, Str), One(3, Str), Many(4, Str)>>)
PluginRegistrationV1alpha1_RegistrationStatusDesc ==
  Message("RegistrationStatus", <<One(1, Bool), One(2, Str)>>)
PluginRegistrationV1alpha1_RegistrationStatusResponseDesc ==
  Message("RegistrationStatusResponse", <<>>)
PluginRegistrationV1alpha1_InfoRequestDesc == Message("InfoRequest", <<>>)
PluginRegistrationV1alpha1Desc ==
  File("pluginregistration", <<>>, {},
   <<PluginRegistrationV1alpha1_PluginInfoDesc,
     PluginRegistrationV1alpha1_RegistrationStatusDesc,
     PluginRegistrationV1alpha1_RegistrationStatusResponseDesc,
     PluginRegistrationV1alpha1_InfoRequestDesc>>,
   <<Service("Registration", <<
        Method("GetInfo", "InfoRequest", "PluginInfo"),
        Method("NotifyRegistrationStatus", "RegistrationStatus",
               "RegistrationStatusResponse")>>)>>)
PluginRegistrationV1alpha1_PluginInfo ==
  Struct("PluginInfo", 0,
    [Type |-> Tag(1, Str), Name |-> Tag(2, Str), Endpoint |-> Tag(3, Str),
     SupportedVersions |-> Tag(4, Slice(Str))])
PluginRegistrationV1alpha1_RegistrationStatus ==
  Struct("RegistrationStatus", 1,
    [PluginRegistered |-> Tag(1, Bool), Error |-> Tag(2, Str)])
PluginRegistrationV1alpha1_RegistrationStatusResponse ==
  Struct("RegistrationStatusResponse", 2, NoFields)
PluginRegistrationV1alpha1_InfoRequest == Struct("InfoRequest", 3, NoFields)
PluginRegistrationV1alpha1GoTypes ==
  <<PluginRegistrationV1alpha1_PluginInfo,
    PluginRegistrationV1alpha1_RegistrationStatus,
    PluginRegistrationV1alpha1_RegistrationStatusResponse,
    PluginRegistrationV1alpha1_InfoRequest>>
PluginRegistrationV1alpha1DepIdxs == <<3, 1, 0, 2, 2, 0, 0, 0, 0>>
PluginRegistrationV1alpha1 ==
  TypeBuilder(PluginRegistrationV1alpha1Desc, 0, 4, 0, 1,
              PluginRegistrationV1alpha1GoTypes,
              PluginRegistrationV1alpha1DepIdxs)
-----------------------------------------------------------------------------
\* pluginregistration/v1beta1.  The descriptor in the generated file.
PluginRegistrationV1beta1_PluginInfoDesc ==
  Message("PluginInfo",
    <<One(1, Str), One(2, Str), One(3, Str), Many(4, Str)>>)
PluginRegistrationV1beta1_RegistrationStatusDesc ==
  Message("RegistrationStatus", <<One(1, Bool), One(2, Str)>>)
PluginRegistrationV1beta1_RegistrationStatusResponseDesc ==
  Message("RegistrationStatusResponse", <<>>)
PluginRegistrationV1beta1_InfoRequestDesc == Message("InfoRequest", <<>>)
PluginRegistrationV1beta1Desc ==
  File("pluginregistration", <<>>, {},
   <<PluginRegistrationV1beta1_PluginInfoDesc,
     PluginRegistrationV1beta1_RegistrationStatusDesc,
     PluginRegistrationV1beta1_RegistrationStatusResponseDesc,
     PluginRegistrationV1beta1_InfoRequestDesc>>,
   <<Service("Registration", <<
        Method("GetInfo", "InfoRequest", "PluginInfo"),
        Method("NotifyRegistrationStatus", "RegistrationStatus",
               "RegistrationStatusResponse")>>)>>)
\* Mutant: one version numbers two fields the other way round.
PluginRegistrationV1beta1_PluginInfoRenumbered ==
  Struct("PluginInfo", 0,
    [Type |-> Tag(1, Str), Name |-> Tag(3, Str), Endpoint |-> Tag(2, Str),
     SupportedVersions |-> Tag(4, Slice(Str))])
PluginRegistrationV1beta1_PluginInfo ==
  Struct("PluginInfo", 0,
    [Type |-> Tag(1, Str), Name |-> Tag(2, Str), Endpoint |-> Tag(3, Str),
     SupportedVersions |-> Tag(4, Slice(Str))])
PluginRegistrationV1beta1_RegistrationStatus ==
  Struct("RegistrationStatus", 1,
    [PluginRegistered |-> Tag(1, Bool), Error |-> Tag(2, Str)])
PluginRegistrationV1beta1_RegistrationStatusResponse ==
  Struct("RegistrationStatusResponse", 2, NoFields)
PluginRegistrationV1beta1_InfoRequest == Struct("InfoRequest", 3, NoFields)
PluginRegistrationV1beta1GoTypes ==
  <<PluginRegistrationV1beta1_PluginInfo,
    PluginRegistrationV1beta1_RegistrationStatus,
    PluginRegistrationV1beta1_RegistrationStatusResponse,
    PluginRegistrationV1beta1_InfoRequest>>
PluginRegistrationV1beta1DepIdxs == <<3, 1, 0, 2, 2, 0, 0, 0, 0>>
PluginRegistrationV1beta1 ==
  TypeBuilder(PluginRegistrationV1beta1Desc, 0, 4, 0, 1,
              PluginRegistrationV1beta1GoTypes,
              PluginRegistrationV1beta1DepIdxs)
-----------------------------------------------------------------------------
\* pluginregistration/v1.  The descriptor in the generated file.
PluginRegistrationV1_PluginInfoDesc ==
  Message("PluginInfo",
    <<One(1, Str), One(2, Str), One(3, Str), Many(4, Str)>>)
PluginRegistrationV1_RegistrationStatusDesc ==
  Message("RegistrationStatus", <<One(1, Bool), One(2, Str)>>)
PluginRegistrationV1_RegistrationStatusResponseDesc ==
  Message("RegistrationStatusResponse", <<>>)
PluginRegistrationV1_InfoRequestDesc == Message("InfoRequest", <<>>)
PluginRegistrationV1Desc ==
  File("pluginregistration", <<>>, {},
   <<PluginRegistrationV1_PluginInfoDesc,
     PluginRegistrationV1_RegistrationStatusDesc,
     PluginRegistrationV1_RegistrationStatusResponseDesc,
     PluginRegistrationV1_InfoRequestDesc>>,
   <<Service("Registration", <<
        Method("GetInfo", "InfoRequest", "PluginInfo"),
        Method("NotifyRegistrationStatus", "RegistrationStatus",
               "RegistrationStatusResponse")>>)>>)
PluginRegistrationV1_PluginInfo ==
  Struct("PluginInfo", 0,
    [Type |-> Tag(1, Str), Name |-> Tag(2, Str), Endpoint |-> Tag(3, Str),
     SupportedVersions |-> Tag(4, Slice(Str))])
PluginRegistrationV1_RegistrationStatus ==
  Struct("RegistrationStatus", 1,
    [PluginRegistered |-> Tag(1, Bool), Error |-> Tag(2, Str)])
PluginRegistrationV1_RegistrationStatusResponse ==
  Struct("RegistrationStatusResponse", 2, NoFields)
PluginRegistrationV1_InfoRequest == Struct("InfoRequest", 3, NoFields)
PluginRegistrationV1GoTypes ==
  <<PluginRegistrationV1_PluginInfo, PluginRegistrationV1_RegistrationStatus,
    PluginRegistrationV1_RegistrationStatusResponse,
    PluginRegistrationV1_InfoRequest>>
PluginRegistrationV1DepIdxs == <<3, 1, 0, 2, 2, 0, 0, 0, 0>>
PluginRegistrationV1 ==
  TypeBuilder(PluginRegistrationV1Desc, 0, 4, 0, 1,
              PluginRegistrationV1GoTypes, PluginRegistrationV1DepIdxs)
=============================================================================
