------------------------------ MODULE PodDecls ------------------------------
(***************************************************************************)
(* The message files of the APIs in which the kubelet tells of its pods.   *)
(***************************************************************************)
EXTENDS ProtoDecls

-----------------------------------------------------------------------------
\* podresources/v1alpha1.  The descriptor in the generated file.
PodResourcesV1alpha1_ListPodResourcesRequestDesc ==
  Message("ListPodResourcesRequest", <<>>)
PodResourcesV1alpha1_ListPodResourcesResponseDesc ==
  Message("ListPodResourcesResponse", <<Many(1, Msg("PodResources"))>>)
PodResourcesV1alpha1_PodResourcesDesc ==
  Message("PodResources",
    <<One(1, Str), One(2, Str), Many(3, Msg("ContainerResources"))>>)
PodResourcesV1alpha1_ContainerResourcesDesc ==
  Message("ContainerResources",
    <<One(1, Str), Many(2, Msg("ContainerDevices"))>>)
PodResourcesV1alpha1_ContainerDevicesDesc ==
  Message("ContainerDevices", <<One(1, Str), Many(2, Str)>>)
PodResourcesV1alpha1Desc ==
  File("v1alpha1", <<>>, {},
   <<PodResourcesV1alpha1_ListPodResourcesRequestDesc,
     PodResourcesV1alpha1_ListPodResourcesResponseDesc,
     PodResourcesV1alpha1_PodResourcesDesc,
     PodResourcesV1alpha1_ContainerResourcesDesc,
     PodResourcesV1alpha1_ContainerDevicesDesc>>,
   <<Service("PodResourcesLister", <<
        Method("List", "ListPodResourcesRequest",
               "ListPodResourcesResponse")>>)>>)
PodResourcesV1alpha1_ListPodResourcesRequest ==
  Struct("ListPodResourcesRequest", 0, NoFields)
PodResourcesV1alpha1_ListPodResourcesResponse ==
  Struct("ListPodResourcesResponse", 1,
    [PodResources |-> Tag(1, Slice(Ref("PodResources")))])
PodResourcesV1alpha1_PodResources ==
  Struct("PodResources", 2,
    [Name |-> Tag(1, Str), Namespace |-> Tag(2, Str),
     Containers |-> Tag(3, Slice(Ref("ContainerResources")))])
PodResourcesV1alpha1_ContainerResources ==
  Struct("ContainerResources", 3,
    [Name |-> Tag(1, Str),
     Devices |-> Tag(2, Slice(Ref("ContainerDevices")))])
PodResourcesV1alpha1_ContainerDevices ==
  Struct("ContainerDevices", 4,
    [ResourceName |-> Tag(1, Str), DeviceIds |-> Tag(2, Slice(Str))])
PodResourcesV1alpha1GoTypes ==
  <<PodResourcesV1alpha1_ListPodResourcesRequest,
    PodResourcesV1alpha1_ListPodResourcesResponse,
    PodResourcesV1alpha1_PodResources,
    PodResourcesV1alpha1_ContainerResources,
    PodResourcesV1alpha1_ContainerDevices>>
PodResourcesV1alpha1DepIdxs == <<2, 3, 4, 0, 1, 4, 3, 3, 3, 0>>
PodResourcesV1alpha1 ==
  TypeBuilder(PodResourcesV1alpha1Desc, 0, 5, 0, 1,
              PodResourcesV1alpha1GoTypes, PodResourcesV1alpha1DepIdxs)
-----------------------------------------------------------------------------
\* podresources/v1.  The descriptor in the generated file.
PodResourcesV1_AllocatableResourcesRequestDesc ==
  Message("AllocatableResourcesRequest", <<>>)
PodResourcesV1_AllocatableResourcesResponseDesc ==
  Message("AllocatableResourcesResponse",
    <<Many(1, Msg("ContainerDevices")), Many(2, Int64),
      Many(3, Msg("ContainerMemory"))>>)
PodResourcesV1_ListPodResourcesRequestDesc ==
  Message("ListPodResourcesRequest", <<>>)
PodResourcesV1_ListPodResourcesResponseDesc ==
  Message("ListPodResourcesResponse", <<Many(1, Msg("PodResources"))>>)
PodResourcesV1_PodResourcesDesc ==
  Message("PodResources",
    <<One(1, Str), One(2, Str), Many(3, Msg("ContainerResources"))>>)
PodResourcesV1_ContainerResourcesDesc ==
  Message("ContainerResources",
    <<One(1, Str), Many(2, Msg("ContainerDevices")), Many(3, Int64),
      Many(4, Msg("ContainerMemory")), Many(5, Msg("DynamicResource"))>>)
PodResourcesV1_ContainerMemoryDesc ==
  Message("ContainerMemory",
    <<One(1, Str), One(2, Uint64), One(3, Msg("TopologyInfo"))>>)
PodResourcesV1_ContainerDevicesDesc ==
  Message("ContainerDevices",
    <<One(1, Str), Many(2, Str), One(3, Msg("TopologyInfo"))>>)
PodResourcesV1_TopologyInfoDesc ==
  Message("TopologyInfo", <<Many(1, Msg("NUMANode"))>>)
PodResourcesV1_NUMANodeDesc == Message("NUMANode", <<One(1, Int64)>>)
PodResourcesV1_DynamicResourceDesc ==
  Message("DynamicResource",
    <<One(2, Str), One(3, Str), Many(4, Msg("ClaimResource"))>>)
PodResourcesV1_ClaimResourceDesc ==
  Message("ClaimResource",
    <<Many(1, Msg("CDIDevice")), One(2, Str), One(3, Str), One(4, Str),
      Maybe(5, Str)>>)
PodResourcesV1_CDIDeviceDesc == Message("CDIDevice", <<One(1, Str)>>)
PodResourcesV1_GetPodResourcesRequestDesc ==
  Message("GetPodResourcesRequest", <<One(1, Str), One(2, Str)>>)
PodResourcesV1_GetPodResourcesResponseDesc ==
  Message("GetPodResourcesResponse", <<One(1, Msg("PodResources"))>>)
PodResourcesV1Desc ==
  File("v1", <<>>, {},
   <<PodResourcesV1_AllocatableResourcesRequestDesc,
     PodResourcesV1_AllocatableResourcesResponseDesc,
     PodResourcesV1_ListPodResourcesRequestDesc,
     PodResourcesV1_ListPodResourcesResponseDesc,
     PodResourcesV1_PodResourcesDesc, PodResourcesV1_ContainerResourcesDesc,
     PodResourcesV1_ContainerMemoryDesc, PodResourcesV1_ContainerDevicesDesc,
     PodResourcesV1_TopologyInfoDesc, PodResourcesV1_NUMANodeDesc,
     PodResourcesV1_DynamicResourceDesc, PodResourcesV1_ClaimResourceDesc,
     PodResourcesV1_CDIDeviceDesc, PodResourcesV1_GetPodResourcesRequestDesc,
     PodResourcesV1_GetPodResourcesResponseDesc>>,
   <<Service("PodResourcesLister", <<
        Method("List", "ListPodResourcesRequest", "ListPodResourcesResponse"),
        Method("GetAllocatableResources", "AllocatableResourcesRequest",
               "AllocatableResourcesResponse"),
        Method("Get", "GetPodResourcesRequest", "GetPodResourcesResponse")>>)>>)
PodResourcesV1_AllocatableResourcesRequest ==
  Struct("AllocatableResourcesRequest", 0, NoFields)
PodResourcesV1_AllocatableResourcesResponse ==
  Struct("AllocatableResourcesResponse", 1,
    [Devices |-> Tag(1, Slice(Ref("ContainerDevices"))),
     CpuIds |-> Tag(2, Slice(Int64)),
     Memory |-> Tag(3, Slice(Ref("ContainerMemory")))])
PodResourcesV1_ListPodResourcesRequest ==
  Struct("ListPodResourcesRequest", 2, NoFields)
PodResourcesV1_ListPodResourcesResponse ==
  Struct("ListPodResourcesResponse", 3,
    [PodResources |-> Tag(1, Slice(Ref("PodResources")))])
PodResourcesV1_PodResources ==
  Struct("PodResources", 4,
    [Name |-> Tag(1, Str), Namespace |-> Tag(2, Str),
     Containers |-> Tag(3, Slice(Ref("ContainerResources")))])
PodResourcesV1_ContainerResources ==
  Struct("ContainerResources", 5,
    [Name |-> Tag(1, Str), Devices |-> Tag(2, Slice(Ref("ContainerDevices"))),
     CpuIds |-> Tag(3, Slice(Int64)),
     Memory |-> Tag(4, Slice(Ref("ContainerMemory"))),
     DynamicResources |-> Tag(5, Slice(Ref("DynamicResource")))])
PodResourcesV1_ContainerMemory ==
  Struct("ContainerMemory", 6,
    [MemoryType |-> Tag(1, Str), Size |-> Tag(2, Uint64),
     Topology |-> Tag(3, Ref("TopologyInfo"))])
PodResourcesV1_ContainerDevices ==
  Struct("ContainerDevices", 7,
    [ResourceName |-> Tag(1, Str), DeviceIds |-> Tag(2, Slice(Str)),
     Topology |-> Tag(3, Ref("TopologyInfo"))])
PodResourcesV1_TopologyInfo ==
  Struct("TopologyInfo", 8, [Nodes |-> Tag(1, Slice(Ref("NUMANode")))])
PodResourcesV1_NUMANode == Struct("NUMANode", 9, [ID |-> Tag(1, Int64)])
PodResourcesV1_DynamicResource ==
  Struct("DynamicResource", 10,
    [ClaimName |-> Tag(2, Str), ClaimNamespace |-> Tag(3, Str),
     ClaimResources |-> Tag(4, Slice(Ref("ClaimResource")))])
PodResourcesV1_ClaimResource ==
  Struct("ClaimResource", 11,
    [CdiDevices |-> Tag(1, Slice(Ref("CDIDevice"))),
     DriverName |-> Tag(2, Str), PoolName |-> Tag(3, Str),
     DeviceName |-> Tag(4, Str), ShareId |-> Tag(5, Ptr(Str))])
PodResourcesV1_CDIDevice == Struct("CDIDevice", 12, [Name |-> Tag(1, Str)])
PodResourcesV1_GetPodResourcesRequest ==
  Struct("GetPodResourcesRequest", 13,
    [PodName |-> Tag(1, Str), PodNamespace |-> Tag(2, Str)])
PodResourcesV1_GetPodResourcesResponse ==
  Struct("GetPodResourcesResponse", 14,
    [PodResources |-> Tag(1, Ref("PodResources"))])
PodResourcesV1GoTypes ==
  <<PodResourcesV1_AllocatableResourcesRequest,
    PodResourcesV1_AllocatableResourcesResponse,
    PodResourcesV1_ListPodResourcesRequest,
    PodResourcesV1_ListPodResourcesResponse, PodResourcesV1_PodResources,
    PodResourcesV1_ContainerResources, PodResourcesV1_ContainerMemory,
    PodResourcesV1_ContainerDevices, PodResourcesV1_TopologyInfo,
    PodResourcesV1_NUMANode, PodResourcesV1_DynamicResource,
    PodResourcesV1_ClaimResource, PodResourcesV1_CDIDevice,
    PodResourcesV1_GetPodResourcesRequest,
    PodResourcesV1_GetPodResourcesResponse>>
PodResourcesV1DepIdxs ==
  <<7, 6, 4, 5, 7, 6, 10, 8, 8, 9, 11, 12, 4, 2, 0, 13, 3, 1, 14, 16, 13, 13,
    13, 0>>
PodResourcesV1 ==
  TypeBuilder(PodResourcesV1Desc, 0, 15, 0, 1,
              PodResourcesV1GoTypes, PodResourcesV1DepIdxs)
-----------------------------------------------------------------------------
\* pods/v1alpha1.  The descriptor in the generated file.
PodsV1alpha1_WatchPodsEventDesc ==
  Message("WatchPodsEvent", <<One(1, Enum("EventType")), One(2, Bytes)>>)
PodsV1alpha1_ListPodsResponseDesc ==
  Message("ListPodsResponse", <<Many(1, Bytes)>>)
PodsV1alpha1_GetPodResponseDesc ==
  Message("GetPodResponse", <<One(1, Bytes)>>)
PodsV1alpha1_WatchPodsRequestDesc == Message("WatchPodsRequest", <<>>)
PodsV1alpha1_ListPodsRequestDesc == Message("ListPodsRequest", <<>>)
PodsV1alpha1_GetPodRequestDesc == Message("GetPodRequest", <<One(1, Str)>>)
PodsV1alpha1Desc ==
  File("v1alpha1", <<"EventType">>,
   {"UNSPECIFIED", "ADDED", "MODIFIED", "DELETED", "INITIAL_SYNC_COMPLETE"},
   <<PodsV1alpha1_WatchPodsEventDesc, PodsV1alpha1_ListPodsResponseDesc,
     PodsV1alpha1_GetPodResponseDesc, PodsV1alpha1_WatchPodsRequestDesc,
     PodsV1alpha1_ListPodsRequestDesc, PodsV1alpha1_GetPodRequestDesc>>,
   <<Service("Pods", <<
        Method("WatchPods", "WatchPodsRequest", "WatchPodsEvent"),
        Method("ListPods", "ListPodsRequest", "ListPodsResponse"),
        Method("GetPod", "GetPodRequest", "GetPodResponse")>>)>>)
PodsV1alpha1_EventType == EnumType("EventType", 0)
PodsV1alpha1_WatchPodsEvent ==
  Struct("WatchPodsEvent", 0,
    [Type |-> Tag(1, Enum("EventType")), Pod |-> Tag(2, Bytes)])
PodsV1alpha1_ListPodsResponse ==
  Struct("ListPodsResponse", 1, [Pods |-> Tag(1, Slice(Bytes))])
PodsV1alpha1_GetPodResponse ==
  Struct("GetPodResponse", 2, [Pod |-> Tag(1, Bytes)])
PodsV1alpha1_WatchPodsRequest == Struct("WatchPodsRequest", 3, NoFields)
PodsV1alpha1_ListPodsRequest == Struct("ListPodsRequest", 4, NoFields)
PodsV1alpha1_GetPodRequest ==
  Struct("GetPodRequest", 5, [PodUID |-> Tag(1, Str)])
PodsV1alpha1GoTypes ==
  <<PodsV1alpha1_EventType, PodsV1alpha1_WatchPodsEvent,
    PodsV1alpha1_ListPodsResponse, PodsV1alpha1_GetPodResponse,
    PodsV1alpha1_WatchPodsRequest, PodsV1alpha1_ListPodsRequest,
    PodsV1alpha1_GetPodRequest>>
PodsV1alpha1DepIdxs == <<0, 4, 5, 6, 1, 2, 3, 4, 1, 1, 1, 0>>
PodsV1alpha1 ==
  TypeBuilder(PodsV1alpha1Desc, 1, 6, 0, 1,
              PodsV1alpha1GoTypes, PodsV1alpha1DepIdxs)
=============================================================================
