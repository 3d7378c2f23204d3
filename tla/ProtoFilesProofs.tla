-------------------------- MODULE ProtoFilesProofs --------------------------
(***************************************************************************)
(* Programs linked from the generated message files, whatever they are     *)
(* linked from and however many of them run:                               *)
(*                                                                         *)
(*  OnlyVersionsClash    nothing but two versions of the registration API  *)
(*                       makes the start panic;                            *)
(*  TypesAlwaysFit       in a running program descriptor, Go types and     *)
(*                       depIdxs of every file agree;                      *)
(*  MessagesArriveWhole  what one program sets and sends is what another   *)
(*                       one reads.                                        *)
(*                                                                         *)
(* The last two rest on the tables of the files, which are gone through    *)
(* one by one.  What has to be found in a file's tables is Fits(g, deps, *)
(* methods, maps), where deps lists the fields that take an index and      *)
(* methods the methods, in the order of depIdxs, and maps has the Go types *)
(* of map fields.  For a file F, lemma FFits shows it.  Its steps 1 and 2  *)
(* open the descriptor and goTypes, 3 and 3a depIdxs; step m<i> compares   *)
(* the i-th message with its Go type, d<x> and s<x> follow the indices of  *)
(* the x-th field and method to the message or enum that was meant.        *)
(***************************************************************************)
EXTENDS ProtoFiles, FiniteSetTheorems, TLAPS

-----------------------------------------------------------------------------
(* Types.                                                                  *)

LEMMA InitTypes == Init => TypeOK
<1> SUFFICES ASSUME Init PROVE TypeOK
  OBVIOUS
<1>1. links \in [Processes -> SUBSET Packages]
  <2>1. links \in [Processes -> UNION {Links[p] : p \in Processes}]
    BY DEF Init
  <2>2. \A p \in Processes : links[p] \in Links[p]
    BY DEF Init
  <2>3. \A p \in Processes : Links[p] \subseteq SUBSET Packages
    BY LinksAssumption
  <2> QED BY <2>1, <2>2, <2>3
<1> QED BY <1>1 DEF Init, TypeOK

LEMMA NextTypes == TypeOK /\ [Next]_vars => TypeOK'
<1> SUFFICES ASSUME TypeOK, [Next]_vars PROVE TypeOK'
  OBVIOUS
<1> USE DEF TypeOK
<1>1. ASSUME NEW p \in Processes, NEW k \in links[p], InitFile(p, k)
      PROVE  TypeOK'
  BY <1>1 DEF InitFile
<1>2. ASSUME NEW p \in Processes, Main(p) PROVE TypeOK'
  BY <1>2 DEF Main
<1>3. ASSUME NEW p \in Processes, NEW k \in files[p], NEW e \in Ends[k],
             Send(p, k, e) \/ Receive(p, k, e)
      PROVE  TypeOK'
  BY <1>3 DEF Send, Receive
<1>4. CASE Forget
  BY <1>4 DEF Forget
<1>5. CASE UNCHANGED vars
  BY <1>5 DEF vars
<1> QED BY <1>1, <1>2, <1>3, <1>4, <1>5 DEF Next

\* Types, for the proofs below: no file is there that is not linked, and main
\* runs, as Go promises, after the init functions of all of them.
THEOREM Types == Spec => []TypeOK
BY InitTypes, NextTypes, PTL DEF Spec

-----------------------------------------------------------------------------
(* Names.                                                                  *)

LEMMA PackagesAre ==
  Packages =
    {"DevicePluginV1alpha", "DevicePluginV1beta1", "DRAV1beta1", "DRAV1",
     "DRAHealthV1alpha1", "PluginRegistrationV1alpha1",
     "PluginRegistrationV1beta1", "PluginRegistrationV1",
     "PodResourcesV1alpha1", "PodResourcesV1", "PodsV1alpha1"}
  BY DEF Packages, GoFile

LEMMA GoFileIs ==
  /\ GoFile["DevicePluginV1alpha"] = DevicePluginV1alpha
  /\ GoFile["DevicePluginV1beta1"] = DevicePluginV1beta1
  /\ GoFile["DRAV1beta1"] = DRAV1beta1
  /\ GoFile["DRAV1"] = DRAV1
  /\ GoFile["DRAHealthV1alpha1"] = DRAHealthV1alpha1
  /\ GoFile["PluginRegistrationV1alpha1"] = PluginRegistrationV1alpha1
  /\ GoFile["PluginRegistrationV1beta1"] = PluginRegistrationV1beta1
  /\ GoFile["PluginRegistrationV1"] = PluginRegistrationV1
  /\ GoFile["PodResourcesV1alpha1"] = PodResourcesV1alpha1
  /\ GoFile["PodResourcesV1"] = PodResourcesV1
  /\ GoFile["PodsV1alpha1"] = PodsV1alpha1
  BY DEF GoFile

\* The three versions of the registration API say the same.
LEMMA RegistrationVersionsAgree ==
  \A v, w \in RegistrationPackages : GoFile[v] = GoFile[w]
<1>1. PluginRegistrationV1alpha1 = PluginRegistrationV1
  BY DEF PluginRegistrationV1alpha1, PluginRegistrationV1alpha1Desc,
         PluginRegistrationV1alpha1GoTypes, PluginRegistrationV1alpha1DepIdxs,
         PluginRegistrationV1alpha1_PluginInfoDesc,
         PluginRegistrationV1alpha1_RegistrationStatusDesc,
         PluginRegistrationV1alpha1_RegistrationStatusResponseDesc,
         PluginRegistrationV1alpha1_InfoRequestDesc,
         PluginRegistrationV1alpha1_PluginInfo,
         PluginRegistrationV1alpha1_RegistrationStatus,
         PluginRegistrationV1alpha1_RegistrationStatusResponse,
         PluginRegistrationV1alpha1_InfoRequest,
         PluginRegistrationV1, PluginRegistrationV1Desc,
         PluginRegistrationV1GoTypes, PluginRegistrationV1DepIdxs,
         PluginRegistrationV1_PluginInfoDesc,
         PluginRegistrationV1_RegistrationStatusDesc,
         PluginRegistrationV1_RegistrationStatusResponseDesc,
         PluginRegistrationV1_InfoRequestDesc,
         PluginRegistrationV1_PluginInfo,
         PluginRegistrationV1_RegistrationStatus,
         PluginRegistrationV1_RegistrationStatusResponse,
         PluginRegistrationV1_InfoRequest
<1>2. PluginRegistrationV1beta1 = PluginRegistrationV1
  BY DEF PluginRegistrationV1beta1, PluginRegistrationV1beta1Desc,
         PluginRegistrationV1beta1GoTypes, PluginRegistrationV1beta1DepIdxs,
         PluginRegistrationV1beta1_PluginInfoDesc,
         PluginRegistrationV1beta1_RegistrationStatusDesc,
         PluginRegistrationV1beta1_RegistrationStatusResponseDesc,
         PluginRegistrationV1beta1_InfoRequestDesc,
         PluginRegistrationV1beta1_PluginInfo,
         PluginRegistrationV1beta1_RegistrationStatus,
         PluginRegistrationV1beta1_RegistrationStatusResponse,
         PluginRegistrationV1beta1_InfoRequest,
         PluginRegistrationV1, PluginRegistrationV1Desc,
         PluginRegistrationV1GoTypes, PluginRegistrationV1DepIdxs,
         PluginRegistrationV1_PluginInfoDesc,
         PluginRegistrationV1_RegistrationStatusDesc,
         PluginRegistrationV1_RegistrationStatusResponseDesc,
         PluginRegistrationV1_InfoRequestDesc,
         PluginRegistrationV1_PluginInfo,
         PluginRegistrationV1_RegistrationStatus,
         PluginRegistrationV1_RegistrationStatusResponse,
         PluginRegistrationV1_InfoRequest
<1> QED BY <1>1, <1>2, GoFileIs DEF RegistrationPackages

LEMMA AllCountsMatch == \A k \in Packages : CountsMatch(GoFile[k])
<1> USE DEF CountsMatch, Enums, Messages, TypeBuilder, File
<1>1. CountsMatch(DevicePluginV1alpha)
  BY DEF DevicePluginV1alpha, DevicePluginV1alphaDesc
<1>2. CountsMatch(DevicePluginV1beta1)
  BY DEF DevicePluginV1beta1, DevicePluginV1beta1Desc
<1>3. CountsMatch(DRAV1beta1)
  BY DEF DRAV1beta1, DRAV1beta1Desc
<1>4. CountsMatch(DRAV1)
  BY DEF DRAV1, DRAV1Desc
<1>5. CountsMatch(DRAHealthV1alpha1)
  BY DEF DRAHealthV1alpha1, DRAHealthV1alpha1Desc
<1>6. CountsMatch(PluginRegistrationV1)
  BY DEF PluginRegistrationV1, PluginRegistrationV1Desc
<1>7. CountsMatch(PodResourcesV1alpha1)
  BY DEF PodResourcesV1alpha1, PodResourcesV1alpha1Desc
<1>8. CountsMatch(PodResourcesV1)
  BY DEF PodResourcesV1, PodResourcesV1Desc
<1>9. CountsMatch(PodsV1alpha1)
  BY DEF PodsV1alpha1, PodsV1alpha1Desc
<1> HIDE DEF CountsMatch
<1>10. \A v \in RegistrationPackages : GoFile[v] = PluginRegistrationV1
  BY RegistrationVersionsAgree, GoFileIs DEF RegistrationPackages
<1> QED BY <1>1, <1>2, <1>3, <1>4, <1>5, <1>6, <1>7, <1>8, <1>9, <1>10,
           PackagesAre, GoFileIs DEF RegistrationPackages

\* The protobuf package of each file.
ProtoPackage ==
  [DevicePluginV1alpha |-> "deviceplugin",
   DevicePluginV1beta1 |-> "v1beta1",
   DRAV1beta1 |-> "k8s.io.kubelet.pkg.apis.dra.v1beta1",
   DRAV1 |-> "k8s.io.kubelet.pkg.apis.dra.v1",
   DRAHealthV1alpha1 |-> "v1alpha1",
   PluginRegistrationV1alpha1 |-> "pluginregistration",
   PluginRegistrationV1beta1 |-> "pluginregistration",
   PluginRegistrationV1 |-> "pluginregistration",
   PodResourcesV1alpha1 |-> "v1alpha1",
   PodResourcesV1 |-> "v1",
   PodsV1alpha1 |-> "v1alpha1"]

LEMMA ProtoPackages ==
  \A k \in Packages : GoFile[k].desc.package = ProtoPackage[k]
<1> USE DEF TypeBuilder, File
<1>1. DevicePluginV1alpha.desc.package = "deviceplugin"
  BY DEF DevicePluginV1alpha, DevicePluginV1alphaDesc
<1>2. DevicePluginV1beta1.desc.package = "v1beta1"
  BY DEF DevicePluginV1beta1, DevicePluginV1beta1Desc
<1>3. DRAV1beta1.desc.package = "k8s.io.kubelet.pkg.apis.dra.v1beta1"
  BY DEF DRAV1beta1, DRAV1beta1Desc
<1>4. DRAV1.desc.package = "k8s.io.kubelet.pkg.apis.dra.v1"
  BY DEF DRAV1, DRAV1Desc
<1>5. DRAHealthV1alpha1.desc.package = "v1alpha1"
  BY DEF DRAHealthV1alpha1, DRAHealthV1alpha1Desc
<1>6. PluginRegistrationV1.desc.package = "pluginregistration"
  BY DEF PluginRegistrationV1, PluginRegistrationV1Desc
<1>7. PodResourcesV1alpha1.desc.package = "v1alpha1"
  BY DEF PodResourcesV1alpha1, PodResourcesV1alpha1Desc
<1>8. PodResourcesV1.desc.package = "v1"
  BY DEF PodResourcesV1, PodResourcesV1Desc
<1>9. PodsV1alpha1.desc.package = "v1alpha1"
  BY DEF PodsV1alpha1, PodsV1alpha1Desc
<1>10. \A v \in RegistrationPackages : GoFile[v] = PluginRegistrationV1
  BY RegistrationVersionsAgree, GoFileIs DEF RegistrationPackages
<1> QED BY <1>1, <1>2, <1>3, <1>4, <1>5, <1>6, <1>7, <1>8, <1>9, <1>10,
           PackagesAre, GoFileIs DEF RegistrationPackages, ProtoPackage

\* What the three files of the protobuf package v1alpha1 enter.
HealthNames ==
  {"HealthStatus", "UNKNOWN", "HEALTHY", "UNHEALTHY",
   "NodeWatchResourcesRequest", "DeviceIdentifier", "DeviceHealth",
   "NodeWatchResourcesResponse", "DRAResourceHealth"}
PodResourcesNames ==
  {"ListPodResourcesRequest", "ListPodResourcesResponse", "PodResources",
   "ContainerResources", "ContainerDevices", "PodResourcesLister"}
PodsNames ==
  {"EventType", "UNSPECIFIED", "ADDED", "MODIFIED", "DELETED",
   "INITIAL_SYNC_COMPLETE", "WatchPodsEvent", "ListPodsResponse",
   "GetPodResponse", "WatchPodsRequest", "ListPodsRequest", "GetPodRequest",
   "Pods"}

NamedIn(g, names) ==
  /\ \A i \in DOMAIN Messages(g) : Messages(g)[i].name \in names
  /\ \A i \in DOMAIN g.desc.services : g.desc.services[i].name \in names
  /\ ToSet(Enums(g)) \subseteq names
  /\ g.desc.values \subseteq names

LEMMA NamedInNames ==
  ASSUME NEW g, NEW names, NamedIn(g, names)
  PROVE  Names(g) \subseteq {g.desc.package} \X names
  BY DEF NamedIn, Names

LEMMA HealthNamed == NamedIn(DRAHealthV1alpha1, HealthNames)
<1> USE DEF DRAHealthV1alpha1, DRAHealthV1alpha1Desc, TypeBuilder, File,
            HealthNames
<1>1. \A i \in DOMAIN Messages(DRAHealthV1alpha1) :
        Messages(DRAHealthV1alpha1)[i].name \in HealthNames
  BY DEF Messages, Message, DRAHealthV1alpha1_NodeWatchResourcesRequestDesc,
         DRAHealthV1alpha1_DeviceIdentifierDesc,
         DRAHealthV1alpha1_DeviceHealthDesc,
         DRAHealthV1alpha1_NodeWatchResourcesResponseDesc
<1>2. \A i \in DOMAIN DRAHealthV1alpha1.desc.services :
        DRAHealthV1alpha1.desc.services[i].name \in HealthNames
  BY DEF Service
<1>3. ToSet(Enums(DRAHealthV1alpha1)) \subseteq HealthNames
  BY DEF Enums, ToSet
<1>4. DRAHealthV1alpha1.desc.values \subseteq HealthNames
  OBVIOUS
<1> QED BY <1>1, <1>2, <1>3, <1>4 DEF NamedIn

LEMMA PodResourcesNamed == NamedIn(PodResourcesV1alpha1, PodResourcesNames)
<1> USE DEF PodResourcesV1alpha1, PodResourcesV1alpha1Desc, TypeBuilder, File,
            PodResourcesNames
<1>1. \A i \in DOMAIN Messages(PodResourcesV1alpha1) :
        Messages(PodResourcesV1alpha1)[i].name \in PodResourcesNames
  BY DEF Messages, Message,
         PodResourcesV1alpha1_ListPodResourcesRequestDesc,
         PodResourcesV1alpha1_ListPodResourcesResponseDesc,
         PodResourcesV1alpha1_PodResourcesDesc,
         PodResourcesV1alpha1_ContainerResourcesDesc,
         PodResourcesV1alpha1_ContainerDevicesDesc
<1>2. \A i \in DOMAIN PodResourcesV1alpha1.desc.services :
        PodResourcesV1alpha1.desc.services[i].name \in PodResourcesNames
  BY DEF Service
<1>3. ToSet(Enums(PodResourcesV1alpha1)) \subseteq PodResourcesNames
  BY DEF Enums, ToSet
<1>4. PodResourcesV1alpha1.desc.values \subseteq PodResourcesNames
  OBVIOUS
<1> QED BY <1>1, <1>2, <1>3, <1>4 DEF NamedIn

LEMMA PodsNamed == NamedIn(PodsV1alpha1, PodsNames)
<1> USE DEF PodsV1alpha1, PodsV1alpha1Desc, TypeBuilder, File, PodsNames
<1>1. \A i \in DOMAIN Messages(PodsV1alpha1) :
        Messages(PodsV1alpha1)[i].name \in PodsNames
  BY DEF Messages, Message, PodsV1alpha1_WatchPodsEventDesc,
         PodsV1alpha1_ListPodsResponseDesc, PodsV1alpha1_GetPodResponseDesc,
         PodsV1alpha1_WatchPodsRequestDesc, PodsV1alpha1_ListPodsRequestDesc,
         PodsV1alpha1_GetPodRequestDesc
<1>2. \A i \in DOMAIN PodsV1alpha1.desc.services :
        PodsV1alpha1.desc.services[i].name \in PodsNames
  BY DEF Service
<1>3. ToSet(Enums(PodsV1alpha1)) \subseteq PodsNames
  BY DEF Enums, ToSet
<1>4. PodsV1alpha1.desc.values \subseteq PodsNames
  OBVIOUS
<1> QED BY <1>1, <1>2, <1>3, <1>4 DEF NamedIn

\* Files share no name unless both are versions of the registration API.
LEMMA NamesApart ==
  ASSUME NEW k \in Packages, NEW h \in Packages, k # h,
         ~ {k, h} \subseteq RegistrationPackages
  PROVE  Names(GoFile[k]) \cap Names(GoFile[h]) = {}
<1>1. CASE ProtoPackage[k] # ProtoPackage[h]
  <2>1. \A g : \A n \in Names(g) : n[1] = g.desc.package
    BY DEF Names
  <2> QED BY <1>1, <2>1, ProtoPackages
<1>2. CASE ProtoPackage[k] = ProtoPackage[h]
  <2> DEFINE files3 == {"DRAHealthV1alpha1", "PodResourcesV1alpha1",
                        "PodsV1alpha1"}
  <2>1. k \in files3 /\ h \in files3
    BY <1>2, PackagesAre DEF ProtoPackage, RegistrationPackages
  <2>2. /\ Names(DRAHealthV1alpha1)
             \subseteq {DRAHealthV1alpha1.desc.package} \X HealthNames
        /\ Names(PodResourcesV1alpha1)
             \subseteq {PodResourcesV1alpha1.desc.package} \X PodResourcesNames
        /\ Names(PodsV1alpha1)
             \subseteq {PodsV1alpha1.desc.package} \X PodsNames
    BY NamedInNames, HealthNamed, PodResourcesNamed, PodsNamed
  <2>3. /\ HealthNames \cap PodResourcesNames = {}
        /\ HealthNames \cap PodsNames = {}
        /\ PodResourcesNames \cap PodsNames = {}
    BY DEF HealthNames, PodResourcesNames, PodsNames
  <2> QED BY <2>1, <2>2, <2>3, GoFileIs
<1> QED BY <1>1, <1>2

LEMMA RegistrationNamesMeet ==
  \A v, w \in RegistrationPackages :
    Names(GoFile[v]) \cap Names(GoFile[w]) # {}
<1>1. Messages(PluginRegistrationV1)[4].name = "InfoRequest"
      /\ 4 \in DOMAIN Messages(PluginRegistrationV1)
  BY DEF PluginRegistrationV1, PluginRegistrationV1Desc, TypeBuilder, File,
         Messages, Message, PluginRegistrationV1_InfoRequestDesc
<1>2. Names(PluginRegistrationV1) # {}
  BY <1>1 DEF Names
<1> QED BY <1>2, RegistrationVersionsAgree, GoFileIs DEF RegistrationPackages

-----------------------------------------------------------------------------
(* The start.                                                              *)

\* No two versions of the registration API in one program, and only two of
\* them among the packages it is linked from make it panic.
OneVersion(p) ==
  /\ \A v, w \in files[p] \cap RegistrationPackages : v = w
  /\ status[p] = "panicked" =>
       \E v, w \in links[p] \cap RegistrationPackages : v # w

StartInv == TypeOK /\ \A p \in Processes : OneVersion(p)

LEMMA InitStart == Init => StartInv
<1> SUFFICES ASSUME Init PROVE StartInv
  OBVIOUS
<1>1. \A p \in Processes : files[p] = {} /\ status[p] = "starting"
  BY DEF Init
<1> QED BY <1>1, InitTypes DEF StartInv, OneVersion

LEMMA InitFileKeepsOneVersion ==
  ASSUME StartInv, NEW p \in Processes, NEW k \in links[p], InitFile(p, k),
         NEW q \in Processes
  PROVE  OneVersion(q)'
<1> USE DEF StartInv, TypeOK
<1>1. CASE q # p
  BY <1>1 DEF OneVersion, InitFile
<1>2. CASE q = p
  <2>1. /\ k \in Packages \ files[p]
        /\ files[p] \subseteq links[p]
        /\ links[p] \subseteq Packages
    BY DEF InitFile
  <2>2. CASE /\ CountsMatch(GoFile[k])
             /\ \A h \in files[p] :
                  Names(GoFile[k]) \cap Names(GoFile[h]) = {}
    <3>1. files' = [files EXCEPT ![p] = @ \cup {k}]
          /\ status' = status /\ links' = links
      BY <2>2 DEF InitFile
    <3>2. k \in RegistrationPackages => files[p] \cap RegistrationPackages =
            {}
      BY <2>2, RegistrationNamesMeet
    <3>3. files'[p] = files[p] \cup {k}
      BY <3>1
    <3> QED BY <1>2, <3>1, <3>2, <3>3 DEF OneVersion
  <2>3. CASE ~ /\ CountsMatch(GoFile[k])
               /\ \A h \in files[p] :
                    Names(GoFile[k]) \cap Names(GoFile[h]) = {}
    <3>1. files' = files /\ links' = links
      BY <2>3 DEF InitFile
    <3>2. PICK h \in files[p] : Names(GoFile[k]) \cap Names(GoFile[h]) # {}
      BY <2>1, <2>3, AllCountsMatch
    <3>3. h \in Packages /\ k # h
      BY <2>1
    <3>4. {k, h} \subseteq RegistrationPackages
      BY <2>1, <3>2, <3>3, NamesApart
    <3> QED BY <1>2, <2>1, <3>1, <3>3, <3>4 DEF OneVersion
  <2> QED BY <2>2, <2>3
<1> QED BY <1>1, <1>2

LEMMA NextStart == StartInv /\ [Next]_vars => StartInv'
<1> SUFFICES ASSUME StartInv, [Next]_vars PROVE StartInv'
  OBVIOUS
<1>1. TypeOK'
  BY NextTypes DEF StartInv
<1>2. ASSUME NEW q \in Processes PROVE OneVersion(q)'
  <2>1. ASSUME NEW p \in Processes, NEW k \in links[p], InitFile(p, k)
        PROVE  OneVersion(q)'
    BY <2>1, InitFileKeepsOneVersion
  <2>2. ASSUME NEW p \in Processes, Main(p) PROVE OneVersion(q)'
    BY <2>2 DEF Main, OneVersion, StartInv, TypeOK
  <2>3. ASSUME NEW p \in Processes, NEW k \in files[p], NEW e \in Ends[k],
               Send(p, k, e) \/ Receive(p, k, e)
        PROVE  OneVersion(q)'
    BY <2>3 DEF Send, Receive, OneVersion, StartInv
  <2>4. CASE Forget
    BY <2>4 DEF Forget, OneVersion, StartInv
  <2>5. CASE UNCHANGED vars
    BY <2>5 DEF vars, OneVersion, StartInv
  <2> QED BY <2>1, <2>2, <2>3, <2>4, <2>5 DEF Next
<1> QED BY <1>1, <1>2 DEF StartInv

\* A program starts from any of the packages, unless it links two versions of
\* the registration API: these enter the same names, and every other two files
\* enter different ones, those of the same protobuf package among them.
THEOREM OnlyVersionsClash == Spec => []OnlyRegistrationVersionsClash
<1>1. StartInv => OnlyRegistrationVersionsClash
  BY DEF StartInv, OneVersion, TypeOK, OnlyRegistrationVersionsClash
<1> QED BY <1>1, InitStart, NextStart, PTL DEF Spec

-----------------------------------------------------------------------------
(* On the wire and back.                                                   *)

\* Every struct field is known on the wire, by a number of its own.
NumbersFit(info, T) ==
  /\ \A h \in DOMAIN T.fields : \E n \in DOMAIN info.desc.fields :
       info.desc.fields[n].number = T.fields[h].number
  /\ \A f, h \in DOMAIN T.fields :
       T.fields[f].number = T.fields[h].number => f = h

LEMMA ThereAndBack ==
  ASSUME NEW info, NEW T, NumbersFit(info, T),
         NEW set \in SUBSET DOMAIN T.fields
  PROVE  Unmarshalled(info, T, Marshalled(info, T, set)) =
           {<<f, f>> : f \in set}
<1> DEFINE wire == WireFields(info, T)
           bytes == Marshalled(info, T, set)
           back == Unmarshalled(info, T, bytes)
<1>1. \A w \in wire :
        \E n \in DOMAIN info.desc.fields :
          /\ w = <<w[1], w[2], w[3]>>
          /\ w[1] \in DOMAIN T.fields
          /\ w[2] = T.fields[w[1]].number
  BY DEF WireFields, FieldsWith
<1>2. \A v, w \in wire : v[2] = w[2] => v[1] = w[1]
  BY <1>1 DEF NumbersFit
<1>3. \A f \in DOMAIN T.fields : \E w \in wire : w[1] = f
  <2> SUFFICES ASSUME NEW f \in DOMAIN T.fields
               PROVE  \E w \in wire : w[1] = f
    OBVIOUS
  <2>1. PICK n \in DOMAIN info.desc.fields :
          info.desc.fields[n].number = T.fields[f].number
    BY DEF NumbersFit
  <2>2. <<f, info.desc.fields[n].number, info.types[n]>> \in wire
    BY <2>1 DEF WireFields, FieldsWith
  <2> QED BY <2>2
<1> HIDE DEF wire
<1>4. bytes = {<<w[2], w[3], w[1]>> : w \in {x \in wire : x[1] \in set}}
  BY DEF Marshalled, wire
<1>5. back = UNION {{<<w[1], b[3]>> :
                       b \in {x \in bytes : x[1] = w[2] /\ x[2] = w[3]}} :
                      w \in wire}
  BY DEF Unmarshalled, wire
<1> HIDE DEF bytes, back
<1>6. \A f \in set : <<f, f>> \in back
  <2> SUFFICES ASSUME NEW f \in set PROVE <<f, f>> \in back
    OBVIOUS
  <2>1. PICK w \in wire : w[1] = f
    BY <1>3
  <2>2. <<w[2], w[3], f>> \in bytes
    BY <1>4, <2>1
  <2> QED BY <1>5, <2>1, <2>2
<1>7. \A r \in back : \E f \in set : r = <<f, f>>
  <2> SUFFICES ASSUME NEW r \in back PROVE \E f \in set : r = <<f, f>>
    OBVIOUS
  <2>1. PICK w \in wire, b \in bytes :
          r = <<w[1], b[3]>> /\ b[1] = w[2] /\ b[2] = w[3]
    BY <1>5
  <2>2. PICK v \in wire : v[1] \in set /\ b = <<v[2], v[3], v[1]>>
    BY <1>4, <2>1
  <2>3. v[1] = w[1]
    BY <1>2, <2>1, <2>2
  <2> QED BY <2>1, <2>2, <2>3
<1>8. back = {<<f, f>> : f \in set}
  BY <1>6, <1>7
<1> QED BY <1>8 DEF back, bytes

-----------------------------------------------------------------------------
(* Places.                                                                 *)

\* A list of pairs holds the pairs of a set, each one once, in order.
InOrder(list, pairs) ==
  /\ list \in Seq(Nat \X Nat)
  /\ pairs = {list[x] : x \in 1..Len(list)}
  /\ \A x, y \in 1..Len(list) : x < y => Before(list[x], list[y])

LEMMA PlaceInOrder ==
  ASSUME NEW list, NEW pairs, InOrder(list, pairs), NEW j \in 1..Len(list)
  PROVE  Place(pairs, list[j]) = j - 1
<1> DEFINE earlier == {q \in pairs : Before(q, list[j])}
           f == [x \in 1..(j - 1) |-> list[x]]
<1>1. /\ Len(list) \in Nat
      /\ \A x \in 1..Len(list) : list[x] \in Nat \X Nat
  BY DEF InOrder
<1>2. \A x \in 1..Len(list) : Before(list[x], list[j]) <=> x < j
  <2> SUFFICES ASSUME NEW x \in 1..Len(list)
               PROVE  Before(list[x], list[j]) <=> x < j
    OBVIOUS
  <2>1. x < j => Before(list[x], list[j])
    BY DEF InOrder
  <2>2. j < x => Before(list[j], list[x])
    BY DEF InOrder
  <2>3. Before(list[x], list[j]) => ~Before(list[j], list[x]) /\ x # j
    BY <1>1 DEF Before
  <2> QED BY <2>1, <2>2, <2>3, <1>1
<1>3. \A x, y \in 1..Len(list) : list[x] = list[y] => x = y
  <2> SUFFICES ASSUME NEW x \in 1..Len(list), NEW y \in 1..Len(list), x < y
               PROVE  list[x] # list[y]
    BY <1>1
  <2>1. Before(list[x], list[y])
    BY DEF InOrder
  <2> QED BY <2>1, <1>1 DEF Before
<1>4. earlier = {list[x] : x \in 1..(j - 1)}
  <2>1. earlier = {list[x] : x \in {y \in 1..Len(list) : y < j}}
    BY <1>2 DEF InOrder
  <2>2. {y \in 1..Len(list) : y < j} = 1..(j - 1)
    BY <1>1
  <2> QED BY <2>1, <2>2
<1>5. f \in Bijection(1..(j - 1), earlier)
  <2>1. f \in [1..(j - 1) -> earlier]
    BY <1>4
  <2>2. \A x, y \in 1..(j - 1) : f[x] = f[y] => x = y
    BY <1>1, <1>3
  <2>3. \A q \in earlier : \E x \in 1..(j - 1) : f[x] = q
    BY <1>4
  <2> QED BY <2>1, <2>2, <2>3
             DEF Bijection, Injection, Surjection, IsInjective
<1>6. Cardinality(earlier) = j - 1
  <2> HIDE DEF earlier, f
  <2>1. ExistsBijection(1..(j - 1), earlier)
    BY <1>5 DEF ExistsBijection
  <2>2. j - 1 \in Nat
    BY <1>1
  <2> QED BY <2>1, <2>2, FS_CountingElements
<1> QED BY <1>6 DEF Place

-----------------------------------------------------------------------------
(* What makes a file fit together.                                         *)

\* The Go type for a field of a descriptor, where maps gives the types that
\* the map entries of the file stand for.
Fit(t) == IF t[1] = "message" THEN Ref(t[2]) ELSE t
GoTypeFor(maps, field) ==
  IF field.type[1] = "message" /\ field.type[2] \in DOMAIN maps
  THEN maps[field.type[2]]
  ELSE CASE field.label = "one"   -> Fit(field.type)
         [] field.label = "maybe" -> Ptr(Fit(field.type))
         [] field.label = "many"  -> Slice(Fit(field.type))

\* at names the struct field of T that has the f-th field of m.
FieldsFit(maps, m, T, at) ==
  /\ m.name = T.name
  /\ ~m.entry
  /\ DOMAIN m.fields \subseteq Nat
  /\ DOMAIN at = DOMAIN m.fields
  /\ DOMAIN T.fields = {at[f] : f \in DOMAIN m.fields}
  /\ \A f \in DOMAIN m.fields :
       /\ T.fields[at[f]].number = m.fields[f].number
       /\ T.fields[at[f]].type = GoTypeFor(maps, m.fields[f])
       /\ \/ m.fields[f].type[1] # "message"
          \/ m.fields[f].type = Msg(m.fields[f].type[2])
  /\ \A e, f \in DOMAIN m.fields :
       m.fields[e].number = m.fields[f].number => e = f

EntryFits(maps, m) ==
  /\ m.entry
  /\ DOMAIN m.fields = 1..2
  /\ m.name \in DOMAIN maps
  /\ maps[m.name] = MapOf(Fit(m.fields[1].type), Fit(m.fields[2].type))

MessageFits(g, maps, i) ==
  \/ EntryFits(maps, Messages(g)[i]) /\ GoType(g, i) = NilType
  \/ /\ GoType(g, i).info = i - 1
     /\ \E at : FieldsFit(maps, Messages(g)[i], GoType(g, i), at)

\* The x-th index is that of the type of the x-th field in the list.
Resolves(g, list, x) ==
  TypeAt(g, DepIdx(g, FieldTypes, x - 1)) =
    Messages(g)[list[x][1]].fields[list[x][2]].type

\* An index is that of the message of the name.
IsIndexOf(g, idx, name) ==
  LET i == idx - Len(Enums(g)) + 1
  IN  /\ idx \in Nat /\ i \in DOMAIN Messages(g)
      /\ ~Messages(g)[i].entry
      /\ Messages(g)[i].name = name

MethodResolves(g, list, x) ==
  LET method == g.desc.services[list[x][1]].methods[list[x][2]]
  IN  /\ IsIndexOf(g, DepIdx(g, MethodInputs, x - 1), method.input)
      /\ IsIndexOf(g, DepIdx(g, MethodOutputs, x - 1), method.output)

\* Methods have names of their own.
MethodsOnce(services) ==
  /\ \A s, t \in DOMAIN services :
       services[s].name = services[t].name => s = t
  /\ \A s \in DOMAIN services :
       \A m, n \in DOMAIN services[s].methods :
         services[s].methods[m].name = services[s].methods[n].name => m = n

\* A file whose parts fit together, with the lists of its fields that take an
\* index and of its methods, and the types its map entries stand for.
Fits(g, deps, methods, maps) ==
  /\ Len(Enums(g)) \in Nat
  /\ DOMAIN g.goTypes = 1..(Len(Enums(g)) + Len(Messages(g)))
  /\ \A e \in 1..Len(Enums(g)) : g.goTypes[e].name = Enums(g)[e]
  /\ DOMAIN Enums(g) = 1..Len(Enums(g))
  /\ DOMAIN Messages(g) = 1..Len(Messages(g)) /\ Len(Messages(g)) \in Nat
  /\ \A i \in DOMAIN Messages(g) : MessageFits(g, maps, i)
  /\ \A i \in DOMAIN Messages(g) : \A e \in DOMAIN Enums(g) :
       Messages(g)[i].name # Enums(g)[e]
  /\ \A i \in DOMAIN Messages(g) : Messages(g)[i].name # "nil"
  /\ \A n \in DOMAIN maps : \E i \in DOMAIN Messages(g) :
       Messages(g)[i].entry /\ Messages(g)[i].name = n
  /\ InOrder(deps, DepFields(g))
  /\ \A x \in 1..Len(deps) : Resolves(g, deps, x)
  /\ InOrder(methods, Methods(g))
  /\ \A x \in 1..Len(methods) : MethodResolves(g, methods, x)
  /\ MethodsOnce(g.desc.services)

\* Then every field has the type that the descriptor gives it ...
LEMMA TypesAsDeclared ==
  ASSUME NEW g, NEW deps, NEW methods, NEW maps, Fits(g, deps, methods, maps),
         NEW i \in DOMAIN Messages(g)
  PROVE  TypesOf(g, i) =
           [f \in DOMAIN Messages(g)[i].fields |->
              Messages(g)[i].fields[f].type]
<1> DEFINE fields == Messages(g)[i].fields
<1>1. ASSUME NEW f \in DOMAIN fields, IsDep(fields[f].type)
      PROVE  TypeAt(g, DepIdx(g, FieldTypes, Place(DepFields(g), <<i, f>>)))
               = fields[f].type
  <2>1. <<i, f>> \in DepFields(g)
    BY <1>1 DEF DepFields
  <2>2. InOrder(deps, DepFields(g))
    BY DEF Fits
  <2>3. PICK x \in 1..Len(deps) : deps[x] = <<i, f>>
    BY <2>1, <2>2 DEF InOrder
  <2>4. Place(DepFields(g), <<i, f>>) = x - 1
    BY <2>2, <2>3, PlaceInOrder
  <2>5. Resolves(g, deps, x)
    BY DEF Fits
  <2> QED BY <2>3, <2>4, <2>5 DEF Resolves
<1> QED BY <1>1 DEF TypesOf

\* ... every struct field the type that fits ...
LEMMA MsgIs == \A n : Msg(n)[1] = "message" /\ Msg(n)[2] = n
  BY DEF Msg

LEMMA FittingTypeIs ==
  ASSUME NEW g, NEW deps, NEW methods, NEW maps, Fits(g, deps, methods, maps),
         NEW i \in DOMAIN Messages(g), NEW info,
         info.desc = Messages(g)[i], info.types = TypesOf(g, i),
         NEW f \in DOMAIN Messages(g)[i].fields,
         LET type == Messages(g)[i].fields[f].type
         IN  type[1] # "message" \/ type = Msg(type[2])
  PROVE  FittingType(g, info, f) = GoTypeFor(maps, Messages(g)[i].fields[f])
<1> DEFINE field == Messages(g)[i].fields[f]
           type == info.types[f]
           entries == {j \in DOMAIN Messages(g) :
                         Messages(g)[j].entry
                           /\ type = Msg(Messages(g)[j].name)}
           entry == CHOOSE j \in entries : TRUE
           label == info.desc.fields[f].label
<1>1. /\ type = field.type
      /\ label = field.label
      /\ type[1] # "message" \/ type = Msg(type[2])
  BY TypesAsDeclared
<1>2. \A j \in DOMAIN Messages(g) :
        Messages(g)[j].entry => EntryFits(maps, Messages(g)[j])
  BY DEF Fits, MessageFits, FieldsFit
<1>3. FittingType(g, info, f) =
        IF entries # {}
        THEN MapOf(Fit(TypesOf(g, entry)[1]), Fit(TypesOf(g, entry)[2]))
        ELSE CASE label = "one"   -> Fit(type)
               [] label = "maybe" -> Ptr(Fit(type))
               [] label = "many"  -> Slice(Fit(type))
  BY DEF FittingType, Fit
<1>4. GoTypeFor(maps, field) =
        IF type[1] = "message" /\ type[2] \in DOMAIN maps
        THEN maps[type[2]]
        ELSE CASE label = "one"   -> Fit(type)
               [] label = "maybe" -> Ptr(Fit(type))
               [] label = "many"  -> Slice(Fit(type))
  BY <1>1 DEF GoTypeFor
<1>5. \A j \in entries : /\ j \in DOMAIN Messages(g)
                         /\ Messages(g)[j].entry
                         /\ type = Msg(Messages(g)[j].name)
  OBVIOUS
<1>6. \A j \in DOMAIN Messages(g) :
        Messages(g)[j].entry /\ type = Msg(Messages(g)[j].name)
          => j \in entries
  OBVIOUS
<1>7. entries # {} => entry \in entries
  OBVIOUS
<1> SUFFICES FittingType(g, info, f) = GoTypeFor(maps, field)
  OBVIOUS
<1> HIDE DEF field, type, label, entries, entry
<1>8. CASE entries = {}
  <2>1. ~(type[1] = "message" /\ type[2] \in DOMAIN maps)
    <3> SUFFICES ASSUME type[1] = "message", type[2] \in DOMAIN maps
                 PROVE  FALSE
      OBVIOUS
    <3>1. PICK j \in DOMAIN Messages(g) :
            Messages(g)[j].entry /\ Messages(g)[j].name = type[2]
      BY DEF Fits
    <3> QED BY <1>1, <1>6, <1>8, <3>1
  <2> QED BY <1>3, <1>4, <1>8, <2>1
<1>9. CASE entries # {}
  <2>1. /\ entry \in DOMAIN Messages(g)
        /\ EntryFits(maps, Messages(g)[entry])
        /\ type = Msg(Messages(g)[entry].name)
    BY <1>2, <1>5, <1>7, <1>9
  <2>2. type[1] = "message" /\ type[2] = Messages(g)[entry].name
    BY <2>1, MsgIs
  <2>3. GoTypeFor(maps, field) = maps[Messages(g)[entry].name]
    BY <1>4, <2>1, <2>2 DEF EntryFits
  <2>4. /\ TypesOf(g, entry)[1] = Messages(g)[entry].fields[1].type
        /\ TypesOf(g, entry)[2] = Messages(g)[entry].fields[2].type
    BY <2>1, TypesAsDeclared DEF EntryFits
  <2> QED BY <1>3, <1>9, <2>1, <2>3, <2>4 DEF EntryFits
<1> QED BY <1>8, <1>9

\* ... the info of every Go type is its own ...
LEMMA InfoIsOwn ==
  ASSUME NEW g, NEW deps, NEW methods, NEW maps, Fits(g, deps, methods, maps),
         NEW T \in GoTypesOf(g)
  PROVE  /\ T.info + 1 \in DOMAIN Messages(g)
         /\ T = GoType(g, T.info + 1)
         /\ \E at : FieldsFit(maps, Messages(g)[T.info + 1], T, at)
<1>1. PICK j \in DOMAIN g.goTypes : T = g.goTypes[j]
  BY DEF GoTypesOf, ToSet
<1>2. T # NilType /\ \A e \in DOMAIN Enums(g) : T.name # Enums(g)[e]
  BY DEF GoTypesOf
<1>3. /\ j \in 1..(Len(Enums(g)) + Len(Messages(g)))
      /\ Len(Enums(g)) \in Nat /\ Len(Messages(g)) \in Nat
      /\ DOMAIN Enums(g) = 1..Len(Enums(g))
      /\ DOMAIN Messages(g) = 1..Len(Messages(g))
      /\ \A e \in 1..Len(Enums(g)) : g.goTypes[e].name = Enums(g)[e]
  BY DEF Fits
<1>4. j \notin 1..Len(Enums(g))
  BY <1>1, <1>2, <1>3
<1> DEFINE i == j - Len(Enums(g))
<1>5. i \in DOMAIN Messages(g) /\ j = Len(Enums(g)) + i
  BY <1>3, <1>4
<1>6. T = GoType(g, i)
  BY <1>1, <1>5 DEF GoType
<1>7. MessageFits(g, maps, i)
  BY <1>5 DEF Fits
<1>8. T.info = i - 1 /\ \E at : FieldsFit(maps, Messages(g)[i], T, at)
  BY <1>2, <1>6, <1>7 DEF MessageFits
<1>9. T.info + 1 = i
  BY <1>3, <1>8
<1> QED BY <1>5, <1>6, <1>8, <1>9

LEMMA InfosFit ==
  ASSUME NEW g, NEW deps, NEW methods, NEW maps, Fits(g, deps, methods, maps),
         NEW T \in GoTypesOf(g)
  PROVE  InfoFits(g, InfoOf(BuiltFrom(g), T), T)
<1> DEFINE i == T.info + 1
           info == InfoOf(BuiltFrom(g), T)
           fields == Messages(g)[i].fields
<1>1. /\ i \in DOMAIN Messages(g)
      /\ T = GoType(g, i)
      /\ \E at : FieldsFit(maps, Messages(g)[i], T, at)
  BY InfoIsOwn
<1>2. PICK at : FieldsFit(maps, Messages(g)[i], T, at)
  BY <1>1
<1>3. /\ info.goType = T.name
      /\ info.desc = Messages(g)[i]
      /\ info.types = TypesOf(g, i)
  BY <1>1 DEF InfoOf, BuiltFrom
<1> HIDE DEF info, i
<1>4. ASSUME NEW f \in DOMAIN fields
      PROVE  /\ at[f] \in DOMAIN T.fields
             /\ FieldsWith(T, fields[f].number) = {at[f]}
             /\ T.fields[at[f]].type = FittingType(g, info, f)
  <2>1. FieldsWith(T, fields[f].number) = {at[f]}
    BY <1>2 DEF FieldsFit, FieldsWith
  <2>2. \/ fields[f].type[1] # "message"
        \/ fields[f].type = Msg(fields[f].type[2])
    BY <1>2 DEF FieldsFit
  <2>3. FittingType(g, info, f) = GoTypeFor(maps, fields[f])
    BY <1>1, <1>3, <2>2, FittingTypeIs
  <2> QED BY <1>2, <2>1, <2>3 DEF FieldsFit
<1>5. \A h \in DOMAIN T.fields :
        \E f \in DOMAIN fields : T.fields[h].number = fields[f].number
  BY <1>2 DEF FieldsFit
<1>6. Messages(g)[i].name = T.name
  BY <1>2 DEF FieldsFit
<1>7. \A f \in DOMAIN info.desc.fields :
        \E h \in DOMAIN T.fields :
          /\ FieldsWith(T, info.desc.fields[f].number) = {h}
          /\ T.fields[h].type = FittingType(g, info, f)
  BY <1>3, <1>4
<1>8. InfoFits(g, info, T)
  BY <1>3, <1>5, <1>6, <1>7 DEF InfoFits
<1> QED BY <1>8 DEF info

\* ... and every method's types are those of its ends.
LEMMA MethodsOfFileFit ==
  ASSUME NEW g, NEW deps, NEW methods, NEW maps, Fits(g, deps, methods, maps)
  PROVE  MethodsFit(g)
<1>1. ASSUME NEW idx, NEW name, IsIndexOf(g, idx, name)
      PROVE  TypeAt(g, idx) = Msg(name)
  <2>1. /\ idx \in Nat /\ Len(Enums(g)) \in Nat
        /\ idx - Len(Enums(g)) + 1 \in DOMAIN Messages(g)
        /\ DOMAIN Messages(g) = 1..Len(Messages(g))
        /\ Len(Messages(g)) \in Nat
    BY <1>1 DEF IsIndexOf, Fits
  <2>2. ~(idx < Len(Enums(g)))
    BY <2>1
  <2> QED BY <1>1, <2>2 DEF IsIndexOf, TypeAt
<1>2. SUFFICES ASSUME NEW p \in Methods(g)
               PROVE  LET method == g.desc.services[p[1]].methods[p[2]]
                          Resolved(list) ==
                            TypeAt(g, DepIdx(g, list, Place(Methods(g), p)))
                      IN  /\ Resolved(MethodInputs) = Msg(method.input)
                          /\ Resolved(MethodOutputs) = Msg(method.output)
  BY DEF MethodsFit
<1>3. InOrder(methods, Methods(g))
  BY DEF Fits
<1>4. PICK x \in 1..Len(methods) : methods[x] = p
  BY <1>3 DEF InOrder
<1>5. Place(Methods(g), p) = x - 1
  BY <1>3, <1>4, PlaceInOrder
<1>6. MethodResolves(g, methods, x)
  BY DEF Fits
<1> QED BY <1>1, <1>4, <1>5, <1>6 DEF MethodResolves

LEMMA FileFits ==
  ASSUME NEW g, NEW deps, NEW methods, NEW maps, Fits(g, deps, methods, maps)
  PROVE  FileFitsTogether(g, BuiltFrom(g))
  BY InfosFit, MethodsOfFileFit DEF FileFitsTogether

-----------------------------------------------------------------------------
(* How the tables of a file are gone through.                              *)

\* The parts of a file fit together.
FitsTogether(g) == \E deps, methods, maps : Fits(g, deps, methods, maps)

\* The i-th message of a file and its Go type.
Row(g, i, m, T) == Messages(g)[i] = m /\ GoType(g, i) = T

\* The fields of m that take an index.
DepsAre(deps, m) ==
  \A f \in Nat :
    (f \in DOMAIN m.fields /\ IsDep(m.fields[f].type)) <=> f \in deps

\* What a message and its Go type are compared for.
MessageAt(g, maps, i, name, deps, at) ==
  /\ Messages(g)[i].name = name /\ Messages(g)[i].entry = FALSE
  /\ GoType(g, i).info = i - 1
  /\ DepsAre(deps, Messages(g)[i])
  /\ FieldsFit(maps, Messages(g)[i], GoType(g, i), at)
EntryAt(g, maps, i, name, deps) ==
  /\ Messages(g)[i].name = name /\ GoType(g, i) = NilType
  /\ DepsAre(deps, Messages(g)[i])
  /\ EntryFits(maps, Messages(g)[i])

\* One field at a time: whether it takes an index, and its tag and type.
DepFits(deps, f, field) == IsDep(field.type) <=> f \in deps
FieldFits(maps, field, tag) ==
  /\ tag = Tag(field.number, GoTypeFor(maps, field))
  /\ field.type[1] # "message" \/ field.type = Msg(field.type[2])

Scalars == {Str, Bool, Int32, Int64, Uint64, Bytes}

LEMMA AreScalars ==
  {Str, Bool, Int32, Int64, Uint64, Bytes} \subseteq Scalars
  BY DEF Scalars

LEMMA TypeParts ==
  /\ \A x : Msg(x)[1] = "message" /\ Msg(x)[2] = x
  /\ \A x : Enum(x)[1] = "enum"
  /\ \A t \in Scalars : t[1] \notin {"message", "enum"}
  BY DEF Msg, Enum, Scalars, Str, Bool, Int32, Int64, Uint64, Bytes

LEMMA NoFieldsAre == DOMAIN NoFields = {}
  BY DEF NoFields

LEMMA NumberIs ==
  \A n, t : One(n, t).number = n /\ Many(n, t).number = n
              /\ Maybe(n, t).number = n
  BY DEF One, Many, Maybe

LEMMA DepIs ==
  /\ \A deps, f, n, t :
       t \in Scalars /\ f \notin deps => DepFits(deps, f, One(n, t))
  /\ \A deps, f, n, t :
       t \in Scalars /\ f \notin deps => DepFits(deps, f, Many(n, t))
  /\ \A deps, f, n, t :
       t \in Scalars /\ f \notin deps => DepFits(deps, f, Maybe(n, t))
  /\ \A deps, f, n, x : f \in deps => DepFits(deps, f, One(n, Msg(x)))
  /\ \A deps, f, n, x : f \in deps => DepFits(deps, f, Many(n, Msg(x)))
  /\ \A deps, f, n, x : f \in deps => DepFits(deps, f, One(n, Enum(x)))
  BY TypeParts DEF DepFits, IsDep, One, Many, Maybe

\* Every kind of field that the files have.
LEMMA FieldIs ==
  /\ \A maps, n, t :
       t \in Scalars => FieldFits(maps, One(n, t), Tag(n, t))
  /\ \A maps, n, t :
       t \in Scalars => FieldFits(maps, Many(n, t), Tag(n, Slice(t)))
  /\ \A maps, n, t :
       t \in Scalars => FieldFits(maps, Maybe(n, t), Tag(n, Ptr(t)))
  /\ \A maps, n, x : FieldFits(maps, One(n, Enum(x)), Tag(n, Enum(x)))
  /\ \A maps, n, x : x \notin DOMAIN maps =>
       FieldFits(maps, One(n, Msg(x)), Tag(n, Ref(x)))
  /\ \A maps, n, x : x \notin DOMAIN maps =>
       FieldFits(maps, Many(n, Msg(x)), Tag(n, Slice(Ref(x))))
  /\ \A maps, n, x, t : x \in DOMAIN maps /\ maps[x] = t =>
       FieldFits(maps, Many(n, Msg(x)), Tag(n, t))
  BY DEF FieldFits, GoTypeFor, Fit, Msg, Enum, Str, Bool, Int32, Int64,
         Uint64,
         Bytes, Scalars, One, Many, Maybe

\* An entry of a map, which is from strings to strings or to messages.
LEMMA EntryIs ==
  ASSUME NEW g, NEW maps, NEW i, NEW name, NEW t, NEW deps,
         name \in DOMAIN maps, maps[name] = MapOf(Str, Fit(t)),
         deps \subseteq {2}, DepFits(deps, 2, One(2, t)),
         Row(g, i, Entry(name, <<One(1, Str), One(2, t)>>), NilType)
  PROVE  EntryAt(g, maps, i, name, deps)
<1> DEFINE m == Messages(g)[i]
<1>1. /\ m.name = name /\ m.entry /\ DOMAIN m.fields = 1..2
      /\ m.fields[1].type = Str /\ m.fields[2].type = t
      /\ GoType(g, i) = NilType
  BY DEF Row, Entry, One
<1> HIDE DEF m
<1>2. Fit(Str) = Str /\ ~IsDep(Str)
  BY DEF Fit, Str, IsDep
<1>3. IsDep(t) <=> 2 \in deps
  BY DEF DepFits, One
<1>4. DepsAre(deps, m)
  BY <1>1, <1>2, <1>3 DEF DepsAre
<1>5. EntryFits(maps, m)
  BY <1>1, <1>2 DEF EntryFits
<1> QED BY <1>1, <1>4, <1>5 DEF EntryAt, m

LEMMA EntriesAre ==
  /\ \A g, maps, i, name :
       name \in DOMAIN maps /\ maps[name] = MapOf(Str, Str)
         /\ Row(g, i, Entry(name, <<One(1, Str), One(2, Str)>>), NilType)
       => EntryAt(g, maps, i, name, {})
  /\ \A g, maps, i, name, x :
       name \in DOMAIN maps /\ maps[name] = MapOf(Str, Ref(x))
         /\ Row(g, i, Entry(name, <<One(1, Str), One(2, Msg(x))>>), NilType)
       => EntryAt(g, maps, i, name, {2})
<1>1. Fit(Str) = Str /\ \A x : Fit(Msg(x)) = Ref(x)
  BY DEF Fit, Str, Msg
<1>2. DepFits({}, 2, One(2, Str)) /\ \A x : DepFits({2}, 2, One(2, Msg(x)))
  BY DepIs, AreScalars
<1>3. ASSUME NEW g, NEW maps, NEW i, NEW name, name \in DOMAIN maps,
             maps[name] = MapOf(Str, Str),
             Row(g, i, Entry(name, <<One(1, Str), One(2, Str)>>), NilType)
      PROVE  EntryAt(g, maps, i, name, {})
  BY <1>1, <1>2, <1>3, EntryIs
<1>4. ASSUME NEW g, NEW maps, NEW i, NEW name, NEW x, name \in DOMAIN maps,
             maps[name] = MapOf(Str, Ref(x)),
             Row(g, i, Entry(name, <<One(1, Str), One(2, Msg(x))>>), NilType)
      PROVE  EntryAt(g, maps, i, name, {2})
  <2>1. DepFits({2}, 2, One(2, Msg(x))) /\ Fit(Msg(x)) = Ref(x)
    BY <1>1, <1>2
  <2> QED BY <1>4, <2>1, EntryIs
<1> QED BY <1>3, <1>4

\* The fields of the i-th message that take an index are those in the list.
DepsListed(list, m, i) ==
  \A f \in Nat :
    (f \in DOMAIN m.fields /\ IsDep(m.fields[f].type))
      <=> <<i, f>> \in {list[x] : x \in 1..Len(list)}

\* The list of all fields that take an index, put together from the messages.
LEMMA DepFieldsInOrder ==
  ASSUME NEW g, NEW list \in Seq(Nat \X Nat), NEW maps,
         \A x, y \in 1..Len(list) : x < y => Before(list[x], list[y]),
         \A x \in 1..Len(list) : list[x][1] \in DOMAIN Messages(g),
         \A i \in DOMAIN Messages(g) :
           /\ MessageFits(g, maps, i)
           /\ DepsListed(list, Messages(g)[i], i)
  PROVE  InOrder(list, DepFields(g))
<1>1. \A i \in DOMAIN Messages(g) : DOMAIN Messages(g)[i].fields \subseteq Nat
  BY DEF MessageFits, FieldsFit, EntryFits
<1>2. ASSUME NEW p \in DepFields(g)
      PROVE  \E x \in 1..Len(list) : p = list[x]
  <2>1. PICK i \in DOMAIN Messages(g) :
          \E f \in DOMAIN Messages(g)[i].fields :
            p = <<i, f>> /\ IsDep(Messages(g)[i].fields[f].type)
    BY DEF DepFields
  <2> QED BY <1>1, <2>1 DEF DepsListed
<1>3. ASSUME NEW x \in 1..Len(list)
      PROVE  list[x] \in DepFields(g)
  <2> DEFINE i == list[x][1]
             f == list[x][2]
  <2>1. list[x] \in Nat \X Nat
    OBVIOUS
  <2>2. i \in Nat /\ f \in Nat /\ list[x] = <<i, f>>
    BY <2>1
  <2> HIDE DEF i, f
  <2>3. i \in DOMAIN Messages(g) /\ DepsListed(list, Messages(g)[i], i)
    BY DEF i
  <2>4. f \in DOMAIN Messages(g)[i].fields
          /\ IsDep(Messages(g)[i].fields[f].type)
    BY <2>2, <2>3 DEF DepsListed
  <2> QED BY <2>2, <2>3, <2>4 DEF DepFields
<1> QED BY <1>2, <1>3 DEF InOrder

\* A message with a number of fields fits a struct with as many.

LEMMA Fit1 ==
  ASSUME NEW g, NEW maps, NEW i, NEW name, NEW deps, NEW info, NEW fields,
         NEW x, NEW a, info = i - 1, DOMAIN fields = {a}, DepFits(deps, 1, x),
         deps \subseteq 1..1, FieldFits(maps, x, fields[a]),
         Row(g, i, Message(name, <<x>>),
             Struct(name, info, fields))
  PROVE  MessageAt(g, maps, i, name, deps, <<a>>)
<1> DEFINE m == Messages(g)[i]
           T == GoType(g, i)
           at == <<a>>
<1>1. /\ m.name = name /\ m.entry = FALSE /\ DOMAIN m.fields = 1..1
      /\ m.fields[1] = x /\ T.name = name /\ T.info = i - 1
      /\ T.fields = fields /\ DOMAIN at = 1..1 /\ at[1] = a
  BY DEF Row, Message, Struct
<1> HIDE DEF m, T, at
<1>2. FieldsFit(maps, m, T, at)
  BY <1>1 DEF FieldsFit, FieldFits, Tag
<1>3. DepsAre(deps, m)
  BY <1>1 DEF DepsAre, DepFits
<1> QED BY <1>1, <1>2, <1>3 DEF MessageAt, m, T, at

LEMMA Fit2 ==
  ASSUME NEW g, NEW maps, NEW i, NEW name, NEW deps, NEW info, NEW fields,
         NEW x, NEW y, NEW a, NEW b, info = i - 1, DOMAIN fields = {a, b},
         DepFits(deps, 1, x), DepFits(deps, 2, y), deps \subseteq 1..2,
         FieldFits(maps, x, fields[a]), FieldFits(maps, y, fields[b]),
         x.number # y.number,
         Row(g, i, Message(name, <<x, y>>),
             Struct(name, info, fields))
  PROVE  MessageAt(g, maps, i, name, deps, <<a, b>>)
<1> DEFINE m == Messages(g)[i]
           T == GoType(g, i)
           at == <<a, b>>
<1>1. /\ m.name = name /\ m.entry = FALSE /\ DOMAIN m.fields = 1..2
      /\ m.fields[1] = x /\ m.fields[2] = y /\ T.name = name /\ T.info = i - 1
      /\ T.fields = fields /\ DOMAIN at = 1..2 /\ at[1] = a /\ at[2] = b
  BY DEF Row, Message, Struct
<1> HIDE DEF m, T, at
<1>2. FieldsFit(maps, m, T, at)
  BY <1>1 DEF FieldsFit, FieldFits, Tag
<1>3. DepsAre(deps, m)
  BY <1>1 DEF DepsAre, DepFits
<1> QED BY <1>1, <1>2, <1>3 DEF MessageAt, m, T, at

LEMMA Fit3 ==
  ASSUME NEW g, NEW maps, NEW i, NEW name, NEW deps, NEW info, NEW fields,
         NEW x, NEW y, NEW z, NEW a, NEW b, NEW c, info = i - 1,
         DOMAIN fields = {a, b, c}, DepFits(deps, 1, x), DepFits(deps, 2, y),
         DepFits(deps, 3, z), deps \subseteq 1..3,
         FieldFits(maps, x, fields[a]), FieldFits(maps, y, fields[b]),
         FieldFits(maps, z, fields[c]), x.number # y.number,
         x.number # z.number, y.number # z.number,
         Row(g, i, Message(name, <<x, y, z>>),
             Struct(name, info, fields))
  PROVE  MessageAt(g, maps, i, name, deps, <<a, b, c>>)
<1> DEFINE m == Messages(g)[i]
           T == GoType(g, i)
           at == <<a, b, c>>
<1>1. /\ m.name = name /\ m.entry = FALSE /\ DOMAIN m.fields = 1..3
      /\ m.fields[1] = x /\ m.fields[2] = y /\ m.fields[3] = z
      /\ T.name = name /\ T.info = i - 1 /\ T.fields = fields
      /\ DOMAIN at = 1..3 /\ at[1] = a /\ at[2] = b /\ at[3] = c
  BY DEF Row, Message, Struct
<1> HIDE DEF m, T, at
<1>2. FieldsFit(maps, m, T, at)
  BY <1>1 DEF FieldsFit, FieldFits, Tag
<1>3. DepsAre(deps, m)
  BY <1>1 DEF DepsAre, DepFits
<1> QED BY <1>1, <1>2, <1>3 DEF MessageAt, m, T, at

LEMMA Fit4 ==
  ASSUME NEW g, NEW maps, NEW i, NEW name, NEW deps, NEW info, NEW fields,
         NEW x, NEW y, NEW z, NEW u, NEW a, NEW b, NEW c, NEW d, info = i - 1,
         DOMAIN fields = {a, b, c, d}, DepFits(deps, 1, x),
         DepFits(deps, 2, y), DepFits(deps, 3, z), DepFits(deps, 4, u),
         deps \subseteq 1..4, FieldFits(maps, x, fields[a]),
         FieldFits(maps, y, fields[b]), FieldFits(maps, z, fields[c]),
         FieldFits(maps, u, fields[d]), x.number # y.number,
         x.number # z.number, x.number # u.number, y.number # z.number,
         y.number # u.number, z.number # u.number,
         Row(g, i, Message(name, <<x, y, z, u>>),
             Struct(name, info, fields))
  PROVE  MessageAt(g, maps, i, name, deps, <<a, b, c, d>>)
<1> DEFINE m == Messages(g)[i]
           T == GoType(g, i)
           at == <<a, b, c, d>>
<1>1. /\ m.name = name /\ m.entry = FALSE /\ DOMAIN m.fields = 1..4
      /\ m.fields[1] = x /\ m.fields[2] = y /\ m.fields[3] = z
      /\ m.fields[4] = u /\ T.name = name /\ T.info = i - 1
      /\ T.fields = fields /\ DOMAIN at = 1..4 /\ at[1] = a /\ at[2] = b
      /\ at[3] = c /\ at[4] = d
  BY DEF Row, Message, Struct
<1> HIDE DEF m, T, at
<1>2. FieldsFit(maps, m, T, at)
  BY <1>1 DEF FieldsFit, FieldFits, Tag
<1>3. DepsAre(deps, m)
  BY <1>1 DEF DepsAre, DepFits
<1> QED BY <1>1, <1>2, <1>3 DEF MessageAt, m, T, at

LEMMA Fit5 ==
  ASSUME NEW g, NEW maps, NEW i, NEW name, NEW deps, NEW info, NEW fields,
         NEW x, NEW y, NEW z, NEW u, NEW v, NEW a, NEW b, NEW c, NEW d, NEW e,
         info = i - 1, DOMAIN fields = {a, b, c, d, e}, DepFits(deps, 1, x),
         DepFits(deps, 2, y), DepFits(deps, 3, z), DepFits(deps, 4, u),
         DepFits(deps, 5, v), deps \subseteq 1..5,
         FieldFits(maps, x, fields[a]), FieldFits(maps, y, fields[b]),
         FieldFits(maps, z, fields[c]), FieldFits(maps, u, fields[d]),
         FieldFits(maps, v, fields[e]), x.number # y.number,
         x.number # z.number, x.number # u.number, x.number # v.number,
         y.number # z.number, y.number # u.number, y.number # v.number,
         z.number # u.number, z.number # v.number, u.number # v.number,
         Row(g, i, Message(name, <<x, y, z, u, v>>),
             Struct(name, info, fields))
  PROVE  MessageAt(g, maps, i, name, deps, <<a, b, c, d, e>>)
<1> DEFINE m == Messages(g)[i]
           T == GoType(g, i)
           at == <<a, b, c, d, e>>
<1>1. /\ m.name = name /\ m.entry = FALSE /\ DOMAIN m.fields = 1..5
      /\ m.fields[1] = x /\ m.fields[2] = y /\ m.fields[3] = z
      /\ m.fields[4] = u /\ m.fields[5] = v /\ T.name = name /\ T.info = i - 1
      /\ T.fields = fields /\ DOMAIN at = 1..5 /\ at[1] = a /\ at[2] = b
      /\ at[3] = c /\ at[4] = d /\ at[5] = e
  BY DEF Row, Message, Struct
<1> HIDE DEF m, T, at
<1>2. FieldsFit(maps, m, T, at)
  BY <1>1 DEF FieldsFit, FieldFits, Tag
<1>3. DepsAre(deps, m)
  BY <1>1 DEF DepsAre, DepFits
<1> QED BY <1>1, <1>2, <1>3 DEF MessageAt, m, T, at

LEMMA Fit0 ==
  ASSUME NEW g, NEW maps, NEW i, NEW name, NEW info, info = i - 1,
         Row(g, i, Message(name, <<>>), Struct(name, info, NoFields))
  PROVE  MessageAt(g, maps, i, name, {}, <<>>)
  BY NoFieldsAre DEF Row, MessageAt, Message, Struct, FieldsFit, DepsAre

-----------------------------------------------------------------------------
(* DevicePluginV1alpha                                                     *)

DevicePluginV1alphaDeps ==
  <<<<3, 1>>, <<6, 1>>, <<6, 2>>, <<6, 3>>, <<6, 4>>>>
DevicePluginV1alphaMethods ==
  <<<<1, 1>>, <<2, 1>>, <<2, 2>>>>
DevicePluginV1alphaMaps ==
  [n \in {"AllocateResponse.EnvsEntry",
    "AllocateResponse.AnnotationsEntry"} |->
     MapOf(Str, Str)]

LEMMA DevicePluginV1alphaFits == FitsTogether(DevicePluginV1alpha)
<1> DEFINE deps == DevicePluginV1alphaDeps
           methods == DevicePluginV1alphaMethods
           maps == DevicePluginV1alphaMaps
           idxs == DevicePluginV1alpha.depIdxs
           services == DevicePluginV1alpha.desc.services
           Type(x) == DepIdx(DevicePluginV1alpha, FieldTypes, x)
           Input(x) == DepIdx(DevicePluginV1alpha, MethodInputs, x)
           Output(x) == DepIdx(DevicePluginV1alpha, MethodOutputs, x)
<1>1. /\ Len(Messages(DevicePluginV1alpha)) = 10
      /\ DOMAIN Messages(DevicePluginV1alpha) = 1..10
      /\ Len(Enums(DevicePluginV1alpha)) = 0
      /\ DOMAIN Enums(DevicePluginV1alpha) = 1..0
      /\ DOMAIN DevicePluginV1alpha.goTypes = 1..10
  BY DEF Messages, Enums, DevicePluginV1alpha, DevicePluginV1alphaDesc,
         DevicePluginV1alphaGoTypes, TypeBuilder, File
<1>2. /\ Row(DevicePluginV1alpha, 1, DevicePluginV1alpha_RegisterRequestDesc,
             DevicePluginV1alpha_RegisterRequest)
      /\ Row(DevicePluginV1alpha, 2, DevicePluginV1alpha_EmptyDesc,
             DevicePluginV1alpha_Empty)
      /\ Row(DevicePluginV1alpha, 3,
             DevicePluginV1alpha_ListAndWatchResponseDesc,
               DevicePluginV1alpha_ListAndWatchResponse)
      /\ Row(DevicePluginV1alpha, 4, DevicePluginV1alpha_DeviceDesc,
             DevicePluginV1alpha_Device)
      /\ Row(DevicePluginV1alpha, 5, DevicePluginV1alpha_AllocateRequestDesc,
             DevicePluginV1alpha_AllocateRequest)
      /\ Row(DevicePluginV1alpha, 6,
             DevicePluginV1alpha_AllocateResponseDesc,
               DevicePluginV1alpha_AllocateResponse)
      /\ Row(DevicePluginV1alpha, 7, DevicePluginV1alpha_MountDesc,
             DevicePluginV1alpha_Mount)
      /\ Row(DevicePluginV1alpha, 8, DevicePluginV1alpha_DeviceSpecDesc,
             DevicePluginV1alpha_DeviceSpec)
      /\ Row(DevicePluginV1alpha, 9,
             DevicePluginV1alpha_AllocateResponse_EnvsEntryDesc, NilType)
      /\ Row(DevicePluginV1alpha, 10,
             DevicePluginV1alpha_AllocateResponse_AnnotationsEntryDesc,
               NilType)
  <2>1. /\ Messages(DevicePluginV1alpha)[1] =
             DevicePluginV1alpha_RegisterRequestDesc
        /\ Messages(DevicePluginV1alpha)[2] = DevicePluginV1alpha_EmptyDesc
        /\ Messages(DevicePluginV1alpha)[3] =
             DevicePluginV1alpha_ListAndWatchResponseDesc
        /\ Messages(DevicePluginV1alpha)[4] = DevicePluginV1alpha_DeviceDesc
        /\ Messages(DevicePluginV1alpha)[5] =
             DevicePluginV1alpha_AllocateRequestDesc
        /\ Messages(DevicePluginV1alpha)[6] =
             DevicePluginV1alpha_AllocateResponseDesc
        /\ Messages(DevicePluginV1alpha)[7] = DevicePluginV1alpha_MountDesc
        /\ Messages(DevicePluginV1alpha)[8] =
             DevicePluginV1alpha_DeviceSpecDesc
        /\ Messages(DevicePluginV1alpha)[9] =
             DevicePluginV1alpha_AllocateResponse_EnvsEntryDesc
        /\ Messages(DevicePluginV1alpha)[10] =
             DevicePluginV1alpha_AllocateResponse_AnnotationsEntryDesc
    BY DEF Messages, DevicePluginV1alpha, DevicePluginV1alphaDesc,
           TypeBuilder, File
  <2>2. /\ DevicePluginV1alpha.goTypes[1] =
             DevicePluginV1alpha_RegisterRequest
        /\ DevicePluginV1alpha.goTypes[2] = DevicePluginV1alpha_Empty
        /\ DevicePluginV1alpha.goTypes[3] =
             DevicePluginV1alpha_ListAndWatchResponse
        /\ DevicePluginV1alpha.goTypes[4] = DevicePluginV1alpha_Device
        /\ DevicePluginV1alpha.goTypes[5] =
             DevicePluginV1alpha_AllocateRequest
        /\ DevicePluginV1alpha.goTypes[6] =
             DevicePluginV1alpha_AllocateResponse
        /\ DevicePluginV1alpha.goTypes[7] = DevicePluginV1alpha_Mount
        /\ DevicePluginV1alpha.goTypes[8] = DevicePluginV1alpha_DeviceSpec
        /\ DevicePluginV1alpha.goTypes[9] = NilType
        /\ DevicePluginV1alpha.goTypes[10] = NilType
    BY DEF DevicePluginV1alpha, DevicePluginV1alphaGoTypes, TypeBuilder
  <2> QED BY <1>1, <2>1, <2>2 DEF Row, GoType
<1>3. /\ Len(idxs) = 16 /\ idxs[1] = 3 /\ idxs[2] = 8 /\ idxs[3] = 6
      /\ idxs[4] = 7 /\ idxs[5] = 9 /\ idxs[6] = 0 /\ idxs[7] = 1
      /\ idxs[8] = 4 /\ idxs[9] = 1 /\ idxs[10] = 2 /\ idxs[11] = 5
      /\ idxs[12] = 8 /\ idxs[13] = 5 /\ idxs[14] = 5 /\ idxs[15] = 5
      /\ idxs[16] = 0
  BY DEF DevicePluginV1alpha, DevicePluginV1alphaDepIdxs, TypeBuilder
<1>3a. /\ Type(0) = 3 /\ Type(1) = 8 /\ Type(2) = 6 /\ Type(3) = 7
       /\ Type(4) = 9 /\ Input(0) = 0 /\ Input(1) = 1 /\ Input(2) = 4
       /\ Output(0) = 1 /\ Output(1) = 2 /\ Output(2) = 5
  BY <1>3 DEF DepIdx, FieldTypes, MethodInputs, MethodOutputs
<1>4. /\ DOMAIN services = 1..2
      /\ services[1].name = "Registration"
      /\ DOMAIN services[1].methods = 1..1
      /\ services[1].methods[1] =
             Method("Register", "RegisterRequest", "Empty")
      /\ services[2].name = "DevicePlugin"
      /\ DOMAIN services[2].methods = 1..2
      /\ services[2].methods[1] =
             Method("ListAndWatch", "Empty", "ListAndWatchResponse")
      /\ services[2].methods[2] =
             Method("Allocate", "AllocateRequest", "AllocateResponse")
  BY DEF DevicePluginV1alpha, DevicePluginV1alphaDesc, TypeBuilder, File,
         Service
<1>5. /\ DOMAIN maps =
           {"AllocateResponse.EnvsEntry", "AllocateResponse.AnnotationsEntry"}
      /\ maps["AllocateResponse.EnvsEntry"] =
           MapOf(Str, Str)
      /\ maps["AllocateResponse.AnnotationsEntry"] =
           MapOf(Str, Str)
  BY DEF DevicePluginV1alphaMaps
<1> HIDE DEF deps, methods, maps, idxs, services, Type, Input, Output
<1>m1. MessageAt(DevicePluginV1alpha, maps, 1, "RegisterRequest", {},
                <<"Version", "Endpoint", "ResourceName">>)
  BY <1>2, <1>5, Fit3, FieldIs, DepIs, NumberIs, AreScalars, SMTT(60)
     DEF DevicePluginV1alpha_RegisterRequestDesc,
         DevicePluginV1alpha_RegisterRequest
<1>m2. MessageAt(DevicePluginV1alpha, maps, 2, "Empty", {}, <<>>)
  BY <1>2, Fit0 DEF DevicePluginV1alpha_EmptyDesc, DevicePluginV1alpha_Empty
<1>m3. MessageAt(DevicePluginV1alpha, maps, 3, "ListAndWatchResponse", {1},
                <<"Devices">>)
  BY <1>2, <1>5, Fit1, FieldIs, DepIs, NumberIs, AreScalars, SMTT(60)
     DEF DevicePluginV1alpha_ListAndWatchResponseDesc,
         DevicePluginV1alpha_ListAndWatchResponse
<1>m4. MessageAt(DevicePluginV1alpha, maps, 4, "Device", {},
                <<"ID", "Health">>)
  BY <1>2, <1>5, Fit2, FieldIs, DepIs, NumberIs, AreScalars, SMTT(60)
     DEF DevicePluginV1alpha_DeviceDesc, DevicePluginV1alpha_Device
<1>m5. MessageAt(DevicePluginV1alpha, maps, 5, "AllocateRequest", {},
                <<"DevicesIDs">>)
  BY <1>2, <1>5, Fit1, FieldIs, DepIs, NumberIs, AreScalars, SMTT(60)
     DEF DevicePluginV1alpha_AllocateRequestDesc,
         DevicePluginV1alpha_AllocateRequest
<1>m6. MessageAt(DevicePluginV1alpha, maps, 6,
                "AllocateResponse", {1, 2, 3, 4},
                <<"Envs", "Mounts", "Devices", "Annotations">>)
  <2>1. /\ FieldFits(maps, Many(1, Msg("AllocateResponse.EnvsEntry")),
                     Tag(1, MapOf(Str, Str)))
        /\ FieldFits(maps, Many(2, Msg("Mount")), Tag(2, Slice(Ref("Mount"))))
        /\ FieldFits(maps, Many(3, Msg("DeviceSpec")),
                     Tag(3, Slice(Ref("DeviceSpec"))))
        /\ FieldFits(maps, Many(4, Msg("AllocateResponse.AnnotationsEntry")),
                     Tag(4, MapOf(Str, Str)))
    BY <1>5, FieldIs, AreScalars
  <2>2. /\ DepFits({1, 2, 3, 4}, 1,
                   Many(1, Msg("AllocateResponse.EnvsEntry")))
        /\ DepFits({1, 2, 3, 4}, 2, Many(2, Msg("Mount")))
        /\ DepFits({1, 2, 3, 4}, 3, Many(3, Msg("DeviceSpec")))
        /\ DepFits({1, 2, 3, 4}, 4,
                   Many(4, Msg("AllocateResponse.AnnotationsEntry")))
    BY DepIs, AreScalars
  <2> QED BY <1>2, <2>1, <2>2, Fit4, NumberIs, SMTT(60)
          DEF DevicePluginV1alpha_AllocateResponseDesc,
              DevicePluginV1alpha_AllocateResponse
<1>m7. MessageAt(DevicePluginV1alpha, maps, 7, "Mount", {},
                <<"ContainerPath", "HostPath", "ReadOnly">>)
  BY <1>2, <1>5, Fit3, FieldIs, DepIs, NumberIs, AreScalars, SMTT(60)
     DEF DevicePluginV1alpha_MountDesc, DevicePluginV1alpha_Mount
<1>m8. MessageAt(DevicePluginV1alpha, maps, 8, "DeviceSpec", {},
                <<"ContainerPath", "HostPath", "Permissions">>)
  BY <1>2, <1>5, Fit3, FieldIs, DepIs, NumberIs, AreScalars, SMTT(60)
     DEF DevicePluginV1alpha_DeviceSpecDesc, DevicePluginV1alpha_DeviceSpec
<1>m9. EntryAt(DevicePluginV1alpha, maps, 9, "AllocateResponse.EnvsEntry", {})
  BY <1>2, <1>5, EntriesAre DEF
     DevicePluginV1alpha_AllocateResponse_EnvsEntryDesc
<1>m10. EntryAt(DevicePluginV1alpha, maps, 10,
              "AllocateResponse.AnnotationsEntry", {})
  BY <1>2, <1>5, EntriesAre DEF
     DevicePluginV1alpha_AllocateResponse_AnnotationsEntryDesc
<1>6. \A i \in DOMAIN Messages(DevicePluginV1alpha) :
        /\ MessageFits(DevicePluginV1alpha, maps, i)
        /\ Messages(DevicePluginV1alpha)[i].name # "nil"
  BY <1>1, <1>2, <1>m1, <1>m2, <1>m3, <1>m4, <1>m5, <1>m6, <1>m7, <1>m8,
     <1>m9, <1>m10, SMTT(60)
     DEF MessageAt, EntryAt, Row, MessageFits
<1>7. InOrder(deps, DepFields(DevicePluginV1alpha))
  <2>1. {deps[x] : x \in 1..Len(deps)} =
          {<<3, 1>>, <<6, 1>>, <<6, 2>>, <<6, 3>>, <<6, 4>>}
    BY DEF deps, DevicePluginV1alphaDeps
  <2>2. \A i \in DOMAIN Messages(DevicePluginV1alpha) :
          DepsListed(deps, Messages(DevicePluginV1alpha)[i], i)
    <3>1. /\ DepsAre({}, Messages(DevicePluginV1alpha)[1])
          /\ DepsAre({}, Messages(DevicePluginV1alpha)[2])
          /\ DepsAre({1}, Messages(DevicePluginV1alpha)[3])
          /\ DepsAre({}, Messages(DevicePluginV1alpha)[4])
          /\ DepsAre({}, Messages(DevicePluginV1alpha)[5])
          /\ DepsAre({1, 2, 3, 4}, Messages(DevicePluginV1alpha)[6])
          /\ DepsAre({}, Messages(DevicePluginV1alpha)[7])
          /\ DepsAre({}, Messages(DevicePluginV1alpha)[8])
          /\ DepsAre({}, Messages(DevicePluginV1alpha)[9])
          /\ DepsAre({}, Messages(DevicePluginV1alpha)[10])
      BY <1>m1, <1>m2, <1>m3, <1>m4, <1>m5, <1>m6, <1>m7, <1>m8, <1>m9,
         <1>m10 DEF MessageAt, EntryAt
    <3>2. \A i \in DOMAIN Messages(DevicePluginV1alpha) : \A f \in Nat :
            (f \in DOMAIN Messages(DevicePluginV1alpha)[i].fields
               /\ IsDep(Messages(DevicePluginV1alpha)[i].fields[f].type))
            <=> <<i, f>> \in {<<3, 1>>, <<6, 1>>, <<6, 2>>, <<6, 3>>, <<6,
              4>>}
      BY <1>1, <3>1, SMTT(60) DEF DepsAre
    <3> QED BY <2>1, <3>2 DEF DepsListed
  <2>3. \A x, y \in 1..Len(deps) : x < y => Before(deps[x], deps[y])
    BY DEF deps, DevicePluginV1alphaDeps, Before
  <2>4. /\ deps \in Seq(Nat \X Nat)
        /\ \A x \in 1..Len(deps) :
             deps[x][1] \in DOMAIN Messages(DevicePluginV1alpha)
    BY <1>1, SMTT(30) DEF deps, DevicePluginV1alphaDeps
  <2> QED BY <1>6, <2>2, <2>3, <2>4, DepFieldsInOrder
<1>d1. Resolves(DevicePluginV1alpha, deps, 1)
  BY <1>1, <1>2, <1>3a, <1>m4, SMTT(30)
     DEF Resolves, TypeAt, Type, deps, DevicePluginV1alphaDeps, MessageAt,
         EntryAt, Row, Message, Many,
         DevicePluginV1alpha_ListAndWatchResponseDesc
<1>d2. Resolves(DevicePluginV1alpha, deps, 2)
  BY <1>1, <1>2, <1>3a, <1>m9, SMTT(30)
     DEF Resolves, TypeAt, Type, deps, DevicePluginV1alphaDeps, MessageAt,
         EntryAt, Row, Message, Many, DevicePluginV1alpha_AllocateResponseDesc
<1>d3. Resolves(DevicePluginV1alpha, deps, 3)
  BY <1>1, <1>2, <1>3a, <1>m7, SMTT(30)
     DEF Resolves, TypeAt, Type, deps, DevicePluginV1alphaDeps, MessageAt,
         EntryAt, Row, Message, Many, DevicePluginV1alpha_AllocateResponseDesc
<1>d4. Resolves(DevicePluginV1alpha, deps, 4)
  BY <1>1, <1>2, <1>3a, <1>m8, SMTT(30)
     DEF Resolves, TypeAt, Type, deps, DevicePluginV1alphaDeps, MessageAt,
         EntryAt, Row, Message, Many, DevicePluginV1alpha_AllocateResponseDesc
<1>d5. Resolves(DevicePluginV1alpha, deps, 5)
  BY <1>1, <1>2, <1>3a, <1>m10, SMTT(30)
     DEF Resolves, TypeAt, Type, deps, DevicePluginV1alphaDeps, MessageAt,
         EntryAt, Row, Message, Many, DevicePluginV1alpha_AllocateResponseDesc
<1>s1. MethodResolves(DevicePluginV1alpha, methods, 1)
  <2>1. /\ IsIndexOf(DevicePluginV1alpha, 0, "RegisterRequest")
        /\ IsIndexOf(DevicePluginV1alpha, 1, "Empty")
    BY <1>1, <1>m1, <1>m2 DEF IsIndexOf, MessageAt
  <2> QED BY <1>3a, <1>4, <2>1
          DEF MethodResolves, Method, Input, Output, services, methods,
              DevicePluginV1alphaMethods
<1>s2. MethodResolves(DevicePluginV1alpha, methods, 2)
  <2>1. /\ IsIndexOf(DevicePluginV1alpha, 1, "Empty")
        /\ IsIndexOf(DevicePluginV1alpha, 2, "ListAndWatchResponse")
    BY <1>1, <1>m2, <1>m3 DEF IsIndexOf, MessageAt
  <2> QED BY <1>3a, <1>4, <2>1
          DEF MethodResolves, Method, Input, Output, services, methods,
              DevicePluginV1alphaMethods
<1>s3. MethodResolves(DevicePluginV1alpha, methods, 3)
  <2>1. /\ IsIndexOf(DevicePluginV1alpha, 4, "AllocateRequest")
        /\ IsIndexOf(DevicePluginV1alpha, 5, "AllocateResponse")
    BY <1>1, <1>m5, <1>m6 DEF IsIndexOf, MessageAt
  <2> QED BY <1>3a, <1>4, <2>1
          DEF MethodResolves, Method, Input, Output, services, methods,
              DevicePluginV1alphaMethods
<1>8. InOrder(methods, Methods(DevicePluginV1alpha)) /\ MethodsOnce(services)
  <2>1. Methods(DevicePluginV1alpha) =
          UNION {{<<s, m>> : m \in DOMAIN services[s].methods} :
                   s \in DOMAIN services}
    BY DEF Methods, services
  <2>2. Methods(DevicePluginV1alpha) = {<<1, 1>>, <<2, 1>>, <<2, 2>>}
    BY <1>4, <2>1
  <2>3. MethodsOnce(services)
    BY <1>4 DEF MethodsOnce, Method
  <2> QED BY <2>2, <2>3
             DEF InOrder, Before, methods, DevicePluginV1alphaMethods
<1>9. \A n \in DOMAIN maps : \E i \in DOMAIN Messages(DevicePluginV1alpha) :
        /\ Messages(DevicePluginV1alpha)[i].entry
        /\ Messages(DevicePluginV1alpha)[i].name = n
  BY <1>1, <1>5, <1>m9, <1>m10 DEF EntryAt, EntryFits
<1>10. /\ \A x \in 1..Len(deps) : Resolves(DevicePluginV1alpha, deps, x)
       /\ \A x \in 1..Len(methods) :
            MethodResolves(DevicePluginV1alpha, methods, x)
  BY <1>d1, <1>d2, <1>d3, <1>d4, <1>d5, <1>s1, <1>s2, <1>s3
     DEF deps, DevicePluginV1alphaDeps, methods, DevicePluginV1alphaMethods
<1>12. Fits(DevicePluginV1alpha, deps, methods, maps)
  BY <1>1, <1>6, <1>7, <1>8, <1>9, <1>10 DEF Fits, services
<1> QED BY <1>12 DEF FitsTogether

-----------------------------------------------------------------------------
(* DevicePluginV1beta1                                                     *)

DevicePluginV1beta1Deps ==
  <<<<2, 4>>, <<4, 1>>, <<5, 1>>, <<7, 3>>, <<10, 1>>, <<12, 1>>, <<14, 1>>,
    <<17, 1>>, <<18, 1>>, <<18, 2>>, <<18, 3>>, <<18, 4>>, <<18, 5>>>>
DevicePluginV1beta1Methods ==
  <<<<1, 1>>, <<2, 1>>, <<2, 2>>, <<2, 3>>, <<2, 4>>, <<2, 5>>>>
DevicePluginV1beta1Maps ==
  [n \in {"ContainerAllocateResponse.EnvsEntry",
         "ContainerAllocateResponse.AnnotationsEntry"} |->
     MapOf(Str, Str)]

LEMMA DevicePluginV1beta1Fits == FitsTogether(DevicePluginV1beta1)
<1> DEFINE deps == DevicePluginV1beta1Deps
           methods == DevicePluginV1beta1Methods
           maps == DevicePluginV1beta1Maps
           idxs == DevicePluginV1beta1.depIdxs
           services == DevicePluginV1beta1.desc.services
           Type(x) == DepIdx(DevicePluginV1beta1, FieldTypes, x)
           Input(x) == DepIdx(DevicePluginV1beta1, MethodInputs, x)
           Output(x) == DepIdx(DevicePluginV1beta1, MethodOutputs, x)
<1>1. /\ Len(Messages(DevicePluginV1beta1)) = 22
      /\ DOMAIN Messages(DevicePluginV1beta1) = 1..22
      /\ Len(Enums(DevicePluginV1beta1)) = 0
      /\ DOMAIN Enums(DevicePluginV1beta1) = 1..0
      /\ DOMAIN DevicePluginV1beta1.goTypes = 1..22
  BY DEF Messages, Enums, DevicePluginV1beta1, DevicePluginV1beta1Desc,
         DevicePluginV1beta1GoTypes, TypeBuilder, File
<1>2. /\ Row(DevicePluginV1beta1, 1,
             DevicePluginV1beta1_DevicePluginOptionsDesc,
               DevicePluginV1beta1_DevicePluginOptions)
      /\ Row(DevicePluginV1beta1, 2, DevicePluginV1beta1_RegisterRequestDesc,
             DevicePluginV1beta1_RegisterRequest)
      /\ Row(DevicePluginV1beta1, 3, DevicePluginV1beta1_EmptyDesc,
             DevicePluginV1beta1_Empty)
      /\ Row(DevicePluginV1beta1, 4,
             DevicePluginV1beta1_ListAndWatchResponseDesc,
               DevicePluginV1beta1_ListAndWatchResponse)
      /\ Row(DevicePluginV1beta1, 5, DevicePluginV1beta1_TopologyInfoDesc,
             DevicePluginV1beta1_TopologyInfo)
      /\ Row(DevicePluginV1beta1, 6, DevicePluginV1beta1_NUMANodeDesc,
             DevicePluginV1beta1_NUMANode)
      /\ Row(DevicePluginV1beta1, 7, DevicePluginV1beta1_DeviceDesc,
             DevicePluginV1beta1_Device)
      /\ Row(DevicePluginV1beta1, 8,
             DevicePluginV1beta1_PreStartContainerRequestDesc,
               DevicePluginV1beta1_PreStartContainerRequest)
      /\ Row(DevicePluginV1beta1, 9,
             DevicePluginV1beta1_PreStartContainerResponseDesc,
               DevicePluginV1beta1_PreStartContainerResponse)
      /\ Row(DevicePluginV1beta1, 10,
             DevicePluginV1beta1_PreferredAllocationRequestDesc,
               DevicePluginV1beta1_PreferredAllocationRequest)
      /\ Row(DevicePluginV1beta1, 11,
             DevicePluginV1beta1_ContainerPreferredAllocationRequestDesc,
               DevicePluginV1beta1_ContainerPreferredAllocationRequest)
      /\ Row(DevicePluginV1beta1, 12,
             DevicePluginV1beta1_PreferredAllocationResponseDesc,
               DevicePluginV1beta1_PreferredAllocationResponse)
      /\ Row(DevicePluginV1beta1, 13,
             DevicePluginV1beta1_ContainerPreferredAllocationResponseDesc,
               DevicePluginV1beta1_ContainerPreferredAllocationResponse)
      /\ Row(DevicePluginV1beta1, 14,
             DevicePluginV1beta1_AllocateRequestDesc,
               DevicePluginV1beta1_AllocateRequest)
      /\ Row(DevicePluginV1beta1, 15,
             DevicePluginV1beta1_ContainerAllocateRequestDesc,
               DevicePluginV1beta1_ContainerAllocateRequest)
      /\ Row(DevicePluginV1beta1, 16, DevicePluginV1beta1_CDIDeviceDesc,
             DevicePluginV1beta1_CDIDevice)
      /\ Row(DevicePluginV1beta1, 17,
             DevicePluginV1beta1_AllocateResponseDesc,
               DevicePluginV1beta1_AllocateResponse)
      /\ Row(DevicePluginV1beta1, 18,
             DevicePluginV1beta1_ContainerAllocateResponseDesc,
               DevicePluginV1beta1_ContainerAllocateResponse)
      /\ Row(DevicePluginV1beta1, 19, DevicePluginV1beta1_MountDesc,
             DevicePluginV1beta1_Mount)
      /\ Row(DevicePluginV1beta1, 20, DevicePluginV1beta1_DeviceSpecDesc,
             DevicePluginV1beta1_DeviceSpec)
      /\ Row(DevicePluginV1beta1, 21,
             DevicePluginV1beta1_ContainerAllocateResponse_EnvsEntryDesc,
               NilType)
      /\ Row(DevicePluginV1beta1, 22,

             DevicePluginV1beta1_ContainerAllocateResponse_AnnotationsEntryDesc,
               NilType)
  <2>1. /\ Messages(DevicePluginV1beta1)[1] =
             DevicePluginV1beta1_DevicePluginOptionsDesc
        /\ Messages(DevicePluginV1beta1)[2] =
             DevicePluginV1beta1_RegisterRequestDesc
        /\ Messages(DevicePluginV1beta1)[3] = DevicePluginV1beta1_EmptyDesc
        /\ Messages(DevicePluginV1beta1)[4] =
             DevicePluginV1beta1_ListAndWatchResponseDesc
        /\ Messages(DevicePluginV1beta1)[5] =
             DevicePluginV1beta1_TopologyInfoDesc
        /\ Messages(DevicePluginV1beta1)[6] = DevicePluginV1beta1_NUMANodeDesc
        /\ Messages(DevicePluginV1beta1)[7] = DevicePluginV1beta1_DeviceDesc
        /\ Messages(DevicePluginV1beta1)[8] =
             DevicePluginV1beta1_PreStartContainerRequestDesc
        /\ Messages(DevicePluginV1beta1)[9] =
             DevicePluginV1beta1_PreStartContainerResponseDesc
        /\ Messages(DevicePluginV1beta1)[10] =
             DevicePluginV1beta1_PreferredAllocationRequestDesc
        /\ Messages(DevicePluginV1beta1)[11] =
             DevicePluginV1beta1_ContainerPreferredAllocationRequestDesc
        /\ Messages(DevicePluginV1beta1)[12] =
             DevicePluginV1beta1_PreferredAllocationResponseDesc
        /\ Messages(DevicePluginV1beta1)[13] =
             DevicePluginV1beta1_ContainerPreferredAllocationResponseDesc
        /\ Messages(DevicePluginV1beta1)[14] =
             DevicePluginV1beta1_AllocateRequestDesc
        /\ Messages(DevicePluginV1beta1)[15] =
             DevicePluginV1beta1_ContainerAllocateRequestDesc
        /\ Messages(DevicePluginV1beta1)[16] =
             DevicePluginV1beta1_CDIDeviceDesc
        /\ Messages(DevicePluginV1beta1)[17] =
             DevicePluginV1beta1_AllocateResponseDesc
        /\ Messages(DevicePluginV1beta1)[18] =
             DevicePluginV1beta1_ContainerAllocateResponseDesc
        /\ Messages(DevicePluginV1beta1)[19] = DevicePluginV1beta1_MountDesc
        /\ Messages(DevicePluginV1beta1)[20] =
             DevicePluginV1beta1_DeviceSpecDesc
        /\ Messages(DevicePluginV1beta1)[21] =
             DevicePluginV1beta1_ContainerAllocateResponse_EnvsEntryDesc
        /\ Messages(DevicePluginV1beta1)[22] =
             DevicePluginV1beta1_ContainerAllocateResponse_AnnotationsEntryDesc
    BY DEF Messages, DevicePluginV1beta1, DevicePluginV1beta1Desc,
           TypeBuilder, File
  <2>2. /\ DevicePluginV1beta1.goTypes[1] =
             DevicePluginV1beta1_DevicePluginOptions
        /\ DevicePluginV1beta1.goTypes[2] =
             DevicePluginV1beta1_RegisterRequest
        /\ DevicePluginV1beta1.goTypes[3] = DevicePluginV1beta1_Empty
        /\ DevicePluginV1beta1.goTypes[4] =
             DevicePluginV1beta1_ListAndWatchResponse
        /\ DevicePluginV1beta1.goTypes[5] = DevicePluginV1beta1_TopologyInfo
        /\ DevicePluginV1beta1.goTypes[6] = DevicePluginV1beta1_NUMANode
        /\ DevicePluginV1beta1.goTypes[7] = DevicePluginV1beta1_Device
        /\ DevicePluginV1beta1.goTypes[8] =
             DevicePluginV1beta1_PreStartContainerRequest
        /\ DevicePluginV1beta1.goTypes[9] =
             DevicePluginV1beta1_PreStartContainerResponse
        /\ DevicePluginV1beta1.goTypes[10] =
             DevicePluginV1beta1_PreferredAllocationRequest
        /\ DevicePluginV1beta1.goTypes[11] =
             DevicePluginV1beta1_ContainerPreferredAllocationRequest
        /\ DevicePluginV1beta1.goTypes[12] =
             DevicePluginV1beta1_PreferredAllocationResponse
        /\ DevicePluginV1beta1.goTypes[13] =
             DevicePluginV1beta1_ContainerPreferredAllocationResponse
        /\ DevicePluginV1beta1.goTypes[14] =
             DevicePluginV1beta1_AllocateRequest
        /\ DevicePluginV1beta1.goTypes[15] =
             DevicePluginV1beta1_ContainerAllocateRequest
        /\ DevicePluginV1beta1.goTypes[16] = DevicePluginV1beta1_CDIDevice
        /\ DevicePluginV1beta1.goTypes[17] =
             DevicePluginV1beta1_AllocateResponse
        /\ DevicePluginV1beta1.goTypes[18] =
             DevicePluginV1beta1_ContainerAllocateResponse
        /\ DevicePluginV1beta1.goTypes[19] = DevicePluginV1beta1_Mount
        /\ DevicePluginV1beta1.goTypes[20] = DevicePluginV1beta1_DeviceSpec
        /\ DevicePluginV1beta1.goTypes[21] = NilType
        /\ DevicePluginV1beta1.goTypes[22] = NilType
    BY DEF DevicePluginV1beta1, DevicePluginV1beta1GoTypes, TypeBuilder
  <2> QED BY <1>1, <2>1, <2>2 DEF Row, GoType
<1>3. /\ Len(idxs) = 30 /\ idxs[1] = 0 /\ idxs[2] = 6 /\ idxs[3] = 5
      /\ idxs[4] = 4 /\ idxs[5] = 10 /\ idxs[6] = 12 /\ idxs[7] = 14
      /\ idxs[8] = 17 /\ idxs[9] = 20 /\ idxs[10] = 18 /\ idxs[11] = 19
      /\ idxs[12] = 21 /\ idxs[13] = 15 /\ idxs[14] = 1 /\ idxs[15] = 2
      /\ idxs[16] = 2 /\ idxs[17] = 9 /\ idxs[18] = 13 /\ idxs[19] = 7
      /\ idxs[20] = 2 /\ idxs[21] = 0 /\ idxs[22] = 3 /\ idxs[23] = 11
      /\ idxs[24] = 16 /\ idxs[25] = 8 /\ idxs[26] = 19 /\ idxs[27] = 13
      /\ idxs[28] = 13 /\ idxs[29] = 13 /\ idxs[30] = 0
  BY DEF DevicePluginV1beta1, DevicePluginV1beta1DepIdxs, TypeBuilder
<1>3a. /\ Type(0) = 0 /\ Type(1) = 6 /\ Type(2) = 5 /\ Type(3) = 4
       /\ Type(4) = 10 /\ Type(5) = 12 /\ Type(6) = 14 /\ Type(7) = 17
       /\ Type(8) = 20 /\ Type(9) = 18 /\ Type(10) = 19 /\ Type(11) = 21
       /\ Type(12) = 15 /\ Input(0) = 1 /\ Input(1) = 2 /\ Input(2) = 2
       /\ Input(3) = 9 /\ Input(4) = 13 /\ Input(5) = 7 /\ Output(0) = 2
       /\ Output(1) = 0 /\ Output(2) = 3 /\ Output(3) = 11 /\ Output(4) = 16
       /\ Output(5) = 8
  BY <1>3 DEF DepIdx, FieldTypes, MethodInputs, MethodOutputs
<1>4. /\ DOMAIN services = 1..2
      /\ services[1].name = "Registration"
      /\ DOMAIN services[1].methods = 1..1
      /\ services[1].methods[1] =
             Method("Register", "RegisterRequest", "Empty")
      /\ services[2].name = "DevicePlugin"
      /\ DOMAIN services[2].methods = 1..5
      /\ services[2].methods[1] =
             Method("GetDevicePluginOptions", "Empty", "DevicePluginOptions")
      /\ services[2].methods[2] =
             Method("ListAndWatch", "Empty", "ListAndWatchResponse")
      /\ services[2].methods[3] =
             Method("GetPreferredAllocation", "PreferredAllocationRequest",
               "PreferredAllocationResponse")
      /\ services[2].methods[4] =
             Method("Allocate", "AllocateRequest", "AllocateResponse")
      /\ services[2].methods[5] =
             Method("PreStartContainer", "PreStartContainerRequest",
               "PreStartContainerResponse")
  BY DEF DevicePluginV1beta1, DevicePluginV1beta1Desc, TypeBuilder, File,
         Service
<1>5. /\ DOMAIN maps =
           {"ContainerAllocateResponse.EnvsEntry",
            "ContainerAllocateResponse.AnnotationsEntry"}
      /\ maps["ContainerAllocateResponse.EnvsEntry"] =
           MapOf(Str, Str)
      /\ maps["ContainerAllocateResponse.AnnotationsEntry"] =
           MapOf(Str, Str)
  BY DEF DevicePluginV1beta1Maps
<1> HIDE DEF deps, methods, maps, idxs, services, Type, Input, Output
<1>m1. MessageAt(DevicePluginV1beta1, maps, 1, "DevicePluginOptions", {},
                <<"PreStartRequired", "GetPreferredAllocationAvailable">>)
  BY <1>2, <1>5, Fit2, FieldIs, DepIs, NumberIs, AreScalars, SMTT(60)
     DEF DevicePluginV1beta1_DevicePluginOptionsDesc,
         DevicePluginV1beta1_DevicePluginOptions
<1>m2. MessageAt(DevicePluginV1beta1, maps, 2, "RegisterRequest", {4},
                <<"Version", "Endpoint", "ResourceName", "Options">>)
  <2>1. /\ FieldFits(maps, One(1, Str), Tag(1, Str))
        /\ FieldFits(maps, One(2, Str), Tag(2, Str))
        /\ FieldFits(maps, One(3, Str), Tag(3, Str))
        /\ FieldFits(maps, One(4, Msg("DevicePluginOptions")),
                     Tag(4, Ref("DevicePluginOptions")))
    BY <1>5, FieldIs, AreScalars
  <2>2. /\ DepFits({4}, 1, One(1, Str))
        /\ DepFits({4}, 2, One(2, Str))
        /\ DepFits({4}, 3, One(3, Str))
        /\ DepFits({4}, 4, One(4, Msg("DevicePluginOptions")))
    BY DepIs, AreScalars
  <2> QED BY <1>2, <2>1, <2>2, Fit4, NumberIs, SMTT(60)
          DEF DevicePluginV1beta1_RegisterRequestDesc,
              DevicePluginV1beta1_RegisterRequest
<1>m3. MessageAt(DevicePluginV1beta1, maps, 3, "Empty", {}, <<>>)
  BY <1>2, Fit0 DEF DevicePluginV1beta1_EmptyDesc, DevicePluginV1beta1_Empty
<1>m4. MessageAt(DevicePluginV1beta1, maps, 4, "ListAndWatchResponse", {1},
                <<"Devices">>)
  BY <1>2, <1>5, Fit1, FieldIs, DepIs, NumberIs, AreScalars, SMTT(60)
     DEF DevicePluginV1beta1_ListAndWatchResponseDesc,
         DevicePluginV1beta1_ListAndWatchResponse
<1>m5. MessageAt(DevicePluginV1beta1, maps, 5, "TopologyInfo", {1},
                <<"Nodes">>)
  BY <1>2, <1>5, Fit1, FieldIs, DepIs, NumberIs, AreScalars, SMTT(60)
     DEF DevicePluginV1beta1_TopologyInfoDesc,
         DevicePluginV1beta1_TopologyInfo
<1>m6. MessageAt(DevicePluginV1beta1, maps, 6, "NUMANode", {}, <<"ID">>)
  BY <1>2, <1>5, Fit1, FieldIs, DepIs, NumberIs, AreScalars, SMTT(60)
     DEF DevicePluginV1beta1_NUMANodeDesc, DevicePluginV1beta1_NUMANode
<1>m7. MessageAt(DevicePluginV1beta1, maps, 7, "Device", {3},
                <<"ID", "Health", "Topology">>)
  BY <1>2, <1>5, Fit3, FieldIs, DepIs, NumberIs, AreScalars, SMTT(60)
     DEF DevicePluginV1beta1_DeviceDesc, DevicePluginV1beta1_Device
<1>m8. MessageAt(DevicePluginV1beta1, maps, 8, "PreStartContainerRequest", {},
                <<"DevicesIds">>)
  BY <1>2, <1>5, Fit1, FieldIs, DepIs, NumberIs, AreScalars, SMTT(60)
     DEF DevicePluginV1beta1_PreStartContainerRequestDesc,
         DevicePluginV1beta1_PreStartContainerRequest
<1>m9. MessageAt(DevicePluginV1beta1, maps, 9,
                "PreStartContainerResponse", {},
                <<>>)
  BY <1>2, Fit0 DEF DevicePluginV1beta1_PreStartContainerResponseDesc,
         DevicePluginV1beta1_PreStartContainerResponse
<1>m10. MessageAt(DevicePluginV1beta1, maps, 10,
                "PreferredAllocationRequest", {1},
                <<"ContainerRequests">>)
  BY <1>2, <1>5, Fit1, FieldIs, DepIs, NumberIs, AreScalars, SMTT(60)
     DEF DevicePluginV1beta1_PreferredAllocationRequestDesc,
         DevicePluginV1beta1_PreferredAllocationRequest
<1>m11. MessageAt(DevicePluginV1beta1, maps, 11,
                "ContainerPreferredAllocationRequest", {},
                <<"AvailableDeviceIDs", "MustIncludeDeviceIDs",
                  "AllocationSize">>)
  BY <1>2, <1>5, Fit3, FieldIs, DepIs, NumberIs, AreScalars, SMTT(60)
     DEF DevicePluginV1beta1_ContainerPreferredAllocationRequestDesc,
         DevicePluginV1beta1_ContainerPreferredAllocationRequest
<1>m12. MessageAt(DevicePluginV1beta1, maps, 12,
                "PreferredAllocationResponse", {1},
                <<"ContainerResponses">>)
  BY <1>2, <1>5, Fit1, FieldIs, DepIs, NumberIs, AreScalars, SMTT(60)
     DEF DevicePluginV1beta1_PreferredAllocationResponseDesc,
         DevicePluginV1beta1_PreferredAllocationResponse
<1>m13. MessageAt(DevicePluginV1beta1, maps, 13,
                "ContainerPreferredAllocationResponse", {},
                <<"DeviceIDs">>)
  BY <1>2, <1>5, Fit1, FieldIs, DepIs, NumberIs, AreScalars, SMTT(60)
     DEF DevicePluginV1beta1_ContainerPreferredAllocationResponseDesc,
         DevicePluginV1beta1_ContainerPreferredAllocationResponse
<1>m14. MessageAt(DevicePluginV1beta1, maps, 14, "AllocateRequest", {1},
                <<"ContainerRequests">>)
  BY <1>2, <1>5, Fit1, FieldIs, DepIs, NumberIs, AreScalars, SMTT(60)
     DEF DevicePluginV1beta1_AllocateRequestDesc,
         DevicePluginV1beta1_AllocateRequest
<1>m15. MessageAt(DevicePluginV1beta1, maps, 15,
                "ContainerAllocateRequest", {},
                <<"DevicesIds">>)
  BY <1>2, <1>5, Fit1, FieldIs, DepIs, NumberIs, AreScalars, SMTT(60)
     DEF DevicePluginV1beta1_ContainerAllocateRequestDesc,
         DevicePluginV1beta1_ContainerAllocateRequest
<1>m16. MessageAt(DevicePluginV1beta1, maps, 16, "CDIDevice", {}, <<"Name">>)
  BY <1>2, <1>5, Fit1, FieldIs, DepIs, NumberIs, AreScalars, SMTT(60)
     DEF DevicePluginV1beta1_CDIDeviceDesc, DevicePluginV1beta1_CDIDevice
<1>m17. MessageAt(DevicePluginV1beta1, maps, 17, "AllocateResponse", {1},
                <<"ContainerResponses">>)
  BY <1>2, <1>5, Fit1, FieldIs, DepIs, NumberIs, AreScalars, SMTT(60)
     DEF DevicePluginV1beta1_AllocateResponseDesc,
         DevicePluginV1beta1_AllocateResponse
<1>m18. MessageAt(DevicePluginV1beta1, maps, 18,
                "ContainerAllocateResponse", {1, 2, 3, 4, 5},
                <<"Envs", "Mounts", "Devices", "Annotations", "CdiDevices">>)
  <2>1. /\ FieldFits(maps, Many(1, Msg("ContainerAllocateResponse.EnvsEntry")),
                     Tag(1, MapOf(Str, Str)))
        /\ FieldFits(maps, Many(2, Msg("Mount")), Tag(2, Slice(Ref("Mount"))))
        /\ FieldFits(maps, Many(3, Msg("DeviceSpec")),
                     Tag(3, Slice(Ref("DeviceSpec"))))
        /\ FieldFits(maps,
                     Many(4, Msg("ContainerAllocateResponse.AnnotationsEntry")),
                     Tag(4, MapOf(Str, Str)))
        /\ FieldFits(maps, Many(5, Msg("CDIDevice")),
                     Tag(5, Slice(Ref("CDIDevice"))))
    BY <1>5, FieldIs, AreScalars
  <2>2. /\ DepFits({1, 2, 3, 4, 5}, 1,
                   Many(1, Msg("ContainerAllocateResponse.EnvsEntry")))
        /\ DepFits({1, 2, 3, 4, 5}, 2, Many(2, Msg("Mount")))
        /\ DepFits({1, 2, 3, 4, 5}, 3, Many(3, Msg("DeviceSpec")))
        /\ DepFits({1, 2, 3, 4, 5}, 4,
                   Many(4, Msg("ContainerAllocateResponse.AnnotationsEntry")))
        /\ DepFits({1, 2, 3, 4, 5}, 5, Many(5, Msg("CDIDevice")))
    BY DepIs, AreScalars
  <2> QED BY <1>2, <2>1, <2>2, Fit5, NumberIs, SMTT(60)
          DEF DevicePluginV1beta1_ContainerAllocateResponseDesc,
              DevicePluginV1beta1_ContainerAllocateResponse
<1>m19. MessageAt(DevicePluginV1beta1, maps, 19, "Mount", {},
                <<"ContainerPath", "HostPath", "ReadOnly">>)
  BY <1>2, <1>5, Fit3, FieldIs, DepIs, NumberIs, AreScalars, SMTT(60)
     DEF DevicePluginV1beta1_MountDesc, DevicePluginV1beta1_Mount
<1>m20. MessageAt(DevicePluginV1beta1, maps, 20, "DeviceSpec", {},
                <<"ContainerPath", "HostPath", "Permissions">>)
  BY <1>2, <1>5, Fit3, FieldIs, DepIs, NumberIs, AreScalars, SMTT(60)
     DEF DevicePluginV1beta1_DeviceSpecDesc, DevicePluginV1beta1_DeviceSpec
<1>m21. EntryAt(DevicePluginV1beta1, maps, 21,
              "ContainerAllocateResponse.EnvsEntry", {})
  BY <1>2, <1>5, EntriesAre DEF
     DevicePluginV1beta1_ContainerAllocateResponse_EnvsEntryDesc
<1>m22. EntryAt(DevicePluginV1beta1, maps, 22,
              "ContainerAllocateResponse.AnnotationsEntry", {})
  BY <1>2, <1>5, EntriesAre DEF
     DevicePluginV1beta1_ContainerAllocateResponse_AnnotationsEntryDesc
<1>6. \A i \in DOMAIN Messages(DevicePluginV1beta1) :
        /\ MessageFits(DevicePluginV1beta1, maps, i)
        /\ Messages(DevicePluginV1beta1)[i].name # "nil"
  BY <1>1, <1>2, <1>m1, <1>m2, <1>m3, <1>m4, <1>m5, <1>m6, <1>m7, <1>m8,
     <1>m9, <1>m10, <1>m11, <1>m12, <1>m13, <1>m14, <1>m15, <1>m16, <1>m17,
     <1>m18, <1>m19, <1>m20, <1>m21, <1>m22, SMTT(60)
     DEF MessageAt, EntryAt, Row, MessageFits
<1>7. InOrder(deps, DepFields(DevicePluginV1beta1))
  <2>1. {deps[x] : x \in 1..Len(deps)} =
          {<<2, 4>>, <<4, 1>>, <<5, 1>>, <<7, 3>>, <<10, 1>>, <<12, 1>>,
           <<14, 1>>, <<17, 1>>, <<18, 1>>, <<18, 2>>, <<18, 3>>, <<18, 4>>,
           <<18, 5>>}
    BY DEF deps, DevicePluginV1beta1Deps
  <2>2. \A i \in DOMAIN Messages(DevicePluginV1beta1) :
          DepsListed(deps, Messages(DevicePluginV1beta1)[i], i)
    <3>1. /\ DepsAre({}, Messages(DevicePluginV1beta1)[1])
          /\ DepsAre({4}, Messages(DevicePluginV1beta1)[2])
          /\ DepsAre({}, Messages(DevicePluginV1beta1)[3])
          /\ DepsAre({1}, Messages(DevicePluginV1beta1)[4])
          /\ DepsAre({1}, Messages(DevicePluginV1beta1)[5])
          /\ DepsAre({}, Messages(DevicePluginV1beta1)[6])
          /\ DepsAre({3}, Messages(DevicePluginV1beta1)[7])
          /\ DepsAre({}, Messages(DevicePluginV1beta1)[8])
          /\ DepsAre({}, Messages(DevicePluginV1beta1)[9])
          /\ DepsAre({1}, Messages(DevicePluginV1beta1)[10])
          /\ DepsAre({}, Messages(DevicePluginV1beta1)[11])
          /\ DepsAre({1}, Messages(DevicePluginV1beta1)[12])
          /\ DepsAre({}, Messages(DevicePluginV1beta1)[13])
          /\ DepsAre({1}, Messages(DevicePluginV1beta1)[14])
          /\ DepsAre({}, Messages(DevicePluginV1beta1)[15])
          /\ DepsAre({}, Messages(DevicePluginV1beta1)[16])
          /\ DepsAre({1}, Messages(DevicePluginV1beta1)[17])
          /\ DepsAre({1, 2, 3, 4, 5}, Messages(DevicePluginV1beta1)[18])
          /\ DepsAre({}, Messages(DevicePluginV1beta1)[19])
          /\ DepsAre({}, Messages(DevicePluginV1beta1)[20])
          /\ DepsAre({}, Messages(DevicePluginV1beta1)[21])
          /\ DepsAre({}, Messages(DevicePluginV1beta1)[22])
      BY <1>m1, <1>m2, <1>m3, <1>m4, <1>m5, <1>m6, <1>m7, <1>m8, <1>m9,
         <1>m10, <1>m11, <1>m12, <1>m13, <1>m14, <1>m15, <1>m16, <1>m17,
         <1>m18, <1>m19, <1>m20, <1>m21, <1>m22 DEF MessageAt, EntryAt
    <3>2. \A i \in DOMAIN Messages(DevicePluginV1beta1) : \A f \in Nat :
            (f \in DOMAIN Messages(DevicePluginV1beta1)[i].fields
               /\ IsDep(Messages(DevicePluginV1beta1)[i].fields[f].type))
            <=> <<i, f>> \in {<<2, 4>>, <<4, 1>>, <<5, 1>>, <<7, 3>>,
                             <<10, 1>>, <<12, 1>>, <<14, 1>>, <<17, 1>>,
                             <<18, 1>>, <<18, 2>>, <<18, 3>>, <<18, 4>>,
                             <<18, 5>>}
      BY <1>1, <3>1, SMTT(60) DEF DepsAre
    <3> QED BY <2>1, <3>2 DEF DepsListed
  <2>3. \A x, y \in 1..Len(deps) : x < y => Before(deps[x], deps[y])
    BY DEF deps, DevicePluginV1beta1Deps, Before
  <2>4. /\ deps \in Seq(Nat \X Nat)
        /\ \A x \in 1..Len(deps) :
             deps[x][1] \in DOMAIN Messages(DevicePluginV1beta1)
    BY <1>1, SMTT(30) DEF deps, DevicePluginV1beta1Deps
  <2> QED BY <1>6, <2>2, <2>3, <2>4, DepFieldsInOrder
<1>d1. Resolves(DevicePluginV1beta1, deps, 1)
  BY <1>1, <1>2, <1>3a, <1>m1, SMTT(30)
     DEF Resolves, TypeAt, Type, deps, DevicePluginV1beta1Deps, MessageAt,
         EntryAt, Row, Message, One, DevicePluginV1beta1_RegisterRequestDesc
<1>d2. Resolves(DevicePluginV1beta1, deps, 2)
  BY <1>1, <1>2, <1>3a, <1>m7, SMTT(30)
     DEF Resolves, TypeAt, Type, deps, DevicePluginV1beta1Deps, MessageAt,
         EntryAt, Row, Message, Many,
         DevicePluginV1beta1_ListAndWatchResponseDesc
<1>d3. Resolves(DevicePluginV1beta1, deps, 3)
  BY <1>1, <1>2, <1>3a, <1>m6, SMTT(30)
     DEF Resolves, TypeAt, Type, deps, DevicePluginV1beta1Deps, MessageAt,
         EntryAt, Row, Message, Many, DevicePluginV1beta1_TopologyInfoDesc
<1>d4. Resolves(DevicePluginV1beta1, deps, 4)
  BY <1>1, <1>2, <1>3a, <1>m5, SMTT(30)
     DEF Resolves, TypeAt, Type, deps, DevicePluginV1beta1Deps, MessageAt,
         EntryAt, Row, Message, One, DevicePluginV1beta1_DeviceDesc
<1>d5. Resolves(DevicePluginV1beta1, deps, 5)
  BY <1>1, <1>2, <1>3a, <1>m11, SMTT(30)
     DEF Resolves, TypeAt, Type, deps, DevicePluginV1beta1Deps, MessageAt,
         EntryAt, Row, Message, Many,
         DevicePluginV1beta1_PreferredAllocationRequestDesc
<1>d6. Resolves(DevicePluginV1beta1, deps, 6)
  BY <1>1, <1>2, <1>3a, <1>m13, SMTT(30)
     DEF Resolves, TypeAt, Type, deps, DevicePluginV1beta1Deps, MessageAt,
         EntryAt, Row, Message, Many,
         DevicePluginV1beta1_PreferredAllocationResponseDesc
<1>d7. Resolves(DevicePluginV1beta1, deps, 7)
  BY <1>1, <1>2, <1>3a, <1>m15, SMTT(30)
     DEF Resolves, TypeAt, Type, deps, DevicePluginV1beta1Deps, MessageAt,
         EntryAt, Row, Message, Many, DevicePluginV1beta1_AllocateRequestDesc
<1>d8. Resolves(DevicePluginV1beta1, deps, 8)
  BY <1>1, <1>2, <1>3a, <1>m18, SMTT(30)
     DEF Resolves, TypeAt, Type, deps, DevicePluginV1beta1Deps, MessageAt,
         EntryAt, Row, Message, Many, DevicePluginV1beta1_AllocateResponseDesc
<1>d9. Resolves(DevicePluginV1beta1, deps, 9)
  BY <1>1, <1>2, <1>3a, <1>m21, SMTT(30)
     DEF Resolves, TypeAt, Type, deps, DevicePluginV1beta1Deps, MessageAt,
         EntryAt, Row, Message, Many,
         DevicePluginV1beta1_ContainerAllocateResponseDesc
<1>d10. Resolves(DevicePluginV1beta1, deps, 10)
  BY <1>1, <1>2, <1>3a, <1>m19, SMTT(30)
     DEF Resolves, TypeAt, Type, deps, DevicePluginV1beta1Deps, MessageAt,
         EntryAt, Row, Message, Many,
         DevicePluginV1beta1_ContainerAllocateResponseDesc
<1>d11. Resolves(DevicePluginV1beta1, deps, 11)
  BY <1>1, <1>2, <1>3a, <1>m20, SMTT(30)
     DEF Resolves, TypeAt, Type, deps, DevicePluginV1beta1Deps, MessageAt,
         EntryAt, Row, Message, Many,
         DevicePluginV1beta1_ContainerAllocateResponseDesc
<1>d12. Resolves(DevicePluginV1beta1, deps, 12)
  BY <1>1, <1>2, <1>3a, <1>m22, SMTT(30)
     DEF Resolves, TypeAt, Type, deps, DevicePluginV1beta1Deps, MessageAt,
         EntryAt, Row, Message, Many,
         DevicePluginV1beta1_ContainerAllocateResponseDesc
<1>d13. Resolves(DevicePluginV1beta1, deps, 13)
  BY <1>1, <1>2, <1>3a, <1>m16, SMTT(30)
     DEF Resolves, TypeAt, Type, deps, DevicePluginV1beta1Deps, MessageAt,
         EntryAt, Row, Message, Many,
         DevicePluginV1beta1_ContainerAllocateResponseDesc
<1>s1. MethodResolves(DevicePluginV1beta1, methods, 1)
  <2>1. /\ IsIndexOf(DevicePluginV1beta1, 1, "RegisterRequest")
        /\ IsIndexOf(DevicePluginV1beta1, 2, "Empty")
    BY <1>1, <1>m2, <1>m3 DEF IsIndexOf, MessageAt
  <2> QED BY <1>3a, <1>4, <2>1
          DEF MethodResolves, Method, Input, Output, services, methods,
              DevicePluginV1beta1Methods
<1>s2. MethodResolves(DevicePluginV1beta1, methods, 2)
  <2>1. /\ IsIndexOf(DevicePluginV1beta1, 2, "Empty")
        /\ IsIndexOf(DevicePluginV1beta1, 0, "DevicePluginOptions")
    BY <1>1, <1>m3, <1>m1 DEF IsIndexOf, MessageAt
  <2> QED BY <1>3a, <1>4, <2>1
          DEF MethodResolves, Method, Input, Output, services, methods,
              DevicePluginV1beta1Methods
<1>s3. MethodResolves(DevicePluginV1beta1, methods, 3)
  <2>1. /\ IsIndexOf(DevicePluginV1beta1, 2, "Empty")
        /\ IsIndexOf(DevicePluginV1beta1, 3, "ListAndWatchResponse")
    BY <1>1, <1>m3, <1>m4 DEF IsIndexOf, MessageAt
  <2> QED BY <1>3a, <1>4, <2>1
          DEF MethodResolves, Method, Input, Output, services, methods,
              DevicePluginV1beta1Methods
<1>s4. MethodResolves(DevicePluginV1beta1, methods, 4)
  <2>1. /\ IsIndexOf(DevicePluginV1beta1, 9, "PreferredAllocationRequest")
        /\ IsIndexOf(DevicePluginV1beta1, 11, "PreferredAllocationResponse")
    BY <1>1, <1>m10, <1>m12 DEF IsIndexOf, MessageAt
  <2> QED BY <1>3a, <1>4, <2>1
          DEF MethodResolves, Method, Input, Output, services, methods,
              DevicePluginV1beta1Methods
<1>s5. MethodResolves(DevicePluginV1beta1, methods, 5)
  <2>1. /\ IsIndexOf(DevicePluginV1beta1, 13, "AllocateRequest")
        /\ IsIndexOf(DevicePluginV1beta1, 16, "AllocateResponse")
    BY <1>1, <1>m14, <1>m17 DEF IsIndexOf, MessageAt
  <2> QED BY <1>3a, <1>4, <2>1
          DEF MethodResolves, Method, Input, Output, services, methods,
              DevicePluginV1beta1Methods
<1>s6. MethodResolves(DevicePluginV1beta1, methods, 6)
  <2>1. /\ IsIndexOf(DevicePluginV1beta1, 7, "PreStartContainerRequest")
        /\ IsIndexOf(DevicePluginV1beta1, 8, "PreStartContainerResponse")
    BY <1>1, <1>m8, <1>m9 DEF IsIndexOf, MessageAt
  <2> QED BY <1>3a, <1>4, <2>1
          DEF MethodResolves, Method, Input, Output, services, methods,
              DevicePluginV1beta1Methods
<1>8. InOrder(methods, Methods(DevicePluginV1beta1)) /\ MethodsOnce(services)
  <2>1. Methods(DevicePluginV1beta1) =
          UNION {{<<s, m>> : m \in DOMAIN services[s].methods} :
                   s \in DOMAIN services}
    BY DEF Methods, services
  <2>2. Methods(DevicePluginV1beta1) = {<<1, 1>>, <<2, 1>>, <<2, 2>>,
            <<2, 3>>, <<2, 4>>, <<2, 5>>}
    BY <1>4, <2>1
  <2>3. MethodsOnce(services)
    BY <1>4 DEF MethodsOnce, Method
  <2> QED BY <2>2, <2>3
             DEF InOrder, Before, methods, DevicePluginV1beta1Methods
<1>9. \A n \in DOMAIN maps : \E i \in DOMAIN Messages(DevicePluginV1beta1) :
        /\ Messages(DevicePluginV1beta1)[i].entry
        /\ Messages(DevicePluginV1beta1)[i].name = n
  BY <1>1, <1>5, <1>m21, <1>m22 DEF EntryAt, EntryFits
<1>10. /\ \A x \in 1..Len(deps) : Resolves(DevicePluginV1beta1, deps, x)
       /\ \A x \in 1..Len(methods) :
            MethodResolves(DevicePluginV1beta1, methods, x)
  BY <1>d1, <1>d2, <1>d3, <1>d4, <1>d5, <1>d6, <1>d7, <1>d8, <1>d9, <1>d10,
     <1>d11, <1>d12, <1>d13, <1>s1, <1>s2, <1>s3, <1>s4, <1>s5, <1>s6
     DEF deps, DevicePluginV1beta1Deps, methods, DevicePluginV1beta1Methods
<1>12. Fits(DevicePluginV1beta1, deps, methods, maps)
  BY <1>1, <1>6, <1>7, <1>8, <1>9, <1>10 DEF Fits, services
<1> QED BY <1>12 DEF FitsTogether

-----------------------------------------------------------------------------
(* DRAV1beta1                                                              *)

DRAV1beta1Deps ==
  <<<<1, 1>>, <<2, 1>>, <<3, 1>>, <<5, 1>>, <<6, 1>>, <<9, 2>>, <<10, 2>>>>
DRAV1beta1Methods ==
  <<<<1, 1>>, <<1, 2>>>>
DRAV1beta1Maps ==
  [n \in {"NodePrepareResourcesResponse.ClaimsEntry",
         "NodeUnprepareResourcesResponse.ClaimsEntry"} |->
     IF n = "NodePrepareResourcesResponse.ClaimsEntry"
     THEN MapOf(Str, Ref("NodePrepareResourceResponse"))
     ELSE MapOf(Str, Ref("NodeUnprepareResourceResponse"))]

LEMMA DRAV1beta1Fits == FitsTogether(DRAV1beta1)
<1> DEFINE deps == DRAV1beta1Deps
           methods == DRAV1beta1Methods
           maps == DRAV1beta1Maps
           idxs == DRAV1beta1.depIdxs
           services == DRAV1beta1.desc.services
           Type(x) == DepIdx(DRAV1beta1, FieldTypes, x)
           Input(x) == DepIdx(DRAV1beta1, MethodInputs, x)
           Output(x) == DepIdx(DRAV1beta1, MethodOutputs, x)
<1>1. /\ Len(Messages(DRAV1beta1)) = 10 /\ DOMAIN Messages(DRAV1beta1) = 1..10
      /\ Len(Enums(DRAV1beta1)) = 0 /\ DOMAIN Enums(DRAV1beta1) = 1..0
      /\ DOMAIN DRAV1beta1.goTypes = 1..10
  BY DEF Messages, Enums, DRAV1beta1, DRAV1beta1Desc, DRAV1beta1GoTypes,
         TypeBuilder, File
<1>2. /\ Row(DRAV1beta1, 1, DRAV1beta1_NodePrepareResourcesRequestDesc,
             DRAV1beta1_NodePrepareResourcesRequest)
      /\ Row(DRAV1beta1, 2, DRAV1beta1_NodePrepareResourcesResponseDesc,
             DRAV1beta1_NodePrepareResourcesResponse)
      /\ Row(DRAV1beta1, 3, DRAV1beta1_NodePrepareResourceResponseDesc,
             DRAV1beta1_NodePrepareResourceResponse)
      /\ Row(DRAV1beta1, 4, DRAV1beta1_DeviceDesc, DRAV1beta1_Device)
      /\ Row(DRAV1beta1, 5, DRAV1beta1_NodeUnprepareResourcesRequestDesc,
             DRAV1beta1_NodeUnprepareResourcesRequest)
      /\ Row(DRAV1beta1, 6, DRAV1beta1_NodeUnprepareResourcesResponseDesc,
             DRAV1beta1_NodeUnprepareResourcesResponse)
      /\ Row(DRAV1beta1, 7, DRAV1beta1_NodeUnprepareResourceResponseDesc,
             DRAV1beta1_NodeUnprepareResourceResponse)
      /\ Row(DRAV1beta1, 8, DRAV1beta1_ClaimDesc, DRAV1beta1_Claim)
      /\ Row(DRAV1beta1, 9,
             DRAV1beta1_NodePrepareResourcesResponse_ClaimsEntryDesc, NilType)
      /\ Row(DRAV1beta1, 10,
             DRAV1beta1_NodeUnprepareResourcesResponse_ClaimsEntryDesc,
               NilType)
  <2>1. /\ Messages(DRAV1beta1)[1] =
             DRAV1beta1_NodePrepareResourcesRequestDesc
        /\ Messages(DRAV1beta1)[2] =
             DRAV1beta1_NodePrepareResourcesResponseDesc
        /\ Messages(DRAV1beta1)[3] =
             DRAV1beta1_NodePrepareResourceResponseDesc
        /\ Messages(DRAV1beta1)[4] = DRAV1beta1_DeviceDesc
        /\ Messages(DRAV1beta1)[5] =
             DRAV1beta1_NodeUnprepareResourcesRequestDesc
        /\ Messages(DRAV1beta1)[6] =
             DRAV1beta1_NodeUnprepareResourcesResponseDesc
        /\ Messages(DRAV1beta1)[7] =
             DRAV1beta1_NodeUnprepareResourceResponseDesc
        /\ Messages(DRAV1beta1)[8] = DRAV1beta1_ClaimDesc
        /\ Messages(DRAV1beta1)[9] =
             DRAV1beta1_NodePrepareResourcesResponse_ClaimsEntryDesc
        /\ Messages(DRAV1beta1)[10] =
             DRAV1beta1_NodeUnprepareResourcesResponse_ClaimsEntryDesc
    BY DEF Messages, DRAV1beta1, DRAV1beta1Desc,
           TypeBuilder, File
  <2>2. /\ DRAV1beta1.goTypes[1] = DRAV1beta1_NodePrepareResourcesRequest
        /\ DRAV1beta1.goTypes[2] = DRAV1beta1_NodePrepareResourcesResponse
        /\ DRAV1beta1.goTypes[3] = DRAV1beta1_NodePrepareResourceResponse
        /\ DRAV1beta1.goTypes[4] = DRAV1beta1_Device
        /\ DRAV1beta1.goTypes[5] = DRAV1beta1_NodeUnprepareResourcesRequest
        /\ DRAV1beta1.goTypes[6] = DRAV1beta1_NodeUnprepareResourcesResponse
        /\ DRAV1beta1.goTypes[7] = DRAV1beta1_NodeUnprepareResourceResponse
        /\ DRAV1beta1.goTypes[8] = DRAV1beta1_Claim
        /\ DRAV1beta1.goTypes[9] = NilType
        /\ DRAV1beta1.goTypes[10] = NilType
    BY DEF DRAV1beta1, DRAV1beta1GoTypes, TypeBuilder
  <2> QED BY <1>1, <2>1, <2>2 DEF Row, GoType
<1>3. /\ Len(idxs) = 16 /\ idxs[1] = 7 /\ idxs[2] = 8 /\ idxs[3] = 3
      /\ idxs[4] = 7 /\ idxs[5] = 9 /\ idxs[6] = 2 /\ idxs[7] = 6
      /\ idxs[8] = 0 /\ idxs[9] = 4 /\ idxs[10] = 1 /\ idxs[11] = 5
      /\ idxs[12] = 9 /\ idxs[13] = 7 /\ idxs[14] = 7 /\ idxs[15] = 7
      /\ idxs[16] = 0
  BY DEF DRAV1beta1, DRAV1beta1DepIdxs, TypeBuilder
<1>3a. /\ Type(0) = 7 /\ Type(1) = 8 /\ Type(2) = 3 /\ Type(3) = 7
       /\ Type(4) = 9 /\ Type(5) = 2 /\ Type(6) = 6 /\ Input(0) = 0
       /\ Input(1) = 4 /\ Output(0) = 1 /\ Output(1) = 5
  BY <1>3 DEF DepIdx, FieldTypes, MethodInputs, MethodOutputs
<1>4. /\ DOMAIN services = 1..1
      /\ services[1].name = "DRAPlugin"
      /\ DOMAIN services[1].methods = 1..2
      /\ services[1].methods[1] =
             Method("NodePrepareResources", "NodePrepareResourcesRequest",
               "NodePrepareResourcesResponse")
      /\ services[1].methods[2] =
             Method("NodeUnprepareResources",
               "NodeUnprepareResourcesRequest",
                 "NodeUnprepareResourcesResponse")
  BY DEF DRAV1beta1, DRAV1beta1Desc, TypeBuilder, File, Service
<1>5. /\ DOMAIN maps =
           {"NodePrepareResourcesResponse.ClaimsEntry",
            "NodeUnprepareResourcesResponse.ClaimsEntry"}
      /\ maps["NodePrepareResourcesResponse.ClaimsEntry"] =
           MapOf(Str, Ref("NodePrepareResourceResponse"))
      /\ maps["NodeUnprepareResourcesResponse.ClaimsEntry"] =
           MapOf(Str, Ref("NodeUnprepareResourceResponse"))
  BY DEF DRAV1beta1Maps
<1> HIDE DEF deps, methods, maps, idxs, services, Type, Input, Output
<1>m1. MessageAt(DRAV1beta1, maps, 1, "NodePrepareResourcesRequest", {1},
                <<"Claims">>)
  BY <1>2, <1>5, Fit1, FieldIs, DepIs, NumberIs, AreScalars, SMTT(60)
     DEF DRAV1beta1_NodePrepareResourcesRequestDesc,
         DRAV1beta1_NodePrepareResourcesRequest
<1>m2. MessageAt(DRAV1beta1, maps, 2, "NodePrepareResourcesResponse", {1},
                <<"Claims">>)
  BY <1>2, <1>5, Fit1, FieldIs, DepIs, NumberIs, AreScalars, SMTT(60)
     DEF DRAV1beta1_NodePrepareResourcesResponseDesc,
         DRAV1beta1_NodePrepareResourcesResponse
<1>m3. MessageAt(DRAV1beta1, maps, 3, "NodePrepareResourceResponse", {1},
                <<"Devices", "Error">>)
  BY <1>2, <1>5, Fit2, FieldIs, DepIs, NumberIs, AreScalars, SMTT(60)
     DEF DRAV1beta1_NodePrepareResourceResponseDesc,
         DRAV1beta1_NodePrepareResourceResponse
<1>m4. MessageAt(DRAV1beta1, maps, 4, "Device", {},
                <<"RequestNames", "PoolName", "DeviceName", "CdiDeviceIds">>)
  <2>1. /\ FieldFits(maps, Many(1, Str), Tag(1, Slice(Str)))
        /\ FieldFits(maps, One(2, Str), Tag(2, Str))
        /\ FieldFits(maps, One(3, Str), Tag(3, Str))
        /\ FieldFits(maps, Many(4, Str), Tag(4, Slice(Str)))
    BY FieldIs, AreScalars
  <2>2. /\ DepFits({}, 1, Many(1, Str))
        /\ DepFits({}, 2, One(2, Str))
        /\ DepFits({}, 3, One(3, Str))
        /\ DepFits({}, 4, Many(4, Str))
    BY DepIs, AreScalars
  <2> QED BY <1>2, <2>1, <2>2, Fit4, NumberIs, SMTT(60)
          DEF DRAV1beta1_DeviceDesc,
              DRAV1beta1_Device
<1>m5. MessageAt(DRAV1beta1, maps, 5, "NodeUnprepareResourcesRequest", {1},
                <<"Claims">>)
  BY <1>2, <1>5, Fit1, FieldIs, DepIs, NumberIs, AreScalars, SMTT(60)
     DEF DRAV1beta1_NodeUnprepareResourcesRequestDesc,
         DRAV1beta1_NodeUnprepareResourcesRequest
<1>m6. MessageAt(DRAV1beta1, maps, 6, "NodeUnprepareResourcesResponse", {1},
                <<"Claims">>)
  BY <1>2, <1>5, Fit1, FieldIs, DepIs, NumberIs, AreScalars, SMTT(60)
     DEF DRAV1beta1_NodeUnprepareResourcesResponseDesc,
         DRAV1beta1_NodeUnprepareResourcesResponse
<1>m7. MessageAt(DRAV1beta1, maps, 7, "NodeUnprepareResourceResponse", {},
                <<"Error">>)
  BY <1>2, <1>5, Fit1, FieldIs, DepIs, NumberIs, AreScalars, SMTT(60)
     DEF DRAV1beta1_NodeUnprepareResourceResponseDesc,
         DRAV1beta1_NodeUnprepareResourceResponse
<1>m8. MessageAt(DRAV1beta1, maps, 8, "Claim", {},
                <<"Namespace", "Uid", "Name">>)
  BY <1>2, <1>5, Fit3, FieldIs, DepIs, NumberIs, AreScalars, SMTT(60)
     DEF DRAV1beta1_ClaimDesc, DRAV1beta1_Claim
<1>m9. EntryAt(DRAV1beta1, maps, 9,
              "NodePrepareResourcesResponse.ClaimsEntry", {2})
  BY <1>2, <1>5, EntriesAre DEF
     DRAV1beta1_NodePrepareResourcesResponse_ClaimsEntryDesc
<1>m10. EntryAt(DRAV1beta1, maps, 10,
              "NodeUnprepareResourcesResponse.ClaimsEntry", {2})
  BY <1>2, <1>5, EntriesAre DEF
     DRAV1beta1_NodeUnprepareResourcesResponse_ClaimsEntryDesc
<1>6. \A i \in DOMAIN Messages(DRAV1beta1) :
        /\ MessageFits(DRAV1beta1, maps, i)
        /\ Messages(DRAV1beta1)[i].name # "nil"
  BY <1>1, <1>2, <1>m1, <1>m2, <1>m3, <1>m4, <1>m5, <1>m6, <1>m7, <1>m8,
     <1>m9, <1>m10, SMTT(60)
     DEF MessageAt, EntryAt, Row, MessageFits
<1>7. InOrder(deps, DepFields(DRAV1beta1))
  <2>1. {deps[x] : x \in 1..Len(deps)} =
          {<<1, 1>>, <<2, 1>>, <<3, 1>>, <<5, 1>>, <<6, 1>>, <<9, 2>>,
           <<10, 2>>}
    BY DEF deps, DRAV1beta1Deps
  <2>2. \A i \in DOMAIN Messages(DRAV1beta1) :
          DepsListed(deps, Messages(DRAV1beta1)[i], i)
    <3>1. /\ DepsAre({1}, Messages(DRAV1beta1)[1])
          /\ DepsAre({1}, Messages(DRAV1beta1)[2])
          /\ DepsAre({1}, Messages(DRAV1beta1)[3])
          /\ DepsAre({}, Messages(DRAV1beta1)[4])
          /\ DepsAre({1}, Messages(DRAV1beta1)[5])
          /\ DepsAre({1}, Messages(DRAV1beta1)[6])
          /\ DepsAre({}, Messages(DRAV1beta1)[7])
          /\ DepsAre({}, Messages(DRAV1beta1)[8])
          /\ DepsAre({2}, Messages(DRAV1beta1)[9])
          /\ DepsAre({2}, Messages(DRAV1beta1)[10])
      BY <1>m1, <1>m2, <1>m3, <1>m4, <1>m5, <1>m6, <1>m7, <1>m8, <1>m9,
         <1>m10 DEF MessageAt, EntryAt
    <3>2. \A i \in DOMAIN Messages(DRAV1beta1) : \A f \in Nat :
            (f \in DOMAIN Messages(DRAV1beta1)[i].fields
               /\ IsDep(Messages(DRAV1beta1)[i].fields[f].type))
            <=> <<i, f>> \in {<<1, 1>>, <<2, 1>>, <<3, 1>>, <<5, 1>>,
                             <<6, 1>>, <<9, 2>>, <<10, 2>>}
      BY <1>1, <3>1, SMTT(60) DEF DepsAre
    <3> QED BY <2>1, <3>2 DEF DepsListed
  <2>3. \A x, y \in 1..Len(deps) : x < y => Before(deps[x], deps[y])
    BY DEF deps, DRAV1beta1Deps, Before
  <2>4. /\ deps \in Seq(Nat \X Nat)
        /\ \A x \in 1..Len(deps) :
             deps[x][1] \in DOMAIN Messages(DRAV1beta1)
    BY <1>1, SMTT(30) DEF deps, DRAV1beta1Deps
  <2> QED BY <1>6, <2>2, <2>3, <2>4, DepFieldsInOrder
<1>d1. Resolves(DRAV1beta1, deps, 1)
  BY <1>1, <1>2, <1>3a, <1>m8, SMTT(30)
     DEF Resolves, TypeAt, Type, deps, DRAV1beta1Deps, MessageAt, EntryAt,
         Row, Message, Many, DRAV1beta1_NodePrepareResourcesRequestDesc
<1>d2. Resolves(DRAV1beta1, deps, 2)
  BY <1>1, <1>2, <1>3a, <1>m9, SMTT(30)
     DEF Resolves, TypeAt, Type, deps, DRAV1beta1Deps, MessageAt, EntryAt,
         Row, Message, Many, DRAV1beta1_NodePrepareResourcesResponseDesc
<1>d3. Resolves(DRAV1beta1, deps, 3)
  BY <1>1, <1>2, <1>3a, <1>m4, SMTT(30)
     DEF Resolves, TypeAt, Type, deps, DRAV1beta1Deps, MessageAt, EntryAt,
         Row, Message, Many, DRAV1beta1_NodePrepareResourceResponseDesc
<1>d4. Resolves(DRAV1beta1, deps, 4)
  BY <1>1, <1>2, <1>3a, <1>m8, SMTT(30)
     DEF Resolves, TypeAt, Type, deps, DRAV1beta1Deps, MessageAt, EntryAt,
         Row, Message, Many, DRAV1beta1_NodeUnprepareResourcesRequestDesc
<1>d5. Resolves(DRAV1beta1, deps, 5)
  BY <1>1, <1>2, <1>3a, <1>m10, SMTT(30)
     DEF Resolves, TypeAt, Type, deps, DRAV1beta1Deps, MessageAt, EntryAt,
         Row, Message, Many, DRAV1beta1_NodeUnprepareResourcesResponseDesc
<1>d6. Resolves(DRAV1beta1, deps, 6)
  BY <1>1, <1>2, <1>3a, <1>m3, SMTT(30)
     DEF Resolves, TypeAt, Type, deps, DRAV1beta1Deps, MessageAt, EntryAt,
         Row, Entry, One,
         DRAV1beta1_NodePrepareResourcesResponse_ClaimsEntryDesc
<1>d7. Resolves(DRAV1beta1, deps, 7)
  BY <1>1, <1>2, <1>3a, <1>m7, SMTT(30)
     DEF Resolves, TypeAt, Type, deps, DRAV1beta1Deps, MessageAt, EntryAt,
         Row, Entry, One,
         DRAV1beta1_NodeUnprepareResourcesResponse_ClaimsEntryDesc
<1>s1. MethodResolves(DRAV1beta1, methods, 1)
  <2>1. /\ IsIndexOf(DRAV1beta1, 0, "NodePrepareResourcesRequest")
        /\ IsIndexOf(DRAV1beta1, 1, "NodePrepareResourcesResponse")
    BY <1>1, <1>m1, <1>m2 DEF IsIndexOf, MessageAt
  <2> QED BY <1>3a, <1>4, <2>1
          DEF MethodResolves, Method, Input, Output, services, methods,
              DRAV1beta1Methods
<1>s2. MethodResolves(DRAV1beta1, methods, 2)
  <2>1. /\ IsIndexOf(DRAV1beta1, 4, "NodeUnprepareResourcesRequest")
        /\ IsIndexOf(DRAV1beta1, 5, "NodeUnprepareResourcesResponse")
    BY <1>1, <1>m5, <1>m6 DEF IsIndexOf, MessageAt
  <2> QED BY <1>3a, <1>4, <2>1
          DEF MethodResolves, Method, Input, Output, services, methods,
              DRAV1beta1Methods
<1>8. InOrder(methods, Methods(DRAV1beta1)) /\ MethodsOnce(services)
  <2>1. Methods(DRAV1beta1) =
          UNION {{<<s, m>> : m \in DOMAIN services[s].methods} :
                   s \in DOMAIN services}
    BY DEF Methods, services
  <2>2. Methods(DRAV1beta1) = {<<1, 1>>, <<1, 2>>}
    BY <1>4, <2>1
  <2>3. MethodsOnce(services)
    BY <1>4 DEF MethodsOnce, Method
  <2> QED BY <2>2, <2>3 DEF InOrder, Before, methods, DRAV1beta1Methods
<1>9. \A n \in DOMAIN maps : \E i \in DOMAIN Messages(DRAV1beta1) :
        /\ Messages(DRAV1beta1)[i].entry
        /\ Messages(DRAV1beta1)[i].name = n
  BY <1>1, <1>5, <1>m9, <1>m10 DEF EntryAt, EntryFits
<1>10. /\ \A x \in 1..Len(deps) : Resolves(DRAV1beta1, deps, x)
       /\ \A x \in 1..Len(methods) : MethodResolves(DRAV1beta1, methods, x)
  BY <1>d1, <1>d2, <1>d3, <1>d4, <1>d5, <1>d6, <1>d7, <1>s1, <1>s2
     DEF deps, DRAV1beta1Deps, methods, DRAV1beta1Methods
<1>12. Fits(DRAV1beta1, deps, methods, maps)
  BY <1>1, <1>6, <1>7, <1>8, <1>9, <1>10 DEF Fits, services
<1> QED BY <1>12 DEF FitsTogether

-----------------------------------------------------------------------------
(* DRAV1                                                                   *)

DRAV1Deps ==
  <<<<1, 1>>, <<2, 1>>, <<3, 1>>, <<5, 1>>, <<6, 1>>, <<9, 2>>, <<10, 2>>>>
DRAV1Methods ==
  <<<<1, 1>>, <<1, 2>>>>
DRAV1Maps ==
  [n \in {"NodePrepareResourcesResponse.ClaimsEntry",
         "NodeUnprepareResourcesResponse.ClaimsEntry"} |->
     IF n = "NodePrepareResourcesResponse.ClaimsEntry"
     THEN MapOf(Str, Ref("NodePrepareResourceResponse"))
     ELSE MapOf(Str, Ref("NodeUnprepareResourceResponse"))]

LEMMA DRAV1Fits == FitsTogether(DRAV1)
<1> DEFINE deps == DRAV1Deps
           methods == DRAV1Methods
           maps == DRAV1Maps
           idxs == DRAV1.depIdxs
           services == DRAV1.desc.services
           Type(x) == DepIdx(DRAV1, FieldTypes, x)
           Input(x) == DepIdx(DRAV1, MethodInputs, x)
           Output(x) == DepIdx(DRAV1, MethodOutputs, x)
<1>1. /\ Len(Messages(DRAV1)) = 10 /\ DOMAIN Messages(DRAV1) = 1..10
      /\ Len(Enums(DRAV1)) = 0 /\ DOMAIN Enums(DRAV1) = 1..0
      /\ DOMAIN DRAV1.goTypes = 1..10
  BY DEF Messages, Enums, DRAV1, DRAV1Desc, DRAV1GoTypes, TypeBuilder, File
<1>2. /\ Row(DRAV1, 1, DRAV1_NodePrepareResourcesRequestDesc,
             DRAV1_NodePrepareResourcesRequest)
      /\ Row(DRAV1, 2, DRAV1_NodePrepareResourcesResponseDesc,
             DRAV1_NodePrepareResourcesResponse)
      /\ Row(DRAV1, 3, DRAV1_NodePrepareResourceResponseDesc,
             DRAV1_NodePrepareResourceResponse)
      /\ Row(DRAV1, 4, DRAV1_DeviceDesc, DRAV1_Device)
      /\ Row(DRAV1, 5, DRAV1_NodeUnprepareResourcesRequestDesc,
             DRAV1_NodeUnprepareResourcesRequest)
      /\ Row(DRAV1, 6, DRAV1_NodeUnprepareResourcesResponseDesc,
             DRAV1_NodeUnprepareResourcesResponse)
      /\ Row(DRAV1, 7, DRAV1_NodeUnprepareResourceResponseDesc,
             DRAV1_NodeUnprepareResourceResponse)
      /\ Row(DRAV1, 8, DRAV1_ClaimDesc, DRAV1_Claim)
      /\ Row(DRAV1, 9, DRAV1_NodePrepareResourcesResponse_ClaimsEntryDesc,
             NilType)
      /\ Row(DRAV1, 10, DRAV1_NodeUnprepareResourcesResponse_ClaimsEntryDesc,
             NilType)
  <2>1. /\ Messages(DRAV1)[1] = DRAV1_NodePrepareResourcesRequestDesc
        /\ Messages(DRAV1)[2] = DRAV1_NodePrepareResourcesResponseDesc
        /\ Messages(DRAV1)[3] = DRAV1_NodePrepareResourceResponseDesc
        /\ Messages(DRAV1)[4] = DRAV1_DeviceDesc
        /\ Messages(DRAV1)[5] = DRAV1_NodeUnprepareResourcesRequestDesc
        /\ Messages(DRAV1)[6] = DRAV1_NodeUnprepareResourcesResponseDesc
        /\ Messages(DRAV1)[7] = DRAV1_NodeUnprepareResourceResponseDesc
        /\ Messages(DRAV1)[8] = DRAV1_ClaimDesc
        /\ Messages(DRAV1)[9] =
             DRAV1_NodePrepareResourcesResponse_ClaimsEntryDesc
        /\ Messages(DRAV1)[10] =
             DRAV1_NodeUnprepareResourcesResponse_ClaimsEntryDesc
    BY DEF Messages, DRAV1, DRAV1Desc,
           TypeBuilder, File
  <2>2. /\ DRAV1.goTypes[1] = DRAV1_NodePrepareResourcesRequest
        /\ DRAV1.goTypes[2] = DRAV1_NodePrepareResourcesResponse
        /\ DRAV1.goTypes[3] = DRAV1_NodePrepareResourceResponse
        /\ DRAV1.goTypes[4] = DRAV1_Device
        /\ DRAV1.goTypes[5] = DRAV1_NodeUnprepareResourcesRequest
        /\ DRAV1.goTypes[6] = DRAV1_NodeUnprepareResourcesResponse
        /\ DRAV1.goTypes[7] = DRAV1_NodeUnprepareResourceResponse
        /\ DRAV1.goTypes[8] = DRAV1_Claim
        /\ DRAV1.goTypes[9] = NilType
        /\ DRAV1.goTypes[10] = NilType
    BY DEF DRAV1, DRAV1GoTypes, TypeBuilder
  <2> QED BY <1>1, <2>1, <2>2 DEF Row, GoType
<1>3. /\ Len(idxs) = 16 /\ idxs[1] = 7 /\ idxs[2] = 8 /\ idxs[3] = 3
      /\ idxs[4] = 7 /\ idxs[5] = 9 /\ idxs[6] = 2 /\ idxs[7] = 6
      /\ idxs[8] = 0 /\ idxs[9] = 4 /\ idxs[10] = 1 /\ idxs[11] = 5
      /\ idxs[12] = 9 /\ idxs[13] = 7 /\ idxs[14] = 7 /\ idxs[15] = 7
      /\ idxs[16] = 0
  BY DEF DRAV1, DRAV1DepIdxs, TypeBuilder
<1>3a. /\ Type(0) = 7 /\ Type(1) = 8 /\ Type(2) = 3 /\ Type(3) = 7
       /\ Type(4) = 9 /\ Type(5) = 2 /\ Type(6) = 6 /\ Input(0) = 0
       /\ Input(1) = 4 /\ Output(0) = 1 /\ Output(1) = 5
  BY <1>3 DEF DepIdx, FieldTypes, MethodInputs, MethodOutputs
<1>4. /\ DOMAIN services = 1..1
      /\ services[1].name = "DRAPlugin"
      /\ DOMAIN services[1].methods = 1..2
      /\ services[1].methods[1] =
             Method("NodePrepareResources", "NodePrepareResourcesRequest",
               "NodePrepareResourcesResponse")
      /\ services[1].methods[2] =
             Method("NodeUnprepareResources",
               "NodeUnprepareResourcesRequest",
                 "NodeUnprepareResourcesResponse")
  BY DEF DRAV1, DRAV1Desc, TypeBuilder, File, Service
<1>5. /\ DOMAIN maps =
           {"NodePrepareResourcesResponse.ClaimsEntry",
            "NodeUnprepareResourcesResponse.ClaimsEntry"}
      /\ maps["NodePrepareResourcesResponse.ClaimsEntry"] =
           MapOf(Str, Ref("NodePrepareResourceResponse"))
      /\ maps["NodeUnprepareResourcesResponse.ClaimsEntry"] =
           MapOf(Str, Ref("NodeUnprepareResourceResponse"))
  BY DEF DRAV1Maps
<1> HIDE DEF deps, methods, maps, idxs, services, Type, Input, Output
<1>m1. MessageAt(DRAV1, maps, 1, "NodePrepareResourcesRequest", {1},
                <<"Claims">>)
  BY <1>2, <1>5, Fit1, FieldIs, DepIs, NumberIs, AreScalars, SMTT(60)
     DEF DRAV1_NodePrepareResourcesRequestDesc,
         DRAV1_NodePrepareResourcesRequest
<1>m2. MessageAt(DRAV1, maps, 2, "NodePrepareResourcesResponse", {1},
                <<"Claims">>)
  BY <1>2, <1>5, Fit1, FieldIs, DepIs, NumberIs, AreScalars, SMTT(60)
     DEF DRAV1_NodePrepareResourcesResponseDesc,
         DRAV1_NodePrepareResourcesResponse
<1>m3. MessageAt(DRAV1, maps, 3, "NodePrepareResourceResponse", {1},
                <<"Devices", "Error">>)
  BY <1>2, <1>5, Fit2, FieldIs, DepIs, NumberIs, AreScalars, SMTT(60)
     DEF DRAV1_NodePrepareResourceResponseDesc,
         DRAV1_NodePrepareResourceResponse
<1>m4. MessageAt(DRAV1, maps, 4, "Device", {},
                <<"RequestNames", "PoolName", "DeviceName", "CdiDeviceIds",
                  "ShareId">>)
  <2>1. /\ FieldFits(maps, Many(1, Str), Tag(1, Slice(Str)))
        /\ FieldFits(maps, One(2, Str), Tag(2, Str))
        /\ FieldFits(maps, One(3, Str), Tag(3, Str))
        /\ FieldFits(maps, Many(4, Str), Tag(4, Slice(Str)))
        /\ FieldFits(maps, Maybe(5, Str), Tag(5, Ptr(Str)))
    BY FieldIs, AreScalars
  <2>2. /\ DepFits({}, 1, Many(1, Str))
        /\ DepFits({}, 2, One(2, Str))
        /\ DepFits({}, 3, One(3, Str))
        /\ DepFits({}, 4, Many(4, Str))
        /\ DepFits({}, 5, Maybe(5, Str))
    BY DepIs, AreScalars
  <2> QED BY <1>2, <2>1, <2>2, Fit5, NumberIs, SMTT(60)
          DEF DRAV1_DeviceDesc,
              DRAV1_Device
<1>m5. MessageAt(DRAV1, maps, 5, "NodeUnprepareResourcesRequest", {1},
                <<"Claims">>)
  BY <1>2, <1>5, Fit1, FieldIs, DepIs, NumberIs, AreScalars, SMTT(60)
     DEF DRAV1_NodeUnprepareResourcesRequestDesc,
         DRAV1_NodeUnprepareResourcesRequest
<1>m6. MessageAt(DRAV1, maps, 6, "NodeUnprepareResourcesResponse", {1},
                <<"Claims">>)
  BY <1>2, <1>5, Fit1, FieldIs, DepIs, NumberIs, AreScalars, SMTT(60)
     DEF DRAV1_NodeUnprepareResourcesResponseDesc,
         DRAV1_NodeUnprepareResourcesResponse
<1>m7. MessageAt(DRAV1, maps, 7, "NodeUnprepareResourceResponse", {},
                <<"Error">>)
  BY <1>2, <1>5, Fit1, FieldIs, DepIs, NumberIs, AreScalars, SMTT(60)
     DEF DRAV1_NodeUnprepareResourceResponseDesc,
         DRAV1_NodeUnprepareResourceResponse
<1>m8. MessageAt(DRAV1, maps, 8, "Claim", {}, <<"Namespace", "Uid", "Name">>)
  BY <1>2, <1>5, Fit3, FieldIs, DepIs, NumberIs, AreScalars, SMTT(60)
     DEF DRAV1_ClaimDesc, DRAV1_Claim
<1>m9. EntryAt(DRAV1, maps, 9,
              "NodePrepareResourcesResponse.ClaimsEntry", {2})
  BY <1>2, <1>5, EntriesAre DEF
     DRAV1_NodePrepareResourcesResponse_ClaimsEntryDesc
<1>m10. EntryAt(DRAV1, maps, 10,
              "NodeUnprepareResourcesResponse.ClaimsEntry", {2})
  BY <1>2, <1>5, EntriesAre DEF
     DRAV1_NodeUnprepareResourcesResponse_ClaimsEntryDesc
<1>6. \A i \in DOMAIN Messages(DRAV1) :
        /\ MessageFits(DRAV1, maps, i)
        /\ Messages(DRAV1)[i].name # "nil"
  BY <1>1, <1>2, <1>m1, <1>m2, <1>m3, <1>m4, <1>m5, <1>m6, <1>m7, <1>m8,
     <1>m9, <1>m10, SMTT(60)
     DEF MessageAt, EntryAt, Row, MessageFits
<1>7. InOrder(deps, DepFields(DRAV1))
  <2>1. {deps[x] : x \in 1..Len(deps)} =
          {<<1, 1>>, <<2, 1>>, <<3, 1>>, <<5, 1>>, <<6, 1>>, <<9, 2>>,
           <<10, 2>>}
    BY DEF deps, DRAV1Deps
  <2>2. \A i \in DOMAIN Messages(DRAV1) :
          DepsListed(deps, Messages(DRAV1)[i], i)
    <3>1. /\ DepsAre({1}, Messages(DRAV1)[1])
          /\ DepsAre({1}, Messages(DRAV1)[2])
          /\ DepsAre({1}, Messages(DRAV1)[3])
          /\ DepsAre({}, Messages(DRAV1)[4])
          /\ DepsAre({1}, Messages(DRAV1)[5])
          /\ DepsAre({1}, Messages(DRAV1)[6])
          /\ DepsAre({}, Messages(DRAV1)[7])
          /\ DepsAre({}, Messages(DRAV1)[8])
          /\ DepsAre({2}, Messages(DRAV1)[9])
          /\ DepsAre({2}, Messages(DRAV1)[10])
      BY <1>m1, <1>m2, <1>m3, <1>m4, <1>m5, <1>m6, <1>m7, <1>m8, <1>m9,
         <1>m10 DEF MessageAt, EntryAt
    <3>2. \A i \in DOMAIN Messages(DRAV1) : \A f \in Nat :
            (f \in DOMAIN Messages(DRAV1)[i].fields
               /\ IsDep(Messages(DRAV1)[i].fields[f].type))
            <=> <<i, f>> \in {<<1, 1>>, <<2, 1>>, <<3, 1>>, <<5, 1>>,
                             <<6, 1>>, <<9, 2>>, <<10, 2>>}
      BY <1>1, <3>1, SMTT(60) DEF DepsAre
    <3> QED BY <2>1, <3>2 DEF DepsListed
  <2>3. \A x, y \in 1..Len(deps) : x < y => Before(deps[x], deps[y])
    BY DEF deps, DRAV1Deps, Before
  <2>4. /\ deps \in Seq(Nat \X Nat)
        /\ \A x \in 1..Len(deps) :
             deps[x][1] \in DOMAIN Messages(DRAV1)
    BY <1>1, SMTT(30) DEF deps, DRAV1Deps
  <2> QED BY <1>6, <2>2, <2>3, <2>4, DepFieldsInOrder
<1>d1. Resolves(DRAV1, deps, 1)
  BY <1>1, <1>2, <1>3a, <1>m8, SMTT(30)
     DEF Resolves, TypeAt, Type, deps, DRAV1Deps, MessageAt, EntryAt, Row,
         Message, Many, DRAV1_NodePrepareResourcesRequestDesc
<1>d2. Resolves(DRAV1, deps, 2)
  BY <1>1, <1>2, <1>3a, <1>m9, SMTT(30)
     DEF Resolves, TypeAt, Type, deps, DRAV1Deps, MessageAt, EntryAt, Row,
         Message, Many, DRAV1_NodePrepareResourcesResponseDesc
<1>d3. Resolves(DRAV1, deps, 3)
  BY <1>1, <1>2, <1>3a, <1>m4, SMTT(30)
     DEF Resolves, TypeAt, Type, deps, DRAV1Deps, MessageAt, EntryAt, Row,
         Message, Many, DRAV1_NodePrepareResourceResponseDesc
<1>d4. Resolves(DRAV1, deps, 4)
  BY <1>1, <1>2, <1>3a, <1>m8, SMTT(30)
     DEF Resolves, TypeAt, Type, deps, DRAV1Deps, MessageAt, EntryAt, Row,
         Message, Many, DRAV1_NodeUnprepareResourcesRequestDesc
<1>d5. Resolves(DRAV1, deps, 5)
  BY <1>1, <1>2, <1>3a, <1>m10, SMTT(30)
     DEF Resolves, TypeAt, Type, deps, DRAV1Deps, MessageAt, EntryAt, Row,
         Message, Many, DRAV1_NodeUnprepareResourcesResponseDesc
<1>d6. Resolves(DRAV1, deps, 6)
  BY <1>1, <1>2, <1>3a, <1>m3, SMTT(30)
     DEF Resolves, TypeAt, Type, deps, DRAV1Deps, MessageAt, EntryAt, Row,
         Entry, One, DRAV1_NodePrepareResourcesResponse_ClaimsEntryDesc
<1>d7. Resolves(DRAV1, deps, 7)
  BY <1>1, <1>2, <1>3a, <1>m7, SMTT(30)
     DEF Resolves, TypeAt, Type, deps, DRAV1Deps, MessageAt, EntryAt, Row,
         Entry, One, DRAV1_NodeUnprepareResourcesResponse_ClaimsEntryDesc
<1>s1. MethodResolves(DRAV1, methods, 1)
  <2>1. /\ IsIndexOf(DRAV1, 0, "NodePrepareResourcesRequest")
        /\ IsIndexOf(DRAV1, 1, "NodePrepareResourcesResponse")
    BY <1>1, <1>m1, <1>m2 DEF IsIndexOf, MessageAt
  <2> QED BY <1>3a, <1>4, <2>1
          DEF MethodResolves, Method, Input, Output, services, methods,
              DRAV1Methods
<1>s2. MethodResolves(DRAV1, methods, 2)
  <2>1. /\ IsIndexOf(DRAV1, 4, "NodeUnprepareResourcesRequest")
        /\ IsIndexOf(DRAV1, 5, "NodeUnprepareResourcesResponse")
    BY <1>1, <1>m5, <1>m6 DEF IsIndexOf, MessageAt
  <2> QED BY <1>3a, <1>4, <2>1
          DEF MethodResolves, Method, Input, Output, services, methods,
              DRAV1Methods
<1>8. InOrder(methods, Methods(DRAV1)) /\ MethodsOnce(services)
  <2>1. Methods(DRAV1) =
          UNION {{<<s, m>> : m \in DOMAIN services[s].methods} :
                   s \in DOMAIN services}
    BY DEF Methods, services
  <2>2. Methods(DRAV1) = {<<1, 1>>, <<1, 2>>}
    BY <1>4, <2>1
  <2>3. MethodsOnce(services)
    BY <1>4 DEF MethodsOnce, Method
  <2> QED BY <2>2, <2>3 DEF InOrder, Before, methods, DRAV1Methods
<1>9. \A n \in DOMAIN maps : \E i \in DOMAIN Messages(DRAV1) :
        /\ Messages(DRAV1)[i].entry
        /\ Messages(DRAV1)[i].name = n
  BY <1>1, <1>5, <1>m9, <1>m10 DEF EntryAt, EntryFits
<1>10. /\ \A x \in 1..Len(deps) : Resolves(DRAV1, deps, x)
       /\ \A x \in 1..Len(methods) : MethodResolves(DRAV1, methods, x)
  BY <1>d1, <1>d2, <1>d3, <1>d4, <1>d5, <1>d6, <1>d7, <1>s1, <1>s2
     DEF deps, DRAV1Deps, methods, DRAV1Methods
<1>12. Fits(DRAV1, deps, methods, maps)
  BY <1>1, <1>6, <1>7, <1>8, <1>9, <1>10 DEF Fits, services
<1> QED BY <1>12 DEF FitsTogether

-----------------------------------------------------------------------------
(* DRAHealthV1alpha1                                                       *)

DRAHealthV1alpha1Deps ==
  <<<<3, 1>>, <<3, 2>>, <<4, 1>>>>
DRAHealthV1alpha1Methods ==
  <<<<1, 1>>>>
DRAHealthV1alpha1Maps == [n \in {} |-> Str]

LEMMA DRAHealthV1alpha1Fits == FitsTogether(DRAHealthV1alpha1)
<1> DEFINE deps == DRAHealthV1alpha1Deps
           methods == DRAHealthV1alpha1Methods
           maps == DRAHealthV1alpha1Maps
           idxs == DRAHealthV1alpha1.depIdxs
           services == DRAHealthV1alpha1.desc.services
           Type(x) == DepIdx(DRAHealthV1alpha1, FieldTypes, x)
           Input(x) == DepIdx(DRAHealthV1alpha1, MethodInputs, x)
           Output(x) == DepIdx(DRAHealthV1alpha1, MethodOutputs, x)
<1>1. /\ Len(Messages(DRAHealthV1alpha1)) = 4
      /\ DOMAIN Messages(DRAHealthV1alpha1) = 1..4
      /\ Len(Enums(DRAHealthV1alpha1)) = 1
      /\ DOMAIN Enums(DRAHealthV1alpha1) = 1..1
      /\ DOMAIN DRAHealthV1alpha1.goTypes = 1..5
      /\ Enums(DRAHealthV1alpha1)[1] = "HealthStatus"
  BY DEF Messages, Enums, DRAHealthV1alpha1, DRAHealthV1alpha1Desc,
         DRAHealthV1alpha1GoTypes, TypeBuilder, File
<1>2. /\ Row(DRAHealthV1alpha1, 1,
             DRAHealthV1alpha1_NodeWatchResourcesRequestDesc,
               DRAHealthV1alpha1_NodeWatchResourcesRequest)
      /\ Row(DRAHealthV1alpha1, 2, DRAHealthV1alpha1_DeviceIdentifierDesc,
             DRAHealthV1alpha1_DeviceIdentifier)
      /\ Row(DRAHealthV1alpha1, 3, DRAHealthV1alpha1_DeviceHealthDesc,
             DRAHealthV1alpha1_DeviceHealth)
      /\ Row(DRAHealthV1alpha1, 4,
             DRAHealthV1alpha1_NodeWatchResourcesResponseDesc,
               DRAHealthV1alpha1_NodeWatchResourcesResponse)
  <2>1. /\ Messages(DRAHealthV1alpha1)[1] =
             DRAHealthV1alpha1_NodeWatchResourcesRequestDesc
        /\ Messages(DRAHealthV1alpha1)[2] =
             DRAHealthV1alpha1_DeviceIdentifierDesc
        /\ Messages(DRAHealthV1alpha1)[3] = DRAHealthV1alpha1_DeviceHealthDesc
        /\ Messages(DRAHealthV1alpha1)[4] =
             DRAHealthV1alpha1_NodeWatchResourcesResponseDesc
    BY DEF Messages, DRAHealthV1alpha1, DRAHealthV1alpha1Desc,
           TypeBuilder, File
  <2>2. /\ DRAHealthV1alpha1.goTypes[2] =
             DRAHealthV1alpha1_NodeWatchResourcesRequest
        /\ DRAHealthV1alpha1.goTypes[3] = DRAHealthV1alpha1_DeviceIdentifier
        /\ DRAHealthV1alpha1.goTypes[4] = DRAHealthV1alpha1_DeviceHealth
        /\ DRAHealthV1alpha1.goTypes[5] =
             DRAHealthV1alpha1_NodeWatchResourcesResponse
    BY DEF DRAHealthV1alpha1, DRAHealthV1alpha1GoTypes, TypeBuilder
  <2> QED BY <1>1, <2>1, <2>2 DEF Row, GoType
<1>3. /\ Len(idxs) = 10 /\ idxs[1] = 2 /\ idxs[2] = 0 /\ idxs[3] = 3
      /\ idxs[4] = 1 /\ idxs[5] = 4 /\ idxs[6] = 4 /\ idxs[7] = 3
      /\ idxs[8] = 3 /\ idxs[9] = 3 /\ idxs[10] = 0
  BY DEF DRAHealthV1alpha1, DRAHealthV1alpha1DepIdxs, TypeBuilder
<1>3a. /\ Type(0) = 2 /\ Type(1) = 0 /\ Type(2) = 3 /\ Input(0) = 1
       /\ Output(0) = 4
  BY <1>3 DEF DepIdx, FieldTypes, MethodInputs, MethodOutputs
<1>4. /\ DOMAIN services = 1..1
      /\ services[1].name = "DRAResourceHealth"
      /\ DOMAIN services[1].methods = 1..1
      /\ services[1].methods[1] =
             Method("NodeWatchResources", "NodeWatchResourcesRequest",
               "NodeWatchResourcesResponse")
  BY DEF DRAHealthV1alpha1, DRAHealthV1alpha1Desc, TypeBuilder, File, Service
<1>5. /\ DOMAIN maps = {}
  BY DEF DRAHealthV1alpha1Maps
<1> HIDE DEF deps, methods, maps, idxs, services, Type, Input, Output
<1>m1. MessageAt(DRAHealthV1alpha1, maps, 1, "NodeWatchResourcesRequest", {},
                <<>>)
  BY <1>2, Fit0 DEF DRAHealthV1alpha1_NodeWatchResourcesRequestDesc,
         DRAHealthV1alpha1_NodeWatchResourcesRequest
<1>m2. MessageAt(DRAHealthV1alpha1, maps, 2, "DeviceIdentifier", {},
                <<"PoolName", "DeviceName">>)
  BY <1>2, <1>5, Fit2, FieldIs, DepIs, NumberIs, AreScalars, SMTT(60)
     DEF DRAHealthV1alpha1_DeviceIdentifierDesc,
         DRAHealthV1alpha1_DeviceIdentifier
<1>m3. MessageAt(DRAHealthV1alpha1, maps, 3, "DeviceHealth", {1, 2},
                <<"Device", "Health", "LastUpdatedTime",
                  "HealthCheckTimeoutSeconds", "Message">>)
  <2>1. /\ FieldFits(maps, One(1, Msg("DeviceIdentifier")),
                     Tag(1, Ref("DeviceIdentifier")))
        /\ FieldFits(maps, One(2, Enum("HealthStatus")),
                     Tag(2, Enum("HealthStatus")))
        /\ FieldFits(maps, One(3, Int64), Tag(3, Int64))
        /\ FieldFits(maps, One(4, Int64), Tag(4, Int64))
        /\ FieldFits(maps, One(5, Str), Tag(5, Str))
    BY <1>5, FieldIs, AreScalars
  <2>2. /\ DepFits({1, 2}, 1, One(1, Msg("DeviceIdentifier")))
        /\ DepFits({1, 2}, 2, One(2, Enum("HealthStatus")))
        /\ DepFits({1, 2}, 3, One(3, Int64))
        /\ DepFits({1, 2}, 4, One(4, Int64))
        /\ DepFits({1, 2}, 5, One(5, Str))
    BY DepIs, AreScalars
  <2> QED BY <1>2, <2>1, <2>2, Fit5, NumberIs, SMTT(60)
          DEF DRAHealthV1alpha1_DeviceHealthDesc,
              DRAHealthV1alpha1_DeviceHealth
<1>m4. MessageAt(DRAHealthV1alpha1, maps, 4,
                "NodeWatchResourcesResponse", {1},
                <<"Devices">>)
  BY <1>2, <1>5, Fit1, FieldIs, DepIs, NumberIs, AreScalars, SMTT(60)
     DEF DRAHealthV1alpha1_NodeWatchResourcesResponseDesc,
         DRAHealthV1alpha1_NodeWatchResourcesResponse
<1>6. \A i \in DOMAIN Messages(DRAHealthV1alpha1) :
        /\ MessageFits(DRAHealthV1alpha1, maps, i)
        /\ Messages(DRAHealthV1alpha1)[i].name # "nil"
        /\ \A e \in DOMAIN Enums(DRAHealthV1alpha1) :
             Messages(DRAHealthV1alpha1)[i].name # Enums(DRAHealthV1alpha1)[e]
  BY <1>1, <1>2, <1>m1, <1>m2, <1>m3, <1>m4, SMTT(60)
     DEF MessageAt, EntryAt, Row, MessageFits
<1>7. InOrder(deps, DepFields(DRAHealthV1alpha1))
  <2>1. {deps[x] : x \in 1..Len(deps)} =
          {<<3, 1>>, <<3, 2>>, <<4, 1>>}
    BY DEF deps, DRAHealthV1alpha1Deps
  <2>2. \A i \in DOMAIN Messages(DRAHealthV1alpha1) :
          DepsListed(deps, Messages(DRAHealthV1alpha1)[i], i)
    <3>1. /\ DepsAre({}, Messages(DRAHealthV1alpha1)[1])
          /\ DepsAre({}, Messages(DRAHealthV1alpha1)[2])
          /\ DepsAre({1, 2}, Messages(DRAHealthV1alpha1)[3])
          /\ DepsAre({1}, Messages(DRAHealthV1alpha1)[4])
      BY <1>m1, <1>m2, <1>m3, <1>m4 DEF MessageAt, EntryAt
    <3>2. \A i \in DOMAIN Messages(DRAHealthV1alpha1) : \A f \in Nat :
            (f \in DOMAIN Messages(DRAHealthV1alpha1)[i].fields
               /\ IsDep(Messages(DRAHealthV1alpha1)[i].fields[f].type))
            <=> <<i, f>> \in {<<3, 1>>, <<3, 2>>, <<4, 1>>}
      BY <1>1, <3>1, SMTT(60) DEF DepsAre
    <3> QED BY <2>1, <3>2 DEF DepsListed
  <2>3. \A x, y \in 1..Len(deps) : x < y => Before(deps[x], deps[y])
    BY DEF deps, DRAHealthV1alpha1Deps, Before
  <2>4. /\ deps \in Seq(Nat \X Nat)
        /\ \A x \in 1..Len(deps) :
             deps[x][1] \in DOMAIN Messages(DRAHealthV1alpha1)
    BY <1>1, SMTT(30) DEF deps, DRAHealthV1alpha1Deps
  <2> QED BY <1>6, <2>2, <2>3, <2>4, DepFieldsInOrder
<1>d1. Resolves(DRAHealthV1alpha1, deps, 1)
  BY <1>1, <1>2, <1>3a, <1>m2, SMTT(30)
     DEF Resolves, TypeAt, Type, deps, DRAHealthV1alpha1Deps, MessageAt,
         EntryAt, Row, Message, One, DRAHealthV1alpha1_DeviceHealthDesc
<1>d2. Resolves(DRAHealthV1alpha1, deps, 2)
  BY <1>1, <1>2, <1>3a, SMTT(30)
     DEF Resolves, TypeAt, Type, deps, DRAHealthV1alpha1Deps, MessageAt,
         EntryAt, Row, Message, One, DRAHealthV1alpha1_DeviceHealthDesc
<1>d3. Resolves(DRAHealthV1alpha1, deps, 3)
  BY <1>1, <1>2, <1>3a, <1>m3, SMTT(30)
     DEF Resolves, TypeAt, Type, deps, DRAHealthV1alpha1Deps, MessageAt,
         EntryAt, Row, Message, Many,
         DRAHealthV1alpha1_NodeWatchResourcesResponseDesc
<1>s1. MethodResolves(DRAHealthV1alpha1, methods, 1)
  <2>1. /\ IsIndexOf(DRAHealthV1alpha1, 1, "NodeWatchResourcesRequest")
        /\ IsIndexOf(DRAHealthV1alpha1, 4, "NodeWatchResourcesResponse")
    BY <1>1, <1>m1, <1>m4 DEF IsIndexOf, MessageAt
  <2> QED BY <1>3a, <1>4, <2>1
          DEF MethodResolves, Method, Input, Output, services, methods,
              DRAHealthV1alpha1Methods
<1>8. InOrder(methods, Methods(DRAHealthV1alpha1)) /\ MethodsOnce(services)
  <2>1. Methods(DRAHealthV1alpha1) =
          UNION {{<<s, m>> : m \in DOMAIN services[s].methods} :
                   s \in DOMAIN services}
    BY DEF Methods, services
  <2>2. Methods(DRAHealthV1alpha1) = {<<1, 1>>}
    BY <1>4, <2>1
  <2>3. MethodsOnce(services)
    BY <1>4 DEF MethodsOnce, Method
  <2> QED BY <2>2, <2>3 DEF InOrder, Before, methods, DRAHealthV1alpha1Methods
<1>9. \A n \in DOMAIN maps : \E i \in DOMAIN Messages(DRAHealthV1alpha1) :
        /\ Messages(DRAHealthV1alpha1)[i].entry
        /\ Messages(DRAHealthV1alpha1)[i].name = n
  BY <1>1, <1>5
<1>10. /\ \A x \in 1..Len(deps) : Resolves(DRAHealthV1alpha1, deps, x)
       /\ \A x \in 1..Len(methods) :
            MethodResolves(DRAHealthV1alpha1, methods, x)
  BY <1>d1, <1>d2, <1>d3, <1>s1
     DEF deps, DRAHealthV1alpha1Deps, methods, DRAHealthV1alpha1Methods
<1>11. \A e \in 1..Len(Enums(DRAHealthV1alpha1)) :
         DRAHealthV1alpha1.goTypes[e].name = Enums(DRAHealthV1alpha1)[e]
  BY <1>1
     DEF DRAHealthV1alpha1, DRAHealthV1alpha1GoTypes, TypeBuilder, EnumType,
         Struct, DRAHealthV1alpha1_HealthStatus
<1>12. Fits(DRAHealthV1alpha1, deps, methods, maps)
  BY <1>1, <1>6, <1>7, <1>8, <1>9, <1>10, <1>11 DEF Fits, services
<1> QED BY <1>12 DEF FitsTogether

-----------------------------------------------------------------------------
(* PluginRegistrationV1                                                    *)

PluginRegistrationV1Deps ==
  <<>>
PluginRegistrationV1Methods ==
  <<<<1, 1>>, <<1, 2>>>>
PluginRegistrationV1Maps == [n \in {} |-> Str]

LEMMA PluginRegistrationV1Fits == FitsTogether(PluginRegistrationV1)
<1> DEFINE deps == PluginRegistrationV1Deps
           methods == PluginRegistrationV1Methods
           maps == PluginRegistrationV1Maps
           idxs == PluginRegistrationV1.depIdxs
           services == PluginRegistrationV1.desc.services
           Type(x) == DepIdx(PluginRegistrationV1, FieldTypes, x)
           Input(x) == DepIdx(PluginRegistrationV1, MethodInputs, x)
           Output(x) == DepIdx(PluginRegistrationV1, MethodOutputs, x)
<1>1. /\ Len(Messages(PluginRegistrationV1)) = 4
      /\ DOMAIN Messages(PluginRegistrationV1) = 1..4
      /\ Len(Enums(PluginRegistrationV1)) = 0
      /\ DOMAIN Enums(PluginRegistrationV1) = 1..0
      /\ DOMAIN PluginRegistrationV1.goTypes = 1..4
  BY DEF Messages, Enums, PluginRegistrationV1, PluginRegistrationV1Desc,
         PluginRegistrationV1GoTypes, TypeBuilder, File
<1>2. /\ Row(PluginRegistrationV1, 1, PluginRegistrationV1_PluginInfoDesc,
             PluginRegistrationV1_PluginInfo)
      /\ Row(PluginRegistrationV1, 2,
             PluginRegistrationV1_RegistrationStatusDesc,
               PluginRegistrationV1_RegistrationStatus)
      /\ Row(PluginRegistrationV1, 3,
             PluginRegistrationV1_RegistrationStatusResponseDesc,
               PluginRegistrationV1_RegistrationStatusResponse)
      /\ Row(PluginRegistrationV1, 4, PluginRegistrationV1_InfoRequestDesc,
             PluginRegistrationV1_InfoRequest)
  <2>1. /\ Messages(PluginRegistrationV1)[1] =
             PluginRegistrationV1_PluginInfoDesc
        /\ Messages(PluginRegistrationV1)[2] =
             PluginRegistrationV1_RegistrationStatusDesc
        /\ Messages(PluginRegistrationV1)[3] =
             PluginRegistrationV1_RegistrationStatusResponseDesc
        /\ Messages(PluginRegistrationV1)[4] =
             PluginRegistrationV1_InfoRequestDesc
    BY DEF Messages, PluginRegistrationV1, PluginRegistrationV1Desc,
           TypeBuilder, File
  <2>2. /\ PluginRegistrationV1.goTypes[1] = PluginRegistrationV1_PluginInfo
        /\ PluginRegistrationV1.goTypes[2] =
             PluginRegistrationV1_RegistrationStatus
        /\ PluginRegistrationV1.goTypes[3] =
             PluginRegistrationV1_RegistrationStatusResponse
        /\ PluginRegistrationV1.goTypes[4] = PluginRegistrationV1_InfoRequest
    BY DEF PluginRegistrationV1, PluginRegistrationV1GoTypes, TypeBuilder
  <2> QED BY <1>1, <2>1, <2>2 DEF Row, GoType
<1>3. /\ Len(idxs) = 9 /\ idxs[1] = 3 /\ idxs[2] = 1 /\ idxs[3] = 0
      /\ idxs[4] = 2 /\ idxs[5] = 2 /\ idxs[6] = 0 /\ idxs[7] = 0
      /\ idxs[8] = 0 /\ idxs[9] = 0
  BY DEF PluginRegistrationV1, PluginRegistrationV1DepIdxs, TypeBuilder
<1>3a. /\ Input(0) = 3 /\ Input(1) = 1 /\ Output(0) = 0 /\ Output(1) = 2
  BY <1>3 DEF DepIdx, FieldTypes, MethodInputs, MethodOutputs
<1>4. /\ DOMAIN services = 1..1
      /\ services[1].name = "Registration"
      /\ DOMAIN services[1].methods = 1..2
      /\ services[1].methods[1] =
             Method("GetInfo", "InfoRequest", "PluginInfo")
      /\ services[1].methods[2] =
             Method("NotifyRegistrationStatus", "RegistrationStatus",
               "RegistrationStatusResponse")
  BY DEF PluginRegistrationV1, PluginRegistrationV1Desc, TypeBuilder, File,
         Service
<1>5. /\ DOMAIN maps = {}
  BY DEF PluginRegistrationV1Maps
<1> HIDE DEF deps, methods, maps, idxs, services, Type, Input, Output
<1>m1. MessageAt(PluginRegistrationV1, maps, 1, "PluginInfo", {},
                <<"Type", "Name", "Endpoint", "SupportedVersions">>)
  <2>1. /\ FieldFits(maps, One(1, Str), Tag(1, Str))
        /\ FieldFits(maps, One(2, Str), Tag(2, Str))
        /\ FieldFits(maps, One(3, Str), Tag(3, Str))
        /\ FieldFits(maps, Many(4, Str), Tag(4, Slice(Str)))
    BY FieldIs, AreScalars
  <2>2. /\ DepFits({}, 1, One(1, Str))
        /\ DepFits({}, 2, One(2, Str))
        /\ DepFits({}, 3, One(3, Str))
        /\ DepFits({}, 4, Many(4, Str))
    BY DepIs, AreScalars
  <2> QED BY <1>2, <2>1, <2>2, Fit4, NumberIs, SMTT(60)
          DEF PluginRegistrationV1_PluginInfoDesc,
              PluginRegistrationV1_PluginInfo
<1>m2. MessageAt(PluginRegistrationV1, maps, 2, "RegistrationStatus", {},
                <<"PluginRegistered", "Error">>)
  BY <1>2, <1>5, Fit2, FieldIs, DepIs, NumberIs, AreScalars, SMTT(60)
     DEF PluginRegistrationV1_RegistrationStatusDesc,
         PluginRegistrationV1_RegistrationStatus
<1>m3. MessageAt(PluginRegistrationV1, maps, 3,
                "RegistrationStatusResponse", {},
                <<>>)
  BY <1>2, Fit0 DEF PluginRegistrationV1_RegistrationStatusResponseDesc,
         PluginRegistrationV1_RegistrationStatusResponse
<1>m4. MessageAt(PluginRegistrationV1, maps, 4, "InfoRequest", {}, <<>>)
  BY <1>2, Fit0 DEF PluginRegistrationV1_InfoRequestDesc,
         PluginRegistrationV1_InfoRequest
<1>6. \A i \in DOMAIN Messages(PluginRegistrationV1) :
        /\ MessageFits(PluginRegistrationV1, maps, i)
        /\ Messages(PluginRegistrationV1)[i].name # "nil"
  BY <1>1, <1>2, <1>m1, <1>m2, <1>m3, <1>m4, SMTT(60)
     DEF MessageAt, EntryAt, Row, MessageFits
<1>7. InOrder(deps, DepFields(PluginRegistrationV1))
  <2>1. {deps[x] : x \in 1..Len(deps)} =
          {}
    BY DEF deps, PluginRegistrationV1Deps
  <2>2. \A i \in DOMAIN Messages(PluginRegistrationV1) :
          DepsListed(deps, Messages(PluginRegistrationV1)[i], i)
    <3>1. /\ DepsAre({}, Messages(PluginRegistrationV1)[1])
          /\ DepsAre({}, Messages(PluginRegistrationV1)[2])
          /\ DepsAre({}, Messages(PluginRegistrationV1)[3])
          /\ DepsAre({}, Messages(PluginRegistrationV1)[4])
      BY <1>m1, <1>m2, <1>m3, <1>m4 DEF MessageAt, EntryAt
    <3>2. \A i \in DOMAIN Messages(PluginRegistrationV1) : \A f \in Nat :
            (f \in DOMAIN Messages(PluginRegistrationV1)[i].fields
               /\ IsDep(Messages(PluginRegistrationV1)[i].fields[f].type))
            <=> <<i, f>> \in {}
      BY <1>1, <3>1, SMTT(60) DEF DepsAre
    <3> QED BY <2>1, <3>2 DEF DepsListed
  <2>3. \A x, y \in 1..Len(deps) : x < y => Before(deps[x], deps[y])
    BY DEF deps, PluginRegistrationV1Deps, Before
  <2>4. /\ deps \in Seq(Nat \X Nat)
        /\ \A x \in 1..Len(deps) :
             deps[x][1] \in DOMAIN Messages(PluginRegistrationV1)
    BY <1>1, SMTT(30) DEF deps, PluginRegistrationV1Deps
  <2> QED BY <1>6, <2>2, <2>3, <2>4, DepFieldsInOrder
<1>s1. MethodResolves(PluginRegistrationV1, methods, 1)
  <2>1. /\ IsIndexOf(PluginRegistrationV1, 3, "InfoRequest")
        /\ IsIndexOf(PluginRegistrationV1, 0, "PluginInfo")
    BY <1>1, <1>m4, <1>m1 DEF IsIndexOf, MessageAt
  <2> QED BY <1>3a, <1>4, <2>1
          DEF MethodResolves, Method, Input, Output, services, methods,
              PluginRegistrationV1Methods
<1>s2. MethodResolves(PluginRegistrationV1, methods, 2)
  <2>1. /\ IsIndexOf(PluginRegistrationV1, 1, "RegistrationStatus")
        /\ IsIndexOf(PluginRegistrationV1, 2, "RegistrationStatusResponse")
    BY <1>1, <1>m2, <1>m3 DEF IsIndexOf, MessageAt
  <2> QED BY <1>3a, <1>4, <2>1
          DEF MethodResolves, Method, Input, Output, services, methods,
              PluginRegistrationV1Methods
<1>8. InOrder(methods, Methods(PluginRegistrationV1)) /\ MethodsOnce(services)
  <2>1. Methods(PluginRegistrationV1) =
          UNION {{<<s, m>> : m \in DOMAIN services[s].methods} :
                   s \in DOMAIN services}
    BY DEF Methods, services
  <2>2. Methods(PluginRegistrationV1) = {<<1, 1>>, <<1, 2>>}
    BY <1>4, <2>1
  <2>3. MethodsOnce(services)
    BY <1>4 DEF MethodsOnce, Method
  <2> QED BY <2>2, <2>3
             DEF InOrder, Before, methods, PluginRegistrationV1Methods
<1>9. \A n \in DOMAIN maps : \E i \in DOMAIN Messages(PluginRegistrationV1) :
        /\ Messages(PluginRegistrationV1)[i].entry
        /\ Messages(PluginRegistrationV1)[i].name = n
  BY <1>1, <1>5
<1>10. /\ \A x \in 1..Len(deps) : Resolves(PluginRegistrationV1, deps, x)
       /\ \A x \in 1..Len(methods) :
            MethodResolves(PluginRegistrationV1, methods, x)
  BY <1>s1, <1>s2
     DEF deps, PluginRegistrationV1Deps, methods, PluginRegistrationV1Methods
<1>12. Fits(PluginRegistrationV1, deps, methods, maps)
  BY <1>1, <1>6, <1>7, <1>8, <1>9, <1>10 DEF Fits, services
<1> QED BY <1>12 DEF FitsTogether

-----------------------------------------------------------------------------
(* PodResourcesV1alpha1                                                    *)

PodResourcesV1alpha1Deps ==
  <<<<2, 1>>, <<3, 3>>, <<4, 2>>>>
PodResourcesV1alpha1Methods ==
  <<<<1, 1>>>>
PodResourcesV1alpha1Maps == [n \in {} |-> Str]

LEMMA PodResourcesV1alpha1Fits == FitsTogether(PodResourcesV1alpha1)
<1> DEFINE deps == PodResourcesV1alpha1Deps
           methods == PodResourcesV1alpha1Methods
           maps == PodResourcesV1alpha1Maps
           idxs == PodResourcesV1alpha1.depIdxs
           services == PodResourcesV1alpha1.desc.services
           Type(x) == DepIdx(PodResourcesV1alpha1, FieldTypes, x)
           Input(x) == DepIdx(PodResourcesV1alpha1, MethodInputs, x)
           Output(x) == DepIdx(PodResourcesV1alpha1, MethodOutputs, x)
<1>1. /\ Len(Messages(PodResourcesV1alpha1)) = 5
      /\ DOMAIN Messages(PodResourcesV1alpha1) = 1..5
      /\ Len(Enums(PodResourcesV1alpha1)) = 0
      /\ DOMAIN Enums(PodResourcesV1alpha1) = 1..0
      /\ DOMAIN PodResourcesV1alpha1.goTypes = 1..5
  BY DEF Messages, Enums, PodResourcesV1alpha1, PodResourcesV1alpha1Desc,
         PodResourcesV1alpha1GoTypes, TypeBuilder, File
<1>2. /\ Row(PodResourcesV1alpha1, 1,
             PodResourcesV1alpha1_ListPodResourcesRequestDesc,
               PodResourcesV1alpha1_ListPodResourcesRequest)
      /\ Row(PodResourcesV1alpha1, 2,
             PodResourcesV1alpha1_ListPodResourcesResponseDesc,
               PodResourcesV1alpha1_ListPodResourcesResponse)
      /\ Row(PodResourcesV1alpha1, 3, PodResourcesV1alpha1_PodResourcesDesc,
             PodResourcesV1alpha1_PodResources)
      /\ Row(PodResourcesV1alpha1, 4,
             PodResourcesV1alpha1_ContainerResourcesDesc,
               PodResourcesV1alpha1_ContainerResources)
      /\ Row(PodResourcesV1alpha1, 5,
             PodResourcesV1alpha1_ContainerDevicesDesc,
               PodResourcesV1alpha1_ContainerDevices)
  <2>1. /\ Messages(PodResourcesV1alpha1)[1] =
             PodResourcesV1alpha1_ListPodResourcesRequestDesc
        /\ Messages(PodResourcesV1alpha1)[2] =
             PodResourcesV1alpha1_ListPodResourcesResponseDesc
        /\ Messages(PodResourcesV1alpha1)[3] =
             PodResourcesV1alpha1_PodResourcesDesc
        /\ Messages(PodResourcesV1alpha1)[4] =
             PodResourcesV1alpha1_ContainerResourcesDesc
        /\ Messages(PodResourcesV1alpha1)[5] =
             PodResourcesV1alpha1_ContainerDevicesDesc
    BY DEF Messages, PodResourcesV1alpha1, PodResourcesV1alpha1Desc,
           TypeBuilder, File
  <2>2. /\ PodResourcesV1alpha1.goTypes[1] =
             PodResourcesV1alpha1_ListPodResourcesRequest
        /\ PodResourcesV1alpha1.goTypes[2] =
             PodResourcesV1alpha1_ListPodResourcesResponse
        /\ PodResourcesV1alpha1.goTypes[3] = PodResourcesV1alpha1_PodResources
        /\ PodResourcesV1alpha1.goTypes[4] =
             PodResourcesV1alpha1_ContainerResources
        /\ PodResourcesV1alpha1.goTypes[5] =
             PodResourcesV1alpha1_ContainerDevices
    BY DEF PodResourcesV1alpha1, PodResourcesV1alpha1GoTypes, TypeBuilder
  <2> QED BY <1>1, <2>1, <2>2 DEF Row, GoType
<1>3. /\ Len(idxs) = 10 /\ idxs[1] = 2 /\ idxs[2] = 3 /\ idxs[3] = 4
      /\ idxs[4] = 0 /\ idxs[5] = 1 /\ idxs[6] = 4 /\ idxs[7] = 3
      /\ idxs[8] = 3 /\ idxs[9] = 3 /\ idxs[10] = 0
  BY DEF PodResourcesV1alpha1, PodResourcesV1alpha1DepIdxs, TypeBuilder
<1>3a. /\ Type(0) = 2 /\ Type(1) = 3 /\ Type(2) = 4 /\ Input(0) = 0
       /\ Output(0) = 1
  BY <1>3 DEF DepIdx, FieldTypes, MethodInputs, MethodOutputs
<1>4. /\ DOMAIN services = 1..1
      /\ services[1].name = "PodResourcesLister"
      /\ DOMAIN services[1].methods = 1..1
      /\ services[1].methods[1] =
             Method("List", "ListPodResourcesRequest",
               "ListPodResourcesResponse")
  BY DEF PodResourcesV1alpha1, PodResourcesV1alpha1Desc, TypeBuilder, File,
         Service
<1>5. /\ DOMAIN maps = {}
  BY DEF PodResourcesV1alpha1Maps
<1> HIDE DEF deps, methods, maps, idxs, services, Type, Input, Output
<1>m1. MessageAt(PodResourcesV1alpha1, maps, 1, "ListPodResourcesRequest", {},
                <<>>)
  BY <1>2, Fit0 DEF PodResourcesV1alpha1_ListPodResourcesRequestDesc,
         PodResourcesV1alpha1_ListPodResourcesRequest
<1>m2. MessageAt(PodResourcesV1alpha1, maps, 2,
                "ListPodResourcesResponse", {1},
                <<"PodResources">>)
  BY <1>2, <1>5, Fit1, FieldIs, DepIs, NumberIs, AreScalars, SMTT(60)
     DEF PodResourcesV1alpha1_ListPodResourcesResponseDesc,
         PodResourcesV1alpha1_ListPodResourcesResponse
<1>m3. MessageAt(PodResourcesV1alpha1, maps, 3, "PodResources", {3},
                <<"Name", "Namespace", "Containers">>)
  BY <1>2, <1>5, Fit3, FieldIs, DepIs, NumberIs, AreScalars, SMTT(60)
     DEF PodResourcesV1alpha1_PodResourcesDesc,
         PodResourcesV1alpha1_PodResources
<1>m4. MessageAt(PodResourcesV1alpha1, maps, 4, "ContainerResources", {2},
                <<"Name", "Devices">>)
  BY <1>2, <1>5, Fit2, FieldIs, DepIs, NumberIs, AreScalars, SMTT(60)
     DEF PodResourcesV1alpha1_ContainerResourcesDesc,
         PodResourcesV1alpha1_ContainerResources
<1>m5. MessageAt(PodResourcesV1alpha1, maps, 5, "ContainerDevices", {},
                <<"ResourceName", "DeviceIds">>)
  BY <1>2, <1>5, Fit2, FieldIs, DepIs, NumberIs, AreScalars, SMTT(60)
     DEF PodResourcesV1alpha1_ContainerDevicesDesc,
         PodResourcesV1alpha1_ContainerDevices
<1>6. \A i \in DOMAIN Messages(PodResourcesV1alpha1) :
        /\ MessageFits(PodResourcesV1alpha1, maps, i)
        /\ Messages(PodResourcesV1alpha1)[i].name # "nil"
  BY <1>1, <1>2, <1>m1, <1>m2, <1>m3, <1>m4, <1>m5, SMTT(60)
     DEF MessageAt, EntryAt, Row, MessageFits
<1>7. InOrder(deps, DepFields(PodResourcesV1alpha1))
  <2>1. {deps[x] : x \in 1..Len(deps)} =
          {<<2, 1>>, <<3, 3>>, <<4, 2>>}
    BY DEF deps, PodResourcesV1alpha1Deps
  <2>2. \A i \in DOMAIN Messages(PodResourcesV1alpha1) :
          DepsListed(deps, Messages(PodResourcesV1alpha1)[i], i)
    <3>1. /\ DepsAre({}, Messages(PodResourcesV1alpha1)[1])
          /\ DepsAre({1}, Messages(PodResourcesV1alpha1)[2])
          /\ DepsAre({3}, Messages(PodResourcesV1alpha1)[3])
          /\ DepsAre({2}, Messages(PodResourcesV1alpha1)[4])
          /\ DepsAre({}, Messages(PodResourcesV1alpha1)[5])
      BY <1>m1, <1>m2, <1>m3, <1>m4, <1>m5 DEF MessageAt, EntryAt
    <3>2. \A i \in DOMAIN Messages(PodResourcesV1alpha1) : \A f \in Nat :
            (f \in DOMAIN Messages(PodResourcesV1alpha1)[i].fields
               /\ IsDep(Messages(PodResourcesV1alpha1)[i].fields[f].type))
            <=> <<i, f>> \in {<<2, 1>>, <<3, 3>>, <<4, 2>>}
      BY <1>1, <3>1, SMTT(60) DEF DepsAre
    <3> QED BY <2>1, <3>2 DEF DepsListed
  <2>3. \A x, y \in 1..Len(deps) : x < y => Before(deps[x], deps[y])
    BY DEF deps, PodResourcesV1alpha1Deps, Before
  <2>4. /\ deps \in Seq(Nat \X Nat)
        /\ \A x \in 1..Len(deps) :
             deps[x][1] \in DOMAIN Messages(PodResourcesV1alpha1)
    BY <1>1, SMTT(30) DEF deps, PodResourcesV1alpha1Deps
  <2> QED BY <1>6, <2>2, <2>3, <2>4, DepFieldsInOrder
<1>d1. Resolves(PodResourcesV1alpha1, deps, 1)
  BY <1>1, <1>2, <1>3a, <1>m3, SMTT(30)
     DEF Resolves, TypeAt, Type, deps, PodResourcesV1alpha1Deps, MessageAt,
         EntryAt, Row, Message, Many,
         PodResourcesV1alpha1_ListPodResourcesResponseDesc
<1>d2. Resolves(PodResourcesV1alpha1, deps, 2)
  BY <1>1, <1>2, <1>3a, <1>m4, SMTT(30)
     DEF Resolves, TypeAt, Type, deps, PodResourcesV1alpha1Deps, MessageAt,
         EntryAt, Row, Message, Many, PodResourcesV1alpha1_PodResourcesDesc
<1>d3. Resolves(PodResourcesV1alpha1, deps, 3)
  BY <1>1, <1>2, <1>3a, <1>m5, SMTT(30)
     DEF Resolves, TypeAt, Type, deps, PodResourcesV1alpha1Deps, MessageAt,
         EntryAt, Row, Message, Many,
         PodResourcesV1alpha1_ContainerResourcesDesc
<1>s1. MethodResolves(PodResourcesV1alpha1, methods, 1)
  <2>1. /\ IsIndexOf(PodResourcesV1alpha1, 0, "ListPodResourcesRequest")
        /\ IsIndexOf(PodResourcesV1alpha1, 1, "ListPodResourcesResponse")
    BY <1>1, <1>m1, <1>m2 DEF IsIndexOf, MessageAt
  <2> QED BY <1>3a, <1>4, <2>1
          DEF MethodResolves, Method, Input, Output, services, methods,
              PodResourcesV1alpha1Methods
<1>8. InOrder(methods, Methods(PodResourcesV1alpha1)) /\ MethodsOnce(services)
  <2>1. Methods(PodResourcesV1alpha1) =
          UNION {{<<s, m>> : m \in DOMAIN services[s].methods} :
                   s \in DOMAIN services}
    BY DEF Methods, services
  <2>2. Methods(PodResourcesV1alpha1) = {<<1, 1>>}
    BY <1>4, <2>1
  <2>3. MethodsOnce(services)
    BY <1>4 DEF MethodsOnce, Method
  <2> QED BY <2>2, <2>3
             DEF InOrder, Before, methods, PodResourcesV1alpha1Methods
<1>9. \A n \in DOMAIN maps : \E i \in DOMAIN Messages(PodResourcesV1alpha1) :
        /\ Messages(PodResourcesV1alpha1)[i].entry
        /\ Messages(PodResourcesV1alpha1)[i].name = n
  BY <1>1, <1>5
<1>10. /\ \A x \in 1..Len(deps) : Resolves(PodResourcesV1alpha1, deps, x)
       /\ \A x \in 1..Len(methods) :
            MethodResolves(PodResourcesV1alpha1, methods, x)
  BY <1>d1, <1>d2, <1>d3, <1>s1
     DEF deps, PodResourcesV1alpha1Deps, methods, PodResourcesV1alpha1Methods
<1>12. Fits(PodResourcesV1alpha1, deps, methods, maps)
  BY <1>1, <1>6, <1>7, <1>8, <1>9, <1>10 DEF Fits, services
<1> QED BY <1>12 DEF FitsTogether

-----------------------------------------------------------------------------
(* PodResourcesV1                                                          *)

PodResourcesV1Deps ==
  <<<<2, 1>>, <<2, 3>>, <<4, 1>>, <<5, 3>>, <<6, 2>>, <<6, 4>>, <<6, 5>>,
    <<7, 3>>, <<8, 3>>, <<9, 1>>, <<11, 3>>, <<12, 1>>, <<15, 1>>>>
PodResourcesV1Methods ==
  <<<<1, 1>>, <<1, 2>>, <<1, 3>>>>
PodResourcesV1Maps == [n \in {} |-> Str]

LEMMA PodResourcesV1Fits == FitsTogether(PodResourcesV1)
<1> DEFINE deps == PodResourcesV1Deps
           methods == PodResourcesV1Methods
           maps == PodResourcesV1Maps
           idxs == PodResourcesV1.depIdxs
           services == PodResourcesV1.desc.services
           Type(x) == DepIdx(PodResourcesV1, FieldTypes, x)
           Input(x) == DepIdx(PodResourcesV1, MethodInputs, x)
           Output(x) == DepIdx(PodResourcesV1, MethodOutputs, x)
<1>1. /\ Len(Messages(PodResourcesV1)) = 15
      /\ DOMAIN Messages(PodResourcesV1) = 1..15
      /\ Len(Enums(PodResourcesV1)) = 0 /\ DOMAIN Enums(PodResourcesV1) = 1..0
      /\ DOMAIN PodResourcesV1.goTypes = 1..15
  BY DEF Messages, Enums, PodResourcesV1, PodResourcesV1Desc,
         PodResourcesV1GoTypes, TypeBuilder, File
<1>2. /\ Row(PodResourcesV1, 1,
             PodResourcesV1_AllocatableResourcesRequestDesc,
               PodResourcesV1_AllocatableResourcesRequest)
      /\ Row(PodResourcesV1, 2,
             PodResourcesV1_AllocatableResourcesResponseDesc,
               PodResourcesV1_AllocatableResourcesResponse)
      /\ Row(PodResourcesV1, 3, PodResourcesV1_ListPodResourcesRequestDesc,
             PodResourcesV1_ListPodResourcesRequest)
      /\ Row(PodResourcesV1, 4, PodResourcesV1_ListPodResourcesResponseDesc,
             PodResourcesV1_ListPodResourcesResponse)
      /\ Row(PodResourcesV1, 5, PodResourcesV1_PodResourcesDesc,
             PodResourcesV1_PodResources)
      /\ Row(PodResourcesV1, 6, PodResourcesV1_ContainerResourcesDesc,
             PodResourcesV1_ContainerResources)
      /\ Row(PodResourcesV1, 7, PodResourcesV1_ContainerMemoryDesc,
             PodResourcesV1_ContainerMemory)
      /\ Row(PodResourcesV1, 8, PodResourcesV1_ContainerDevicesDesc,
             PodResourcesV1_ContainerDevices)
      /\ Row(PodResourcesV1, 9, PodResourcesV1_TopologyInfoDesc,
             PodResourcesV1_TopologyInfo)
      /\ Row(PodResourcesV1, 10, PodResourcesV1_NUMANodeDesc,
             PodResourcesV1_NUMANode)
      /\ Row(PodResourcesV1, 11, PodResourcesV1_DynamicResourceDesc,
             PodResourcesV1_DynamicResource)
      /\ Row(PodResourcesV1, 12, PodResourcesV1_ClaimResourceDesc,
             PodResourcesV1_ClaimResource)
      /\ Row(PodResourcesV1, 13, PodResourcesV1_CDIDeviceDesc,
             PodResourcesV1_CDIDevice)
      /\ Row(PodResourcesV1, 14, PodResourcesV1_GetPodResourcesRequestDesc,
             PodResourcesV1_GetPodResourcesRequest)
      /\ Row(PodResourcesV1, 15, PodResourcesV1_GetPodResourcesResponseDesc,
             PodResourcesV1_GetPodResourcesResponse)
  <2>1. /\ Messages(PodResourcesV1)[1] =
             PodResourcesV1_AllocatableResourcesRequestDesc
        /\ Messages(PodResourcesV1)[2] =
             PodResourcesV1_AllocatableResourcesResponseDesc
        /\ Messages(PodResourcesV1)[3] =
             PodResourcesV1_ListPodResourcesRequestDesc
        /\ Messages(PodResourcesV1)[4] =
             PodResourcesV1_ListPodResourcesResponseDesc
        /\ Messages(PodResourcesV1)[5] = PodResourcesV1_PodResourcesDesc
        /\ Messages(PodResourcesV1)[6] = PodResourcesV1_ContainerResourcesDesc
        /\ Messages(PodResourcesV1)[7] = PodResourcesV1_ContainerMemoryDesc
        /\ Messages(PodResourcesV1)[8] = PodResourcesV1_ContainerDevicesDesc
        /\ Messages(PodResourcesV1)[9] = PodResourcesV1_TopologyInfoDesc
        /\ Messages(PodResourcesV1)[10] = PodResourcesV1_NUMANodeDesc
        /\ Messages(PodResourcesV1)[11] = PodResourcesV1_DynamicResourceDesc
        /\ Messages(PodResourcesV1)[12] = PodResourcesV1_ClaimResourceDesc
        /\ Messages(PodResourcesV1)[13] = PodResourcesV1_CDIDeviceDesc
        /\ Messages(PodResourcesV1)[14] =
             PodResourcesV1_GetPodResourcesRequestDesc
        /\ Messages(PodResourcesV1)[15] =
             PodResourcesV1_GetPodResourcesResponseDesc
    BY DEF Messages, PodResourcesV1, PodResourcesV1Desc,
           TypeBuilder, File
  <2>2. /\ PodResourcesV1.goTypes[1] =
             PodResourcesV1_AllocatableResourcesRequest
        /\ PodResourcesV1.goTypes[2] =
             PodResourcesV1_AllocatableResourcesResponse
        /\ PodResourcesV1.goTypes[3] = PodResourcesV1_ListPodResourcesRequest
        /\ PodResourcesV1.goTypes[4] = PodResourcesV1_ListPodResourcesResponse
        /\ PodResourcesV1.goTypes[5] = PodResourcesV1_PodResources
        /\ PodResourcesV1.goTypes[6] = PodResourcesV1_ContainerResources
        /\ PodResourcesV1.goTypes[7] = PodResourcesV1_ContainerMemory
        /\ PodResourcesV1.goTypes[8] = PodResourcesV1_ContainerDevices
        /\ PodResourcesV1.goTypes[9] = PodResourcesV1_TopologyInfo
        /\ PodResourcesV1.goTypes[10] = PodResourcesV1_NUMANode
        /\ PodResourcesV1.goTypes[11] = PodResourcesV1_DynamicResource
        /\ PodResourcesV1.goTypes[12] = PodResourcesV1_ClaimResource
        /\ PodResourcesV1.goTypes[13] = PodResourcesV1_CDIDevice
        /\ PodResourcesV1.goTypes[14] = PodResourcesV1_GetPodResourcesRequest
        /\ PodResourcesV1.goTypes[15] = PodResourcesV1_GetPodResourcesResponse
    BY DEF PodResourcesV1, PodResourcesV1GoTypes, TypeBuilder
  <2> QED BY <1>1, <2>1, <2>2 DEF Row, GoType
<1>3. /\ Len(idxs) = 24 /\ idxs[1] = 7 /\ idxs[2] = 6 /\ idxs[3] = 4
      /\ idxs[4] = 5 /\ idxs[5] = 7 /\ idxs[6] = 6 /\ idxs[7] = 10
      /\ idxs[8] = 8 /\ idxs[9] = 8 /\ idxs[10] = 9 /\ idxs[11] = 11
      /\ idxs[12] = 12 /\ idxs[13] = 4 /\ idxs[14] = 2 /\ idxs[15] = 0
      /\ idxs[16] = 13 /\ idxs[17] = 3 /\ idxs[18] = 1 /\ idxs[19] = 14
      /\ idxs[20] = 16 /\ idxs[21] = 13 /\ idxs[22] = 13 /\ idxs[23] = 13
      /\ idxs[24] = 0
  BY DEF PodResourcesV1, PodResourcesV1DepIdxs, TypeBuilder
<1>3a. /\ Type(0) = 7 /\ Type(1) = 6 /\ Type(2) = 4 /\ Type(3) = 5
       /\ Type(4) = 7 /\ Type(5) = 6 /\ Type(6) = 10 /\ Type(7) = 8
       /\ Type(8) = 8 /\ Type(9) = 9 /\ Type(10) = 11 /\ Type(11) = 12
       /\ Type(12) = 4 /\ Input(0) = 2 /\ Input(1) = 0 /\ Input(2) = 13
       /\ Output(0) = 3 /\ Output(1) = 1 /\ Output(2) = 14
  BY <1>3 DEF DepIdx, FieldTypes, MethodInputs, MethodOutputs
<1>4. /\ DOMAIN services = 1..1
      /\ services[1].name = "PodResourcesLister"
      /\ DOMAIN services[1].methods = 1..3
      /\ services[1].methods[1] =
             Method("List", "ListPodResourcesRequest",
               "ListPodResourcesResponse")
      /\ services[1].methods[2] =
             Method("GetAllocatableResources", "AllocatableResourcesRequest",
               "AllocatableResourcesResponse")
      /\ services[1].methods[3] =
             Method("Get", "GetPodResourcesRequest",
               "GetPodResourcesResponse")
  BY DEF PodResourcesV1, PodResourcesV1Desc, TypeBuilder, File, Service
<1>5. /\ DOMAIN maps = {}
  BY DEF PodResourcesV1Maps
<1> HIDE DEF deps, methods, maps, idxs, services, Type, Input, Output
<1>m1. MessageAt(PodResourcesV1, maps, 1, "AllocatableResourcesRequest", {},
                <<>>)
  BY <1>2, Fit0 DEF PodResourcesV1_AllocatableResourcesRequestDesc,
         PodResourcesV1_AllocatableResourcesRequest
<1>m2. MessageAt(PodResourcesV1, maps, 2,
                "AllocatableResourcesResponse", {1, 3},
                <<"Devices", "CpuIds", "Memory">>)
  BY <1>2, <1>5, Fit3, FieldIs, DepIs, NumberIs, AreScalars, SMTT(60)
     DEF PodResourcesV1_AllocatableResourcesResponseDesc,
         PodResourcesV1_AllocatableResourcesResponse
<1>m3. MessageAt(PodResourcesV1, maps, 3, "ListPodResourcesRequest", {}, <<>>)
  BY <1>2, Fit0 DEF PodResourcesV1_ListPodResourcesRequestDesc,
         PodResourcesV1_ListPodResourcesRequest
<1>m4. MessageAt(PodResourcesV1, maps, 4, "ListPodResourcesResponse", {1},
                <<"PodResources">>)
  BY <1>2, <1>5, Fit1, FieldIs, DepIs, NumberIs, AreScalars, SMTT(60)
     DEF PodResourcesV1_ListPodResourcesResponseDesc,
         PodResourcesV1_ListPodResourcesResponse
<1>m5. MessageAt(PodResourcesV1, maps, 5, "PodResources", {3},
                <<"Name", "Namespace", "Containers">>)
  BY <1>2, <1>5, Fit3, FieldIs, DepIs, NumberIs, AreScalars, SMTT(60)
     DEF PodResourcesV1_PodResourcesDesc, PodResourcesV1_PodResources
<1>m6. MessageAt(PodResourcesV1, maps, 6, "ContainerResources", {2, 4, 5},
                <<"Name", "Devices", "CpuIds", "Memory", "DynamicResources">>)
  <2>1. /\ FieldFits(maps, One(1, Str), Tag(1, Str))
        /\ FieldFits(maps, Many(2, Msg("ContainerDevices")),
                     Tag(2, Slice(Ref("ContainerDevices"))))
        /\ FieldFits(maps, Many(3, Int64), Tag(3, Slice(Int64)))
        /\ FieldFits(maps, Many(4, Msg("ContainerMemory")),
                     Tag(4, Slice(Ref("ContainerMemory"))))
        /\ FieldFits(maps, Many(5, Msg("DynamicResource")),
                     Tag(5, Slice(Ref("DynamicResource"))))
    BY <1>5, FieldIs, AreScalars
  <2>2. /\ DepFits({2, 4, 5}, 1, One(1, Str))
        /\ DepFits({2, 4, 5}, 2, Many(2, Msg("ContainerDevices")))
        /\ DepFits({2, 4, 5}, 3, Many(3, Int64))
        /\ DepFits({2, 4, 5}, 4, Many(4, Msg("ContainerMemory")))
        /\ DepFits({2, 4, 5}, 5, Many(5, Msg("DynamicResource")))
    BY DepIs, AreScalars
  <2> QED BY <1>2, <2>1, <2>2, Fit5, NumberIs, SMTT(60)
          DEF PodResourcesV1_ContainerResourcesDesc,
              PodResourcesV1_ContainerResources
<1>m7. MessageAt(PodResourcesV1, maps, 7, "ContainerMemory", {3},
                <<"MemoryType", "Size", "Topology">>)
  BY <1>2, <1>5, Fit3, FieldIs, DepIs, NumberIs, AreScalars, SMTT(60)
     DEF PodResourcesV1_ContainerMemoryDesc, PodResourcesV1_ContainerMemory
<1>m8. MessageAt(PodResourcesV1, maps, 8, "ContainerDevices", {3},
                <<"ResourceName", "DeviceIds", "Topology">>)
  BY <1>2, <1>5, Fit3, FieldIs, DepIs, NumberIs, AreScalars, SMTT(60)
     DEF PodResourcesV1_ContainerDevicesDesc, PodResourcesV1_ContainerDevices
<1>m9. MessageAt(PodResourcesV1, maps, 9, "TopologyInfo", {1}, <<"Nodes">>)
  BY <1>2, <1>5, Fit1, FieldIs, DepIs, NumberIs, AreScalars, SMTT(60)
     DEF PodResourcesV1_TopologyInfoDesc, PodResourcesV1_TopologyInfo
<1>m10. MessageAt(PodResourcesV1, maps, 10, "NUMANode", {}, <<"ID">>)
  BY <1>2, <1>5, Fit1, FieldIs, DepIs, NumberIs, AreScalars, SMTT(60)
     DEF PodResourcesV1_NUMANodeDesc, PodResourcesV1_NUMANode
<1>m11. MessageAt(PodResourcesV1, maps, 11, "DynamicResource", {3},
                <<"ClaimName", "ClaimNamespace", "ClaimResources">>)
  BY <1>2, <1>5, Fit3, FieldIs, DepIs, NumberIs, AreScalars, SMTT(60)
     DEF PodResourcesV1_DynamicResourceDesc, PodResourcesV1_DynamicResource
<1>m12. MessageAt(PodResourcesV1, maps, 12, "ClaimResource", {1},
                <<"CdiDevices", "DriverName", "PoolName", "DeviceName",
                  "ShareId">>)
  <2>1. /\ FieldFits(maps, Many(1, Msg("CDIDevice")),
                     Tag(1, Slice(Ref("CDIDevice"))))
        /\ FieldFits(maps, One(2, Str), Tag(2, Str))
        /\ FieldFits(maps, One(3, Str), Tag(3, Str))
        /\ FieldFits(maps, One(4, Str), Tag(4, Str))
        /\ FieldFits(maps, Maybe(5, Str), Tag(5, Ptr(Str)))
    BY <1>5, FieldIs, AreScalars
  <2>2. /\ DepFits({1}, 1, Many(1, Msg("CDIDevice")))
        /\ DepFits({1}, 2, One(2, Str))
        /\ DepFits({1}, 3, One(3, Str))
        /\ DepFits({1}, 4, One(4, Str))
        /\ DepFits({1}, 5, Maybe(5, Str))
    BY DepIs, AreScalars
  <2> QED BY <1>2, <2>1, <2>2, Fit5, NumberIs, SMTT(60)
          DEF PodResourcesV1_ClaimResourceDesc,
              PodResourcesV1_ClaimResource
<1>m13. MessageAt(PodResourcesV1, maps, 13, "CDIDevice", {}, <<"Name">>)
  BY <1>2, <1>5, Fit1, FieldIs, DepIs, NumberIs, AreScalars, SMTT(60)
     DEF PodResourcesV1_CDIDeviceDesc, PodResourcesV1_CDIDevice
<1>m14. MessageAt(PodResourcesV1, maps, 14, "GetPodResourcesRequest", {},
                <<"PodName", "PodNamespace">>)
  BY <1>2, <1>5, Fit2, FieldIs, DepIs, NumberIs, AreScalars, SMTT(60)
     DEF PodResourcesV1_GetPodResourcesRequestDesc,
         PodResourcesV1_GetPodResourcesRequest
<1>m15. MessageAt(PodResourcesV1, maps, 15, "GetPodResourcesResponse", {1},
                <<"PodResources">>)
  BY <1>2, <1>5, Fit1, FieldIs, DepIs, NumberIs, AreScalars, SMTT(60)
     DEF PodResourcesV1_GetPodResourcesResponseDesc,
         PodResourcesV1_GetPodResourcesResponse
<1>6. \A i \in DOMAIN Messages(PodResourcesV1) :
        /\ MessageFits(PodResourcesV1, maps, i)
        /\ Messages(PodResourcesV1)[i].name # "nil"
  BY <1>1, <1>2, <1>m1, <1>m2, <1>m3, <1>m4, <1>m5, <1>m6, <1>m7, <1>m8,
     <1>m9, <1>m10, <1>m11, <1>m12, <1>m13, <1>m14, <1>m15, SMTT(60)
     DEF MessageAt, EntryAt, Row, MessageFits
<1>7. InOrder(deps, DepFields(PodResourcesV1))
  <2>1. {deps[x] : x \in 1..Len(deps)} =
          {<<2, 1>>, <<2, 3>>, <<4, 1>>, <<5, 3>>, <<6, 2>>, <<6, 4>>,
           <<6, 5>>, <<7, 3>>, <<8, 3>>, <<9, 1>>, <<11, 3>>, <<12, 1>>,
           <<15, 1>>}
    BY DEF deps, PodResourcesV1Deps
  <2>2. \A i \in DOMAIN Messages(PodResourcesV1) :
          DepsListed(deps, Messages(PodResourcesV1)[i], i)
    <3>1. /\ DepsAre({}, Messages(PodResourcesV1)[1])
          /\ DepsAre({1, 3}, Messages(PodResourcesV1)[2])
          /\ DepsAre({}, Messages(PodResourcesV1)[3])
          /\ DepsAre({1}, Messages(PodResourcesV1)[4])
          /\ DepsAre({3}, Messages(PodResourcesV1)[5])
          /\ DepsAre({2, 4, 5}, Messages(PodResourcesV1)[6])
          /\ DepsAre({3}, Messages(PodResourcesV1)[7])
          /\ DepsAre({3}, Messages(PodResourcesV1)[8])
          /\ DepsAre({1}, Messages(PodResourcesV1)[9])
          /\ DepsAre({}, Messages(PodResourcesV1)[10])
          /\ DepsAre({3}, Messages(PodResourcesV1)[11])
          /\ DepsAre({1}, Messages(PodResourcesV1)[12])
          /\ DepsAre({}, Messages(PodResourcesV1)[13])
          /\ DepsAre({}, Messages(PodResourcesV1)[14])
          /\ DepsAre({1}, Messages(PodResourcesV1)[15])
      BY <1>m1, <1>m2, <1>m3, <1>m4, <1>m5, <1>m6, <1>m7, <1>m8, <1>m9,
         <1>m10, <1>m11, <1>m12, <1>m13, <1>m14, <1>m15 DEF MessageAt, EntryAt
    <3>2. \A i \in DOMAIN Messages(PodResourcesV1) : \A f \in Nat :
            (f \in DOMAIN Messages(PodResourcesV1)[i].fields
               /\ IsDep(Messages(PodResourcesV1)[i].fields[f].type))
            <=> <<i, f>> \in {<<2, 1>>, <<2, 3>>, <<4, 1>>, <<5, 3>>,
                             <<6, 2>>, <<6, 4>>, <<6, 5>>, <<7, 3>>, <<8, 3>>,
                             <<9, 1>>, <<11, 3>>, <<12, 1>>, <<15, 1>>}
      BY <1>1, <3>1, SMTT(60) DEF DepsAre
    <3> QED BY <2>1, <3>2 DEF DepsListed
  <2>3. \A x, y \in 1..Len(deps) : x < y => Before(deps[x], deps[y])
    BY DEF deps, PodResourcesV1Deps, Before
  <2>4. /\ deps \in Seq(Nat \X Nat)
        /\ \A x \in 1..Len(deps) :
             deps[x][1] \in DOMAIN Messages(PodResourcesV1)
    BY <1>1, SMTT(30) DEF deps, PodResourcesV1Deps
  <2> QED BY <1>6, <2>2, <2>3, <2>4, DepFieldsInOrder
<1>d1. Resolves(PodResourcesV1, deps, 1)
  BY <1>1, <1>2, <1>3a, <1>m8, SMTT(30)
     DEF Resolves, TypeAt, Type, deps, PodResourcesV1Deps, MessageAt, EntryAt,
         Row, Message, Many, PodResourcesV1_AllocatableResourcesResponseDesc
<1>d2. Resolves(PodResourcesV1, deps, 2)
  BY <1>1, <1>2, <1>3a, <1>m7, SMTT(30)
     DEF Resolves, TypeAt, Type, deps, PodResourcesV1Deps, MessageAt, EntryAt,
         Row, Message, Many, PodResourcesV1_AllocatableResourcesResponseDesc
<1>d3. Resolves(PodResourcesV1, deps, 3)
  BY <1>1, <1>2, <1>3a, <1>m5, SMTT(30)
     DEF Resolves, TypeAt, Type, deps, PodResourcesV1Deps, MessageAt, EntryAt,
         Row, Message, Many, PodResourcesV1_ListPodResourcesResponseDesc
<1>d4. Resolves(PodResourcesV1, deps, 4)
  BY <1>1, <1>2, <1>3a, <1>m6, SMTT(30)
     DEF Resolves, TypeAt, Type, deps, PodResourcesV1Deps, MessageAt, EntryAt,
         Row, Message, Many, PodResourcesV1_PodResourcesDesc
<1>d5. Resolves(PodResourcesV1, deps, 5)
  BY <1>1, <1>2, <1>3a, <1>m8, SMTT(30)
     DEF Resolves, TypeAt, Type, deps, PodResourcesV1Deps, MessageAt, EntryAt,
         Row, Message, Many, PodResourcesV1_ContainerResourcesDesc
<1>d6. Resolves(PodResourcesV1, deps, 6)
  BY <1>1, <1>2, <1>3a, <1>m7, SMTT(30)
     DEF Resolves, TypeAt, Type, deps, PodResourcesV1Deps, MessageAt, EntryAt,
         Row, Message, Many, PodResourcesV1_ContainerResourcesDesc
<1>d7. Resolves(PodResourcesV1, deps, 7)
  BY <1>1, <1>2, <1>3a, <1>m11, SMTT(30)
     DEF Resolves, TypeAt, Type, deps, PodResourcesV1Deps, MessageAt, EntryAt,
         Row, Message, Many, PodResourcesV1_ContainerResourcesDesc
<1>d8. Resolves(PodResourcesV1, deps, 8)
  BY <1>1, <1>2, <1>3a, <1>m9, SMTT(30)
     DEF Resolves, TypeAt, Type, deps, PodResourcesV1Deps, MessageAt, EntryAt,
         Row, Message, One, PodResourcesV1_ContainerMemoryDesc
<1>d9. Resolves(PodResourcesV1, deps, 9)
  BY <1>1, <1>2, <1>3a, <1>m9, SMTT(30)
     DEF Resolves, TypeAt, Type, deps, PodResourcesV1Deps, MessageAt, EntryAt,
         Row, Message, One, PodResourcesV1_ContainerDevicesDesc
<1>d10. Resolves(PodResourcesV1, deps, 10)
  BY <1>1, <1>2, <1>3a, <1>m10, SMTT(30)
     DEF Resolves, TypeAt, Type, deps, PodResourcesV1Deps, MessageAt, EntryAt,
         Row, Message, Many, PodResourcesV1_TopologyInfoDesc
<1>d11. Resolves(PodResourcesV1, deps, 11)
  BY <1>1, <1>2, <1>3a, <1>m12, SMTT(30)
     DEF Resolves, TypeAt, Type, deps, PodResourcesV1Deps, MessageAt, EntryAt,
         Row, Message, Many, PodResourcesV1_DynamicResourceDesc
<1>d12. Resolves(PodResourcesV1, deps, 12)
  BY <1>1, <1>2, <1>3a, <1>m13, SMTT(30)
     DEF Resolves, TypeAt, Type, deps, PodResourcesV1Deps, MessageAt, EntryAt,
         Row, Message, Many, PodResourcesV1_ClaimResourceDesc
<1>d13. Resolves(PodResourcesV1, deps, 13)
  BY <1>1, <1>2, <1>3a, <1>m5, SMTT(30)
     DEF Resolves, TypeAt, Type, deps, PodResourcesV1Deps, MessageAt, EntryAt,
         Row, Message, One, PodResourcesV1_GetPodResourcesResponseDesc
<1>s1. MethodResolves(PodResourcesV1, methods, 1)
  <2>1. /\ IsIndexOf(PodResourcesV1, 2, "ListPodResourcesRequest")
        /\ IsIndexOf(PodResourcesV1, 3, "ListPodResourcesResponse")
    BY <1>1, <1>m3, <1>m4 DEF IsIndexOf, MessageAt
  <2> QED BY <1>3a, <1>4, <2>1
          DEF MethodResolves, Method, Input, Output, services, methods,
              PodResourcesV1Methods
<1>s2. MethodResolves(PodResourcesV1, methods, 2)
  <2>1. /\ IsIndexOf(PodResourcesV1, 0, "AllocatableResourcesRequest")
        /\ IsIndexOf(PodResourcesV1, 1, "AllocatableResourcesResponse")
    BY <1>1, <1>m1, <1>m2 DEF IsIndexOf, MessageAt
  <2> QED BY <1>3a, <1>4, <2>1
          DEF MethodResolves, Method, Input, Output, services, methods,
              PodResourcesV1Methods
<1>s3. MethodResolves(PodResourcesV1, methods, 3)
  <2>1. /\ IsIndexOf(PodResourcesV1, 13, "GetPodResourcesRequest")
        /\ IsIndexOf(PodResourcesV1, 14, "GetPodResourcesResponse")
    BY <1>1, <1>m14, <1>m15 DEF IsIndexOf, MessageAt
  <2> QED BY <1>3a, <1>4, <2>1
          DEF MethodResolves, Method, Input, Output, services, methods,
              PodResourcesV1Methods
<1>8. InOrder(methods, Methods(PodResourcesV1)) /\ MethodsOnce(services)
  <2>1. Methods(PodResourcesV1) =
          UNION {{<<s, m>> : m \in DOMAIN services[s].methods} :
                   s \in DOMAIN services}
    BY DEF Methods, services
  <2>2. Methods(PodResourcesV1) = {<<1, 1>>, <<1, 2>>, <<1, 3>>}
    BY <1>4, <2>1
  <2>3. MethodsOnce(services)
    BY <1>4 DEF MethodsOnce, Method
  <2> QED BY <2>2, <2>3 DEF InOrder, Before, methods, PodResourcesV1Methods
<1>9. \A n \in DOMAIN maps : \E i \in DOMAIN Messages(PodResourcesV1) :
        /\ Messages(PodResourcesV1)[i].entry
        /\ Messages(PodResourcesV1)[i].name = n
  BY <1>1, <1>5
<1>10. /\ \A x \in 1..Len(deps) : Resolves(PodResourcesV1, deps, x)
       /\ \A x \in 1..Len(methods) :
            MethodResolves(PodResourcesV1, methods, x)
  BY <1>d1, <1>d2, <1>d3, <1>d4, <1>d5, <1>d6, <1>d7, <1>d8, <1>d9, <1>d10,
     <1>d11, <1>d12, <1>d13, <1>s1, <1>s2, <1>s3
     DEF deps, PodResourcesV1Deps, methods, PodResourcesV1Methods
<1>12. Fits(PodResourcesV1, deps, methods, maps)
  BY <1>1, <1>6, <1>7, <1>8, <1>9, <1>10 DEF Fits, services
<1> QED BY <1>12 DEF FitsTogether

-----------------------------------------------------------------------------
(* PodsV1alpha1                                                            *)

PodsV1alpha1Deps ==
  <<<<1, 1>>>>
PodsV1alpha1Methods ==
  <<<<1, 1>>, <<1, 2>>, <<1, 3>>>>
PodsV1alpha1Maps == [n \in {} |-> Str]

LEMMA PodsV1alpha1Fits == FitsTogether(PodsV1alpha1)
<1> DEFINE deps == PodsV1alpha1Deps
           methods == PodsV1alpha1Methods
           maps == PodsV1alpha1Maps
           idxs == PodsV1alpha1.depIdxs
           services == PodsV1alpha1.desc.services
           Type(x) == DepIdx(PodsV1alpha1, FieldTypes, x)
           Input(x) == DepIdx(PodsV1alpha1, MethodInputs, x)
           Output(x) == DepIdx(PodsV1alpha1, MethodOutputs, x)
<1>1. /\ Len(Messages(PodsV1alpha1)) = 6
      /\ DOMAIN Messages(PodsV1alpha1) = 1..6 /\ Len(Enums(PodsV1alpha1)) = 1
      /\ DOMAIN Enums(PodsV1alpha1) = 1..1
      /\ DOMAIN PodsV1alpha1.goTypes = 1..7
      /\ Enums(PodsV1alpha1)[1] = "EventType"
  BY DEF Messages, Enums, PodsV1alpha1, PodsV1alpha1Desc, PodsV1alpha1GoTypes,
         TypeBuilder, File
<1>2. /\ Row(PodsV1alpha1, 1, PodsV1alpha1_WatchPodsEventDesc,
             PodsV1alpha1_WatchPodsEvent)
      /\ Row(PodsV1alpha1, 2, PodsV1alpha1_ListPodsResponseDesc,
             PodsV1alpha1_ListPodsResponse)
      /\ Row(PodsV1alpha1, 3, PodsV1alpha1_GetPodResponseDesc,
             PodsV1alpha1_GetPodResponse)
      /\ Row(PodsV1alpha1, 4, PodsV1alpha1_WatchPodsRequestDesc,
             PodsV1alpha1_WatchPodsRequest)
      /\ Row(PodsV1alpha1, 5, PodsV1alpha1_ListPodsRequestDesc,
             PodsV1alpha1_ListPodsRequest)
      /\ Row(PodsV1alpha1, 6, PodsV1alpha1_GetPodRequestDesc,
             PodsV1alpha1_GetPodRequest)
  <2>1. /\ Messages(PodsV1alpha1)[1] = PodsV1alpha1_WatchPodsEventDesc
        /\ Messages(PodsV1alpha1)[2] = PodsV1alpha1_ListPodsResponseDesc
        /\ Messages(PodsV1alpha1)[3] = PodsV1alpha1_GetPodResponseDesc
        /\ Messages(PodsV1alpha1)[4] = PodsV1alpha1_WatchPodsRequestDesc
        /\ Messages(PodsV1alpha1)[5] = PodsV1alpha1_ListPodsRequestDesc
        /\ Messages(PodsV1alpha1)[6] = PodsV1alpha1_GetPodRequestDesc
    BY DEF Messages, PodsV1alpha1, PodsV1alpha1Desc,
           TypeBuilder, File
  <2>2. /\ PodsV1alpha1.goTypes[2] = PodsV1alpha1_WatchPodsEvent
        /\ PodsV1alpha1.goTypes[3] = PodsV1alpha1_ListPodsResponse
        /\ PodsV1alpha1.goTypes[4] = PodsV1alpha1_GetPodResponse
        /\ PodsV1alpha1.goTypes[5] = PodsV1alpha1_WatchPodsRequest
        /\ PodsV1alpha1.goTypes[6] = PodsV1alpha1_ListPodsRequest
        /\ PodsV1alpha1.goTypes[7] = PodsV1alpha1_GetPodRequest
    BY DEF PodsV1alpha1, PodsV1alpha1GoTypes, TypeBuilder
  <2> QED BY <1>1, <2>1, <2>2 DEF Row, GoType
<1>3. /\ Len(idxs) = 12 /\ idxs[1] = 0 /\ idxs[2] = 4 /\ idxs[3] = 5
      /\ idxs[4] = 6 /\ idxs[5] = 1 /\ idxs[6] = 2 /\ idxs[7] = 3
      /\ idxs[8] = 4 /\ idxs[9] = 1 /\ idxs[10] = 1 /\ idxs[11] = 1
      /\ idxs[12] = 0
  BY DEF PodsV1alpha1, PodsV1alpha1DepIdxs, TypeBuilder
<1>3a. /\ Type(0) = 0 /\ Input(0) = 4 /\ Input(1) = 5 /\ Input(2) = 6
       /\ Output(0) = 1 /\ Output(1) = 2 /\ Output(2) = 3
  BY <1>3 DEF DepIdx, FieldTypes, MethodInputs, MethodOutputs
<1>4. /\ DOMAIN services = 1..1
      /\ services[1].name = "Pods"
      /\ DOMAIN services[1].methods = 1..3
      /\ services[1].methods[1] =
             Method("WatchPods", "WatchPodsRequest", "WatchPodsEvent")
      /\ services[1].methods[2] =
             Method("ListPods", "ListPodsRequest", "ListPodsResponse")
      /\ services[1].methods[3] =
             Method("GetPod", "GetPodRequest", "GetPodResponse")
  BY DEF PodsV1alpha1, PodsV1alpha1Desc, TypeBuilder, File, Service
<1>5. /\ DOMAIN maps = {}
  BY DEF PodsV1alpha1Maps
<1> HIDE DEF deps, methods, maps, idxs, services, Type, Input, Output
<1>m1. MessageAt(PodsV1alpha1, maps, 1, "WatchPodsEvent", {1},
                <<"Type", "Pod">>)
  BY <1>2, <1>5, Fit2, FieldIs, DepIs, NumberIs, AreScalars, SMTT(60)
     DEF PodsV1alpha1_WatchPodsEventDesc, PodsV1alpha1_WatchPodsEvent
<1>m2. MessageAt(PodsV1alpha1, maps, 2, "ListPodsResponse", {}, <<"Pods">>)
  BY <1>2, <1>5, Fit1, FieldIs, DepIs, NumberIs, AreScalars, SMTT(60)
     DEF PodsV1alpha1_ListPodsResponseDesc, PodsV1alpha1_ListPodsResponse
<1>m3. MessageAt(PodsV1alpha1, maps, 3, "GetPodResponse", {}, <<"Pod">>)
  BY <1>2, <1>5, Fit1, FieldIs, DepIs, NumberIs, AreScalars, SMTT(60)
     DEF PodsV1alpha1_GetPodResponseDesc, PodsV1alpha1_GetPodResponse
<1>m4. MessageAt(PodsV1alpha1, maps, 4, "WatchPodsRequest", {}, <<>>)
  BY <1>2, Fit0 DEF PodsV1alpha1_WatchPodsRequestDesc,
         PodsV1alpha1_WatchPodsRequest
<1>m5. MessageAt(PodsV1alpha1, maps, 5, "ListPodsRequest", {}, <<>>)
  BY <1>2, Fit0 DEF PodsV1alpha1_ListPodsRequestDesc,
         PodsV1alpha1_ListPodsRequest
<1>m6. MessageAt(PodsV1alpha1, maps, 6, "GetPodRequest", {}, <<"PodUID">>)
  BY <1>2, <1>5, Fit1, FieldIs, DepIs, NumberIs, AreScalars, SMTT(60)
     DEF PodsV1alpha1_GetPodRequestDesc, PodsV1alpha1_GetPodRequest
<1>6. \A i \in DOMAIN Messages(PodsV1alpha1) :
        /\ MessageFits(PodsV1alpha1, maps, i)
        /\ Messages(PodsV1alpha1)[i].name # "nil"
        /\ \A e \in DOMAIN Enums(PodsV1alpha1) :
             Messages(PodsV1alpha1)[i].name # Enums(PodsV1alpha1)[e]
  BY <1>1, <1>2, <1>m1, <1>m2, <1>m3, <1>m4, <1>m5, <1>m6, SMTT(60)
     DEF MessageAt, EntryAt, Row, MessageFits
<1>7. InOrder(deps, DepFields(PodsV1alpha1))
  <2>1. {deps[x] : x \in 1..Len(deps)} =
          {<<1, 1>>}
    BY DEF deps, PodsV1alpha1Deps
  <2>2. \A i \in DOMAIN Messages(PodsV1alpha1) :
          DepsListed(deps, Messages(PodsV1alpha1)[i], i)
    <3>1. /\ DepsAre({1}, Messages(PodsV1alpha1)[1])
          /\ DepsAre({}, Messages(PodsV1alpha1)[2])
          /\ DepsAre({}, Messages(PodsV1alpha1)[3])
          /\ DepsAre({}, Messages(PodsV1alpha1)[4])
          /\ DepsAre({}, Messages(PodsV1alpha1)[5])
          /\ DepsAre({}, Messages(PodsV1alpha1)[6])
      BY <1>m1, <1>m2, <1>m3, <1>m4, <1>m5, <1>m6 DEF MessageAt, EntryAt
    <3>2. \A i \in DOMAIN Messages(PodsV1alpha1) : \A f \in Nat :
            (f \in DOMAIN Messages(PodsV1alpha1)[i].fields
               /\ IsDep(Messages(PodsV1alpha1)[i].fields[f].type))
            <=> <<i, f>> \in {<<1, 1>>}
      BY <1>1, <3>1, SMTT(60) DEF DepsAre
    <3> QED BY <2>1, <3>2 DEF DepsListed
  <2>3. \A x, y \in 1..Len(deps) : x < y => Before(deps[x], deps[y])
    BY DEF deps, PodsV1alpha1Deps, Before
  <2>4. /\ deps \in Seq(Nat \X Nat)
        /\ \A x \in 1..Len(deps) :
             deps[x][1] \in DOMAIN Messages(PodsV1alpha1)
    BY <1>1, SMTT(30) DEF deps, PodsV1alpha1Deps
  <2> QED BY <1>6, <2>2, <2>3, <2>4, DepFieldsInOrder
<1>d1. Resolves(PodsV1alpha1, deps, 1)
  BY <1>1, <1>2, <1>3a, SMTT(30)
     DEF Resolves, TypeAt, Type, deps, PodsV1alpha1Deps, MessageAt, EntryAt,
         Row, Message, One, PodsV1alpha1_WatchPodsEventDesc
<1>s1. MethodResolves(PodsV1alpha1, methods, 1)
  <2>1. /\ IsIndexOf(PodsV1alpha1, 4, "WatchPodsRequest")
        /\ IsIndexOf(PodsV1alpha1, 1, "WatchPodsEvent")
    BY <1>1, <1>m4, <1>m1 DEF IsIndexOf, MessageAt
  <2> QED BY <1>3a, <1>4, <2>1
          DEF MethodResolves, Method, Input, Output, services, methods,
              PodsV1alpha1Methods
<1>s2. MethodResolves(PodsV1alpha1, methods, 2)
  <2>1. /\ IsIndexOf(PodsV1alpha1, 5, "ListPodsRequest")
        /\ IsIndexOf(PodsV1alpha1, 2, "ListPodsResponse")
    BY <1>1, <1>m5, <1>m2 DEF IsIndexOf, MessageAt
  <2> QED BY <1>3a, <1>4, <2>1
          DEF MethodResolves, Method, Input, Output, services, methods,
              PodsV1alpha1Methods
<1>s3. MethodResolves(PodsV1alpha1, methods, 3)
  <2>1. /\ IsIndexOf(PodsV1alpha1, 6, "GetPodRequest")
        /\ IsIndexOf(PodsV1alpha1, 3, "GetPodResponse")
    BY <1>1, <1>m6, <1>m3 DEF IsIndexOf, MessageAt
  <2> QED BY <1>3a, <1>4, <2>1
          DEF MethodResolves, Method, Input, Output, services, methods,
              PodsV1alpha1Methods
<1>8. InOrder(methods, Methods(PodsV1alpha1)) /\ MethodsOnce(services)
  <2>1. Methods(PodsV1alpha1) =
          UNION {{<<s, m>> : m \in DOMAIN services[s].methods} :
                   s \in DOMAIN services}
    BY DEF Methods, services
  <2>2. Methods(PodsV1alpha1) = {<<1, 1>>, <<1, 2>>, <<1, 3>>}
    BY <1>4, <2>1
  <2>3. MethodsOnce(services)
    BY <1>4 DEF MethodsOnce, Method
  <2> QED BY <2>2, <2>3 DEF InOrder, Before, methods, PodsV1alpha1Methods
<1>9. \A n \in DOMAIN maps : \E i \in DOMAIN Messages(PodsV1alpha1) :
        /\ Messages(PodsV1alpha1)[i].entry
        /\ Messages(PodsV1alpha1)[i].name = n
  BY <1>1, <1>5
<1>10. /\ \A x \in 1..Len(deps) : Resolves(PodsV1alpha1, deps, x)
       /\ \A x \in 1..Len(methods) : MethodResolves(PodsV1alpha1, methods, x)
  BY <1>d1, <1>s1, <1>s2, <1>s3
     DEF deps, PodsV1alpha1Deps, methods, PodsV1alpha1Methods
<1>11. \A e \in 1..Len(Enums(PodsV1alpha1)) :
         PodsV1alpha1.goTypes[e].name = Enums(PodsV1alpha1)[e]
  BY <1>1
     DEF PodsV1alpha1, PodsV1alpha1GoTypes, TypeBuilder, EnumType, Struct,
         PodsV1alpha1_EventType
<1>12. Fits(PodsV1alpha1, deps, methods, maps)
  BY <1>1, <1>6, <1>7, <1>8, <1>9, <1>10, <1>11 DEF Fits, services
<1> QED BY <1>12 DEF FitsTogether

-----------------------------------------------------------------------------
(* All files.                                                              *)

LEMMA AllFit == \A k \in Packages : FitsTogether(GoFile[k])
<1>1. /\ FitsTogether(DevicePluginV1alpha)
      /\ FitsTogether(DevicePluginV1beta1)
      /\ FitsTogether(DRAV1beta1)
      /\ FitsTogether(DRAV1)
      /\ FitsTogether(DRAHealthV1alpha1)
      /\ FitsTogether(PluginRegistrationV1)
      /\ FitsTogether(PodResourcesV1alpha1)
      /\ FitsTogether(PodResourcesV1)
      /\ FitsTogether(PodsV1alpha1)
  BY DevicePluginV1alphaFits, DevicePluginV1beta1Fits, DRAV1beta1Fits,
     DRAV1Fits, DRAHealthV1alpha1Fits, PluginRegistrationV1Fits,
     PodResourcesV1alpha1Fits, PodResourcesV1Fits, PodsV1alpha1Fits
     DEF FitsTogether
<1>2. \A v \in RegistrationPackages : GoFile[v] = PluginRegistrationV1
  BY RegistrationVersionsAgree, GoFileIs DEF RegistrationPackages
<1> QED BY <1>1, <1>2, PackagesAre, GoFileIs DEF RegistrationPackages

\* In a running program the info of every generated message is the one of its
\* own Go type, and every field of the descriptor has the one struct field of
\* the type that depIdxs leads to.
THEOREM TypesAlwaysFit == Spec => []TypesFitTogether
<1>1. ASSUME NEW k \in Packages
      PROVE  FileFitsTogether(GoFile[k], Built[k])
  <2>1. PICK deps, methods, maps : Fits(GoFile[k], deps, methods, maps)
    BY AllFit DEF FitsTogether
  <2>2. Built[k] = BuiltFrom(GoFile[k])
    BY DEF Built
  <2> QED BY <2>1, <2>2, FileFits
<1>2. TypeOK => TypesFitTogether
  BY <1>1 DEF TypeOK, TypesFitTogether
<1> QED BY <1>2, Types, PTL

-----------------------------------------------------------------------------
(* Messages arrive whole.                                                  *)

\* The message type of a method's end is a type of the file ...
LEMMA EndTypes ==
  ASSUME NEW g, NEW deps, NEW methods, NEW maps, Fits(g, deps, methods, maps),
         NEW e \in EndsOf(g.desc)
  PROVE  /\ TypeNamed(g, e.type) \in GoTypesOf(g)
         /\ TypeNamed(g, e.type).name = e.type
<1>1. PICK s \in DOMAIN g.desc.services :
        \E m \in ToSet(g.desc.services[s].methods) :
          e.type \in {m.input, m.output}
  BY DEF EndsOf
<1>2. PICK n \in DOMAIN g.desc.services[s].methods :
        LET m == g.desc.services[s].methods[n]
        IN  e.type \in {m.input, m.output}
  BY <1>1 DEF ToSet
<1>3. <<s, n>> \in Methods(g)
  BY DEF Methods
<1>4. InOrder(methods, Methods(g))
  BY DEF Fits
<1>5. PICK x \in 1..Len(methods) : methods[x] = <<s, n>>
  BY <1>3, <1>4 DEF InOrder
<1> DEFINE m == g.desc.services[s].methods[n]
<1>6. /\ IsIndexOf(g, DepIdx(g, MethodInputs, x - 1), m.input)
      /\ IsIndexOf(g, DepIdx(g, MethodOutputs, x - 1), m.output)
  <2>1. MethodResolves(g, methods, x)
    BY DEF Fits
  <2>2. methods[x][1] = s /\ methods[x][2] = n
    BY <1>5
  <2> QED BY <2>1, <2>2, Zenon DEF MethodResolves
<1>6a. e.type \in {m.input, m.output}
  BY <1>2
<1> HIDE DEF m
<1>7. \E idx : IsIndexOf(g, idx, e.type)
  BY <1>6, <1>6a, Zenon
<1>8. PICK i \in DOMAIN Messages(g) :
        ~Messages(g)[i].entry /\ Messages(g)[i].name = e.type
  BY <1>7 DEF IsIndexOf
<1> DEFINE T == GoType(g, i)
<1>9. T.name = e.type
  BY <1>8 DEF Fits, MessageFits, EntryFits, FieldsFit
<1>10. /\ T.name # "nil"
       /\ \A e1 \in DOMAIN Enums(g) : T.name # Enums(g)[e1]
  BY <1>8, <1>9 DEF Fits
<1>11. T # NilType
  BY <1>10 DEF NilType, Struct
<1>12. T \in ToSet(g.goTypes)
  <2>1. /\ DOMAIN g.goTypes = 1..(Len(Enums(g)) + Len(Messages(g)))
        /\ Len(Enums(g)) \in Nat /\ Len(Messages(g)) \in Nat
        /\ i \in 1..Len(Messages(g))
    BY DEF Fits
  <2>2. Len(Enums(g)) + i \in DOMAIN g.goTypes
    BY <2>1
  <2> QED BY <2>2 DEF ToSet, GoType
<1>13. T \in GoTypesOf(g)
  BY <1>10, <1>11, <1>12 DEF GoTypesOf
<1> QED BY <1>9, <1>13 DEF TypeNamed

\* ... so what is sent by it comes back when it is taken by it ...
LEMMA WholeAtEnd ==
  ASSUME NEW k \in Packages, NEW e \in Ends[k],
         NEW set \in SUBSET DOMAIN TypeNamed(GoFile[k], e.type).fields
  PROVE  LET T == TypeNamed(GoFile[k], e.type)
             info == InfoOf(Built[k], T)
         IN  Unmarshalled(info, T, Marshalled(info, T, set)) =
               {<<f, f>> : f \in set}
<1> DEFINE g == GoFile[k]
           T == TypeNamed(g, e.type)
           info == InfoOf(Built[k], T)
<1>1. PICK deps, methods, maps : Fits(g, deps, methods, maps)
  BY AllFit DEF FitsTogether
<1>2. e \in EndsOf(g.desc)
  BY DEF Ends
<1>3. T \in GoTypesOf(g)
  BY <1>1, <1>2, EndTypes
<1>4. Built[k] = BuiltFrom(g)
  BY DEF Built
<1>5. InfoFits(g, info, T)
  BY <1>1, <1>3, <1>4, InfosFit
<1> SUFFICES Unmarshalled(info, T, Marshalled(info, T, set)) =
               {<<f, f>> : f \in set}
  OBVIOUS
<1>6. set \in SUBSET DOMAIN T.fields
  OBVIOUS
<1> HIDE DEF T, info, g
<1>7. NumbersFit(info, T)
  <2>1. \A h \in DOMAIN T.fields : \E n \in DOMAIN info.desc.fields :
          info.desc.fields[n].number = T.fields[h].number
    BY <1>5 DEF InfoFits
  <2>2. ASSUME NEW f \in DOMAIN T.fields, NEW h \in DOMAIN T.fields,
               T.fields[f].number = T.fields[h].number
        PROVE  f = h
    <3>1. PICK n \in DOMAIN info.desc.fields :
            info.desc.fields[n].number = T.fields[f].number
      BY <2>1
    <3>2. \E j : FieldsWith(T, info.desc.fields[n].number) = {j}
      BY <1>5 DEF InfoFits
    <3> QED BY <2>2, <3>1, <3>2 DEF FieldsWith
  <2> QED BY <2>1, <2>2 DEF NumbersFit
<1> QED BY <1>6, <1>7, ThereAndBack

\* ... and the two ends of a method are built from the same declarations.
EndOf(d, path, m) ==
  /\ d.path = path
  /\ \/ d.part = "input" /\ d.type = m.input
     \/ d.part = "output" /\ d.type = m.output

LEMMA EndIs ==
  ASSUME NEW desc, NEW d \in EndsOf(desc)
  PROVE  \E s \in DOMAIN desc.services :
           \E n \in DOMAIN desc.services[s].methods :
             EndOf(d, <<desc.package, desc.services[s].name,
                        desc.services[s].methods[n].name>>,
                   desc.services[s].methods[n])
<1>1. PICK s \in DOMAIN desc.services :
        \E m \in ToSet(desc.services[s].methods) :
          EndOf(d, <<desc.package, desc.services[s].name, m.name>>, m)
  BY DEF EndsOf, EndOf
<1>2. PICK n \in DOMAIN desc.services[s].methods :
        EndOf(d, <<desc.package, desc.services[s].name,
                   desc.services[s].methods[n].name>>,
              desc.services[s].methods[n])
  BY <1>1 DEF ToSet
<1> QED BY <1>2

LEMMA EndIsNamed ==
  ASSUME NEW g, NEW d \in EndsOf(g.desc)
  PROVE  <<d.path[1], d.path[2]>> \in Names(g)
<1>1. PICK s \in DOMAIN g.desc.services : \E name :
        d.path = <<g.desc.package, g.desc.services[s].name, name>>
  BY EndIs DEF EndOf
<1>2. <<g.desc.package, g.desc.services[s].name>> \in Names(g)
  BY DEF Names
<1> QED BY <1>1, <1>2

LEMMA SameTypeAtEnd ==
  ASSUME NEW desc, MethodsOnce(desc.services),
         NEW e \in EndsOf(desc), NEW r \in EndsOf(desc),
         e.path = r.path, e.part = r.part
  PROVE  e.type = r.type
<1> DEFINE services == desc.services
           Path(s, n) == <<desc.package, services[s].name,
                           services[s].methods[n].name>>
<1>1. PICK s \in DOMAIN services : \E n \in DOMAIN services[s].methods :
        EndOf(e, Path(s, n), services[s].methods[n])
  BY EndIs
<1>2. PICK n \in DOMAIN services[s].methods :
        EndOf(e, Path(s, n), services[s].methods[n])
  BY <1>1
<1>3. PICK t \in DOMAIN services : \E j \in DOMAIN services[t].methods :
        EndOf(r, Path(t, j), services[t].methods[j])
  BY EndIs
<1>4. PICK j \in DOMAIN services[t].methods :
        EndOf(r, Path(t, j), services[t].methods[j])
  BY <1>3
<1>5. Path(s, n) = Path(t, j)
  BY <1>2, <1>4 DEF EndOf
<1>6. s = t /\ n = j
  <2>1. s = t
    BY <1>5 DEF MethodsOnce
  <2>2. services[s].methods[n].name = services[s].methods[j].name
    BY <1>5, <2>1
  <2> QED BY <2>1, <2>2 DEF MethodsOnce
<1> QED BY <1>2, <1>4, <1>6 DEF EndOf

LEMMA SameEnd ==
  ASSUME NEW k \in Packages, NEW h \in Packages,
         NEW e \in Ends[k], NEW r \in Ends[h],
         e.path = r.path, e.part = r.part
  PROVE  GoFile[k] = GoFile[h] /\ e.type = r.type
<1>1. e \in EndsOf(GoFile[k].desc) /\ r \in EndsOf(GoFile[h].desc)
  BY DEF Ends
<1>2. Names(GoFile[k]) \cap Names(GoFile[h]) # {}
  BY <1>1, EndIsNamed
<1>3. GoFile[k] = GoFile[h]
  BY <1>2, NamesApart, RegistrationVersionsAgree
<1>4. MethodsOnce(GoFile[k].desc.services)
  BY AllFit DEF FitsTogether, Fits
<1> QED BY <1>1, <1>3, <1>4, SameTypeAtEnd

\* The message on its way was sent at an end of a method of one of the
\* packages, and it was taken at the same end.
SentFrom(m, k, e) ==
  LET T == TypeNamed(GoFile[k], e.type)
  IN  /\ m.set \in SUBSET DOMAIN T.fields
      /\ m.end = <<e.path, e.part>>
      /\ m.bytes = Marshalled(InfoOf(Built[k], T), T, m.set)

WireInv ==
  /\ TypeOK
  /\ got # Nil => sent # Nil
  /\ sent # Nil => \E k \in Packages : \E e \in Ends[k] : SentFrom(sent, k, e)
  /\ ArrivesWhole

LEMMA InitWire == Init => WireInv
  BY InitTypes DEF Init, WireInv, ArrivesWhole

LEMMA NextWire == WireInv /\ [Next]_vars => WireInv'
<1> SUFFICES ASSUME WireInv, [Next]_vars PROVE WireInv'
  OBVIOUS
<1>1. TypeOK /\ TypeOK'
  BY NextTypes DEF WireInv
<1>2. CASE UNCHANGED <<sent, got>>
  BY <1>1, <1>2 DEF WireInv, ArrivesWhole
<1>3. ASSUME NEW p \in Processes, NEW k \in files[p], NEW e \in Ends[k],
             Send(p, k, e)
      PROVE  WireInv'
  <2> DEFINE T == TypeNamed(GoFile[k], e.type)
  <2>1. k \in Packages
    BY <1>1 DEF TypeOK
  <2>2. PICK set \in SUBSET DOMAIN T.fields :
          sent' = [from |-> p, end |-> <<e.path, e.part>>, set |-> set,
                   bytes |-> Marshalled(InfoOf(Built[k], T), T, set)]
    BY <1>3 DEF Send
  <2>3. SentFrom(sent', k, e)
    BY <2>2 DEF SentFrom
  <2>4. got' = Nil
    BY <1>3 DEF Send, WireInv
  <2> QED BY <1>1, <2>1, <2>3, <2>4 DEF WireInv, ArrivesWhole
<1>4. ASSUME NEW p \in Processes, NEW k \in files[p], NEW e \in Ends[k],
             Receive(p, k, e)
      PROVE  WireInv'
  <2>1. k \in Packages
    BY <1>1 DEF TypeOK
  <2>2. sent # Nil /\ sent' = sent /\ sent.end = <<e.path, e.part>>
    BY <1>4 DEF Receive
  <2>3. PICK h \in Packages : \E r \in Ends[h] : SentFrom(sent, h, r)
    BY <2>2 DEF WireInv
  <2>4. PICK r \in Ends[h] : SentFrom(sent, h, r)
    BY <2>3
  <2>5. e.path = r.path /\ e.part = r.part
    BY <2>2, <2>4 DEF SentFrom
  <2>6. GoFile[k] = GoFile[h] /\ e.type = r.type
    BY <2>1, <2>5, SameEnd
  <2>7. Built[k] = Built[h]
    BY <2>1, <2>6 DEF Built
  <2> DEFINE T == TypeNamed(GoFile[k], e.type)
             info == InfoOf(Built[k], T)
  <2>8. /\ sent.set \in SUBSET DOMAIN T.fields
        /\ sent.bytes = Marshalled(info, T, sent.set)
    BY <2>4, <2>6, <2>7 DEF SentFrom
  <2>9. got' = Unmarshalled(info, T, sent.bytes)
    BY <1>4 DEF Receive
  <2>10. got' = {<<f, f>> : f \in sent.set}
    BY <2>1, <2>8, <2>9, WholeAtEnd
  <2> QED BY <1>1, <2>2, <2>3, <2>10 DEF WireInv, ArrivesWhole
<1>5. CASE Forget
  BY <1>1, <1>5 DEF Forget, WireInv, ArrivesWhole
<1>6. ASSUME NEW p \in Processes, NEW k \in links[p], InitFile(p, k)
      PROVE  UNCHANGED <<sent, got>>
  BY <1>6 DEF InitFile
<1>7. ASSUME NEW p \in Processes, Main(p) PROVE UNCHANGED <<sent, got>>
  BY <1>7 DEF Main
<1>8. CASE UNCHANGED vars
  BY <1>2, <1>8 DEF vars
<1> QED BY <1>2, <1>3, <1>4, <1>5, <1>6, <1>7, <1>8 DEF Next

\* Whoever takes a message reads the fields that its sender set, whichever
\* versions of the files the two programs are linked from.
THEOREM MessagesArriveWhole == Spec => []ArrivesWhole
<1>1. WireInv => ArrivesWhole
  BY DEF WireInv
<1> QED BY <1>1, InitWire, NextWire, PTL DEF Spec
=============================================================================
