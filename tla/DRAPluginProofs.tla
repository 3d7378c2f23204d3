--------------------------- MODULE DRAPluginProofs ---------------------------
(***************************************************************************)
(* Proofs about the DRA API, for any number of calls and any messages,     *)
(* paths and plugins: what the conversions between its versions and the    *)
(* wire do to a message, that DRAPlugin has its safety properties, and     *)
(* that its calls implement RemoteCall.                                    *)
(***************************************************************************)
EXTENDS DRAPluginRefinement, TLAPS

\* A sequence is a function on 1..n, and every such function is a sequence.
LEMMA MapSeq ==
  ASSUME NEW S, NEW T, NEW s \in Seq(S), NEW f, f \in [DOMAIN s -> T]
  PROVE  f \in Seq(T) /\ DOMAIN f = DOMAIN s
  OBVIOUS

-----------------------------------------------------------------------------
(* Types.                                                                  *)

\* A converted device is a device of the other version.
LEMMA ConvertDeviceType ==
  ASSUME NEW v \in Versions, NEW to \in Versions, NEW d \in Device(v)
  PROVE  ConvertDevice(d, to) \in Device(to)
  <1> DEFINE B == [requestNames : StrSlice, poolName : Str, deviceName : Str,
                   cdiDeviceIds : StrSlice]
             V == [requestNames : StrSlice, poolName : Str, deviceName : Str,
                   cdiDeviceIds : StrSlice, shareId : {Nil} \cup Str]
  <1>1. Device("v1") = V /\ Device("v1beta1") = B
    BY DEF Device
  <1>2. /\ d.requestNames \in StrSlice /\ d.cdiDeviceIds \in StrSlice
        /\ d.poolName \in Str /\ d.deviceName \in Str
    <2>1. d \in V \/ d \in B
      BY <1>1 DEF Versions
    <2>2. QED
      BY <2>1
  <1>3. CASE to = "v1"
    <2>1. ConvertDevice(d, to) \in V
      BY <1>2, <1>3 DEF ConvertDevice
    <2>2. QED
      BY <1>1, <1>3, <2>1
  <1>4. CASE to = "v1beta1"
    <2>1. ConvertDevice(d, to) \in B
      BY <1>2, <1>4 DEF ConvertDevice
    <2>2. QED
      BY <1>1, <1>4, <2>1
  <1>5. QED
    BY <1>3, <1>4 DEF Versions

LEMMA ConvertPrepareEntryType ==
  ASSUME NEW v \in Versions, NEW to \in Versions, NEW e \in PrepareEntry(v)
  PROVE  ConvertPrepareEntry(e, to) \in PrepareEntry(to)
  <1>1. ASSUME e.devices # Nil
        PROVE  [i \in DOMAIN e.devices |->
                  IF e.devices[i] = Nil THEN Nil
                                        ELSE ConvertDevice(e.devices[i], to)]
               \in Seq({Nil} \cup Device(to))
    <2>1. e.devices \in Seq({Nil} \cup Device(v))
      BY <1>1 DEF PrepareEntry
    <2>2. \A i \in DOMAIN e.devices :
            e.devices[i] # Nil => ConvertDevice(e.devices[i], to) \in Device(to)
      BY <2>1, ConvertDeviceType
    <2>3. QED
      BY <2>1, <2>2, MapSeq
  <1>2. QED
    BY <1>1 DEF PrepareEntry, ConvertPrepareEntry

\* By value, converting a request changes nothing.
LEMMA ConvertRequestKept ==
  ASSUME NEW m \in Methods, NEW r \in Request
  PROVE  ConvertRequest(m, r) = r
  <1>1. \A x \in Claim : ConvertClaim(x) = x
    BY DEF ConvertClaim, Claim
  <1>2. r.claims # Nil => r.claims \in Seq({Nil} \cup Claim)
    BY DEF Request
  <1>3. ConvertClaims(r.claims) = r.claims
    BY <1>1, <1>2 DEF ConvertClaims
  <1>4. [claims |-> r.claims] = r
    BY DEF Request
  <1>5. QED
    BY <1>3, <1>4 DEF ConvertRequest, ConvertPrepareRequest, ConvertUnprepareRequest

LEMMA ConvertResponseType ==
  ASSUME NEW m \in Methods, NEW v \in Versions, NEW to \in Versions,
         NEW r, IsResponse(m, v, r)
  PROVE  IsResponse(m, to, ConvertResponse(m, r, to))
  <1>1. CASE r.claims = Nil
    BY <1>1 DEF IsResponse, ClaimMap, ConvertResponse, ConvertPrepareResponse,
                ConvertUnprepareResponse
  <1>2. CASE r.claims # Nil
    <2>1. PICK U \in SUBSET Str : r.claims \in [U -> {Nil} \cup Entry(m, v)]
      BY <1>2 DEF IsResponse, ClaimMap
    <2>2. CASE m = "NodePrepareResources"
      <3>1. \A k \in U : r.claims[k] # Nil =>
              ConvertPrepareEntry(r.claims[k], to) \in PrepareEntry(to)
        BY <2>1, <2>2, ConvertPrepareEntryType DEF Entry
      <3>2. ConvertResponse(m, r, to).claims \in [U -> {Nil} \cup PrepareEntry(to)]
        BY <1>2, <2>1, <2>2, <3>1 DEF ConvertResponse, ConvertPrepareResponse
      <3>3. QED
        BY <2>2, <3>2 DEF IsResponse, ClaimMap, Entry, ConvertResponse,
                          ConvertPrepareResponse
    <2>3. CASE m = "NodeUnprepareResources"
      <3>1. \A k \in U : r.claims[k] # Nil =>
              ConvertUnprepareEntry(r.claims[k]) \in UnprepareEntry
        BY <2>1, <2>3 DEF Entry, ConvertUnprepareEntry, UnprepareEntry
      <3>2. ConvertResponse(m, r, to).claims \in [U -> {Nil} \cup UnprepareEntry]
        BY <1>2, <2>1, <2>3, <3>1 DEF ConvertResponse, ConvertUnprepareResponse
      <3>3. QED
        BY <2>3, <3>2 DEF IsResponse, ClaimMap, Entry, ConvertResponse,
                          ConvertUnprepareResponse
    <2>4. QED
      BY <2>2, <2>3 DEF Methods
  <1>3. QED
    BY <1>1, <1>2

\* The wire leaves the type of a message alone.
LEMMA WireRequestType ==
  ASSUME NEW r \in Request
  PROVE  WireRequest(r) \in Request
  <1>1. ZeroClaim \in Claim
    BY EmptyStrAssumption DEF ZeroClaim, Claim
  <1>2. ASSUME r.claims # Nil
        PROVE  [i \in DOMAIN r.claims |->
                  IF r.claims[i] = Nil THEN ZeroClaim ELSE r.claims[i]]
               \in Seq({Nil} \cup Claim)
    <2>1. r.claims \in Seq({Nil} \cup Claim)
      BY <1>2 DEF Request
    <2>2. QED
      BY <1>1, <2>1, MapSeq
  <1>3. QED
    BY <1>2 DEF Request, WireRequest, WireSlice

LEMMA WireDeviceType ==
  ASSUME NEW v \in Versions, NEW d \in {Nil} \cup Device(v)
  PROVE  WireDevice(d, v) \in Device(v)
  <1> DEFINE B == [requestNames : StrSlice, poolName : Str, deviceName : Str,
                   cdiDeviceIds : StrSlice]
             V == [requestNames : StrSlice, poolName : Str, deviceName : Str,
                   cdiDeviceIds : StrSlice, shareId : {Nil} \cup Str]
  <1>1. Device("v1") = V /\ Device("v1beta1") = B
    BY DEF Device
  <1>2. Nil \in StrSlice /\ \A s \in StrSlice : WireSlice(s) \in StrSlice
    BY DEF StrSlice, WireSlice
  <1>3. CASE v = "v1"
    <2>1. d # Nil => d \in V
      BY <1>1, <1>3
    <2>2. WireDevice(d, v) \in V
      BY <1>2, <1>3, <2>1, EmptyStrAssumption DEF WireDevice, ZeroDevice
    <2>3. QED
      BY <1>1, <1>3, <2>2
  <1>4. CASE v = "v1beta1"
    <2>1. d # Nil => d \in B
      BY <1>1, <1>4
    <2>2. WireDevice(d, v) \in B
      BY <1>2, <1>4, <2>1, EmptyStrAssumption DEF WireDevice, ZeroDevice
    <2>3. QED
      BY <1>1, <1>4, <2>2
  <1>5. QED
    BY <1>3, <1>4 DEF Versions

LEMMA WireEntryType ==
  ASSUME NEW m \in Methods, NEW v \in Versions, NEW e \in {Nil} \cup Entry(m, v)
  PROVE  WireEntry(m, e, v) \in Entry(m, v)
  <1>1. CASE e = Nil
    BY <1>1, EmptyStrAssumption
       DEF WireEntry, ZeroEntry, Entry, PrepareEntry, UnprepareEntry
  <1>2. CASE e # Nil /\ m = "NodePrepareResources" /\ e.devices # Nil
    <2> DEFINE ds == [i \in DOMAIN e.devices |-> WireDevice(e.devices[i], v)]
    <2>1. /\ e \in PrepareEntry(v)
          /\ e.devices \in Seq({Nil} \cup Device(v))
      BY <1>2 DEF Entry, PrepareEntry
    <2>2. \A i \in DOMAIN e.devices :
            WireDevice(e.devices[i], v) \in {Nil} \cup Device(v)
      BY <2>1, WireDeviceType
    <2>3. ds \in Seq({Nil} \cup Device(v))
      BY <2>1, <2>2, MapSeq
    <2>4. WireSlice(ds) \in {Nil} \cup Seq({Nil} \cup Device(v))
      BY <2>3 DEF WireSlice
    <2>5. WireEntry(m, e, v) = [e EXCEPT !.devices = WireSlice(ds)]
      BY <1>2 DEF WireEntry
    <2>6. QED
      BY <1>2, <2>1, <2>4, <2>5 DEF Entry, PrepareEntry
  <1>3. CASE e # Nil /\ ~(m = "NodePrepareResources" /\ e.devices # Nil)
    BY <1>3 DEF WireEntry
  <1>4. QED
    BY <1>1, <1>2, <1>3

LEMMA WireResponseType ==
  ASSUME NEW m \in Methods, NEW v \in Versions, NEW r, IsResponse(m, v, r)
  PROVE  IsResponse(m, v, WireResponse(m, r, v))
  <1>1. CASE r.claims = Nil \/ DOMAIN r.claims = {}
    BY <1>1 DEF WireResponse, ZeroResponse, IsResponse, ClaimMap
  <1>2. CASE ~(r.claims = Nil \/ DOMAIN r.claims = {})
    <2>1. PICK U \in SUBSET Str : r.claims \in [U -> {Nil} \cup Entry(m, v)]
      BY <1>2 DEF IsResponse, ClaimMap
    <2>2. \A k \in U : WireEntry(m, r.claims[k], v) \in Entry(m, v)
      BY <2>1, WireEntryType
    <2>3. WireResponse(m, r, v).claims \in [U -> {Nil} \cup Entry(m, v)]
      BY <1>2, <2>1, <2>2 DEF WireResponse
    <2>4. QED
      BY <1>2, <2>3 DEF IsResponse, ClaimMap, WireResponse
  <1>3. QED
    BY <1>1, <1>2

-----------------------------------------------------------------------------
(* Nil is no message: NilAssumption, one message at a time.                *)

LEMMA EntryNotNil ==
  ASSUME NEW m \in Methods, NEW v \in Versions
  PROVE  Nil \notin Entry(m, v)
  BY NilAssumption

LEMMA ClaimMapNotNil ==
  ASSUME NEW m \in Methods, NEW v \in Versions, NEW U \in SUBSET Str,
         NEW f \in [U -> {Nil} \cup Entry(m, v)]
  PROVE  f # Nil
  <1> DEFINE F == [U -> {Nil} \cup Entry(m, v)]
  <1>1. Nil \notin F
    BY NilAssumption
  <1>2. QED
    BY <1>1

LEMMA ResponseNotNil ==
  ASSUME NEW m \in Methods, NEW v \in Versions, NEW r, IsResponse(m, v, r)
  PROVE  r # Nil
  <1>1. PICK U \in SUBSET Str : r.claims \in {Nil} \cup [U -> {Nil} \cup Entry(m, v)]
    BY DEF IsResponse, ClaimMap
  <1>2. r \in [claims : {Nil} \cup [U -> {Nil} \cup Entry(m, v)]]
    BY <1>1 DEF IsResponse
  <1>3. QED
    BY <1>2, NilAssumption

-----------------------------------------------------------------------------
(* Contents.                                                               *)

\* Neither a conversion nor the wire changes a device but for its share ID,
\* which a conversion drops and the wire keeps.
LEMMA DeviceKept ==
  ASSUME NEW v \in Versions, NEW to \in Versions, NEW d \in {Nil} \cup Device(v)
  PROVE  /\ d # Nil => /\ DeviceOf(ConvertDevice(d, to)) = DeviceOf(d)
                       /\ ShareOf(ConvertDevice(d, to)) = Nil
         /\ DeviceOf(WireDevice(d, v)) = DeviceOf(d)
         /\ ShareOf(WireDevice(d, v)) = ShareOf(d)
         /\ v = "v1beta1" => ShareOf(d) = Nil
  <1> DEFINE B == [requestNames : StrSlice, poolName : Str, deviceName : Str,
                   cdiDeviceIds : StrSlice]
             V == [requestNames : StrSlice, poolName : Str, deviceName : Str,
                   cdiDeviceIds : StrSlice, shareId : {Nil} \cup Str]
  <1>1. Device("v1") = V /\ Device("v1beta1") = B
    BY DEF Device
  <1>2. \A s : Elements(WireSlice(s)) = Elements(s)
    BY DEF Elements, WireSlice
  <1>3. ASSUME d # Nil
        PROVE  /\ DeviceOf(ConvertDevice(d, to)) = DeviceOf(d)
               /\ ShareOf(ConvertDevice(d, to)) = Nil
    <2>1. ConvertDevice(d, to) # Nil
      BY <1>3, ConvertDeviceType, NilAssumption, ZenonT(60)
    <2>2. CASE to = "v1"
      BY <1>3, <2>1, <2>2 DEF DeviceOf, ShareOf, ConvertDevice
    <2>3. CASE to = "v1beta1"
      BY <1>3, <2>1, <2>3 DEF DeviceOf, ShareOf, ConvertDevice
    <2>4. QED
      BY <2>2, <2>3 DEF Versions
  <1>4. v = "v1beta1" => ShareOf(d) = Nil
    <2>1. v = "v1beta1" /\ d # Nil => d \in B
      BY <1>1
    <2>2. d \in B => "shareId" \notin DOMAIN d
      OBVIOUS
    <2>3. QED
      BY <2>1, <2>2 DEF ShareOf
  <1>5. WireDevice(d, v) # Nil
    BY WireDeviceType, NilAssumption
  <1>6. CASE d = Nil
    <2> DEFINE w == WireDevice(d, v)
    <2>1. /\ w = ZeroDevice(v) /\ w # Nil
          /\ w.requestNames = Nil /\ w.cdiDeviceIds = Nil
          /\ w.poolName = EmptyStr /\ w.deviceName = EmptyStr
          /\ "shareId" \in DOMAIN w => w.shareId = Nil
      BY <1>5, <1>6 DEF WireDevice, ZeroDevice
    <2>2. ShareOf(w) = Nil
      BY <2>1 DEF ShareOf
    <2>3. DeviceOf(w) = DeviceOf(d)
      BY <1>6, <2>1 DEF DeviceOf, Elements
    <2>4. QED
      BY <1>4, <1>6, <2>2, <2>3 DEF ShareOf
  <1>7. CASE d # Nil
    <2> DEFINE w == WireDevice(d, v)
    <2>1. w = [d EXCEPT !.requestNames = WireSlice(@),
                        !.cdiDeviceIds = WireSlice(@)]
      BY <1>7 DEF WireDevice
    <2>2. /\ w.requestNames = WireSlice(d.requestNames)
          /\ w.cdiDeviceIds = WireSlice(d.cdiDeviceIds)
          /\ w.poolName = d.poolName
          /\ w.deviceName = d.deviceName
          /\ DOMAIN w = DOMAIN d
          /\ "shareId" \in DOMAIN d => w.shareId = d.shareId
      <3>1. d \in V \/ d \in B
        BY <1>1, <1>7 DEF Versions
      <3>2. QED
        BY <2>1, <3>1
    <2>3. DeviceOf(w) = DeviceOf(d) /\ ShareOf(w) = ShareOf(d)
      BY <1>2, <1>5, <1>7, <2>2 DEF DeviceOf, ShareOf
    <2>4. QED
      BY <1>3, <1>4, <2>3
  <1>8. QED
    BY <1>6, <1>7

\* The same for the list of devices in an entry, and for its error.
LEMMA ConvertEntryKept ==
  ASSUME NEW v \in Versions, NEW to \in Versions, NEW e \in PrepareEntry(v)
  PROVE  /\ ErrorOf(ConvertPrepareEntry(e, to)) = ErrorOf(e)
         /\ SameDevices(DevicesOf(e), DevicesOf(ConvertPrepareEntry(e, to)), FALSE)
  <1> DEFINE c == ConvertPrepareEntry(e, to)
  <1>1. e # Nil /\ c # Nil
    <2>1. /\ Entry("NodePrepareResources", v) = PrepareEntry(v)
          /\ Entry("NodePrepareResources", to) = PrepareEntry(to)
          /\ "NodePrepareResources" \in Methods
      BY DEF Entry, Methods
    <2>2. Nil \notin PrepareEntry(v) /\ Nil \notin PrepareEntry(to)
      BY <2>1, EntryNotNil
    <2>3. c \in PrepareEntry(to)
      BY ConvertPrepareEntryType
    <2>4. QED
      BY <2>2, <2>3
  <1>2. ErrorOf(c) = ErrorOf(e)
    BY <1>1 DEF ErrorOf, ConvertPrepareEntry
  <1>3. CASE e.devices = Nil
    BY <1>1, <1>2, <1>3
       DEF ConvertPrepareEntry, DevicesOf, Elements, SameDevices
  <1>4. CASE e.devices # Nil
    <2> DEFINE s == e.devices
               t == c.devices
    <2>1. s \in Seq({Nil} \cup Device(v)) /\ t \in {Nil} \cup Seq({Nil} \cup Device(to))
      BY <1>4, ConvertPrepareEntryType DEF PrepareEntry
    <2>2. t = [i \in DOMAIN s |-> IF s[i] = Nil THEN Nil
                                                ELSE ConvertDevice(s[i], to)]
      BY <1>4 DEF ConvertPrepareEntry
    <2>3. t \in Seq({Nil} \cup Device(to)) /\ t # Nil /\ DOMAIN t = DOMAIN s
      <3>1. \A i \in DOMAIN s : s[i] # Nil => ConvertDevice(s[i], to) \in Device(to)
        BY <2>1, ConvertDeviceType
      <3>2. t \in Seq({Nil} \cup Device(to)) /\ DOMAIN t = DOMAIN s
        BY <2>1, <2>2, <3>1, MapSeq
      <3>3. QED
        BY <3>2, NilAssumption
    <2>5. \A i \in DOMAIN s : /\ DeviceOf(s[i]) = DeviceOf(t[i])
                              /\ ShareOf(t[i]) = Nil
      <3> TAKE i \in DOMAIN s
      <3>1. s[i] \in {Nil} \cup Device(v)
        BY <2>1
      <3>2. CASE s[i] = Nil
        BY <2>2, <3>2 DEF ShareOf
      <3>3. CASE s[i] # Nil
        BY <2>2, <3>1, <3>3, DeviceKept
      <3>4. QED
        BY <3>2, <3>3
    <2>6. DevicesOf(e) = s /\ DevicesOf(c) = t
      BY <1>1, <1>4, <2>3 DEF DevicesOf, Elements
    <2>7. QED
      BY <1>2, <2>3, <2>5, <2>6 DEF SameDevices
  <1>5. QED
    BY <1>3, <1>4

LEMMA WireEntryKept ==
  ASSUME NEW m \in Methods, NEW v \in Versions, NEW e \in {Nil} \cup Entry(m, v)
  PROVE  /\ ErrorOf(WireEntry(m, e, v)) = ErrorOf(e)
         /\ m = "NodePrepareResources" =>
              SameDevices(DevicesOf(e), DevicesOf(WireEntry(m, e, v)), TRUE)
  <1> DEFINE w == WireEntry(m, e, v)
  <1>1. w # Nil
    BY WireEntryType, NilAssumption, ZenonT(60)
  <1>2. CASE e = Nil
    <2>1. w = ZeroEntry(m)
      BY <1>2 DEF WireEntry
    <2>2. ErrorOf(w) = EmptyStr
      BY <1>1, <2>1 DEF ErrorOf, ZeroEntry
    <2>3. m = "NodePrepareResources" => DevicesOf(w) = <<>>
      BY <1>1, <2>1 DEF DevicesOf, Elements, ZeroEntry
    <2>4. QED
      BY <1>2, <2>2, <2>3 DEF ErrorOf, DevicesOf, SameDevices
  <1>3. CASE e # Nil /\ ~(m = "NodePrepareResources" /\ e.devices # Nil)
    <2>1. w = e
      BY <1>3 DEF WireEntry
    <2>2. m = "NodePrepareResources" => DevicesOf(e) = <<>>
      BY <1>3 DEF DevicesOf, Elements
    <2>3. QED
      BY <2>1, <2>2 DEF SameDevices
  <1>4. CASE e # Nil /\ m = "NodePrepareResources" /\ e.devices # Nil
    <2> DEFINE s == e.devices
               ds == [i \in DOMAIN s |-> WireDevice(s[i], v)]
    <2>1. e \in PrepareEntry(v) /\ s \in Seq({Nil} \cup Device(v))
      BY <1>4 DEF Entry, PrepareEntry
    <2>2. \A i \in DOMAIN s : WireDevice(s[i], v) \in {Nil} \cup Device(v)
      BY <2>1, WireDeviceType
    <2>3. ds \in Seq({Nil} \cup Device(v)) /\ DOMAIN ds = DOMAIN s
      BY <2>1, <2>2, MapSeq
    <2>4. w.devices = WireSlice(ds) /\ w.error = e.error
      BY <1>4, <2>1 DEF WireEntry, PrepareEntry
    <2>5. DevicesOf(e) = s /\ DevicesOf(w) = ds
      <3>1. ds # Nil
        BY <2>3, NilAssumption
      <3>2. QED
        BY <1>1, <1>4, <2>4, <3>1 DEF DevicesOf, Elements, WireSlice
    <2>6. \A i \in DOMAIN s : /\ DeviceOf(s[i]) = DeviceOf(ds[i])
                              /\ ShareOf(ds[i]) = ShareOf(s[i])
      BY <2>1, DeviceKept
    <2> HIDE DEF ds
    <2>7. SameDevices(s, ds, TRUE)
      BY <2>3, <2>6 DEF SameDevices
    <2>8. ErrorOf(w) = ErrorOf(e)
      BY <1>1, <1>4, <2>4 DEF ErrorOf
    <2>9. SameDevices(DevicesOf(e), DevicesOf(w), TRUE)
      BY <2>5, <2>7
    <2>10. QED
      BY <2>8, <2>9
  <1>5. QED
    BY <1>2, <1>3, <1>4

\* A converted response has the entries of the original, without share IDs.
LEMMA ConvertResponseKept ==
  ASSUME NEW m \in Methods, NEW v \in Versions, NEW to \in Versions,
         NEW r, IsResponse(m, v, r), r # Nil
  PROVE  /\ ConvertResponse(m, r, to) # Nil
         /\ SameEntries(m, r, ConvertResponse(m, r, to), FALSE)
  <1> DEFINE s == ConvertResponse(m, r, to)
  <1>1. IsResponse(m, to, s)
    BY ConvertResponseType
  <1>2. s # Nil
    BY <1>1, ResponseNotNil
  <1>3. CASE r.claims = Nil
    <2>1. s.claims = Nil
      BY <1>3 DEF ConvertResponse, ConvertPrepareResponse, ConvertUnprepareResponse
    <2>2. QED
      BY <1>2, <1>3, <2>1 DEF SameEntries, Keys
  <1>4. CASE r.claims # Nil
    <2>1. PICK U \in SUBSET Str : r.claims \in [U -> {Nil} \cup Entry(m, v)]
      BY <1>4 DEF IsResponse, ClaimMap
    <2>2. CASE m = "NodePrepareResources"
      <3>1. s.claims = [k \in U |-> IF r.claims[k] = Nil THEN Nil
                                    ELSE ConvertPrepareEntry(r.claims[k], to)]
        BY <1>4, <2>1, <2>2 DEF ConvertResponse, ConvertPrepareResponse
      <3>2. Keys(r) = U
        BY <1>4, <2>1 DEF Keys
      <3>3. s.claims # Nil /\ Keys(s) = U
        <4>1. \A k \in U : r.claims[k] # Nil =>
                ConvertPrepareEntry(r.claims[k], to) \in Entry(m, to)
          BY <2>1, <2>2, ConvertPrepareEntryType DEF Entry
        <4>2. s.claims \in [U -> {Nil} \cup Entry(m, to)]
          BY <3>1, <4>1
        <4>3. s.claims # Nil
          BY <4>2, ClaimMapNotNil
        <4>4. QED
          BY <1>2, <4>2, <4>3 DEF Keys
      <3>4. \A k \in U :
              /\ ErrorOf(r.claims[k]) = ErrorOf(s.claims[k])
              /\ SameDevices(DevicesOf(r.claims[k]), DevicesOf(s.claims[k]), FALSE)
        <4> TAKE k \in U
        <4>1. CASE r.claims[k] = Nil
          BY <3>1, <4>1 DEF ErrorOf, DevicesOf, SameDevices
        <4>2. CASE r.claims[k] # Nil
          <5>1. r.claims[k] \in PrepareEntry(v)
            BY <2>1, <2>2, <4>2 DEF Entry
          <5>2. s.claims[k] = ConvertPrepareEntry(r.claims[k], to)
            BY <3>1, <4>2
          <5>3. QED
            BY <5>1, <5>2, ConvertEntryKept
        <4>3. QED
          BY <4>1, <4>2
      <3>5. QED
        BY <1>2, <3>2, <3>3, <3>4 DEF SameEntries
    <2>3. CASE m = "NodeUnprepareResources"
      <3>1. s.claims = [k \in U |-> IF r.claims[k] = Nil THEN Nil
                                    ELSE ConvertUnprepareEntry(r.claims[k])]
        BY <1>4, <2>1, <2>3 DEF ConvertResponse, ConvertUnprepareResponse
      <3>2. Keys(r) = U
        BY <1>4, <2>1 DEF Keys
      <3>3. \A k \in U : r.claims[k] # Nil =>
              ConvertUnprepareEntry(r.claims[k]) \in Entry(m, to)
        BY <2>1, <2>3 DEF Entry, UnprepareEntry, ConvertUnprepareEntry
      <3>4. s.claims \in [U -> {Nil} \cup Entry(m, to)]
        BY <3>1, <3>3
      <3>5. s.claims # Nil /\ Keys(s) = U
        BY <1>2, <3>4, ClaimMapNotNil DEF Keys
      <3>6. \A k \in U : ErrorOf(r.claims[k]) = ErrorOf(s.claims[k])
        <4> TAKE k \in U
        <4>1. CASE r.claims[k] = Nil
          BY <3>1, <4>1
        <4>2. CASE r.claims[k] # Nil
          <5>1. s.claims[k] # Nil
            BY <3>1, <3>3, <4>2, NilAssumption
          <5>2. QED
            BY <3>1, <4>2, <5>1 DEF ErrorOf, ConvertUnprepareEntry
        <4>3. QED
          BY <4>1, <4>2
      <3>7. QED
        BY <1>2, <2>3, <3>2, <3>5, <3>6 DEF SameEntries
    <2>4. QED
      BY <2>2, <2>3 DEF Methods
  <1>5. QED
    BY <1>3, <1>4

\* A response that crossed the wire has the entries of the original.
LEMMA WireResponseKept ==
  ASSUME NEW m \in Methods, NEW v \in Versions, NEW r, IsResponse(m, v, r)
  PROVE  SameEntries(m, r, WireResponse(m, r, v), TRUE)
  <1> DEFINE s == WireResponse(m, r, v)
  <1>1. r # Nil /\ s # Nil
    BY WireResponseType, ResponseNotNil
  <1>2. CASE r.claims = Nil \/ DOMAIN r.claims = {}
    <2>1. s.claims = Nil
      BY <1>2 DEF WireResponse, ZeroResponse
    <2>2. QED
      BY <1>1, <1>2, <2>1 DEF SameEntries, Keys
  <1>3. CASE ~(r.claims = Nil \/ DOMAIN r.claims = {})
    <2>1. PICK U \in SUBSET Str : r.claims \in [U -> {Nil} \cup Entry(m, v)]
      BY <1>3 DEF IsResponse, ClaimMap
    <2>2. s.claims = [k \in U |-> WireEntry(m, r.claims[k], v)]
      BY <1>3, <2>1 DEF WireResponse
    <2>3. \A k \in U : WireEntry(m, r.claims[k], v) \in Entry(m, v)
      BY <2>1, WireEntryType
    <2>4. s.claims \in [U -> {Nil} \cup Entry(m, v)]
      BY <2>2, <2>3
    <2>5. s.claims # Nil
      BY <2>4, ClaimMapNotNil
    <2>6. Keys(r) = U /\ Keys(s) = U
      BY <1>1, <1>3, <2>1, <2>4, <2>5 DEF Keys
    <2>7. \A k \in U :
            /\ ErrorOf(r.claims[k]) = ErrorOf(s.claims[k])
            /\ m = "NodePrepareResources" =>
                 SameDevices(DevicesOf(r.claims[k]), DevicesOf(s.claims[k]), TRUE)
      <3> TAKE k \in U
      <3>1. r.claims[k] \in {Nil} \cup Entry(m, v)
        BY <2>1
      <3>2. s.claims[k] = WireEntry(m, r.claims[k], v)
        BY <2>2
      <3>3. \A e \in {Nil} \cup Entry(m, v) :
              /\ ErrorOf(WireEntry(m, e, v)) = ErrorOf(e)
              /\ m = "NodePrepareResources" =>
                   SameDevices(DevicesOf(e), DevicesOf(WireEntry(m, e, v)), TRUE)
        BY WireEntryKept
      <3> HIDE DEF s
      <3>4. QED
        BY <3>1, <3>2, <3>3
    <2>8. QED
      BY <2>6, <2>7 DEF SameEntries
  <1>4. QED
    BY <1>2, <1>3

\* One hop after another: a hop that drops share IDs drops them for good, and
\* a hop that keeps them leaves things as they were.
LEMMA SharesDropped ==
  ASSUME NEW m \in Methods, NEW r, NEW s, NEW t, NEW a,
         SameEntries(m, r, s, a), SameEntries(m, s, t, FALSE)
  PROVE  SameEntries(m, r, t, FALSE)
  <1>1. \A x, y, z : SameDevices(x, y, a) /\ SameDevices(y, z, FALSE)
          => SameDevices(x, z, FALSE)
    BY DEF SameDevices
  <1>2. QED
    BY <1>1 DEF SameEntries

LEMMA SharesKept ==
  ASSUME NEW m \in Methods, NEW r, NEW s, NEW t, NEW a,
         SameEntries(m, r, s, a), SameEntries(m, s, t, TRUE)
  PROVE  SameEntries(m, r, t, a)
  <1>1. \A x, y, z : SameDevices(x, y, a) /\ SameDevices(y, z, TRUE)
          => SameDevices(x, z, a)
    BY DEF SameDevices
  <1>2. QED
    BY <1>1 DEF SameEntries

\* v1beta1 has no share IDs to keep.
LEMMA NoSharesInV1beta1 ==
  ASSUME NEW m \in Methods, NEW r, IsResponse(m, "v1beta1", r),
         NEW s, SameEntries(m, r, s, TRUE)
  PROVE  SameEntries(m, r, s, FALSE)
  <1>1. CASE m # "NodePrepareResources" \/ Keys(r) = {}
    BY <1>1 DEF SameEntries
  <1>2. CASE m = "NodePrepareResources" /\ Keys(r) # {}
    <2>1. r.claims # Nil /\ Keys(r) = DOMAIN r.claims
      BY <1>2 DEF Keys
    <2>2. PICK U \in SUBSET Str :
            r.claims \in [U -> {Nil} \cup PrepareEntry("v1beta1")]
      BY <1>2, <2>1 DEF IsResponse, ClaimMap, Entry
    <2>3. ASSUME NEW k \in Keys(r), NEW i \in DOMAIN DevicesOf(r.claims[k])
          PROVE  ShareOf(DevicesOf(r.claims[k])[i]) = Nil
      <3> DEFINE e == r.claims[k]
      <3>1. e \in {Nil} \cup PrepareEntry("v1beta1")
        BY <2>1, <2>2
      <3>2. e # Nil /\ e.devices # Nil /\ DevicesOf(e) = e.devices
        BY <2>3 DEF DevicesOf, Elements
      <3>3. e.devices \in Seq({Nil} \cup Device("v1beta1"))
        BY <3>1, <3>2 DEF PrepareEntry
      <3>4. DevicesOf(e)[i] \in {Nil} \cup Device("v1beta1")
        BY <2>3, <3>2, <3>3
      <3>5. QED
        BY <3>4, DeviceKept DEF Versions
    <2>4. QED
      BY <2>3 DEF SameEntries, SameDevices
  <1>3. QED
    BY <1>1, <1>2

\* What the wire makes of a request is what its receiver should get, with or
\* without a conversion before or after.
LEMMA RequestReceived ==
  ASSUME NEW m \in Methods, NEW r \in Request
  PROVE  /\ Received(r, WireRequest(r))
         /\ Received(r, WireRequest(ConvertRequest(m, r)))
  <1>1. ASSUME NEW q \in Request, NEW Z, Z = Elements(q.claims)
        PROVE  /\ DOMAIN Elements(WireRequest(q).claims) = DOMAIN Z
               /\ \A i \in DOMAIN Z :
                    Elements(WireRequest(q).claims)[i] = ClaimOf(Z[i])
    <2>1. CASE q.claims = Nil
      BY <1>1, <2>1 DEF WireRequest, Elements
    <2>2. CASE q.claims # Nil
      <3> DEFINE w == [i \in DOMAIN q.claims |->
                         IF q.claims[i] = Nil THEN ZeroClaim ELSE q.claims[i]]
      <3>1. q.claims \in Seq({Nil} \cup Claim)
        BY <2>2 DEF Request
      <3>2. w \in Seq({Nil} \cup Claim) /\ DOMAIN w = DOMAIN q.claims
        <4>1. ZeroClaim \in Claim
          BY EmptyStrAssumption DEF ZeroClaim, Claim
        <4>2. QED
          BY <3>1, <4>1, MapSeq
      <3>3. w # Nil
        BY <3>2, NilAssumption
      <3>4. WireRequest(q).claims = WireSlice(w)
        BY <2>2 DEF WireRequest
      <3>5. Elements(WireRequest(q).claims) = w
        BY <3>3, <3>4 DEF WireSlice, Elements
      <3>6. Z = q.claims
        BY <1>1, <2>2 DEF Elements
      <3>7. QED
        BY <3>2, <3>5, <3>6 DEF ClaimOf
    <2>3. QED
      BY <2>1, <2>2
  <1>2. Received(r, WireRequest(r))
    BY <1>1 DEF Received
  <1>3. QED
    BY <1>2, ConvertRequestKept

-----------------------------------------------------------------------------
(* The inductive invariant.                                                *)

\* What holds of a result or reply x of call c in version v of the API, where
\* share tells whether share IDs have survived so far.
Good(c, x, v, share) ==
  /\ PairOK(path[c].method, v, x)
  /\ (x.resp = Nil) # (x.err = Nil)
  /\ x.err = Nil =>
       /\ runs[c] = 1
       /\ answer[c] # Nil
       /\ answer[c].ret.err = Nil
       /\ SameEntries(path[c].method, answer[c].ret.resp, x.resp, share)
  /\ \/ runs[c] = 0
     \/ x.err \in {Nil} \cup TransportCodes
     \/ answer[c] # Nil /\ answer[c].ret.err = x.err

ReplyShares(c) == answer[c].api = "v1" /\ path[c].wire = "v1"

AnswerOK(c) ==
  /\ answer[c] \in [api : Versions, ret : {answer[c].ret}]
  /\ PairOK(path[c].method, answer[c].api, answer[c].ret)

CallInv(c) ==
  /\ client[c] = "idle" <=> server[c] = "none"
  /\ client[c] = "idle" => path[c] = Nil /\ req[c] = Nil /\ sent[c] = Nil
  /\ client[c] # "idle" =>
       /\ path[c] \in Paths
       /\ req[c] \in Requests
       /\ sent[c] \in Request
       /\ Received(req[c], sent[c])
  /\ server[c] \in {"none", "arriving"} => runs[c] = 0 /\ seen[c] = Nil
  /\ server[c] = "running" =>
       runs[c] = 1 /\ process = "serving" /\ path[c].wire \in services
  /\ server[c] \in {"none", "arriving", "running"} =>
       answer[c] = Nil /\ reply[c] = Nil
  /\ client[c] # "returned" => result[c] = Nil
  /\ server[c] = "arriving" /\ result[c] # Nil =>
       result[c].err \in TransportCodes
  /\ runs[c] \in {0, 1}
  /\ seen[c] # Nil => seen[c] \in Request /\ Received(req[c], seen[c])
  /\ answer[c] # Nil => AnswerOK(c)
  /\ server[c] = "replied" \/ reply[c] # Nil =>
       Good(c, reply[c], path[c].wire, ReplyShares(c))
  /\ result[c] # Nil => Good(c, result[c], path[c].api, OnlyV1(c))

ProcessInv ==
  /\ plugin \in Plugins
  /\ process \in {"registering", "serving", "down"}
  /\ panic \in {"none", "registration", "nil response", "unimplemented"}
  /\ services \in SUBSET Versions
  /\ process # "down" => panic = "none"
  /\ plugin.api \in services => plugin.embeds = "value"
  /\ process = "down" => services = {}

Shape ==
  /\ client \in [Calls -> {"idle", "waiting", "returned"}]
  /\ server \in [Calls -> {"none", "arriving", "running", "replied", "lost"}]
  /\ path = [c \in Calls |-> path[c]]
  /\ req = [c \in Calls |-> req[c]]
  /\ sent = [c \in Calls |-> sent[c]]
  /\ runs = [c \in Calls |-> runs[c]]
  /\ seen = [c \in Calls |-> seen[c]]
  /\ answer = [c \in Calls |-> answer[c]]
  /\ reply  = [c \in Calls |-> reply[c]]
  /\ result = [c \in Calls |-> result[c]]

Inv == ProcessInv /\ Shape /\ \A c \in Calls : CallInv(c)

-----------------------------------------------------------------------------
LEMMA InitInv == Init => Inv
  BY DEF Init, Inv, ProcessInv, Shape, CallInv, PluginsAssumption

\* A step that keeps the process and its services and leaves every variable of
\* d alone keeps d's part of the invariant.
LEMMA OthersKept ==
  ASSUME NEW d \in Calls, CallInv(d), process' = process,
         services \subseteq services',
         client'[d] = client[d], server'[d] = server[d], path'[d] = path[d],
         req'[d] = req[d], sent'[d] = sent[d], reply'[d] = reply[d],
         result'[d] = result[d], runs'[d] = runs[d], seen'[d] = seen[d],
         answer'[d] = answer[d]
  PROVE  CallInv(d)'
  BY DEF CallInv, Good, ReplyShares, OnlyV1, AnswerOK

\* What the process loses when it goes down, it has lost for good.
LEMMA GoDownCall ==
  ASSUME Inv, NEW d \in Calls, NEW cause, GoDown(cause), UNCHANGED history
  PROVE  CallInv(d)'
  BY DEF Inv, Shape, GoDown, history, CallInv, Good, ReplyShares, OnlyV1, AnswerOK

\* So does a step of the process that hands no call on.
LEMMA GoDownInv ==
  ASSUME Inv, UNCHANGED history,
         NEW cause \in {"none", "registration", "nil response", "unimplemented"},
         GoDown(cause)
  PROVE  Inv'
  <1>1. ProcessInv'
    BY DEF Inv, ProcessInv, GoDown
  <1>2. Shape'
    BY DEF Inv, Shape, GoDown, history
  <1>3. QED
    BY <1>1, <1>2, GoDownCall DEF Inv

LEMMA RegisterInv ==
  ASSUME Inv, NEW v \in Versions, Register(v)
  PROVE  Inv'
  <1>1. CASE HasTestEmbeddedByValue(v) /\ plugin.embeds = "nil pointer"
    BY <1>1, GoDownInv DEF Register
  <1>2. CASE ~(HasTestEmbeddedByValue(v) /\ plugin.embeds = "nil pointer")
    <2>1. ProcessInv'
      BY <1>2, PluginsAssumption
         DEF Inv, ProcessInv, Register, HasTestEmbeddedByValue, Plugin
    <2>2. Shape'
      BY <1>2 DEF Inv, Shape, Register, callVars, history
    <2>3. ASSUME NEW d \in Calls
          PROVE  CallInv(d)'
      BY <1>2, <2>3, OthersKept DEF Inv, Register, callVars, history
    <2>4. QED
      BY <2>1, <2>2, <2>3 DEF Inv
  <1>3. QED
    BY <1>1, <1>2

LEMMA ServeInv ==
  ASSUME Inv, Serve
  PROVE  Inv'
  <1>1. ProcessInv'
    BY DEF Inv, ProcessInv, Serve
  <1>2. Shape'
    BY DEF Inv, Shape, Serve, callVars, history
  <1>3. ASSUME NEW d \in Calls
        PROVE  CallInv(d)'
    BY <1>3 DEF Inv, Serve, callVars, history, CallInv, Good, ReplyShares,
                OnlyV1, AnswerOK
  <1>4. QED
    BY <1>1, <1>2, <1>3 DEF Inv

LEMMA RestartInv ==
  ASSUME Inv, Restart
  PROVE  Inv'
  <1>1. ProcessInv'
    BY DEF Inv, ProcessInv, Restart
  <1>2. Shape'
    BY DEF Inv, Shape, Restart, callVars, history
  <1>3. ASSUME NEW d \in Calls
        PROVE  CallInv(d)'
    BY <1>3 DEF Inv, Restart, callVars, history, CallInv, Good, ReplyShares,
                OnlyV1, AnswerOK
  <1>4. QED
    BY <1>1, <1>2, <1>3 DEF Inv

-----------------------------------------------------------------------------
(* The caller's steps.                                                     *)

LEMMA CallStepInv ==
  ASSUME Inv, NEW c \in Calls, NEW p \in Paths, NEW r \in Requests, Call(c, p, r)
  PROVE  Inv'
  <1>1. ProcessInv'
    BY DEF Inv, ProcessInv, Call, processVars
  <1>2. Shape'
    BY DEF Inv, Shape, Call, history
  <1>3. ASSUME NEW d \in Calls, d # c
        PROVE  CallInv(d)'
    BY <1>3, OthersKept DEF Inv, Shape, Call, processVars, history
  <1>4. CallInv(c)'
    <2>1. r \in Request
      BY RequestsAssumption
    <2>2. sent'[c] \in Request /\ Received(r, sent'[c])
      <3>1. p.method \in Methods
        BY PathsAssumption DEF Path
      <3>2. QED
        BY <2>1, <3>1, WireRequestType, ConvertRequestKept, RequestReceived
           DEF Inv, Shape, Call, ClientRequest
    <2>3. QED
      BY <2>2 DEF Inv, Shape, Call, CallInv, processVars, history
  <1>5. QED
    BY <1>1, <1>2, <1>3, <1>4 DEF Inv

\* The client half of a call takes a good reply to a good result.
LEMMA ClientResultGood ==
  ASSUME Inv, NEW c \in Calls, client[c] # "idle",
         NEW x, Good(c, x, path[c].wire, ReplyShares(c)), x = Pair(x.resp, x.err)
  PROVE  Good(c, ClientResult(path[c], x.resp, x.err), path[c].api, OnlyV1(c))
  <1> DEFINE p == path[c]
             y == ClientResult(p, x.resp, x.err)
  <1>1. p \in Path
    BY PathsAssumption DEF Inv, CallInv
  <1>2. p.method \in Methods /\ p.api \in Versions /\ p.wire \in Versions
    BY <1>1 DEF Path
  <1>3. CASE x.err # Nil
    BY <1>3 DEF ClientResult, StubResult, ClientWrapper, Failure, Pair, Good, PairOK
  <1>4. CASE x.err = Nil /\ p.api = p.wire
    <2>1. y = x
      BY <1>4 DEF ClientResult, StubResult
    <2>2. OnlyV1(c) = ReplyShares(c)
      BY <1>4, <1>2 DEF OnlyV1, ReplyShares
    <2>3. QED
      BY <1>4, <2>1, <2>2
  <1>5. CASE x.err = Nil /\ p.api # p.wire
    <2> DEFINE s == ConvertResponse(p.method, x.resp, p.api)
    <2>1. y = Pair(s, Nil)
      BY <1>5 DEF ClientResult, StubResult, ClientWrapper, Pair
    <2>2. /\ IsResponse(p.method, p.wire, x.resp) /\ x.resp # Nil
          /\ SameEntries(p.method, answer[c].ret.resp, x.resp, ReplyShares(c))
          /\ runs[c] = 1 /\ answer[c] # Nil /\ answer[c].ret.err = Nil
      BY <1>5 DEF Good, PairOK
    <2>3. /\ IsResponse(p.method, p.api, s) /\ s # Nil
          /\ SameEntries(p.method, x.resp, s, FALSE)
      BY <1>2, <2>2, ConvertResponseType, ConvertResponseKept
    <2>4. OnlyV1(c) = FALSE
      BY <1>5 DEF OnlyV1
    <2> HIDE DEF s
    <2>5. SameEntries(p.method, answer[c].ret.resp, s, FALSE)
      BY <1>2, <2>2, <2>3, SharesDropped
    <2>6. Good(c, Pair(s, Nil), p.api, FALSE)
      BY <2>2, <2>3, <2>5, CodesAssumption DEF Good, PairOK, Pair
    <2>7. QED
      BY <2>1, <2>4, <2>6
  <1>6. QED
    BY <1>3, <1>4, <1>5

\* Whatever Invoke returns, the caller gets a good result.
LEMMA ReturnGood ==
  ASSUME Inv, NEW c \in Calls, NEW out, NEW err, client[c] = "waiting",
         \/ err \in TransportCodes
         \/ Good(c, Pair(out, err), path[c].wire, ReplyShares(c))
  PROVE  Good(c, ClientResult(path[c], out, err), path[c].api, OnlyV1(c))
  <1>1. CASE err \in TransportCodes
    BY <1>1, CodesAssumption
       DEF Errors, ClientResult, StubResult, ClientWrapper, Failure, Pair, Good,
           PairOK
  <1>2. CASE Good(c, Pair(out, err), path[c].wire, ReplyShares(c))
    BY <1>2, ClientResultGood DEF Pair
  <1>3. QED
    BY <1>1, <1>2

LEMMA ReturnInv ==
  ASSUME Inv, NEW c \in Calls, NEW out, NEW err, Return(c, out, err),
         \/ err \in TransportCodes
         \/ /\ server[c] = "replied"
            /\ Good(c, Pair(out, err), path[c].wire, ReplyShares(c))
  PROVE  Inv'
  <1>1. ProcessInv'
    BY DEF Inv, ProcessInv, Return, processVars
  <1>2. Shape'
    BY DEF Inv, Shape, Return, history
  <1>3. ASSUME NEW d \in Calls, d # c
        PROVE  CallInv(d)'
    BY <1>3, OthersKept DEF Inv, Shape, Return, processVars, history
  <1>4. CallInv(c)'
    <2> DEFINE y == ClientResult(path[c], out, err)
    <2>1. Good(c, y, path[c].api, OnlyV1(c))
      BY ReturnGood DEF Return
    <2>2. result'[c] = y
      BY DEF Inv, Shape, Return
    <2>3. server[c] = "arriving" => y.err \in TransportCodes
      BY CodesAssumption
         DEF ClientResult, StubResult, ClientWrapper, Failure, Pair
    <2> HIDE DEF y
    <2>4. QED
      BY <2>1, <2>2, <2>3 DEF Inv, Shape, Return, CallInv, processVars, history, Good,
                        ReplyShares, OnlyV1, AnswerOK
  <1>5. QED
    BY <1>1, <1>2, <1>3, <1>4 DEF Inv

\* A reply that arrived is good.
LEMMA ReceivedGood ==
  ASSUME Inv, NEW c \in Calls, server[c] = "replied"
  PROVE  Good(c, Pair(reply[c].resp, reply[c].err), path[c].wire, ReplyShares(c))
  <1>1. Good(c, reply[c], path[c].wire, ReplyShares(c))
    BY DEF Inv, CallInv
  <1>2. Pair(reply[c].resp, reply[c].err) = reply[c]
    BY <1>1 DEF Good, PairOK, Pair
  <1>3. QED
    BY <1>1, <1>2

LEMMA LoseInv ==
  ASSUME Inv, NEW c \in Calls, Lose(c)
  PROVE  Inv'
  <1>1. ProcessInv'
    BY DEF Inv, ProcessInv, Lose, processVars
  <1>2. Shape'
    BY DEF Inv, Shape, Lose, history
  <1>3. ASSUME NEW d \in Calls, d # c
        PROVE  CallInv(d)'
    BY <1>3, OthersKept DEF Inv, Shape, Lose, processVars, history
  <1>4. CallInv(c)'
    BY DEF Inv, Shape, Lose, CallInv, processVars, history, Good, ReplyShares,
           OnlyV1, AnswerOK
  <1>5. QED
    BY <1>1, <1>2, <1>3, <1>4 DEF Inv

-----------------------------------------------------------------------------
(* The plugin's steps.                                                     *)

\* A reply that is good, to a call that is being served, keeps the invariant.
LEMMA ReplyInv ==
  ASSUME Inv, NEW c \in Calls, NEW ret, Reply(c, ret),
         server[c] \in {"arriving", "running"},
         UNCHANGED <<runs, seen>>,
         answer' = [answer EXCEPT ![c] = answer'[c]],
         (answer[c] # Nil => AnswerOK(c))',
         Good(c, reply[c], path[c].wire, ReplyShares(c))'
  PROVE  Inv'
  <1>1. ProcessInv'
    BY DEF Inv, ProcessInv, Reply, processVars
  <1>2. Shape'
    BY DEF Inv, Shape, Reply
  <1>3. ASSUME NEW d \in Calls, d # c
        PROVE  CallInv(d)'
    BY <1>3, OthersKept DEF Inv, Shape, Reply, processVars
  <1>4. CallInv(c)'
    <2>1. result'[c] = Nil \/ Good(c, result[c], path[c].api, OnlyV1(c))'
      <3>1. CASE result[c] = Nil
        BY <3>1 DEF Reply
      <3>2. CASE result[c] # Nil
        <4>1. Good(c, result[c], path[c].api, OnlyV1(c))
          BY <3>2 DEF Inv, CallInv
        <4>2. answer[c] = Nil
          BY DEF Inv, CallInv
        <4>3. result[c].err # Nil
          BY <4>1, <4>2 DEF Good
        <4>4. QED
          BY <4>1, <4>2, <4>3 DEF Reply, Good
      <3>3. QED
        BY <3>1, <3>2
    <2>2. QED
      BY <2>1 DEF Inv, Shape, Reply, CallInv, processVars
  <1>5. QED
    BY <1>1, <1>2, <1>3, <1>4 DEF Inv

\* A call refused before it reaches the plugin.
LEMMA RefuseInv ==
  ASSUME Inv, NEW c \in Calls, server[c] = "arriving",
         NEW code \in Codes, Reply(c, Failure(code)),
         UNCHANGED history
  PROVE  Inv'
  <1>1. reply'[c] = Failure(code)
    <2>1. code # Nil
      BY CodesAssumption DEF Errors
    <2>2. QED
      BY <2>1 DEF Inv, Shape, Reply, Marshal, Failure, Pair
  <1>2. Good(c, reply[c], path[c].wire, ReplyShares(c))'
    BY <1>1, CodesAssumption
       DEF Errors, Inv, CallInv, history, Good, PairOK, Failure, Pair
  <1>3. (answer[c] # Nil => AnswerOK(c))'
    BY DEF Inv, CallInv, history
  <1>4. answer' = [answer EXCEPT ![c] = answer'[c]]
    BY DEF Inv, Shape, history
  <1>5. QED
    BY <1>2, <1>3, <1>4, ReplyInv DEF history

LEMMA EnterInv ==
  ASSUME Inv, NEW c \in Calls, Enter(c)
  PROVE  Inv'
  <1>1. ProcessInv'
    BY DEF Inv, ProcessInv, Enter, processVars
  <1>2. Shape'
    BY DEF Inv, Shape, Enter
  <1>3. ASSUME NEW d \in Calls, d # c
        PROVE  CallInv(d)'
    BY <1>3, OthersKept DEF Inv, Shape, Enter, processVars
  <1>4. CallInv(c)'
    <2>1. runs'[c] = 1
      BY DEF Inv, Shape, CallInv, Enter, Arrived
    <2>2. seen'[c] = sent[c]
      <3>1. sent[c] \in Request
        BY DEF Inv, CallInv, Enter, Arrived
      <3>2. ServerRequest(c) = sent[c]
        BY <3>1, ConvertRequestKept, PathsAssumption
           DEF ServerRequest, Inv, CallInv, Enter, Arrived, Path
      <3>3. QED
        BY <3>2 DEF Inv, Shape, Enter
    <2>3. sent[c] \in Request /\ Received(req[c], sent[c])
      BY DEF Inv, CallInv, Enter, Arrived
    <2>4. result'[c] = Nil \/ Good(c, result[c], path[c].api, OnlyV1(c))'
      <3>1. answer[c] = Nil /\ runs[c] = 0
        BY DEF Inv, CallInv, Enter, Arrived
      <3>2. QED
        BY <3>1 DEF Inv, CallInv, Enter, Arrived, Good
    <2>5. QED
      BY <2>1, <2>2, <2>3, <2>4
         DEF Inv, Shape, Enter, Arrived, CallInv, processVars
  <1>5. QED
    BY <1>1, <1>2, <1>3, <1>4 DEF Inv

\* What the plugin returned, directly or through a server wrapper, makes a
\* good reply.
LEMMA MarshalKept ==
  ASSUME NEW m \in Methods, NEW v \in Versions, NEW resp,
         resp = Nil \/ (IsResponse(m, v, resp) /\ resp # Nil),
         NEW x, x = Marshal(m, v, Pair(resp, Nil))
  PROVE  /\ x = Pair(x.resp, Nil)
         /\ IsResponse(m, v, x.resp)
         /\ SameEntries(m, resp, x.resp, TRUE)
  <1>1. CASE resp = Nil
    <2>1. x = Pair(ZeroResponse, Nil) /\ x.resp = ZeroResponse
      BY <1>1 DEF Marshal, Pair
    <2>2. IsResponse(m, v, ZeroResponse)
      BY DEF IsResponse, ClaimMap, ZeroResponse
    <2>3. SameEntries(m, resp, ZeroResponse, TRUE)
      BY <1>1 DEF SameEntries, Keys, ZeroResponse
    <2>4. QED
      BY <2>1, <2>2, <2>3
  <1>2. CASE resp # Nil
    <2>1. x = Pair(x.resp, Nil) /\ x.resp = WireResponse(m, resp, v)
      BY <1>2 DEF Marshal, Pair
    <2>2. /\ IsResponse(m, v, WireResponse(m, resp, v))
          /\ SameEntries(m, resp, WireResponse(m, resp, v), TRUE)
      BY <1>2, WireResponseType, WireResponseKept
    <2>3. QED
      BY <2>1, <2>2
  <1>3. QED
    BY <1>1, <1>2

LEMMA AnswerInv ==
  ASSUME Inv, NEW c \in Calls, Answer(c)
  PROVE  Inv'
  <1> DEFINE m == path[c].method
             w == path[c].wire
             v == plugin.api
  <1>1. m \in Methods /\ w \in Versions /\ v \in Versions
    <2>1. path[c] \in Path /\ plugin \in Plugin
      BY PathsAssumption, PluginsAssumption
         DEF Inv, ProcessInv, CallInv, Answer
    <2>2. QED
      BY <2>1 DEF Path, Plugin
  <1>2. PICK resp \in {Nil} \cup Answers(m, v), err \in {Nil} \cup Codes :
          /\ answer' = [answer EXCEPT ![c] = Returned(v, Pair(resp, err))]
          /\ IF v = w
               THEN Reply(c, Pair(resp, err))
               ELSE IF err = Nil /\ resp = Nil
                 THEN GoDown("nil response")
                 ELSE Reply(c, ServerWrapper(path[c], Pair(resp, err)))
    BY DEF Answer
  <1>3. resp = Nil \/ (IsResponse(m, v, resp) /\ resp # Nil)
    BY <1>1, AnswersAssumption
  <1>4. /\ answer'[c] = [api |-> v, ret |-> [resp |-> resp, err |-> err]]
        /\ answer'[c].api = v
        /\ answer'[c].ret.resp = resp
        /\ answer'[c].ret.err = err
        /\ answer'[c] # Nil
    <2>1. answer'[c] = Returned(v, Pair(resp, err))
      BY <1>2 DEF Inv, Shape
    <2>2. Returned(v, Pair(resp, err)) # Nil
      BY <1>1, ReturnedAssumption
    <2>3. QED
      BY <2>1, <2>2 DEF Returned, Pair
  <1>5. ASSUME path'[c] = path[c]
        PROVE  AnswerOK(c)'
    BY <1>1, <1>3, <1>4, <1>5 DEF AnswerOK, PairOK, Errors
  <1>6. server[c] = "running" /\ runs[c] = 1 /\ UNCHANGED <<runs, seen>>
    BY DEF Answer, Inv, CallInv
  <1>7. CASE v # w /\ err = Nil /\ resp = Nil
    <2>1. GoDown("nil response")
      BY <1>2, <1>7
    <2>2. ProcessInv'
      BY <2>1 DEF Inv, ProcessInv, GoDown
    <2>3. Shape'
      BY <1>2, <1>6, <2>1 DEF Inv, Shape, GoDown
    <2>4. ASSUME NEW d \in Calls, d # c
          PROVE  CallInv(d)'
      BY <1>2, <1>6, <2>1, <2>4
         DEF Inv, Shape, GoDown, CallInv, Good, ReplyShares, OnlyV1, AnswerOK
    <2>5. CallInv(c)'
      <3>1. result'[c] = Nil \/ Good(c, result[c], path[c].api, OnlyV1(c))'
        <4>1. answer[c] = Nil
          BY <1>6 DEF Inv, CallInv
        <4>2. QED
          BY <1>6, <2>1, <4>1 DEF Inv, CallInv, GoDown, Good
      <3>2. AnswerOK(c)'
        BY <1>5, <2>1 DEF GoDown
      <3>3. QED
        BY <1>6, <2>1, <3>1, <3>2 DEF Inv, Shape, GoDown, CallInv
    <2>6. QED
      BY <2>2, <2>3, <2>4, <2>5 DEF Inv
  <1>8. CASE ~(v # w /\ err = Nil /\ resp = Nil)
    <2>1. PICK ret : /\ ret = IF v = w THEN Pair(resp, err)
                              ELSE ServerWrapper(path[c], Pair(resp, err))
                     /\ Reply(c, ret)
      BY <1>2, <1>8
    <2>2. reply'[c] = Marshal(m, w, ret) /\ path' = path
      BY <2>1 DEF Inv, Shape, Reply
    <2> DEFINE q == reply'[c].resp
    <2>3. ASSUME err = Nil, reply'[c] = Pair(q, Nil), IsResponse(m, w, q),
                 NEW share, share <=> ReplyShares(c)',
                 SameEntries(m, resp, q, share)
          PROVE  Good(c, reply[c], path[c].wire, ReplyShares(c))'
      <3>1. q # Nil
        BY <1>1, <2>3, ResponseNotNil
      <3>2. SameEntries(m, resp, q, ReplyShares(c)')
        BY <2>3 DEF SameEntries, SameDevices
      <3> HIDE DEF q
      <3>3. reply'[c].resp = q /\ reply'[c].err = Nil
        BY <2>3 DEF Pair
      <3>4. PairOK(m, w, reply'[c])
        BY <2>3, <3>3 DEF PairOK, Pair
      <3>5. QED
        BY <1>4, <1>6, <2>2, <2>3, <3>1, <3>2, <3>3, <3>4, CodesAssumption
           DEF Good
    <2>4. Good(c, reply[c], path[c].wire, ReplyShares(c))'
      <3>1. CASE err # Nil
        <4>1. ret.err = err
          BY <2>1, <3>1 DEF ServerWrapper, Failure, Pair
        <4>2. reply'[c] = Failure(err)
          BY <2>2, <3>1, <4>1 DEF Marshal
        <4>3. QED
          BY <1>4, <2>2, <3>1, <4>2, CodesAssumption
             DEF Errors, Good, PairOK, Failure, Pair
      <3>2. CASE err = Nil /\ v = w
        <4>1. reply'[c] = Marshal(m, v, Pair(resp, Nil))
          BY <2>1, <2>2, <3>2
        <4>2. /\ reply'[c] = Pair(q, Nil)
              /\ IsResponse(m, v, q)
              /\ SameEntries(m, resp, q, TRUE)
          BY <1>1, <1>3, <4>1, MarshalKept
        <4> HIDE DEF q
        <4>3. CASE v = "v1"
          <5>1. TRUE <=> ReplyShares(c)'
            BY <1>4, <2>2, <3>2, <4>3 DEF ReplyShares
          <5>2. QED
            BY <2>3, <3>2, <4>2, <5>1
        <4>4. CASE v = "v1beta1"
          <5>1. SameEntries(m, resp, q, FALSE)
            <6>1. CASE resp = Nil
              BY <4>2, <6>1 DEF SameEntries, Keys
            <6>2. CASE resp # Nil
              BY <1>1, <1>3, <4>2, <4>4, <6>2, NoSharesInV1beta1
            <6>3. QED
              BY <6>1, <6>2
          <5>2. FALSE <=> ReplyShares(c)'
            BY <1>4, <2>2, <3>2, <4>4 DEF ReplyShares
          <5>3. QED
            BY <2>3, <3>2, <4>2, <5>1, <5>2
        <4>5. QED
          BY <1>1, <4>3, <4>4 DEF Versions
      <3>3. CASE err = Nil /\ v # w
        <4> DEFINE s == ConvertResponse(m, resp, w)
        <4>1. resp # Nil /\ IsResponse(m, v, resp)
          BY <1>3, <1>8, <3>3
        <4>2. ret = Pair(s, Nil)
          BY <2>1, <3>3 DEF ServerWrapper, Pair
        <4>3. s # Nil /\ IsResponse(m, w, s) /\ SameEntries(m, resp, s, FALSE)
          BY <1>1, <4>1, ConvertResponseType, ConvertResponseKept
        <4> HIDE DEF s
        <4>4. /\ reply'[c] = Pair(q, Nil)
              /\ IsResponse(m, w, q)
              /\ SameEntries(m, s, q, TRUE)
          BY <1>1, <2>2, <4>2, <4>3, MarshalKept
        <4> HIDE DEF q
        <4>5. SameEntries(m, resp, q, FALSE)
          BY <1>1, <4>3, <4>4, SharesKept
        <4>6. FALSE <=> ReplyShares(c)'
          BY <1>1, <1>4, <2>2, <3>3 DEF ReplyShares, Versions
        <4>7. QED
          BY <2>3, <3>3, <4>4, <4>5, <4>6
      <3>4. QED
        BY <3>1, <3>2, <3>3
    <2>5. AnswerOK(c)'
      BY <1>5, <2>2
    <2>6. answer' = [answer EXCEPT ![c] = answer'[c]]
      BY <1>2, <1>4
    <2>7. QED
      BY <1>6, <2>1, <2>4, <2>5, <2>6, ReplyInv
  <1>9. QED
    BY <1>7, <1>8

-----------------------------------------------------------------------------
(* Every step keeps the invariant, and the invariant holds what is claimed. *)

LEMMA NextInv ==
  ASSUME Inv, [Next]_vars
  PROVE  Inv'
  <1>1. ASSUME NEW v \in Versions, Register(v)
        PROVE  Inv'
    BY <1>1, RegisterInv
  <1>2. CASE Serve
    BY <1>2, ServeInv
  <1>3. CASE Stop
    BY <1>3, GoDownInv DEF Stop
  <1>4. CASE Restart
    BY <1>4, RestartInv
  <1>5. ASSUME NEW c \in Calls, NEW p \in Paths, NEW r \in Requests, Call(c, p, r)
        PROVE  Inv'
    BY <1>5, CallStepInv
  <1>6. ASSUME NEW c \in Calls, Receive(c)
        PROVE  Inv'
    BY <1>6, ReceivedGood, ReturnInv DEF Receive
  <1>7. ASSUME NEW c \in Calls, Unavailable(c) \/ Cancel(c)
        PROVE  Inv'
    BY <1>7, ReturnInv DEF Unavailable, Cancel, TransportCodes
  <1>8. ASSUME NEW c \in Calls, Lose(c)
        PROVE  Inv'
    BY <1>8, LoseInv
  <1>9. ASSUME NEW c \in Calls, Reject(c)
        PROVE  Inv'
    BY <1>9, RefuseInv DEF Reject, Arrived
  <1>10. ASSUME NEW c \in Calls, Unimplemented(c)
         PROVE  Inv'
    BY <1>10, RefuseInv, GoDownInv, CodesAssumption
       DEF Unimplemented, Arrived
  <1>11. ASSUME NEW c \in Calls, Enter(c)
         PROVE  Inv'
    BY <1>11, EnterInv
  <1>12. ASSUME NEW c \in Calls, Answer(c)
         PROVE  Inv'
    BY <1>12, AnswerInv
  <1>13. CASE UNCHANGED vars
    <2>1. ProcessInv' /\ Shape'
      BY <1>13 DEF Inv, ProcessInv, Shape, vars, processVars, callVars, history
    <2>2. ASSUME NEW d \in Calls
          PROVE  CallInv(d)'
      BY <1>13, <2>2, OthersKept DEF Inv, vars, processVars, callVars, history
    <2>3. QED
      BY <2>1, <2>2 DEF Inv
  <1>14. QED
    BY <1>1, <1>2, <1>3, <1>4, <1>5, <1>6, <1>7, <1>8, <1>9, <1>10, <1>11,
       <1>12, <1>13 DEF Next

LEMMA SpecInv == Spec => []Inv
  BY InitInv, NextInv, PTL DEF Spec

\* Every variable keeps to its type: messages exist in the version of the API
\* their place in a call demands, whatever route the call takes.
THEOREM TypeCorrect == Spec => []TypeOK
  <1>1. Inv => TypeOK
    <2> SUFFICES ASSUME Inv PROVE TypeOK
      OBVIOUS
    <2>1. /\ plugin \in Plugins
          /\ process \in {"registering", "serving", "down"}
          /\ panic \in {"none", "registration", "nil response", "unimplemented"}
          /\ services \in SUBSET Versions
      BY DEF Inv, ProcessInv
    <2>2. /\ client \in [Calls -> {"idle", "waiting", "returned"}]
          /\ server \in [Calls -> {"none", "arriving", "running", "replied", "lost"}]
          /\ answer = [c \in Calls |-> answer[c]]
          /\ reply  = [c \in Calls |-> reply[c]]
          /\ result = [c \in Calls |-> result[c]]
      BY DEF Inv, Shape
    <2>3. \A c \in Calls :
            /\ path[c] \in {Nil} \cup Paths
            /\ req[c] \in {Nil} \cup Requests
            /\ sent[c] \in {Nil} \cup Request
            /\ runs[c] \in Nat
            /\ seen[c] \in {Nil} \cup Request
      BY DEF Inv, CallInv
    <2>4. /\ path \in [Calls -> {Nil} \cup Paths]
          /\ req \in [Calls -> {Nil} \cup Requests]
          /\ sent \in [Calls -> {Nil} \cup Request]
          /\ runs \in [Calls -> Nat]
          /\ seen \in [Calls -> {Nil} \cup Request]
      BY <2>3 DEF Inv, Shape
    <2>5. \A c \in Calls :
            /\ client[c] # "idle" => path[c] \in Paths /\ req[c] \in Requests
            /\ answer[c] # Nil =>
                 /\ answer[c] \in [api : Versions, ret : {answer[c].ret}]
                 /\ PairOK(path[c].method, answer[c].api, answer[c].ret)
            /\ reply[c] # Nil => PairOK(path[c].method, path[c].wire, reply[c])
            /\ result[c] # Nil => PairOK(path[c].method, path[c].api, result[c])
      BY DEF Inv, CallInv, Good, AnswerOK
    <2>6. QED
      BY <2>1, <2>2, <2>4, <2>5 DEF TypeOK
  <1>2. QED
    BY <1>1, SpecInv, PTL

\* A caller that gets a response gets what the plugin answered in that call:
\* the same claims, errors and devices, and share IDs if and only if the whole
\* route is v1.
THEOREM ResultsAreAnswers == Spec => []ResultIsAnswer
  <1>1. Inv => ResultIsAnswer
    BY DEF Inv, CallInv, Good, ResultIsAnswer
  <1>2. QED
    BY <1>1, SpecInv, PTL

\* The plugin is entered with the claims the caller passed.
THEOREM RequestsArrive == Spec => []RequestArrives
  <1>1. Inv => RequestArrives
    BY DEF Inv, CallInv, RequestArrives
  <1>2. QED
    BY <1>1, SpecInv, PTL

\* A call runs the plugin's method at most once, and exactly once if it
\* succeeds.
THEOREM CallsRunOnce == Spec => []RunsOnce
  <1>1. Inv => RunsOnce
    BY DEF Inv, CallInv, Good, RunsOnce
  <1>2. QED
    BY <1>1, SpecInv, PTL

\* The caller of a call that ran and failed is told the error of that run, or
\* that the transport or the caller itself gave up.
THEOREM ErrorsAreAnswers == Spec => []ErrorIsAnswer
  <1>1. Inv => ErrorIsAnswer
    BY DEF Inv, CallInv, Good, ErrorIsAnswer
  <1>2. QED
    BY <1>1, SpecInv, PTL

\* The caller gets a response or an error, not both and not neither.
THEOREM ResponseOrError == Spec => []ResponseXorError
  <1>1. Inv => ResponseXorError
    BY DEF Inv, CallInv, Good, ResponseXorError
  <1>2. QED
    BY <1>1, SpecInv, PTL

\* A process that serves the plugin under its own version only does not panic.
THEOREM DirectServicesDoNotPanic == Spec => DirectServiceDoesNotPanic
  <1>1. ASSUME Inv, [Next]_vars, process = "serving", services = {plugin.api}
        PROVE  panic' = "none"
    <2>1. panic = "none" /\ plugin.embeds = "value"
      BY <1>1 DEF Inv, ProcessInv
    <2>2. ASSUME NEW c \in Calls, Answer(c)
          PROVE  panic' = panic
      <3>1. path[c].wire = plugin.api
        BY <1>1, <2>2 DEF Inv, CallInv, Answer
      <3>2. QED
        BY <2>2, <3>1 DEF Answer, Reply, processVars
    <2>3. ASSUME NEW c \in Calls, Unimplemented(c)
          PROVE  panic' = panic
      BY <2>1, <2>3 DEF Unimplemented, Reply, processVars
    <2>4. CASE Stop
      BY <2>4 DEF Stop, GoDown
    <2>5. CASE ~Stop
      BY <1>1, <2>1, <2>2, <2>3, <2>5
         DEF Next, vars, processVars, Register, Serve, Restart, Call, Receive,
             Unavailable, Cancel, Return, Lose, Reject, Reply, Enter
    <2>6. QED
      BY <2>4, <2>5
  <1>2. QED
    BY <1>1, SpecInv, PTL DEF Spec, DirectServiceDoesNotPanic

-----------------------------------------------------------------------------
(* Views.                                                                  *)

\* A request that was received looks as it did when it was sent.
LEMMA RequestLooksTheSame ==
  ASSUME NEW r, NEW s, Received(r, s)
  PROVE  RequestView(r) = RequestView(s)
  <1> DEFINE given == Elements(r.claims)
             got   == Elements(s.claims)
  <1>1. DOMAIN got = DOMAIN given
    BY DEF Received
  <1>2. \A i \in DOMAIN given : ClaimOf(got[i]) = ClaimOf(given[i])
    BY DEF Received, ClaimOf
  <1> HIDE DEF given, got
  <1>3. [i \in DOMAIN given |-> ClaimOf(given[i])]
          = [i \in DOMAIN got |-> ClaimOf(got[i])]
    BY <1>1, <1>2
  <1>4. QED
    BY <1>3 DEF RequestView, given, got

\* Entries with the same errors and devices look the same.
LEMMA EntryLooksTheSame ==
  ASSUME NEW m, NEW d, NEW e, NEW share, ErrorOf(d) = ErrorOf(e),
         m = "NodePrepareResources" =>
           SameDevices(DevicesOf(d), DevicesOf(e), share)
  PROVE  EntryView(m, d) = EntryView(m, e)
  <1> DEFINE s == DevicesOf(d)
             t == DevicesOf(e)
  <1>1. CASE m = "NodePrepareResources"
    <2>1. /\ DOMAIN s = DOMAIN t
          /\ \A i \in DOMAIN s : DeviceOf(s[i]) = DeviceOf(t[i])
      BY <1>1 DEF SameDevices
    <2> HIDE DEF s, t
    <2>2. [i \in DOMAIN s |-> DeviceOf(s[i])]
            = [i \in DOMAIN t |-> DeviceOf(t[i])]
      BY <2>1
    <2>3. QED
      BY <1>1, <2>2 DEF EntryView, s, t
  <1>2. CASE m # "NodePrepareResources"
    BY <1>2 DEF EntryView
  <1>3. QED
    BY <1>1, <1>2

\* Responses with the same entries look the same.
LEMMA ResponseLooksTheSame ==
  ASSUME NEW m, NEW r, NEW s, NEW share, SameEntries(m, r, s, share)
  PROVE  ResponseView(m, r) = ResponseView(m, s)
  <1>1. Keys(r) = Keys(s)
    BY DEF SameEntries
  <1>2. ASSUME NEW k \in Keys(r)
        PROVE  EntryView(m, r.claims[k]) = EntryView(m, s.claims[k])
    BY EntryLooksTheSame DEF SameEntries
  <1>3. QED
    BY <1>1, <1>2 DEF ResponseView

-----------------------------------------------------------------------------
(* Steps.                                                                  *)

\* Nothing RemoteCall shows of d changes.
Unseen(d) ==
  /\ PhaseOf(d)' = PhaseOf(d)
  /\ GivenOf(d)' = GivenOf(d)
  /\ RunOf(d)' = RunOf(d)
  /\ TakenOf(d)' = TakenOf(d)
  /\ MadeOf(d)' = MadeOf(d)
  /\ GotOf(d)' = GotOf(d)

\* Calls that keep their variables stay as they are.
LEMMA KeptUnseen ==
  ASSUME NEW d \in Calls, client'[d] = client[d], path'[d] = path[d],
         req'[d] = req[d], result'[d] = result[d], runs'[d] = runs[d],
         seen'[d] = seen[d], answer'[d] = answer[d]
  PROVE  Unseen(d)
  BY DEF Unseen, PhaseOf, GivenOf, RunOf, TakenOf, MadeOf, GotOf

LEMMA StutterIfUnseen ==
  ASSUME \A d \in Calls : Unseen(d)
  PROVE  UNCHANGED Remote!vars
  BY DEF Unseen, Remote!vars, Phase, Given, Run, Taken, Made, Got

\* If only c changes, RemoteCall's variables change at c.
LEMMA ChangesAtOne ==
  ASSUME NEW c \in Calls, \A d \in Calls \ {c} : Unseen(d)
  PROVE  /\ Phase' = [Phase EXCEPT ![c] = PhaseOf(c)']
         /\ Given' = [Given EXCEPT ![c] = GivenOf(c)']
         /\ Run' = [Run EXCEPT ![c] = RunOf(c)']
         /\ Taken' = [Taken EXCEPT ![c] = TakenOf(c)']
         /\ Made' = [Made EXCEPT ![c] = MadeOf(c)']
         /\ Got' = [Got EXCEPT ![c] = GotOf(c)']
  <1>1. Phase' = [Phase EXCEPT ![c] = PhaseOf(c)']
    BY DEF Unseen, Phase
  <1>2. Given' = [Given EXCEPT ![c] = GivenOf(c)']
    BY DEF Unseen, Given
  <1>3. Run' = [Run EXCEPT ![c] = RunOf(c)']
    BY DEF Unseen, Run
  <1>4. Taken' = [Taken EXCEPT ![c] = TakenOf(c)']
    BY DEF Unseen, Taken
  <1>5. Made' = [Made EXCEPT ![c] = MadeOf(c)']
    BY DEF Unseen, Made
  <1>6. Got' = [Got EXCEPT ![c] = GotOf(c)']
    BY DEF Unseen, Got
  <1>7. QED
    BY <1>1, <1>2, <1>3, <1>4, <1>5, <1>6

\* A variable that does not change at c either does not change.
LEMMA UnchangedAtOne ==
  ASSUME NEW c \in Calls, \A d \in Calls \ {c} : Unseen(d)
  PROVE  /\ PhaseOf(c)' = PhaseOf(c) => Phase' = Phase
         /\ GivenOf(c)' = GivenOf(c) => Given' = Given
         /\ RunOf(c)' = RunOf(c) => Run' = Run
         /\ TakenOf(c)' = TakenOf(c) => Taken' = Taken
         /\ MadeOf(c)' = MadeOf(c) => Made' = Made
         /\ GotOf(c)' = GotOf(c) => Got' = Got
  BY DEF Unseen, Phase, Given, Run, Taken, Made, Got

LEMMA Shown ==
  ASSUME NEW c \in Calls
  PROVE  /\ Phase[c] = PhaseOf(c)
         /\ Given[c] = GivenOf(c)
         /\ Run[c] = RunOf(c)
         /\ Made[c] = MadeOf(c)
  BY DEF Phase, Given, Run, Made

LEMMA CallSubmits ==
  ASSUME Inv, NEW c \in Calls, NEW p \in Paths, NEW r \in Requests,
         Call(c, p, r)
  PROVE  Remote!Next
  <1>1. ASSUME NEW d \in Calls \ {c}
        PROVE  Unseen(d)
    BY <1>1, KeptUnseen DEF Inv, Shape, Call, history
  <1>2. /\ client[c] = "idle" /\ client'[c] = "waiting" /\ req'[c] = r
        /\ runs' = runs /\ seen' = seen /\ answer' = answer /\ answer[c] = Nil
    BY DEF Inv, Shape, CallInv, Call, history
  <1>3. PhaseOf(c) = "idle" /\ PhaseOf(c)' = "pending"
    BY <1>2 DEF PhaseOf
  <1>4. GivenOf(c)' = RequestView(r)
    BY <1>2 DEF GivenOf
  <1>5. RunOf(c)' = RunOf(c) /\ TakenOf(c)' = TakenOf(c)
    BY <1>2 DEF RunOf, TakenOf
  <1>6. MadeOf(c)' = MadeOf(c)
    BY <1>2 DEF MadeOf
  <1>7. GotOf(c)' = GotOf(c)
    BY <1>2 DEF GotOf
  <1>8. Remote!Submit(c)
    BY <1>1, <1>3, <1>4, <1>5, <1>6, <1>7, ChangesAtOne, UnchangedAtOne, Shown
       DEF Remote!Submit, Inputs
  <1>9. QED
    BY <1>8 DEF Remote!Next

LEMMA ReturnSucceedsOrFails ==
  ASSUME Inv, NEW c \in Calls, NEW out, NEW err, Return(c, out, err),
         \/ err \in TransportCodes
         \/ Good(c, Pair(out, err), path[c].wire, ReplyShares(c))
  PROVE  Remote!Next
  <1> DEFINE y == ClientResult(path[c], out, err)
  <1>1. ASSUME NEW d \in Calls \ {c}
        PROVE  Unseen(d)
    BY <1>1, KeptUnseen DEF Inv, Shape, Return, history
  <1>2. /\ client[c] = "waiting" /\ client'[c] = "returned" /\ result'[c] = y
        /\ path' = path /\ req' = req
        /\ runs' = runs /\ seen' = seen /\ answer' = answer
    BY DEF Inv, Shape, Return, history
  <1>3. Good(c, y, path[c].api, OnlyV1(c))
    BY <1>2, ReturnGood
  <1> HIDE DEF y
  <1>4. /\ GivenOf(c)' = GivenOf(c) /\ RunOf(c)' = RunOf(c)
        /\ TakenOf(c)' = TakenOf(c) /\ MadeOf(c)' = MadeOf(c)
    BY <1>2 DEF GivenOf, RunOf, TakenOf, MadeOf
  <1>5. PhaseOf(c) = "pending"
    BY <1>2 DEF PhaseOf
  <1>6. CASE y.err = Nil
    <2>1. PhaseOf(c)' = "succeeded"
      BY <1>2, <1>6 DEF PhaseOf
    <2>2. /\ runs[c] = 1 /\ answer[c] # Nil /\ answer[c].ret.err = Nil
          /\ SameEntries(path[c].method, answer[c].ret.resp, y.resp, OnlyV1(c))
      BY <1>3, <1>6 DEF Good
    <2>3. RunOf(c) = "succeeded"
      BY <2>2 DEF RunOf
    <2>4. ResponseView(path[c].method, y.resp)
            = ResponseView(path[c].method, answer[c].ret.resp)
      BY <2>2, ResponseLooksTheSame
    <2>5. GotOf(c)' = MadeOf(c)
      BY <1>2, <1>6, <2>2, <2>4 DEF GotOf, MadeOf
    <2>6. Remote!Succeed(c)
      BY <1>1, <1>4, <1>5, <2>1, <2>3, <2>5, ChangesAtOne, UnchangedAtOne, Shown
         DEF Remote!Succeed
    <2>7. QED
      BY <2>6 DEF Remote!Next
  <1>7. CASE y.err # Nil
    <2>1. PhaseOf(c)' = "failed"
      BY <1>2, <1>7 DEF PhaseOf
    <2>2. GotOf(c)' = GotOf(c)
      BY <1>2, <1>7 DEF GotOf
    <2>3. Remote!Fail(c)
      BY <1>1, <1>4, <1>5, <2>1, <2>2, ChangesAtOne, UnchangedAtOne, Shown
         DEF Remote!Fail
    <2>4. QED
      BY <2>3 DEF Remote!Next
  <1>8. QED
    BY <1>6, <1>7

LEMMA EnterBegins ==
  ASSUME Inv, NEW c \in Calls, Enter(c)
  PROVE  Remote!Next
  <1>1. ASSUME NEW d \in Calls \ {c}
        PROVE  Unseen(d)
    BY <1>1, KeptUnseen DEF Inv, Shape, Enter
  <1>2. /\ client[c] # "idle" /\ client' = client /\ path' = path /\ req' = req
        /\ result' = result /\ answer' = answer /\ answer[c] = Nil
        /\ runs[c] = 0 /\ runs'[c] = 1 /\ seen'[c] = ServerRequest(c)
    BY DEF Inv, Shape, CallInv, Enter, Arrived
  <1>3. RequestView(seen'[c]) = RequestView(req[c])
    <2>1. sent[c] \in Request /\ Received(req[c], sent[c])
      BY <1>2 DEF Inv, CallInv
    <2>2. ServerRequest(c) = sent[c]
      BY <1>2, <2>1, ConvertRequestKept, PathsAssumption
         DEF ServerRequest, Inv, CallInv, Path
    <2>3. QED
      BY <1>2, <2>1, <2>2, RequestLooksTheSame
  <1>4. PhaseOf(c) # "idle"
    BY <1>2 DEF PhaseOf
  <1>5. /\ PhaseOf(c)' = PhaseOf(c) /\ GivenOf(c)' = GivenOf(c)
        /\ MadeOf(c)' = MadeOf(c) /\ GotOf(c)' = GotOf(c)
    BY <1>2 DEF PhaseOf, GivenOf, MadeOf, GotOf
  <1>6. RunOf(c) = "never" /\ RunOf(c)' = "going on"
    BY <1>2 DEF RunOf
  <1>7. TakenOf(c)' = GivenOf(c)
    BY <1>2, <1>3 DEF TakenOf, GivenOf
  <1>8. /\ Phase[c] # "idle"
        /\ Run[c] = "never"
        /\ Given[c] = GivenOf(c)
    BY <1>4, <1>6, Shown
  <1>9. /\ Run' = [Run EXCEPT ![c] = "going on"]
        /\ Taken' = [Taken EXCEPT ![c] = GivenOf(c)]
    BY <1>1, <1>6, <1>7, ChangesAtOne
  <1>10. UNCHANGED <<Phase, Given, Made, Got>>
    BY <1>1, <1>5, UnchangedAtOne
  <1>11. Remote!Begin(c)
    BY <1>8, <1>9, <1>10 DEF Remote!Begin
  <1>12. QED
    BY <1>11 DEF Remote!Next

LEMMA AnswerFinishes ==
  ASSUME Inv, NEW c \in Calls, Answer(c)
  PROVE  Remote!Next
  <1> DEFINE m == path[c].method
             v == plugin.api
  <1>1. m \in Methods /\ v \in Versions
    <2>1. path[c] \in Path /\ plugin \in Plugin
      BY PathsAssumption, PluginsAssumption
         DEF Inv, ProcessInv, CallInv, Answer
    <2>2. QED
      BY <2>1 DEF Path, Plugin
  <1>2. PICK resp \in {Nil} \cup Answers(m, v), err \in {Nil} \cup Codes :
          /\ answer' = [answer EXCEPT ![c] = Returned(v, Pair(resp, err))]
          /\ UNCHANGED <<client, path, req, result, runs, seen>>
    BY DEF Answer, Reply, GoDown
  <1>3. ASSUME NEW d \in Calls \ {c}
        PROVE  Unseen(d)
    BY <1>2, <1>3, KeptUnseen DEF Inv, Shape
  <1>4. runs[c] = 1 /\ answer[c] = Nil
    BY DEF Inv, CallInv, Answer
  <1>5. /\ answer'[c] # Nil
        /\ answer'[c].ret.resp = resp /\ answer'[c].ret.err = err
    <2>1. answer'[c] = Returned(v, Pair(resp, err))
      BY <1>2 DEF Inv, Shape
    <2>2. Returned(v, Pair(resp, err)) # Nil
      BY <1>1, ReturnedAssumption
    <2>3. QED
      BY <2>1, <2>2 DEF Returned, Pair
  <1>6. /\ PhaseOf(c)' = PhaseOf(c) /\ GivenOf(c)' = GivenOf(c)
        /\ TakenOf(c)' = TakenOf(c) /\ GotOf(c)' = GotOf(c)
    BY <1>2 DEF PhaseOf, GivenOf, TakenOf, GotOf
  <1>7. RunOf(c) = "going on"
    BY <1>4 DEF RunOf
  <1>8. CASE err = Nil
    <2>1. RunOf(c)' = "succeeded"
      BY <1>2, <1>4, <1>5, <1>8 DEF RunOf
    <2>2. MadeOf(c)' = ResponseView(m, resp)
      BY <1>2, <1>5, <1>8 DEF MadeOf
    <2>3. ResponseView(m, resp) \in Outputs
      BY <1>1, <1>2 DEF Outputs
    <2> HIDE DEF m
    <2>4. Remote!Finish(c)
      BY <1>3, <1>6, <1>7, <2>1, <2>2, <2>3, ChangesAtOne, UnchangedAtOne, Shown
         DEF Remote!Finish
    <2>5. QED
      BY <2>4 DEF Remote!Next
  <1>9. CASE err # Nil
    <2>1. RunOf(c)' = "failed"
      BY <1>2, <1>4, <1>5, <1>9 DEF RunOf
    <2>2. MadeOf(c)' = MadeOf(c)
      BY <1>4, <1>5, <1>9 DEF MadeOf
    <2>3. Remote!Finish(c)
      BY <1>3, <1>6, <1>7, <2>1, <2>2, ChangesAtOne, UnchangedAtOne, Shown
         DEF Remote!Finish
    <2>4. QED
      BY <2>3 DEF Remote!Next
  <1>10. QED
    BY <1>2, <1>8, <1>9

\* The other steps move messages and processes, which RemoteCall does not show.
LEMMA OthersStutter ==
  ASSUME UNCHANGED <<client, path, req, result, runs, seen, answer>>
  PROVE  UNCHANGED Remote!vars
  BY KeptUnseen, StutterIfUnseen

-----------------------------------------------------------------------------

\* The wrappers, stubs and handlers implement RemoteCall: the plugin is run at
\* most once for a call, on what the caller asked, and the caller gets what
\* that run answered or an error, whatever versions of the API the call passes
\* through, whichever processes stop and whichever messages are lost.
THEOREM CallsAreRemoteCalls == Spec => IsRemoteCall
  <1>1. Init => Remote!Init
    <2> SUFFICES ASSUME Init PROVE Remote!Init
      OBVIOUS
    <2>1. ASSUME NEW c \in Calls
          PROVE  /\ PhaseOf(c) = "idle" /\ GivenOf(c) = NoView
                 /\ RunOf(c) = "never" /\ TakenOf(c) = NoView
                 /\ MadeOf(c) = NoView /\ GotOf(c) = NoView
      BY <2>1 DEF Init, PhaseOf, GivenOf, RunOf, TakenOf, MadeOf, GotOf
    <2>2. QED
      BY <2>1 DEF Remote!Init, Phase, Given, Run, Taken, Made, Got
  <1>2. Inv /\ [Next]_vars => [Remote!Next]_(Remote!vars)
    <2> SUFFICES ASSUME Inv, [Next]_vars
                 PROVE  [Remote!Next]_(Remote!vars)
      OBVIOUS
    <2>1. CASE \/ \E v \in Versions : Register(v)
               \/ Serve \/ Stop \/ Restart \/ UNCHANGED vars
      <3>1. UNCHANGED <<client, path, req, result, runs, seen, answer>>
        BY <2>1 DEF Register, Serve, Stop, Restart, GoDown, vars, callVars,
                    history
      <3>2. QED
        BY <3>1, OthersStutter
    <2>2. ASSUME NEW c \in Calls, NEW p \in Paths, NEW r \in Requests,
                 Call(c, p, r)
          PROVE  Remote!Next
      BY <2>2, CallSubmits
    <2>3. ASSUME NEW c \in Calls, Receive(c) \/ Unavailable(c) \/ Cancel(c)
          PROVE  Remote!Next
      <3>1. CASE Receive(c)
        BY <3>1, ReceivedGood, ReturnSucceedsOrFails DEF Receive
      <3>2. CASE Unavailable(c) \/ Cancel(c)
        BY <3>2, ReturnSucceedsOrFails
           DEF Unavailable, Cancel, TransportCodes
      <3>3. QED
        BY <2>3, <3>1, <3>2
    <2>4. ASSUME NEW c \in Calls, Lose(c) \/ Reject(c) \/ Unimplemented(c)
          PROVE  UNCHANGED Remote!vars
      <3>1. UNCHANGED <<client, path, req, result, runs, seen, answer>>
        BY <2>4 DEF Lose, Reject, Unimplemented, Reply, GoDown, history
      <3>2. QED
        BY <3>1, OthersStutter
    <2>5. ASSUME NEW c \in Calls, Enter(c)
          PROVE  Remote!Next
      BY <2>5, EnterBegins
    <2>6. ASSUME NEW c \in Calls, Answer(c)
          PROVE  Remote!Next
      BY <2>6, AnswerFinishes
    <2>7. QED
      BY <2>1, <2>2, <2>3, <2>4, <2>5, <2>6 DEF Next
  <1>3. QED
    BY <1>1, <1>2, SpecInv, PTL DEF Spec, IsRemoteCall, Remote!Spec

==============================================================================
