--------------------------- MODULE DRAConversion ---------------------------
(***************************************************************************)
(* The messages of the DRA plugin API, the functions that convert them     *)
(* between its versions v1 and v1beta1 (dra/v1beta1/                       *)
(* zz_generated.conversion.go and conversion_internal.go), and what the    *)
(* protobuf wire format does to such a message on its way to the peer.     *)
(*                                                                         *)
(* A Go pointer is the value it points to or Nil, a Go slice a sequence or *)
(* Nil, a Go map a function or Nil: nil and empty are different values.    *)
(***************************************************************************)
EXTENDS Sequences

CONSTANTS
  Str,        \* the strings a message may carry, "" among them
  EmptyStr,   \* ""
  Nil         \* the nil pointer, slice or map

Versions == {"v1", "v1beta1"}
Methods  == {"NodePrepareResources", "NodeUnprepareResources"}

-----------------------------------------------------------------------------
(* Message types.                                                          *)

Claim    == [namespace : Str, uid : Str, name : Str]
StrSlice == {Nil} \cup Seq(Str)

\* ShareId is a *string of v1 only, so it may be unset.
Device(v) ==
  IF v = "v1"
    THEN [requestNames : StrSlice, poolName : Str, deviceName : Str,
          cdiDeviceIds : StrSlice, shareId : {Nil} \cup Str]
    ELSE [requestNames : StrSlice, poolName : Str, deviceName : Str,
          cdiDeviceIds : StrSlice]

PrepareEntry(v) ==
  [devices : {Nil} \cup Seq({Nil} \cup Device(v)), error : Str]
UnprepareEntry == [error : Str]

Entry(m, v) == IF m = "NodePrepareResources" THEN PrepareEntry(v)
                                             ELSE UnprepareEntry

\* Either request carries a list of claims, either response a map from the
\* UID of a claim to what became of it.
Request == [claims : {Nil} \cup Seq({Nil} \cup Claim)]

ClaimMap(m, v, f) ==
  f = Nil \/ \E U \in SUBSET Str : f \in [U -> {Nil} \cup Entry(m, v)]

IsResponse(m, v, r) == r \in [claims : {r.claims}] /\ ClaimMap(m, v, r.claims)

ASSUME EmptyStrAssumption == EmptyStr \in Str

\* Nil is none of the messages, slices and maps.
ASSUME NilAssumption ==
  /\ Nil \notin Claim
  /\ Nil \notin Seq({Nil} \cup Claim)
  /\ Nil \notin Seq(Str)
  /\ \A v \in Versions :
       /\ Nil \notin Device(v)
       /\ Nil \notin Seq({Nil} \cup Device(v))
       /\ \A m \in Methods :
            /\ Nil \notin Entry(m, v)
            /\ \A U \in SUBSET Str :
                 LET f == [U -> {Nil} \cup Entry(m, v)] IN
                 Nil \notin f /\ Nil \notin [claims : {Nil} \cup f]

-----------------------------------------------------------------------------
(* Conversions. The functions for the two directions differ in their types *)
(* and in ShareId only, hence one operator with the target version.        *)

ConvertClaim(in) ==
  [namespace |-> in.namespace, uid |-> in.uid, name |-> in.name]

\* Mutant: the target version is not looked at.
ConvertDeviceToV1(in, to) ==
  [requestNames |-> in.requestNames, poolName |-> in.poolName,
   deviceName |-> in.deviceName, cdiDeviceIds |-> in.cdiDeviceIds,
   shareId |-> Nil]

\* v1's ShareId has no counterpart in v1beta1 and is not set by a conversion.
ConvertDevice(in, to) ==
  IF to = "v1"
    THEN [requestNames |-> in.requestNames, poolName |-> in.poolName,
          deviceName |-> in.deviceName, cdiDeviceIds |-> in.cdiDeviceIds,
          shareId |-> Nil]
    ELSE [requestNames |-> in.requestNames, poolName |-> in.poolName,
          deviceName |-> in.deviceName, cdiDeviceIds |-> in.cdiDeviceIds]

ConvertPrepareEntry(in, to) ==
  [devices |-> IF in.devices = Nil
                 THEN Nil
                 ELSE [i \in DOMAIN in.devices |->
                         IF in.devices[i] = Nil
                           THEN Nil
                           ELSE ConvertDevice(in.devices[i], to)],
   error   |-> in.error]

\* Mutant: the only field is not assigned.
ConvertUnprepareEntryEmpty(in) == [error |-> EmptyStr]

ConvertUnprepareEntry(in) == [error |-> in.error]

\* Mutant: nil claims are skipped.
ConvertClaimsSkippingNil(claims) ==
  IF claims = Nil THEN Nil ELSE SelectSeq(claims, LAMBDA x : x # Nil)

\* The loop the conversions of both requests contain.
ConvertClaims(claims) ==
  IF claims = Nil
    THEN Nil
    ELSE [i \in DOMAIN claims |->
            IF claims[i] = Nil THEN Nil ELSE ConvertClaim(claims[i])]

ConvertPrepareRequest(in) == [claims |-> ConvertClaims(in.claims)]

ConvertUnprepareRequest(in) == [claims |-> ConvertClaims(in.claims)]

ConvertRequest(m, in) ==
  IF m = "NodePrepareResources" THEN ConvertPrepareRequest(in)
                                ELSE ConvertUnprepareRequest(in)

\* Mutant: nil entries are skipped.
ConvertPrepareResponseSkippingNil(in, to) ==
  [claims |-> IF in.claims = Nil
                THEN Nil
                ELSE [k \in {u \in DOMAIN in.claims : in.claims[u] # Nil} |->
                        ConvertPrepareEntry(in.claims[k], to)]]

ConvertPrepareResponse(in, to) ==
  [claims |-> IF in.claims = Nil
                THEN Nil
                ELSE [k \in DOMAIN in.claims |->
                        IF in.claims[k] = Nil
                          THEN Nil
                          ELSE ConvertPrepareEntry(in.claims[k], to)]]

ConvertUnprepareResponse(in) ==
  [claims |-> IF in.claims = Nil
                THEN Nil
                ELSE [k \in DOMAIN in.claims |->
                        IF in.claims[k] = Nil
                          THEN Nil
                          ELSE ConvertUnprepareEntry(in.claims[k])]]

ConvertResponse(m, in, to) ==
  IF m = "NodePrepareResources" THEN ConvertPrepareResponse(in, to)
                                ELSE ConvertUnprepareResponse(in)

-----------------------------------------------------------------------------
(* The wire (google.golang.org/protobuf, external): a list or a map        *)
(* without elements is not encoded and read back as nil; a nil element is  *)
(* encoded as a message of length 0 and read back as the zero message.     *)

ZeroClaim == [namespace |-> EmptyStr, uid |-> EmptyStr, name |-> EmptyStr]

ZeroDevice(v) ==
  IF v = "v1"
    THEN [requestNames |-> Nil, poolName |-> EmptyStr,
          deviceName |-> EmptyStr, cdiDeviceIds |-> Nil, shareId |-> Nil]
    ELSE [requestNames |-> Nil, poolName |-> EmptyStr,
          deviceName |-> EmptyStr, cdiDeviceIds |-> Nil]

ZeroEntry(m) ==
  IF m = "NodePrepareResources" THEN [devices |-> Nil, error |-> EmptyStr]
                                ELSE [error |-> EmptyStr]

ZeroResponse == [claims |-> Nil]

WireSlice(s) == IF s = <<>> THEN Nil ELSE s

WireDevice(d, v) ==
  IF d = Nil
    THEN ZeroDevice(v)
    ELSE [d EXCEPT !.requestNames = WireSlice(@),
                   !.cdiDeviceIds = WireSlice(@)]

WireEntry(m, e, v) ==
  IF e = Nil
    THEN ZeroEntry(m)
    ELSE IF m = "NodePrepareResources" /\ e.devices # Nil
      THEN [e EXCEPT !.devices =
              WireSlice([i \in DOMAIN e.devices |->
                           WireDevice(e.devices[i], v)])]
      ELSE e

WireRequest(r) ==
  IF r.claims = Nil
    THEN r
    ELSE [claims |-> WireSlice([i \in DOMAIN r.claims |->
                       IF r.claims[i] = Nil THEN ZeroClaim ELSE r.claims[i]])]

WireResponse(m, r, v) ==
  IF r.claims = Nil \/ DOMAIN r.claims = {}
    THEN ZeroResponse
    ELSE [claims |-> [k \in DOMAIN r.claims |-> WireEntry(m, r.claims[k], v)]]

-----------------------------------------------------------------------------
(* Messages as their getters show them: nil reads as the zero value.       *)

Elements(s)  == IF s = Nil THEN <<>> ELSE s
ClaimOf(x)   == IF x = Nil THEN ZeroClaim ELSE x
Keys(r)      == IF r = Nil \/ r.claims = Nil THEN {} ELSE DOMAIN r.claims
ErrorOf(e)   == IF e = Nil THEN EmptyStr ELSE e.error
DevicesOf(e) == IF e = Nil THEN <<>> ELSE Elements(e.devices)
ShareOf(d)   == IF d = Nil \/ "shareId" \notin DOMAIN d THEN Nil ELSE d.shareId
DeviceOf(d)  ==
  IF d = Nil
    THEN [requestNames |-> <<>>, poolName |-> EmptyStr,
          deviceName |-> EmptyStr, cdiDeviceIds |-> <<>>]
    ELSE [requestNames |-> Elements(d.requestNames), poolName |-> d.poolName,
          deviceName |-> d.deviceName,
          cdiDeviceIds |-> Elements(d.cdiDeviceIds)]

\* s is what the receiver of r gets: every claim, nil ones as empty ones.
Received(r, s) ==
  LET given == Elements(r.claims)
      got   == Elements(s.claims) IN
  /\ DOMAIN got = DOMAIN given
  /\ \A i \in DOMAIN given : got[i] = ClaimOf(given[i])

\* The same devices in the same order; their share IDs too, or none at all.
SameDevices(s, t, share) ==
  /\ DOMAIN s = DOMAIN t
  /\ \A i \in DOMAIN s :
       /\ DeviceOf(s[i]) = DeviceOf(t[i])
       /\ ShareOf(t[i]) = IF share THEN ShareOf(s[i]) ELSE Nil

\* The same claims, with the same error and the same devices.
SameEntries(m, r, s, share) ==
  /\ Keys(r) = Keys(s)
  /\ \A k \in Keys(r) :
       /\ ErrorOf(r.claims[k]) = ErrorOf(s.claims[k])
       /\ m = "NodePrepareResources" =>
            SameDevices(DevicesOf(r.claims[k]), DevicesOf(s.claims[k]), share)
=============================================================================
