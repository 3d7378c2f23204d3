----------------------- MODULE ApiObjectsProofs -----------------------
(***************************************************************************)
(* Proofs about ApiObjects, for any number of objects, pods and addresses  *)
(* and any schemes.                                                        *)
(*                                                                         *)
(* Of the tables of Conversions they need two facts: a conversion assigns  *)
(* the fields that both versions have, and a deep copy makes every         *)
(* reference anew.  What Install does to the order of versions is shown    *)
(* for lists of any versions, by induction over the lists.                 *)
(***************************************************************************)
EXTENDS ApiObjects, Induction

USE NoTextAssumption, NilAssumption, TextAssumption

\* A conversion assigns the fields that both versions have.
LEMMA ConversionTables ==
  ASSUME NEW c \in AllConversions
  PROVE  /\ c.from \in VersionsOf(c.type) /\ c.to \in VersionsOf(c.type)
         /\ c.sets = FieldsOf(c.type, c.from) \cap FieldsOf(c.type, c.to)
         /\ \A f \in c.sets : (f \in References(c.type, c.from))
                                <=> (f \in References(c.type, c.to))
<1> USE DEF VersionsOf, FieldsOf, References, Conversion, Types, Declared,
            ProviderTypes, ProviderInternalFields, DeviceReferences
<1>1. CASE c \in ProviderV1Conversions
  BY <1>1 DEF ProviderV1Conversions, ProviderV1Types, ProviderV1Fields,
              V1_AuthConfig_To_Internal, V1_AuthConfig_From_Internal,
              V1_Request_To_Internal, V1_Request_From_Internal,
              V1_Response_To_Internal, V1_Response_From_Internal
<1>2. CASE c \in ProviderV1beta1Conversions
  BY <1>2 DEF ProviderV1beta1Conversions, ProviderV1beta1Types,
              ProviderV1beta1Fields,
              V1beta1_AuthConfig_To_Internal, V1beta1_AuthConfig_From_Internal,
              V1beta1_Request_To_Internal, V1beta1_Request_From_Internal,
              V1beta1_Response_To_Internal, V1beta1_Response_From_Internal
<1>3. CASE c \in ProviderV1alpha1Conversions
  BY <1>3 DEF ProviderV1alpha1Conversions, ProviderV1alpha1Types,
              ProviderV1alpha1Fields,
              V1alpha1_AuthConfig_To_Internal, V1alpha1_AuthConfig_From_Internal,
              V1alpha1_Request_To_Internal, V1alpha1_Request_From_Internal,
              V1alpha1_Response_To_Internal, V1alpha1_Response_From_Internal
<1>4. CASE c \in {V1beta1_Device_To_V1, V1_Device_To_V1beta1}
  BY <1>4 DEF V1beta1_Device_To_V1, V1_Device_To_V1beta1, DRAV1Types,
              DRAV1beta1Types
<1> QED
  BY <1>1, <1>2, <1>3, <1>4 DEF AllConversions

\* A deep copy makes every reference anew.
LEMMA TypeTables ==
  ASSUME NEW t, NEW g \in VersionsOf(t)
  PROVE  /\ References(t, g) \subseteq FieldsOf(t, g)
         /\ Recreated(t, g) = References(t, g)
<1> USE DEF VersionsOf, FieldsOf, References, Recreated, Types
<1>1. CASE g \in {"draV1", "draV1beta1"}
  BY <1>1 DEF DRAV1Types, DRAV1beta1Types
<1>2. CASE g = "provider"
  BY <1>2 DEF ProviderTypes, Declared, Copied, ProviderInternalFields,
              ProviderInternalCopied
<1>3. CASE g = "providerV1"
  BY <1>3 DEF ProviderV1Types, Declared, Copied, ProviderV1Fields,
              ProviderV1Copied
<1>4. CASE g = "providerV1beta1"
  BY <1>4 DEF ProviderV1beta1Types, Declared, Copied, ProviderV1beta1Fields,
              ProviderV1beta1Copied
<1>5. CASE g = "providerV1alpha1"
  BY <1>5 DEF ProviderV1alpha1Types, Declared, Copied, ProviderV1alpha1Fields,
              ProviderV1alpha1Copied
<1> QED
  BY <1>1, <1>2, <1>3, <1>4, <1>5

\* If there is room, the new addresses are not in use and not the same.
LEMMA FreshAddresses ==
  ASSUME NEW fields, ~ NoRoomFor(fields)
  PROVE  /\ Fresh(fields) \in [fields -> Cells \ Addresses]
         /\ IsFresh(Fresh(fields), fields)
  BY DEF NoRoomFor, Fresh

-----------------------------------------------------------------------------
(* The inductive invariant.                                                *)

ReferencesOf(o) == References(type, Version(o))

WellFormed(x) ==
  /\ x = [version |-> x.version, field |-> x.field]
  /\ x.version \in VersionsOf(type)
  /\ x.field = [f \in FieldsOf(type, x.version) |-> x.field[f]]
  /\ \A f \in FieldsOf(type, x.version) :
       x.field[f] \in IF f \in References(type, x.version)
                      THEN Cells \cup {Nil} ELSE Text

Shape ==
  /\ type \in TypeNames
  /\ object = [o \in Objects |-> object[o]]
  /\ trace = [o \in Objects |-> trace[o]]
  /\ \A o \in InUse : WellFormed(object[o])

MemoryOK == memory \in [Addresses -> Text]

FamiliesOK ==
  /\ UNION families = InUse
  /\ \A a, b \in families : a # b => a \cap b = {}

Akin(x, y) == \E family \in families : x \in family /\ y \in family

\* Only the same field of objects of one family refers to the same address.
SharingOK ==
  \A x, y \in InUse : \A f \in ReferencesOf(x), h \in ReferencesOf(y) :
    object[x].field[f] = object[y].field[h] /\ object[x].field[f] # Nil
      => f = h /\ Akin(x, y)

TraceOK ==
  \A o \in InUse :
    /\ trace[o] = [pod |-> trace[o].pod, kept |-> trace[o].kept]
    /\ trace[o].kept \subseteq FieldsOf(type, Version(o))

ObjectsOK == Shape /\ MemoryOK /\ FamiliesOK /\ SharingOK

Inv == ObjectsOK /\ TraceOK /\ SaysWhatItsOriginSaid

-----------------------------------------------------------------------------
(* What every step that gives object n new fields has in common.           *)

\* The new references of x are nil, addresses where something new was left,
\* or what the same field of a relative refers to.
Placed(n, x, there) ==
  /\ DOMAIN there \cap Addresses = {}
  /\ \A c \in DOMAIN there : there[c] \in Text
  /\ \A f, h \in References(type, x.version) :
       x.field[f] = x.field[h] /\ x.field[f] # Nil => f = h
  /\ \A f \in References(type, x.version) :
       \/ x.field[f] = Nil
       \/ x.field[f] \in DOMAIN there
       \/ \E o \in InUse : /\ f \in ReferencesOf(o)
                           /\ x.field[f] = object[o].field[f]
                           /\ \A y \in InUse \ {n} : Akin(y, o) => Akin(y, n)'

\* What one reads in field f of x.
Reads(x, there, f) ==
  IF f \in References(type, x.version) /\ x.field[f] # Nil
  THEN IF x.field[f] \in DOMAIN there THEN there[x.field[f]]
                                      ELSE memory[x.field[f]]
  ELSE x.field[f]

\* The families divide the objects, and n joins or leaves without separating
\* others.
Divided(n) ==
  /\ UNION families' = InUse \cup {n}
  /\ \A a, b \in families' : a # b => a \cap b = {}
  /\ \A y, z \in InUse \ {n} : Akin(y, z) => Akin(y, z)'

\* Then the other objects stay what they were.
Settled(n, x, there) ==
  /\ ObjectsOK'
  /\ InUse' = InUse \cup {n}
  /\ \A m \in InUse \ {n} :
       /\ object'[m] = object[m]
       /\ \A f \in FieldsOf(type, Version(m)) : Read(m, f)' = Read(m, f)
       /\ Says(m)' = Says(m)
  /\ object'[n] = x
  /\ \A f \in FieldsOf(type, x.version) : Read(n, f)' = Reads(x, there, f)

LEMMA Placement ==
  ASSUME ObjectsOK,
         NEW n \in Objects, NEW x, NEW there,
         WellFormed(x), Placed(n, x, there),
         type' = type,
         object' = [object EXCEPT ![n] = x],
         memory' = Left(there),
         trace' = [o \in Objects |-> trace'[o]],
         Divided(n)
  PROVE  Settled(n, x, there)
<1>1. /\ object'[n] = x
      /\ \A m \in Objects \ {n} : object'[m] = object[m]
  BY DEF ObjectsOK, Shape
<1>2. x # Unused
  BY NilAssumption DEF WellFormed, Unused, VersionsOf
<1>3. InUse' = InUse \cup {n}
  BY <1>1, <1>2 DEF InUse
<1>4. FamiliesOK'
  BY <1>3 DEF Divided, FamiliesOK
<1>5. Shape'
  <2>1. object' = [o \in Objects |-> object'[o]]
    BY DEF ObjectsOK, Shape
  <2>2. \A y : WellFormed(y) => WellFormed(y)'
    BY DEF WellFormed
  <2>3. \A o \in InUse' : WellFormed(object[o])'
    <3>1. \A m \in InUse \ {n} : WellFormed(object[m])'
      BY <1>1, <2>2 DEF ObjectsOK, Shape, InUse, WellFormed
    <3>2. WellFormed(object[n])'
      BY <1>1, <2>2 DEF WellFormed
    <3> QED
      BY <1>3, <3>1, <3>2
  <2> QED
    BY <2>1, <2>3 DEF ObjectsOK, Shape
<1>6. \A m \in InUse \ {n} : \A f \in ReferencesOf(m) :
        object[m].field[f] # Nil => object[m].field[f] \in Addresses
  BY DEF Addresses, ReferencesOf
<1>7. \A m \in InUse' : \A f \in ReferencesOf(m)' :
        object'[m].field[f] # Nil => object'[m].field[f] \in Addresses'
  BY DEF Addresses, ReferencesOf
<1>8. \A m \in InUse \ {n} : ReferencesOf(m)' = ReferencesOf(m)
  BY <1>1 DEF InUse, ReferencesOf, Version
<1>9. ReferencesOf(n)' = References(type, x.version)
  BY <1>1 DEF ReferencesOf, Version
<1>10. \A c \in Addresses' : c \in DOMAIN there \/ c \in Addresses
  <2>1. SUFFICES ASSUME NEW m \in InUse', NEW f \in ReferencesOf(m)',
                        object'[m].field[f] # Nil
                 PROVE  \/ object'[m].field[f] \in DOMAIN there
                        \/ object'[m].field[f] \in Addresses
    BY DEF Addresses, ReferencesOf
  <2>2. CASE m = n
    BY <1>1, <1>9, <2>1, <2>2 DEF Placed, Addresses, ReferencesOf
  <2>3. CASE m # n
    BY <1>1, <1>3, <1>6, <1>8, <2>1, <2>3 DEF InUse
  <2> QED
    BY <2>2, <2>3
<1>11. MemoryOK'
  <2>1. memory' = [c \in Addresses' |->
                     IF c \in DOMAIN there THEN there[c] ELSE memory[c]]
    BY DEF Left
  <2>2. \A c \in Addresses' :
          (IF c \in DOMAIN there THEN there[c] ELSE memory[c]) \in Text
    BY <1>10 DEF Placed, ObjectsOK, MemoryOK
  <2> QED
    BY <2>1, <2>2 DEF MemoryOK, Text
<1>12. SharingOK'
  <2>1. SUFFICES ASSUME NEW y \in InUse', NEW z \in InUse',
                        NEW f \in ReferencesOf(y)', NEW h \in ReferencesOf(z)',
                        object'[y].field[f] = object'[z].field[h],
                        object'[y].field[f] # Nil
                 PROVE  f = h /\ Akin(y, z)'
    BY DEF SharingOK
  <2>2. CASE y # n /\ z # n
    BY <1>1, <1>3, <1>8, <2>1, <2>2 DEF ObjectsOK, SharingOK, InUse, Divided
  <2>3. CASE y = n /\ z = n
    <3>1. Akin(n, n)'
      BY <1>3, <1>4 DEF FamiliesOK, Akin
    <3> QED
      BY <1>1, <1>9, <2>1, <2>3, <3>1 DEF Placed
  <2>4. ASSUME NEW m \in InUse \ {n}, NEW i \in References(type, x.version),
               NEW j \in ReferencesOf(m),
               object[m].field[j] = x.field[i], x.field[i] # Nil
        PROVE  i = j /\ Akin(m, n)'
    <3>1. x.field[i] \notin DOMAIN there
      BY <1>6, <2>4 DEF Placed
    <3>2. PICK o \in InUse : /\ i \in ReferencesOf(o)
                             /\ x.field[i] = object[o].field[i]
                             /\ \A w \in InUse \ {n} : Akin(w, o) => Akin(w, n)'
      BY <2>4, <3>1 DEF Placed
    <3>3. i = j /\ Akin(m, o)
      BY <2>4, <3>2 DEF ObjectsOK, SharingOK
    <3> QED
      BY <3>2, <3>3
  <2>5. \A a, b : Akin(a, b)' => Akin(b, a)'
    BY DEF Akin
  <2>6. CASE y = n /\ z # n
    <3>1. z \in InUse \ {n} /\ h \in ReferencesOf(z)
          /\ object'[z] = object[z]
      BY <1>1, <1>3, <1>8, <2>6 DEF InUse
    <3> QED
      BY <1>1, <1>9, <2>1, <2>4, <2>5, <2>6, <3>1
  <2>7. CASE y # n /\ z = n
    <3>1. y \in InUse \ {n} /\ f \in ReferencesOf(y)
          /\ object'[y] = object[y]
      BY <1>1, <1>3, <1>8, <2>7 DEF InUse
    <3> QED
      BY <1>1, <1>9, <2>1, <2>4, <2>7, <3>1
  <2> QED
    BY <2>2, <2>3, <2>6, <2>7
<1>13. ASSUME NEW m \in InUse \ {n}, NEW f \in FieldsOf(type, Version(m))
       PROVE  Read(m, f)' = Read(m, f)
  <2>1. object'[m] = object[m] /\ Version(m)' = Version(m)
    BY <1>1 DEF InUse, Version
  <2>2. IsReference(m, f)' <=> IsReference(m, f)
    BY <2>1 DEF IsReference
  <2>3. CASE IsReference(m, f) /\ object[m].field[f] # Nil
    <3>1. /\ object[m].field[f] \in Addresses
          /\ object[m].field[f] \in Addresses'
      BY <1>3, <1>6, <1>7, <1>8, <2>1, <2>3 DEF IsReference, ReferencesOf
    <3>2. memory'[object[m].field[f]] = memory[object[m].field[f]]
      BY <3>1 DEF Left, Placed
    <3> QED
      BY <2>1, <2>2, <2>3, <3>2 DEF Read
  <2>4. CASE ~ (IsReference(m, f) /\ object[m].field[f] # Nil)
    BY <2>1, <2>2, <2>4 DEF Read
  <2> QED
    BY <2>3, <2>4
<1>14. ASSUME NEW m \in InUse \ {n}
       PROVE  Says(m)' = Says(m)
  <2>1. m \in InUse' /\ Version(m)' = Version(m)
    BY <1>1, <1>3 DEF InUse, Version
  <2> QED
    BY <1>13, <2>1 DEF Says
<1>15. ASSUME NEW f \in FieldsOf(type, x.version)
       PROVE  Read(n, f)' = Reads(x, there, f)
  <2>1. IsReference(n, f)' <=> f \in References(type, x.version)
    BY <1>1 DEF IsReference, Version
  <2>2. CASE f \in References(type, x.version) /\ x.field[f] # Nil
    <3>1. x.field[f] \in Addresses'
      BY <1>1, <1>3, <1>7, <1>9, <2>2
    <3> QED
      BY <1>1, <2>1, <2>2, <3>1 DEF Read, Reads, Left
  <2>3. CASE ~ (f \in References(type, x.version) /\ x.field[f] # Nil)
    BY <1>1, <2>1, <2>3 DEF Read, Reads
  <2> QED
    BY <2>2, <2>3
<1> QED
  BY <1>1, <1>3, <1>5, <1>11, <1>12, <1>13, <1>14, <1>15, <1>4
  DEF ObjectsOK, InUse, Settled

\* Such a step keeps the invariant if n says what it should.
Step(n) == /\ Inv'
           /\ n \in InUse'
           /\ \A m \in InUse \ {n} : Says(m)' = Says(m)

LEMMA PlacementKeepsInv ==
  ASSUME Inv,
         NEW n \in Objects, NEW x, NEW there, NEW pod, NEW kept,
         WellFormed(x), Placed(n, x, there),
         type' = type,
         object' = [object EXCEPT ![n] = x],
         memory' = Left(there),
         trace' = [trace EXCEPT ![n] = [pod |-> pod, kept |-> kept]],
         Divided(n),
         kept \subseteq FieldsOf(type, x.version),
         \A f \in FieldsOf(type, x.version) :
           Reads(x, there, f)
             \in {Changed, IF f \in kept THEN pod ELSE Zero(x.version)[f]}
  PROVE  Step(n)
<1>1. /\ trace' = [o \in Objects |-> trace'[o]]
      /\ trace'[n] = [pod |-> pod, kept |-> kept]
      /\ \A m \in Objects \ {n} : trace'[m] = trace[m]
  BY DEF Inv, ObjectsOK, Shape
<1>2. /\ ObjectsOK'
      /\ InUse' = InUse \cup {n}
      /\ \A m \in InUse \ {n} :
           /\ object'[m] = object[m]
           /\ \A f \in FieldsOf(type, Version(m)) : Read(m, f)' = Read(m, f)
           /\ Says(m)' = Says(m)
      /\ object'[n] = x
      /\ \A f \in FieldsOf(type, x.version) : Read(n, f)' = Reads(x, there, f)
  <2>1. ObjectsOK
    BY DEF Inv
  <2>2. Settled(n, x, there)
    BY <1>1, <2>1, Placement
  <2> QED
    BY <2>2 DEF Settled
<1>3. Version(n)' = x.version /\ \A m \in InUse \ {n} : Version(m)' = Version(m)
  BY <1>2 DEF Version
<1>4. TraceOK'
  BY <1>1, <1>2, <1>3 DEF Inv, TraceOK, InUse
<1>5. \A g : Zero(g)' = Zero(g)
  BY DEF Zero
<1>6. SaysWhatItsOriginSaid'
  <2>1. SUFFICES ASSUME NEW m \in InUse', NEW f \in FieldsOf(type, Version(m)')
                 PROVE  Read(m, f)' \in
                          {Changed, IF f \in trace'[m].kept THEN trace'[m].pod
                                    ELSE Zero(Version(m)')[f]}
    BY <1>5 DEF SaysWhatItsOriginSaid
  <2>2. CASE m = n
    BY <1>1, <1>2, <1>3, <2>1, <2>2
  <2>3. CASE m # n
    BY <1>1, <1>2, <1>3, <2>1, <2>3 DEF Inv, SaysWhatItsOriginSaid, InUse
  <2> QED
    BY <2>2, <2>3
<1> QED
  BY <1>2, <1>4, <1>6 DEF Inv, Step

\* The families without n.
LEMMA LeaveDivides ==
  ASSUME FamiliesOK, NEW n
  PROVE  /\ UNION Leave(n) = InUse \ {n}
         /\ \A a, b \in Leave(n) : a # b => a \cap b = {}
         /\ \A a \in Leave(n) : n \notin a
         /\ \A family \in families : \A y \in family :
              y # n => family \ {n} \in Leave(n)
<1>1. \A a \in Leave(n) : n \notin a
  BY DEF Leave
<1>2. \A a \in Leave(n) : \E family \in families : a = family \ {n}
  BY DEF Leave
<1>3. \A family \in families : \A y \in family :
        y # n => family \ {n} \in Leave(n)
  BY DEF Leave
<1>4. ASSUME NEW a \in Leave(n), NEW b \in Leave(n), a # b
      PROVE  a \cap b = {}
  <2>1. PICK c \in families : a = c \ {n}
    BY <1>2
  <2>2. PICK d \in families : b = d \ {n}
    BY <1>2
  <2>3. c \cap d = {}
    BY <1>4, <2>1, <2>2 DEF FamiliesOK
  <2> QED
    BY <2>1, <2>2, <2>3
<1>5. ASSUME NEW y \in UNION Leave(n)
      PROVE  y \in InUse \ {n}
  <2>1. PICK a \in Leave(n) : y \in a
    OBVIOUS
  <2>2. PICK family \in families : a = family \ {n}
    BY <1>2
  <2> QED
    BY <2>1, <2>2 DEF FamiliesOK
<1>6. ASSUME NEW y \in InUse \ {n}
      PROVE  y \in UNION Leave(n)
  <2>1. PICK family \in families : y \in family
    BY DEF FamiliesOK
  <2>2. family \ {n} \in Leave(n) /\ y \in family \ {n}
    BY <1>3, <1>6, <2>1
  <2> QED
    BY <2>2
<1>7. UNION Leave(n) = InUse \ {n}
  BY <1>5, <1>6
<1> QED
  BY <1>1, <1>3, <1>4, <1>7

\* A new family, and a member more.
LEMMA FoundDivides ==
  ASSUME FamiliesOK, NEW n, families' = Found(n)
  PROVE  Divided(n)
<1>1. /\ UNION Leave(n) = InUse \ {n}
      /\ \A a, b \in Leave(n) : a # b => a \cap b = {}
      /\ \A a \in Leave(n) : n \notin a
      /\ \A family \in families : \A y \in family :
           y # n => family \ {n} \in Leave(n)
  BY LeaveDivides
<1>2. UNION families' = InUse \cup {n}
  <2>1. ASSUME NEW y \in UNION families' PROVE y \in InUse \cup {n}
    <3>1. PICK a \in families' : y \in a
      OBVIOUS
    <3>2. a \in Leave(n) \/ a = {n}
      BY DEF Found
    <3> QED
      BY <1>1, <3>1, <3>2
  <2>2. ASSUME NEW y \in InUse \ {n} PROVE y \in UNION families'
    BY <1>1 DEF Found
  <2>3. n \in UNION families'
    BY DEF Found
  <2> QED
    BY <2>1, <2>2, <2>3
<1>3. \A a, b \in families' : a # b => a \cap b = {}
  BY <1>1 DEF Found
<1>4. ASSUME NEW y \in InUse \ {n}, NEW z \in InUse \ {n}, Akin(y, z)
      PROVE  Akin(y, z)'
  <2>1. PICK family \in families : y \in family /\ z \in family
    BY <1>4 DEF Akin
  <2>2. family \ {n} \in families'
    BY <1>1, <2>1 DEF Found
  <2> QED
    BY <2>1, <2>2 DEF Akin
<1> QED
  BY <1>2, <1>3, <1>4 DEF Divided

LEMMA JoinDivides ==
  ASSUME FamiliesOK, NEW n, NEW o \in InUse, n # o, families' = Join(n, o)
  PROVE  /\ Divided(n)
         /\ \A y \in InUse \ {n} : Akin(y, o) => Akin(y, n)'
<1>1. /\ UNION Leave(n) = InUse \ {n}
      /\ \A a, b \in Leave(n) : a # b => a \cap b = {}
      /\ \A a \in Leave(n) : n \notin a
      /\ \A family \in families : \A y \in family :
           y # n => family \ {n} \in Leave(n)
  BY LeaveDivides
<1>2. \A a \in families' :
        \E b \in Leave(n) : a = IF o \in b THEN b \cup {n} ELSE b
  BY DEF Join
<1>3. \A b \in Leave(n) :
        (IF o \in b THEN b \cup {n} ELSE b) \in families'
  BY DEF Join
<1>4. UNION families' = InUse \cup {n}
  <2>1. PICK b \in Leave(n) : o \in b
    BY <1>1
  <2>2. n \in UNION families'
    BY <1>3, <2>1
  <2>3. ASSUME NEW y \in InUse \ {n} PROVE y \in UNION families'
    <3>1. PICK c \in Leave(n) : y \in c
      BY <1>1
    <3>2. PICK a \in families' : a = IF o \in c THEN c \cup {n} ELSE c
      BY <1>3
    <3>3. y \in a
      BY <3>1, <3>2
    <3> QED
      BY <3>3
  <2>4. ASSUME NEW y \in UNION families' PROVE y \in InUse \cup {n}
    <3>1. PICK a \in families' : y \in a
      OBVIOUS
    <3>2. PICK c \in Leave(n) : a = IF o \in c THEN c \cup {n} ELSE c
      BY <1>2
    <3>3. \A z \in c : z \in UNION Leave(n)
      OBVIOUS
    <3>4. y \in c \/ y = n
      BY <3>1, <3>2
    <3> QED
      BY <1>1, <3>3, <3>4
  <2> QED
    BY <2>2, <2>3, <2>4
<1>5. ASSUME NEW a \in families', NEW b \in families', a # b
      PROVE  a \cap b = {}
  <2>1. PICK c \in Leave(n) : a = IF o \in c THEN c \cup {n} ELSE c
    BY <1>2
  <2>2. PICK d \in Leave(n) : b = IF o \in d THEN d \cup {n} ELSE d
    BY <1>2
  <2>3. c \cap d = {}
    BY <1>1, <1>5, <2>1, <2>2, ZenonT(60)
  <2> QED
    BY <1>1, <2>1, <2>2, <2>3
<1>6. ASSUME NEW y \in InUse \ {n}, NEW z \in InUse \ {n}, Akin(y, z)
      PROVE  Akin(y, z)'
  <2>1. PICK family \in families : y \in family /\ z \in family
    BY <1>6 DEF Akin
  <2>2. family \ {n} \in Leave(n)
    BY <1>1, <2>1
  <2>3. PICK a \in families' :
          a = IF o \in family \ {n} THEN (family \ {n}) \cup {n}
                                    ELSE family \ {n}
    BY <1>3, <2>2
  <2> QED
    BY <2>1, <2>3 DEF Akin
<1>7. ASSUME NEW y \in InUse \ {n}, Akin(y, o)
      PROVE  Akin(y, n)'
  <2>1. PICK family \in families : y \in family /\ o \in family
    BY <1>7 DEF Akin
  <2>2. family \ {n} \in Leave(n) /\ o \in family \ {n}
    BY <1>1, <2>1
  <2>3. (family \ {n}) \cup {n} \in families'
    BY <1>3, <2>2
  <2> QED
    BY <2>1, <2>3 DEF Akin
<1> QED
  BY <1>4, <1>5, <1>6, <1>7 DEF Divided

-----------------------------------------------------------------------------
(* The actions.                                                            *)

LEMMA NewStep ==
  ASSUME Inv, NEW o \in Objects, NEW g \in VersionsOf(type), NEW p \in Pods,
         NEW given \in SUBSET FieldsOf(type, g), New(o, g, p, given)
  PROVE  Step(o)
<1> DEFINE set == References(type, g) \cap given
           fresh == Fresh(set)
           there == [c \in {fresh[f] : f \in set} |-> p]
           x == [version |-> g,
                 field |-> [f \in FieldsOf(type, g) |->
                              IF f \in set THEN fresh[f]
                              ELSE IF f \in given THEN p ELSE Zero(g)[f]]]
<1>1. /\ fresh \in [set -> Cells \ Addresses]
      /\ IsFresh(fresh, set)
  BY FreshAddresses DEF New
<1>2. /\ type' = type
      /\ object' = [object EXCEPT ![o] = x]
      /\ memory' = Left(there)
      /\ trace' = [trace EXCEPT ![o] = [pod |-> p, kept |-> given]]
  BY DEF New
<1>3. References(type, g) \subseteq FieldsOf(type, g)
  BY TypeTables
<1>4. WellFormed(x)
  BY <1>1, <1>3 DEF WellFormed, Zero, Text
<1>5. Placed(o, x, there)
  <2>1. DOMAIN there \cap Addresses = {} /\ \A c \in DOMAIN there : there[c] \in Text
    BY <1>1 DEF Text
  <2>2. \A f \in References(type, g) : x.field[f] = IF f \in set THEN fresh[f] ELSE Nil
    BY <1>3 DEF Zero
  <2>3. \A f, h \in References(type, g) :
          x.field[f] = x.field[h] /\ x.field[f] # Nil => f = h
    BY <1>1, <2>2 DEF IsFresh
  <2>4. \A f \in References(type, g) : x.field[f] = Nil \/ x.field[f] \in DOMAIN there
    BY <2>2
  <2> HIDE DEF set, fresh, there
  <2> QED
    BY <2>1, <2>3, <2>4 DEF Placed
<1>6. Divided(o)
  BY FoundDivides DEF New, Inv, ObjectsOK
<1>7. \A f \in FieldsOf(type, g) :
        Reads(x, there, f) \in {Changed, IF f \in given THEN p ELSE Zero(g)[f]}
  <2>1. SUFFICES ASSUME NEW f \in FieldsOf(type, g)
                 PROVE  Reads(x, there, f) =
                          IF f \in given THEN p ELSE Zero(g)[f]
    OBVIOUS
  <2>2. CASE f \in set
    <3>1. x.field[f] \in DOMAIN there /\ x.field[f] # Nil
      BY <1>1, <2>2
    <3> QED
      BY <2>2, <3>1 DEF Reads
  <2>3. CASE f \notin set
    BY <2>3 DEF Reads, Zero
  <2> QED
    BY <2>2, <2>3
<1> HIDE DEF there, fresh, set
<1>8. x.version = g
  OBVIOUS
<1> HIDE DEF x
<1> QED
  BY <1>2, <1>4, <1>5, <1>6, <1>7, <1>8, PlacementKeepsInv

LEMMA PassesTrace ==
  ASSUME Inv, NEW o \in InUse, NEW n, NEW g, Passes(o, n, g)
  PROVE  trace' = [trace EXCEPT ![n] =
                     [pod |-> trace[o].pod,
                      kept |-> trace[o].kept \cap FieldsOf(type, g)]]
<1> DEFINE t == trace[o]
           kept == t.kept \cap FieldsOf(type, g)
<1>1. t = [pod |-> t.pod, kept |-> t.kept]
  BY DEF Inv, TraceOK
<1> HIDE DEF t
<1>2. [t EXCEPT !.kept = t.kept \cap FieldsOf(type, g)]
        = [pod |-> t.pod, kept |-> kept]
  BY <1>1
<1> USE DEF t
<1> QED
  BY <1>2 DEF Passes

LEMMA ConvertStep ==
  ASSUME Inv, NEW o \in Objects, NEW n \in Objects, NEW c \in AllConversions,
         Convert(o, n, c)
  PROVE  Step(n)
<1> DEFINE in == object[o].field
           out == IF n \in InUse THEN object[n].field ELSE Zero(c.to)
           x == [version |-> c.to, field |-> Converted(c, in, out)]
           kept == trace[o].kept \cap FieldsOf(type, c.to)
<1>1. /\ o \in InUse /\ n # o /\ c.type = type /\ c.from = Version(o)
      /\ n \in InUse => FieldsOf(type, c.to) \subseteq FieldsOf(type, c.from)
      /\ type' = type
      /\ object' = [object EXCEPT ![n] = x]
      /\ memory' = Left(<<>>)
      /\ families' = Join(n, o)
      /\ trace' = [trace EXCEPT ![n] = [pod |-> trace[o].pod, kept |-> kept]]
  BY PassesTrace DEF Convert, Takes, MayConvertInto
<1>2. /\ c.from \in VersionsOf(type) /\ c.to \in VersionsOf(type)
      /\ c.sets = FieldsOf(type, c.from) \cap FieldsOf(type, c.to)
      /\ \A f \in c.sets : (f \in References(type, c.from))
                             <=> (f \in References(type, c.to))
  BY <1>1, ConversionTables
<1>3. References(type, c.to) \subseteq FieldsOf(type, c.to)
  BY <1>2, TypeTables
<1>4. \A f \in FieldsOf(type, c.to) :
        x.field[f] = IF f \in c.sets THEN in[f] ELSE Zero(c.to)[f]
  BY <1>1, <1>2 DEF Converted
<1>5. \A f \in FieldsOf(type, c.from) :
        in[f] \in IF f \in References(type, c.from) THEN Cells \cup {Nil} ELSE Text
  BY <1>1 DEF Inv, ObjectsOK, Shape, WellFormed, Version
<1>6. WellFormed(x)
  <2>1. x = [version |-> x.version, field |-> x.field] /\ x.version = c.to
    OBVIOUS
  <2>2. x.field = [f \in FieldsOf(type, c.to) |-> x.field[f]]
    BY DEF Converted
  <2>3. \A f \in FieldsOf(type, c.to) :
          x.field[f] \in IF f \in References(type, c.to)
                         THEN Cells \cup {Nil} ELSE Text
    BY <1>2, <1>4, <1>5 DEF Zero, Text
  <2> HIDE DEF x
  <2> QED
    BY <1>2, <2>1, <2>2, <2>3 DEF WellFormed
<1>7. Divided(n) /\ \A y \in InUse \ {n} : Akin(y, o) => Akin(y, n)'
  BY <1>1, JoinDivides DEF Inv, ObjectsOK
<1>8. Placed(n, x, <<>>)
  <2>1. \A f \in References(type, c.to) :
          x.field[f] = Nil \/ (f \in ReferencesOf(o) /\ x.field[f] = in[f])
    BY <1>1, <1>2, <1>3, <1>4 DEF Zero, ReferencesOf
  <2>2. \A f, h \in References(type, c.to) :
          x.field[f] = x.field[h] /\ x.field[f] # Nil => f = h
    BY <1>1, <2>1 DEF Inv, ObjectsOK, SharingOK
  <2>3. x.version = c.to
    OBVIOUS
  <2> HIDE DEF x
  <2> QED
    BY <1>1, <1>7, <2>1, <2>2, <2>3 DEF Placed
<1>9. \A f \in FieldsOf(type, c.to) :
        Reads(x, <<>>, f)
          \in {Changed, IF f \in kept THEN trace[o].pod ELSE Zero(c.to)[f]}
  <2>1. SUFFICES ASSUME NEW f \in FieldsOf(type, c.to)
                 PROVE  Reads(x, <<>>, f) \in
                   {Changed, IF f \in kept THEN trace[o].pod ELSE Zero(c.to)[f]}
    OBVIOUS
  <2>2. CASE f \in c.sets
    <3>1. Reads(x, <<>>, f) = Read(o, f)
      BY <1>1, <1>2, <1>4, <2>2 DEF Reads, Read, IsReference
    <3>2. Read(o, f) \in {Changed, IF f \in trace[o].kept THEN trace[o].pod
                                   ELSE Zero(c.from)[f]}
      BY <1>1, <1>2, <2>2 DEF Inv, SaysWhatItsOriginSaid
    <3>3. Zero(c.from)[f] = Zero(c.to)[f]
      BY <1>2, <2>2 DEF Zero
    <3> QED
      BY <3>1, <3>2, <3>3
  <2>3. CASE f \notin c.sets
    <3>1. f \notin kept
      BY <1>1, <1>2, <2>3 DEF Inv, TraceOK
    <3>2. Reads(x, <<>>, f) = Zero(c.to)[f]
      BY <1>4, <2>3 DEF Reads, Zero
    <3> QED
      BY <3>1, <3>2
  <2> QED
    BY <2>2, <2>3
<1>10. x.version = c.to /\ kept \subseteq FieldsOf(type, c.to)
  OBVIOUS
<1> DEFINE pod == trace[o].pod
<1>11. /\ trace' = [trace EXCEPT ![n] = [pod |-> pod, kept |-> kept]]
       /\ kept \subseteq FieldsOf(type, x.version)
       /\ \A f \in FieldsOf(type, x.version) :
            Reads(x, <<>>, f)
              \in {Changed, IF f \in kept THEN pod ELSE Zero(x.version)[f]}
  BY <1>1, <1>9, <1>10
<1> HIDE DEF x, kept, pod
<1> QED
  BY <1>1, <1>6, <1>7, <1>8, <1>11, PlacementKeepsInv

\* A copy of o as an object of version g, with the fields that both have.
LEMMA CopyStep ==
  ASSUME Inv, NEW o \in InUse, NEW n \in Objects, n # o,
         NEW g \in VersionsOf(type), NEW sets, NEW fields, NEW fresh, NEW x,
         sets = FieldsOf(type, Version(o)) \cap FieldsOf(type, g),
         \A f \in sets : f \in ReferencesOf(o) <=> f \in References(type, g),
         fields = SetReferences(o, ReferencesOf(o)),
         fresh \in [fields -> Cells \ Addresses],
         IsFresh(fresh, fields),
         x = [version |-> g,
              field |-> [f \in FieldsOf(type, g) |->
                           IF f \in sets
                           THEN Renew(object[o].field, fields, fresh)[f]
                           ELSE Zero(g)[f]]],
         type' = type,
         object' = [object EXCEPT ![n] = x],
         memory' = Left(Filled(object[o].field, fields, fresh)),
         families' = Found(n),
         Passes(o, n, g)
  PROVE  Step(n)
<1> DEFINE in == object[o].field
           there == Filled(in, fields, fresh)
           pod == trace[o].pod
           kept == trace[o].kept \cap FieldsOf(type, g)
<1>1. /\ in = [f \in FieldsOf(type, Version(o)) |-> in[f]]
      /\ Version(o) \in VersionsOf(type)
      /\ \A f \in FieldsOf(type, Version(o)) :
           in[f] \in IF f \in ReferencesOf(o) THEN Cells \cup {Nil} ELSE Text
  BY DEF Inv, ObjectsOK, Shape, WellFormed, Version, ReferencesOf
<1>2. /\ References(type, g) \subseteq FieldsOf(type, g)
      /\ ReferencesOf(o) \subseteq FieldsOf(type, Version(o))
  BY <1>1, TypeTables DEF ReferencesOf
<1>3. fields = {f \in ReferencesOf(o) : in[f] # Nil}
  BY DEF SetReferences
<1>4. \A f \in sets : Renew(in, fields, fresh)[f]
                        = IF f \in fields THEN fresh[f] ELSE in[f]
  <2>1. DOMAIN in = FieldsOf(type, Version(o))
    BY <1>1
  <2> HIDE DEF in
  <2> QED
    BY <2>1 DEF Renew
<1>5. /\ x.version = g
      /\ x = [version |-> x.version, field |-> x.field]
      /\ x.field = [f \in FieldsOf(type, g) |-> x.field[f]]
      /\ \A f \in FieldsOf(type, g) :
           x.field[f] = IF f \in sets
                        THEN IF f \in fields THEN fresh[f] ELSE in[f]
                        ELSE Zero(g)[f]
  BY <1>4
<1>6. DOMAIN there = {fresh[f] : f \in fields}
  BY DEF Filled
<1>7. \A f \in fields : there[fresh[f]] = memory[in[f]]
  <2>1. SUFFICES ASSUME NEW f \in fields
                 PROVE  there[fresh[f]] = memory[in[f]]
    OBVIOUS
  <2>2. (CHOOSE h \in fields : fresh[h] = fresh[f]) = f
    BY DEF IsFresh
  <2> HIDE DEF in
  <2> QED
    BY <2>2 DEF Filled
<1>8. \A f \in fields : in[f] \in Addresses
  BY <1>3 DEF Addresses, ReferencesOf
<1> HIDE DEF in, there
<1>9. WellFormed(x)
  <2>1. \A f \in FieldsOf(type, g) :
          x.field[f] \in IF f \in References(type, g)
                         THEN Cells \cup {Nil} ELSE Text
    BY <1>1, <1>2, <1>3, <1>5 DEF Zero, Text
  <2> QED
    BY <1>5, <2>1 DEF WellFormed
<1>10. Placed(n, x, there)
  <2>1. DOMAIN there \cap Addresses = {}
    BY <1>6
  <2>2. \A c \in DOMAIN there : there[c] \in Text
    BY <1>6, <1>7, <1>8 DEF Inv, ObjectsOK, MemoryOK
  <2>3. \A f \in References(type, g) :
          x.field[f] = IF f \in sets /\ f \in fields THEN fresh[f] ELSE Nil
    BY <1>2, <1>3, <1>5 DEF Zero
  <2>4. \A f, h \in References(type, g) :
          x.field[f] = x.field[h] /\ x.field[f] # Nil => f = h
    BY <2>3 DEF IsFresh
  <2>5. \A f \in References(type, g) :
          x.field[f] = Nil \/ x.field[f] \in DOMAIN there
    BY <1>6, <2>3
  <2> QED
    BY <1>5, <2>1, <2>2, <2>4, <2>5 DEF Placed
<1>11. Divided(n)
  BY FoundDivides DEF Inv, ObjectsOK
<1>12. ASSUME NEW f \in FieldsOf(type, g)
       PROVE  Reads(x, there, f)
                \in {Changed, IF f \in kept THEN pod ELSE Zero(g)[f]}
  <2>1. CASE f \in sets
    <3>1. Reads(x, there, f) = Read(o, f)
      <4>1. CASE f \in fields
        <5>1. x.field[f] = fresh[f] /\ fresh[f] \in DOMAIN there
              /\ fresh[f] # Nil
          BY <1>5, <1>6, <2>1, <4>1
        <5>2. Reads(x, there, f) = there[fresh[f]]
          BY <1>3, <1>5, <2>1, <4>1, <5>1 DEF Reads
        <5>3. Read(o, f) = memory[in[f]]
          BY <1>3, <4>1 DEF Read, IsReference, ReferencesOf, in
        <5> QED
          BY <1>7, <4>1, <5>2, <5>3
      <4>2. CASE f \notin fields
        <5>1. x.field[f] = in[f]
          BY <1>5, <2>1, <4>2
        <5>2. f \in ReferencesOf(o) => in[f] = Nil
          BY <1>3, <4>2
        <5> QED
          BY <1>5, <2>1, <5>1, <5>2 DEF Reads, Read, IsReference, ReferencesOf, in
      <4> QED
        BY <4>1, <4>2
    <3>2. Read(o, f) \in {Changed, IF f \in trace[o].kept THEN trace[o].pod
                                   ELSE Zero(Version(o))[f]}
      BY <2>1 DEF Inv, SaysWhatItsOriginSaid
    <3>3. Zero(Version(o))[f] = Zero(g)[f]
      BY <2>1 DEF Zero, ReferencesOf
    <3> QED
      BY <3>1, <3>2, <3>3
  <2>2. CASE f \notin sets
    <3>1. f \notin kept
      BY <2>2 DEF Inv, TraceOK
    <3>2. Reads(x, there, f) = Zero(g)[f]
      BY <1>5, <2>2 DEF Reads, Zero
    <3> QED
      BY <3>1, <3>2
  <2> QED
    BY <2>1, <2>2
<1>13. /\ trace' = [trace EXCEPT ![n] = [pod |-> pod, kept |-> kept]]
       /\ memory' = Left(there)
       /\ kept \subseteq FieldsOf(type, x.version)
       /\ \A f \in FieldsOf(type, x.version) :
            Reads(x, there, f)
              \in {Changed, IF f \in kept THEN pod ELSE Zero(x.version)[f]}
  BY <1>5, <1>12, PassesTrace DEF there, in
<1> HIDE DEF kept, pod
<1> QED
  BY <1>9, <1>10, <1>11, <1>13, PlacementKeepsInv

LEMMA DeepCopyStep ==
  ASSUME Inv, NEW o \in Objects, NEW n \in Objects, DeepCopy(o, n)
  PROVE  Step(n)
<1> DEFINE g == Version(o)
           sets == FieldsOf(type, g)
           fields == SetReferences(o, ReferencesOf(o))
           fresh == Fresh(fields)
           in == object[o].field
           x == [version |-> g,
                 field |-> [f \in FieldsOf(type, g) |->
                              IF f \in sets THEN Renew(in, fields, fresh)[f]
                              ELSE Zero(g)[f]]]
<1>1. o \in InUse /\ n # o
  BY DEF DeepCopy
<1>2. g \in VersionsOf(type) /\ DOMAIN in = FieldsOf(type, g)
  BY <1>1 DEF Inv, ObjectsOK, Shape, WellFormed, Version
<1>3. Recreated(type, g) = ReferencesOf(o)
  BY <1>2, TypeTables DEF ReferencesOf
<1>4. Renew(in, fields, fresh) = x.field
  BY <1>2 DEF Renew
<1>5. /\ type' = type
      /\ object' = [object EXCEPT ![n] = x]
      /\ memory' = Left(Filled(in, fields, fresh))
      /\ families' = Found(n)
      /\ Passes(o, n, g)
      /\ ~ NoRoomFor(fields)
  BY <1>3, <1>4 DEF DeepCopy
<1>6. fresh \in [fields -> Cells \ Addresses] /\ IsFresh(fresh, fields)
  BY <1>5, FreshAddresses
<1>7. /\ sets = FieldsOf(type, Version(o)) \cap FieldsOf(type, g)
      /\ \A f \in sets : f \in ReferencesOf(o) <=> f \in References(type, g)
      /\ fields = SetReferences(o, ReferencesOf(o))
      /\ x = [version |-> g,
              field |-> [f \in FieldsOf(type, g) |->
                           IF f \in sets
                           THEN Renew(object[o].field, fields, fresh)[f]
                           ELSE Zero(g)[f]]]
  BY DEF ReferencesOf
<1> HIDE DEF g, sets, fields, fresh, x
<1> QED
  BY <1>1, <1>2, <1>5, <1>6, <1>7, CopyStep

LEMMA ConvertToVersionStep ==
  ASSUME Inv, NEW o \in Objects, NEW n \in Objects, NEW c \in AllConversions,
         ConvertToVersion(o, n, c)
  PROVE  Step(n)
<1> DEFINE g == c.to
           sets == c.sets
           fields == SetReferences(o, ReferencesOf(o))
           fresh == Fresh(fields)
           in == object[o].field
           x == [version |-> g,
                 field |-> [f \in FieldsOf(type, g) |->
                              IF f \in sets THEN Renew(in, fields, fresh)[f]
                              ELSE Zero(g)[f]]]
<1>1. o \in InUse /\ n # o /\ c.type = type /\ c.from = Version(o)
  BY DEF ConvertToVersion, Takes
<1>2. /\ g \in VersionsOf(type)
      /\ sets = FieldsOf(type, Version(o)) \cap FieldsOf(type, g)
      /\ \A f \in sets : f \in ReferencesOf(o) <=> f \in References(type, g)
  BY <1>1, ConversionTables DEF ReferencesOf
<1>3. Recreated(type, c.from) = ReferencesOf(o)
  BY <1>1, ConversionTables, TypeTables DEF ReferencesOf
<1>4. Converted(c, Renew(in, fields, fresh), Zero(c.to)) = x.field
  BY DEF Converted
<1>5. /\ type' = type
      /\ object' = [object EXCEPT ![n] = x]
      /\ memory' = Left(Filled(in, fields, fresh))
      /\ families' = Found(n)
      /\ Passes(o, n, g)
      /\ ~ NoRoomFor(fields)
  BY <1>3, <1>4 DEF ConvertToVersion
<1>6. fresh \in [fields -> Cells \ Addresses] /\ IsFresh(fresh, fields)
  BY <1>5, FreshAddresses
<1>7. /\ fields = SetReferences(o, ReferencesOf(o))
      /\ x = [version |-> g,
              field |-> [f \in FieldsOf(type, g) |->
                           IF f \in sets
                           THEN Renew(object[o].field, fields, fresh)[f]
                           ELSE Zero(g)[f]]]
  OBVIOUS
<1> HIDE DEF g, sets, fields, fresh, x
<1> QED
  BY <1>1, <1>2, <1>5, <1>6, <1>7, CopyStep

LEMMA ReplaceStep ==
  ASSUME Inv, NEW o \in Objects, NEW f, Replace(o, f)
  PROVE  Step(o)
<1> DEFINE g == Version(o)
           in == object[o].field
           new == Fresh({f})[f]
           there == [c \in {new} |-> Changed]
           x == [version |-> g, field |-> [in EXCEPT ![f] = new]]
           pod == trace[o].pod
           kept == trace[o].kept
<1>1. /\ o \in InUse /\ f \in References(type, g)
      /\ type' = type /\ families' = families /\ trace' = trace
      /\ memory' = Left(there)
      /\ ~ NoRoomFor({f})
  BY DEF Replace
<1>2. /\ object[o] = [version |-> g, field |-> in]
      /\ g \in VersionsOf(type)
      /\ in = [h \in FieldsOf(type, g) |-> in[h]]
      /\ \A h \in FieldsOf(type, g) :
           in[h] \in IF h \in References(type, g) THEN Cells \cup {Nil} ELSE Text
  BY <1>1 DEF Inv, ObjectsOK, Shape, WellFormed, Version
<1>3. References(type, g) \subseteq FieldsOf(type, g)
  BY <1>2, TypeTables
<1>4. new \in Cells \ Addresses
  BY <1>1, FreshAddresses
<1>5. [object[o] EXCEPT !.field = [object[o].field EXCEPT ![f] = new]] = x
  <2> DEFINE y == object[o]
  <2> HIDE DEF y, new, g
  <2>1. y = [version |-> g, field |-> y.field]
    BY <1>2 DEF y, g
  <2>2. [y EXCEPT !.field = [y.field EXCEPT ![f] = new]]
          = [version |-> g, field |-> [y.field EXCEPT ![f] = new]]
    BY <2>1
  <2> QED
    BY <2>2 DEF y
<1>6. object' = [object EXCEPT ![o] = x]
  BY <1>5 DEF Replace
<1>7. /\ x.version = g
      /\ x = [version |-> x.version, field |-> x.field]
      /\ x.field = [h \in FieldsOf(type, g) |-> x.field[h]]
      /\ \A h \in FieldsOf(type, g) :
           x.field[h] = IF h = f THEN new ELSE in[h]
  BY <1>1, <1>2, <1>3
<1> HIDE DEF x, new, in
<1>8. WellFormed(x)
  BY <1>1, <1>2, <1>4, <1>7 DEF WellFormed
<1>9. Divided(o)
  BY <1>1 DEF Divided, Akin, Inv, ObjectsOK, FamiliesOK
<1>10. \A h \in References(type, g) : in[h] = Nil \/ in[h] \in Addresses
  BY <1>1 DEF Addresses, in
<1>11. Placed(o, x, there)
  <2>1. DOMAIN there \cap Addresses = {} /\ \A c \in DOMAIN there : there[c] \in Text
    BY <1>4 DEF Text
  <2>2. \A h, i \in References(type, g) :
          x.field[h] = x.field[i] /\ x.field[h] # Nil => h = i
    <3>1. \A h, i \in References(type, g) : in[h] = in[i] /\ in[h] # Nil => h = i
      BY <1>1 DEF Inv, ObjectsOK, SharingOK, ReferencesOf, in
    <3> QED
      BY <1>3, <1>4, <1>7, <1>10, <3>1
  <2>3. \A y \in InUse \ {o} : Akin(y, o) => Akin(y, o)'
    BY <1>1 DEF Akin
  <2>4. \A h \in References(type, g) :
          h = f => x.field[h] \in DOMAIN there
    BY <1>1, <1>3, <1>7
  <2>5. \A h \in References(type, g) :
          h # f => h \in ReferencesOf(o) /\ x.field[h] = object[o].field[h]
    BY <1>3, <1>7 DEF ReferencesOf, in
  <2> HIDE DEF there
  <2> QED
    BY <1>1, <1>7, <2>1, <2>2, <2>3, <2>4, <2>5 DEF Placed
<1>12. ASSUME NEW h \in FieldsOf(type, g)
       PROVE  Reads(x, there, h)
                \in {Changed, IF h \in kept THEN pod ELSE Zero(g)[h]}
  <2>1. CASE h = f
    BY <1>1, <1>4, <1>7, <2>1 DEF Reads
  <2>2. CASE h # f
    <3>1. x.field[h] = in[h]
      BY <1>7, <2>2
    <3>2. IsReference(o, h) /\ in[h] # Nil => in[h] \notin DOMAIN there
      BY <1>4, <1>10 DEF IsReference
    <3>3. Reads(x, there, h) = Read(o, h)
      BY <1>7, <3>1, <3>2 DEF Reads, Read, IsReference, in
    <3> QED
      BY <1>1, <3>3 DEF Inv, SaysWhatItsOriginSaid
  <2> QED
    BY <2>1, <2>2
<1>13. trace' = [trace EXCEPT ![o] = [pod |-> pod, kept |-> kept]]
  <2>1. trace[o] = [pod |-> pod, kept |-> kept]
    BY <1>1 DEF Inv, TraceOK
  <2>2. trace = [trace EXCEPT ![o] = trace[o]]
    BY DEF Inv, ObjectsOK, Shape
  <2> QED
    BY <1>1, <2>1, <2>2
<1>14. kept \subseteq FieldsOf(type, x.version)
  BY <1>1, <1>7 DEF Inv, TraceOK
<1>15. \A h \in FieldsOf(type, x.version) :
         Reads(x, there, h)
           \in {Changed, IF h \in kept THEN pod ELSE Zero(x.version)[h]}
  BY <1>7, <1>12
<1> HIDE DEF g, there, pod, kept
<1> QED
  BY <1>1, <1>6, <1>8, <1>9, <1>11, <1>13, <1>14, <1>15, PlacementKeepsInv

\* What is written is read through relatives only.
LEMMA WriteStep ==
  ASSUME Inv, NEW o \in Objects, NEW f, Write(o, f)
  PROVE  /\ Inv'
         /\ o \in InUse /\ families' = families
         /\ \A m \in InUse : ~ Akin(m, o) => Says(m)' = Says(m)
<1> DEFINE a == object[o].field[f]
<1>1. /\ o \in InUse /\ f \in ReferencesOf(o) /\ a # Nil /\ a \in Addresses
      /\ memory' = [memory EXCEPT ![a] = Changed]
      /\ type' = type /\ object' = object
      /\ families' = families /\ trace' = trace
  BY DEF Write, ReferencesOf, Addresses
<1>2. /\ InUse' = InUse
      /\ \A m : Version(m)' = Version(m) /\ ReferencesOf(m)' = ReferencesOf(m)
      /\ \A g : Zero(g)' = Zero(g)
      /\ \A m, h : IsReference(m, h)' <=> IsReference(m, h)
  BY <1>1 DEF InUse, Version, ReferencesOf, Zero, IsReference
<1>3. Addresses' = Addresses
  BY <1>1, <1>2 DEF Addresses, Version
<1>4. Shape'
  <2>1. \A y : WellFormed(y) => WellFormed(y)'
    BY <1>1 DEF WellFormed
  <2> QED
    BY <1>1, <1>2, <2>1 DEF Inv, ObjectsOK, Shape
<1>5. MemoryOK'
  BY <1>1, <1>3 DEF Inv, ObjectsOK, MemoryOK, Text
<1>6. FamiliesOK' /\ SharingOK'
  BY <1>1, <1>2 DEF Inv, ObjectsOK, FamiliesOK, SharingOK, Akin
<1>7. TraceOK'
  BY <1>1, <1>2 DEF Inv, TraceOK
<1>8. ASSUME NEW m \in InUse, NEW h \in FieldsOf(type, Version(m))
      PROVE  /\ Read(m, h)' \in {Read(m, h), Changed}
             /\ ~ Akin(m, o) => Read(m, h)' = Read(m, h)
  <2>1. CASE IsReference(m, h) /\ object[m].field[h] # Nil
    <3>1. object[m].field[h] \in Addresses
      BY <2>1 DEF Addresses, IsReference
    <3>2. h \in ReferencesOf(m)
      BY <2>1 DEF IsReference, ReferencesOf
    <3>3. object[m].field[h] = a => Akin(m, o)
      BY <1>1, <3>2 DEF Inv, ObjectsOK, SharingOK
    <3>4. memory'[object[m].field[h]]
            = IF object[m].field[h] = a THEN Changed
              ELSE memory[object[m].field[h]]
      BY <1>1, <3>1 DEF Inv, ObjectsOK, MemoryOK
    <3> QED
      BY <1>1, <1>2, <2>1, <3>3, <3>4 DEF Read
  <2>2. CASE ~ (IsReference(m, h) /\ object[m].field[h] # Nil)
    BY <1>1, <1>2, <2>2 DEF Read
  <2> QED
    BY <2>1, <2>2
<1>9. SaysWhatItsOriginSaid'
  <2>1. SUFFICES ASSUME NEW m \in InUse, NEW h \in FieldsOf(type, Version(m))
                 PROVE  Read(m, h)' \in
                          {Changed, IF h \in trace[m].kept THEN trace[m].pod
                                    ELSE Zero(Version(m))[h]}
    BY <1>1, <1>2 DEF SaysWhatItsOriginSaid
  <2> QED
    BY <1>8 DEF Inv, SaysWhatItsOriginSaid
<1>10. ASSUME NEW m \in InUse, ~ Akin(m, o)
       PROVE  Says(m)' = Says(m)
  BY <1>1, <1>2, <1>8, <1>10 DEF Says
<1> QED
  BY <1>1, <1>4, <1>5, <1>6, <1>7, <1>9, <1>10 DEF Inv, ObjectsOK

-----------------------------------------------------------------------------
(* The theorems.                                                           *)

Step0 == Inv' /\ InUse' = InUse /\ \A m \in InUse : Says(m)' = Says(m)

LEMMA InvInit == Init => Inv
<1> SUFFICES ASSUME Init PROVE Inv
  OBVIOUS
<1>1. InUse = {}
  BY DEF Init, InUse
<1>2. Addresses = {}
  BY <1>1 DEF Addresses
<1> QED
  BY <1>1, <1>2 DEF Init, Inv, ObjectsOK, Shape, MemoryOK, FamiliesOK,
                    SharingOK, TraceOK, SaysWhatItsOriginSaid

\* A step that touches no object.
LEMMA NoObjectStep ==
  ASSUME Inv, UNCHANGED <<type, object, memory, families, trace>>
  PROVE  Step0
<1>1. /\ InUse' = InUse
      /\ \A m : Version(m)' = Version(m) /\ ReferencesOf(m)' = ReferencesOf(m)
      /\ \A g : Zero(g)' = Zero(g)
      /\ \A m, h : Read(m, h)' = Read(m, h)
      /\ Addresses' = Addresses
  BY DEF InUse, Version, ReferencesOf, Zero, Read, IsReference, Addresses
<1>2. \A m : Says(m)' = Says(m)
  BY <1>1 DEF Says
<1>3. Shape'
  <2>1. \A y : WellFormed(y) => WellFormed(y)'
    BY DEF WellFormed
  <2> QED
    BY <1>1, <2>1 DEF Inv, ObjectsOK, Shape
<1>4. MemoryOK' /\ FamiliesOK' /\ SharingOK' /\ TraceOK'
  BY <1>1 DEF Inv, ObjectsOK, MemoryOK, FamiliesOK, SharingOK, TraceOK, Akin
<1>5. SaysWhatItsOriginSaid'
  BY <1>1 DEF Inv, SaysWhatItsOriginSaid
<1> QED
  BY <1>1, <1>2, <1>3, <1>4, <1>5 DEF Inv, ObjectsOK, Step0

\* What a step changes it changes in one family.
InOneFamily ==
  LET changed == {o \in InUse : Says(o)' # Says(o)}
  IN  changed # {} => \E family \in families' : changed \subseteq family

LEMMA StepInOneFamily ==
  ASSUME NEW n, Step(n)
  PROVE  InOneFamily
<1>1. PICK family \in families' : n \in family
  BY DEF Step, Inv, ObjectsOK, FamiliesOK
<1>2. {o \in InUse : Says(o)' # Says(o)} \subseteq {n}
  BY DEF Step
<1> QED
  BY <1>1, <1>2 DEF InOneFamily

LEMMA InvNext == Inv /\ [Next]_vars => Inv' /\ (InOneFamily \/ vars' = vars)
<1> SUFFICES ASSUME Inv, [Next]_vars
             PROVE  Inv' /\ (InOneFamily \/ vars' = vars)
  OBVIOUS
<1>1. ASSUME UNCHANGED <<type, object, memory, families, trace>>
      PROVE  Inv' /\ InOneFamily
  BY <1>1, NoObjectStep DEF Step0, InOneFamily
<1>2. ASSUME NEW n, Step(n)
      PROVE  Inv' /\ InOneFamily
  BY <1>2, StepInOneFamily DEF Step
<1>3. CASE \E g \in Registrants : CallAddToScheme(g)
  BY <1>1, <1>3 DEF CallAddToScheme
<1>4. CASE CallInstall
  BY <1>1, <1>4 DEF CallInstall
<1>5. ASSUME NEW o \in Objects, NEW g \in VersionsOf(type), NEW p \in Pods,
             \/ New(o, g, p, FieldsOf(type, g))
             \/ New(o, g, p, FieldsOf(type, g) \ References(type, g))
      PROVE  Inv' /\ InOneFamily
  <2>1. PICK given \in SUBSET FieldsOf(type, g) : New(o, g, p, given)
    BY <1>5
  <2> QED
    BY <1>2, <2>1, NewStep
<1>6. ASSUME NEW o \in Objects, NEW n \in Objects, NEW c \in AllConversions,
             Convert(o, n, c) \/ ConvertToVersion(o, n, c)
      PROVE  Inv' /\ InOneFamily
  BY <1>2, <1>6, ConvertStep, ConvertToVersionStep
<1>7. ASSUME NEW o \in Objects, NEW n \in Objects, DeepCopy(o, n)
      PROVE  Inv' /\ InOneFamily
  BY <1>2, <1>7, DeepCopyStep
<1>8. ASSUME NEW o \in Objects, NEW f, Write(o, f)
      PROVE  Inv' /\ InOneFamily
  <2>1. /\ Inv'
        /\ o \in InUse /\ families' = families
        /\ \A m \in InUse : ~ Akin(m, o) => Says(m)' = Says(m)
    BY <1>8, WriteStep
  <2>2. PICK family \in families : o \in family
    BY <2>1 DEF Inv, ObjectsOK, FamiliesOK
  <2>3. \A m \in InUse : Says(m)' # Says(m) => m \in family
    BY <2>1, <2>2 DEF Inv, ObjectsOK, FamiliesOK, Akin
  <2> QED
    BY <2>1, <2>2, <2>3 DEF InOneFamily
<1>9. ASSUME NEW o \in Objects, NEW f, Replace(o, f)
      PROVE  Inv' /\ InOneFamily
  BY <1>2, <1>9, ReplaceStep
<1>10. CASE UNCHANGED vars
  BY <1>1, <1>10 DEF vars
<1> QED
  BY <1>3, <1>4, <1>5, <1>6, <1>7, <1>8, <1>9, <1>10 DEF Next

\* The scheme is one.
SchemeOK ==
  scheme \in [added : SUBSET Registrants,
              observed : Seq(External),
              priority : [{"credentialprovider", "config"} -> Seq(External)]]

LEMMA AddToSchemeOK ==
  ASSUME NEW s \in [added : SUBSET Registrants, observed : Seq(External),
                    priority : [{"credentialprovider", "config"}
                                  -> Seq(External)]],
         NEW g \in Registrants
  PROVE  AddToScheme(s, g) \in
           [added : SUBSET Registrants, observed : Seq(External),
            priority : [{"credentialprovider", "config"} -> Seq(External)]]
<1>1. g \in DOMAIN KnownTypes /\ GroupVersion[g][2] # "__internal"
        => GroupVersion[g] \in External
  BY DEF External, KnownTypes, GroupVersion
<1>2. \A gv \in External : Append(s.observed, gv) \in Seq(External)
  OBVIOUS
<1> QED
  BY <1>1, <1>2 DEF AddToScheme

LEMMA SetVersionPriorityOK ==
  ASSUME NEW s \in [added : SUBSET Registrants, observed : Seq(External),
                    priority : [{"credentialprovider", "config"}
                                  -> Seq(External)]],
         NEW g \in {"providerV1alpha1", "providerV1beta1", "providerV1"}
  PROVE  SetVersionPriority(s, g) \in
           [added : SUBSET Registrants, observed : Seq(External),
            priority : [{"credentialprovider", "config"} -> Seq(External)]]
<1>1. GroupVersion[g] \in External /\ GroupVersion[g][1] = "credentialprovider"
  BY DEF External, KnownTypes, GroupVersion
<1>2. <<GroupVersion[g]>> \in Seq(External)
  BY <1>1
<1> QED
  BY <1>1, <1>2 DEF SetVersionPriority

LEMMA SchemeInit == Init => SchemeOK
<1>1. <<>> \in Seq(External)
  OBVIOUS
<1> QED
  BY <1>1 DEF Init, SchemeOK, EmptyScheme

LEMMA SchemeNext == SchemeOK /\ [Next]_vars => SchemeOK'
<1> SUFFICES ASSUME SchemeOK, [Next]_vars PROVE SchemeOK'
  OBVIOUS
<1>1. CASE \E g \in Registrants : CallAddToScheme(g)
  BY <1>1, AddToSchemeOK DEF CallAddToScheme, SchemeOK
<1>2. CASE CallInstall
  <2>1. {"provider", "providerV1alpha1", "providerV1beta1", "providerV1"}
          \subseteq Registrants
    BY DEF Registrants, KnownTypes
  <2> QED
    BY <1>2, <2>1, AddToSchemeOK, SetVersionPriorityOK
    DEF CallInstall, Install, SchemeOK
<1>3. CASE scheme' = scheme
  BY <1>3 DEF SchemeOK
<1>4. /\ \A o, g, p, given : New(o, g, p, given) => scheme' = scheme
      /\ \A o, n, c : Convert(o, n, c) => scheme' = scheme
      /\ \A o, n, c : ConvertToVersion(o, n, c) => scheme' = scheme
      /\ \A o, n : DeepCopy(o, n) => scheme' = scheme
      /\ \A o, f : Write(o, f) \/ Replace(o, f) => scheme' = scheme
  BY DEF New, Convert, ConvertToVersion, DeepCopy, Write, Replace
<1>5. UNCHANGED vars => scheme' = scheme
  BY DEF vars
<1> QED
  BY <1>1, <1>2, <1>3, <1>4, <1>5 DEF Next

\* The program only ever holds well-formed objects of one type, each in one
\* family, and a scheme that lists no internal version.
THEOREM ObjectsWellFormed == Spec => []TypeOK
<1>1. Inv /\ SchemeOK => TypeOK
  <2> SUFFICES ASSUME Inv, SchemeOK PROVE TypeOK
    OBVIOUS
  <2>1. /\ scheme.added \subseteq Registrants
        /\ scheme.observed \in Seq(External)
        /\ \A group \in DOMAIN scheme.priority :
             scheme.priority[group] \in Seq(External)
    BY DEF SchemeOK
  <2>2. /\ type \in TypeNames
        /\ memory \in [Addresses -> Text]
        /\ UNION families = InUse
        /\ \A a, b \in families : a # b => a \cap b = {}
    BY DEF Inv, ObjectsOK, Shape, MemoryOK, FamiliesOK
  <2>3. \A o \in InUse :
          /\ Version(o) \in VersionsOf(type)
          /\ DOMAIN object[o].field = FieldsOf(type, Version(o))
          /\ \A f \in DOMAIN object[o].field :
               object[o].field[f] \in IF IsReference(o, f)
                                      THEN Cells \cup {Nil} ELSE Text
    BY DEF Inv, ObjectsOK, Shape, WellFormed, Version, IsReference
  <2> QED
    BY <2>1, <2>2, <2>3 DEF TypeOK
<1> QED
  BY <1>1, InvInit, InvNext, SchemeInit, SchemeNext, PTL DEF Spec

\* However objects are converted, copied and changed, none says what was said
\* about another pod, and none says more than the versions on its way have
\* fields for: an object of an old version has no service account token.
THEOREM ConversionsLoseAndMixNothing == Spec => []SaysWhatItsOriginSaid
<1>1. Inv => SaysWhatItsOriginSaid
  BY DEF Inv
<1> QED
  BY <1>1, InvInit, InvNext, PTL DEF Spec

\* A change to an object is never seen through an object that a deep copy
\* separates from it, however many conversions lie between.
THEOREM DeepCopySeparates == Spec => ChangesStayInOneFamily
<1>1. Inv /\ [Next]_vars => [InOneFamily]_vars
  BY InvNext
<1> QED
  BY <1>1, InvInit, InvNext, PTL DEF Spec, ChangesStayInOneFamily, InOneFamily

\* Whatever packages a program adds to a scheme, what the scheme converts it
\* converts back, and a type it knows in some version it converts to the
\* internal one.
THEOREM SchemesConvertBothWays == Spec => []ConvertersComplete
<1>1. SchemeOK => ConvertersComplete
  <2> SUFFICES ASSUME SchemeOK PROVE ConvertersComplete
    OBVIOUS
  <2>1. \A g \in DOMAIN RegisterConversions : \A p \in RegisterConversions[g] :
          <<p[1], p[3], p[2]>> \in RegisterConversions[g]
    <3> USE DEF RegisterConversions, Registered, Conversion
    <3>1. \A p \in RegisterConversions["providerV1"] :
            <<p[1], p[3], p[2]>> \in RegisterConversions["providerV1"]
      BY DEF ProviderV1RegisterConversions, ProviderV1Conversions,
             V1_AuthConfig_To_Internal, V1_AuthConfig_From_Internal,
             V1_Request_To_Internal, V1_Request_From_Internal,
             V1_Response_To_Internal, V1_Response_From_Internal
    <3>2. \A p \in RegisterConversions["providerV1beta1"] :
            <<p[1], p[3], p[2]>> \in RegisterConversions["providerV1beta1"]
      BY DEF ProviderV1beta1RegisterConversions, ProviderV1beta1Conversions,
             V1beta1_AuthConfig_To_Internal, V1beta1_AuthConfig_From_Internal,
             V1beta1_Request_To_Internal, V1beta1_Request_From_Internal,
             V1beta1_Response_To_Internal, V1beta1_Response_From_Internal
    <3>3. \A p \in RegisterConversions["providerV1alpha1"] :
            <<p[1], p[3], p[2]>> \in RegisterConversions["providerV1alpha1"]
      BY DEF ProviderV1alpha1RegisterConversions, ProviderV1alpha1Conversions,
             V1alpha1_AuthConfig_To_Internal, V1alpha1_AuthConfig_From_Internal,
             V1alpha1_Request_To_Internal, V1alpha1_Request_From_Internal,
             V1alpha1_Response_To_Internal, V1alpha1_Response_From_Internal
    <3>4. \A p \in RegisterConversions["draV1beta1"] :
            <<p[1], p[3], p[2]>> \in RegisterConversions["draV1beta1"]
      BY DEF DRARegisterConversions
    <3> QED
      BY <3>1, <3>2, <3>3, <3>4
  <2>2. \A g \in {"providerV1", "providerV1beta1", "providerV1alpha1"} :
          \A t \in TypeNames :
            <<GroupVersion[g], t>> \in Known(scheme) =>
              /\ g \in scheme.added
              /\ t \in KnownTypes[g]
    <3>1. \A g, h \in DOMAIN KnownTypes :
            GroupVersion[g] = GroupVersion[h] => g = h
      BY DEF KnownTypes, GroupVersion
    <3>2. \A g \in {"providerV1", "providerV1beta1", "providerV1alpha1"} :
            g \in DOMAIN KnownTypes
      BY DEF KnownTypes
    <3> QED
      BY <3>1, <3>2 DEF Known
  <2>3. \A g \in {"providerV1", "providerV1beta1", "providerV1alpha1"} :
          \A t \in KnownTypes[g] :
            <<t, g, "provider">> \in RegisterConversions[g]
    <3> USE DEF RegisterConversions, Registered, Conversion, KnownTypes
    <3>1. \A t \in KnownTypes["providerV1"] :
            <<t, "providerV1", "provider">> \in RegisterConversions["providerV1"]
      BY DEF ProviderV1RegisterConversions, ProviderV1Conversions,
             ProviderV1KnownTypes,
             V1_Request_To_Internal, V1_Response_To_Internal
    <3>2. \A t \in KnownTypes["providerV1beta1"] :
            <<t, "providerV1beta1", "provider">>
              \in RegisterConversions["providerV1beta1"]
      BY DEF ProviderV1beta1RegisterConversions, ProviderV1beta1Conversions,
             ProviderV1beta1KnownTypes,
             V1beta1_Request_To_Internal, V1beta1_Response_To_Internal
    <3>3. \A t \in KnownTypes["providerV1alpha1"] :
            <<t, "providerV1alpha1", "provider">>
              \in RegisterConversions["providerV1alpha1"]
      BY DEF ProviderV1alpha1RegisterConversions, ProviderV1alpha1Conversions,
             ProviderV1alpha1KnownTypes,
             V1alpha1_Request_To_Internal, V1alpha1_Response_To_Internal
    <3> QED
      BY <3>1, <3>2, <3>3
  <2>4. \A g \in scheme.added \cap DOMAIN RegisterConversions :
          RegisterConversions[g] \subseteq Converters(scheme)
    BY DEF Converters
  <2>5. \A p \in Converters(scheme) :
          \E g \in scheme.added \cap DOMAIN RegisterConversions :
            p \in RegisterConversions[g]
    BY DEF Converters
  <2>6. \A p \in Converters(scheme) : <<p[1], p[3], p[2]>> \in Converters(scheme)
    BY <2>1, <2>4, <2>5
  <2>7. {"providerV1", "providerV1beta1", "providerV1alpha1"}
          \subseteq DOMAIN RegisterConversions
    BY DEF RegisterConversions
  <2> QED
    BY <2>2, <2>3, <2>4, <2>6, <2>7 DEF ConvertersComplete
<1> QED
  BY <1>1, SchemeInit, SchemeNext, PTL DEF Spec

-----------------------------------------------------------------------------
(* The order of the versions.                                              *)

Groups == {"credentialprovider", "config"}
ProviderV1 == GroupVersion["providerV1"]

LEMMA ToSetAppend ==
  ASSUME NEW S, NEW s \in Seq(S), NEW e \in S
  PROVE  ToSet(Append(s, e)) = ToSet(s) \cup {e}
<1> DEFINE t == Append(s, e)
<1>1. /\ Len(s) \in Nat /\ DOMAIN s = 1 .. Len(s)
      /\ DOMAIN t = 1 .. Len(s) + 1 /\ t[Len(s) + 1] = e
      /\ \A i \in 1 .. Len(s) : t[i] = s[i]
  OBVIOUS
<1> HIDE DEF t
<1>2. 1 .. Len(s) + 1 = (1 .. Len(s)) \cup {Len(s) + 1}
  BY <1>1
<1>3. ToSet(t) = ToSet(s) \cup {e}
  BY <1>1, <1>2 DEF ToSet
<1> QED
  BY <1>3 DEF t

\* `versions' lists, beside `first', the n versions observed first that are of
\* the group, each once and those of `first' in front.
Lists(versions, first, observed, n, group) ==
  /\ versions \in Seq(External)
  /\ ToSet(versions) =
       ToSet(first) \cup {gv \in {observed[m] : m \in 1 .. n} : gv[1] = group}
  /\ IsInjective(versions)
  /\ first # <<>> => versions # <<>> /\ versions[1] = first[1]

LEMMA ListOneMore ==
  ASSUME NEW observed \in Seq(External), NEW n \in Nat, n + 1 <= Len(observed),
         NEW group, NEW first, NEW versions,
         Lists(versions, first, observed, n, group)
  PROVE  Lists(List(versions, observed[n + 1], group),
               first, observed, n + 1, group)
<1> DEFINE gv == observed[n + 1]
           more == Append(versions, gv)
<1>1. gv \in External
  OBVIOUS
<1>2. versions \in Seq(External) /\ Len(versions) \in Nat
  BY DEF Lists
<1>3. {observed[m] : m \in 1 .. n + 1} = {observed[m] : m \in 1 .. n} \cup {gv}
  <2>1. 1 .. n + 1 = (1 .. n) \cup {n + 1}
    OBVIOUS
  <2> QED
    BY <2>1
<1>4. Contains(versions, gv) <=> gv \in ToSet(versions)
  BY <1>2 DEF Contains, ToSet
<1> HIDE DEF gv
<1>5. CASE gv[1] = group /\ ~ Contains(versions, gv)
  <2>1. /\ more \in Seq(External) /\ Len(more) = Len(versions) + 1
        /\ more[Len(versions) + 1] = gv
        /\ \A i \in 1 .. Len(versions) : more[i] = versions[i]
    BY <1>1, <1>2
  <2>2. ToSet(more) = ToSet(versions) \cup {gv}
    BY <1>1, <1>2, ToSetAppend
  <2> HIDE DEF more
  <2>3. DOMAIN more = DOMAIN versions \cup {Len(versions) + 1}
    BY <1>2, <2>1
  <2>4. IsInjective(more)
    <3> SUFFICES ASSUME NEW i \in DOMAIN more, NEW j \in DOMAIN more,
                        more[i] = more[j]
                 PROVE  i = j
      BY DEF IsInjective
    <3>1. \A k \in DOMAIN versions : more[k] = versions[k] /\ more[k] # gv
      BY <1>2, <1>4, <1>5, <2>1 DEF ToSet
    <3>2. \A k, l \in DOMAIN versions : versions[k] = versions[l] => k = l
      BY DEF Lists, IsInjective
    <3> QED
      BY <2>1, <2>3, <3>1, <3>2
  <2>5. first # <<>> => more # <<>> /\ more[1] = first[1]
    <3> SUFFICES ASSUME first # <<>> PROVE more # <<>> /\ more[1] = first[1]
      OBVIOUS
    <3>1. versions # <<>> /\ versions[1] = first[1]
      BY DEF Lists
    <3>2. 1 \in 1 .. Len(versions) /\ Len(more) # 0
      BY <1>2, <2>1, <3>1
    <3> QED
      BY <2>1, <3>1, <3>2
  <2>6. List(versions, gv, group) = more
    BY <1>5 DEF List, more
  <2>7. ToSet(versions) =
          ToSet(first) \cup {x \in {observed[m] : m \in 1 .. n} : x[1] = group}
    BY DEF Lists
  <2>8. {x \in {observed[m] : m \in 1 .. n + 1} : x[1] = group}
          = {x \in {observed[m] : m \in 1 .. n} : x[1] = group} \cup {gv}
    BY <1>3, <1>5
  <2>9. Lists(more, first, observed, n + 1, group)
    BY <2>1, <2>2, <2>4, <2>5, <2>7, <2>8 DEF Lists
  <2> QED
    BY <2>6, <2>9 DEF gv
<1>6. CASE ~ (gv[1] = group /\ ~ Contains(versions, gv))
  <2>1. List(versions, gv, group) = versions
    BY <1>6 DEF List
  <2>2. ToSet(versions) =
          ToSet(first) \cup {x \in {observed[m] : m \in 1 .. n} : x[1] = group}
    BY DEF Lists
  <2>3. ToSet(versions) = ToSet(first)
          \cup {x \in {observed[m] : m \in 1 .. n + 1} : x[1] = group}
    BY <1>3, <1>4, <1>6, <2>2
  <2>4. Lists(versions, first, observed, n + 1, group)
    BY <2>3 DEF Lists
  <2> QED
    BY <2>1, <2>4 DEF gv
<1> QED
  BY <1>5, <1>6

\* What PrioritizedVersions lists.
LEMMA PrioritizedVersionsListed ==
  ASSUME NEW s, NEW group, s.observed \in Seq(External),
         s.priority[group] \in Seq(External), IsInjective(s.priority[group])
  PROVE  Lists(PrioritizedVersions(s, group), s.priority[group],
               s.observed, Len(s.observed), group)
<1> DEFINE A == Seq(External)
           first == s.priority[group]
           observed == s.observed
           N == Len(observed)
           step == [versions \in A |-> [n \in Nat |->
                      IF n \in 1 .. N THEN List(versions, observed[n], group)
                      ELSE versions]]
           IsIt(f) == f = [n \in 0 .. N |->
                             IF n = 0 THEN first
                             ELSE List(f[n - 1], observed[n], group)]
<1>1. first \in A /\ observed \in A /\ N \in Nat
  OBVIOUS
<1>2. step \in [A -> [Nat -> A]]
  <2>1. ASSUME NEW versions \in A, NEW n \in 1 .. N
        PROVE  List(versions, observed[n], group) \in A
    <3>1. observed[n] \in External
      BY <1>1
    <3>2. Append(versions, observed[n]) \in Seq(External)
      BY <3>1
    <3> QED
      BY <3>2 DEF List
  <2> HIDE DEF A, N, observed
  <2> QED
    BY <2>1
<1>3. PICK f \in [0 .. N -> A] : IsRecursive(f, N, first, step)
  <2> HIDE DEF A, first, N, step
  <2> QED
    BY <1>1, <1>2, RecursiveFunctionExists
<1>4. \A k \in 0 .. N : k # 0 =>
        step[f[k - 1]][k] = List(f[k - 1], observed[k], group)
  <2> HIDE DEF A, N, observed
  <2> QED
    BY <1>1, <1>3
<1>5. IsIt(f)
  <2> HIDE DEF A, N, step, first, observed
  <2> QED
    BY <1>1, <1>3, <1>4 DEF IsRecursive
<1> DEFINE g == CHOOSE h : IsIt(h)
<1>6. IsIt(g)
  <2> HIDE DEF IsIt
  <2> QED
    BY <1>5
<1>7. PrioritizedVersions(s, group) = g[N]
  BY DEF PrioritizedVersions
<1> HIDE DEF g
<1>8. \A n \in 0 .. N :
        g[n] = IF n = 0 THEN first ELSE List(g[n - 1], observed[n], group)
  <2> HIDE DEF N, first, observed
  <2> QED
    BY <1>6
<1> DEFINE T == {n \in Nat : n <= N => Lists(g[n], first, observed, n, group)}
<1>9. 0 \in T
  <2>1. g[0] = first
    BY <1>1, <1>8
  <2>2. {gv \in {observed[m] : m \in 1 .. 0} : gv[1] = group} = {}
    OBVIOUS
  <2> HIDE DEF first, observed
  <2>3. Lists(first, first, observed, 0, group)
    BY <1>1, <2>2 DEF Lists, first
  <2> QED
    BY <2>1, <2>3
<1>10. ASSUME NEW n \in Nat, n \in T PROVE n + 1 \in T
  <2> SUFFICES ASSUME n + 1 <= N
               PROVE  Lists(g[n + 1], first, observed, n + 1, group)
    OBVIOUS
  <2>1. n + 1 \in 0 .. N /\ n + 1 # 0 /\ n + 1 - 1 = n /\ n <= N
    BY <1>1
  <2>2. g[n + 1] = List(g[n], observed[n + 1], group)
    BY <1>8, <2>1
  <2>3. Lists(g[n], first, observed, n, group)
    BY <1>10, <2>1
  <2> HIDE DEF first, T
  <2> QED
    BY <1>1, <2>2, <2>3, ListOneMore
<1> HIDE DEF T
<1>11. \A n \in Nat : n \in T
  BY <1>9, <1>10, SetInduction
<1> QED
  BY <1>1, <1>7, <1>11 DEF T

\* A priority is set for credentialprovider only, to v1, which was added.
OnlyV1First(s) ==
  /\ s.priority["config"] = <<>>
  /\ s.priority["credentialprovider"] = <<>> \/
       /\ s.priority["credentialprovider"] = <<ProviderV1>>
       /\ ProviderV1 \in ToSet(s.observed)

PriorityOK == SchemeOK /\ OnlyV1First(scheme)

Schemes0 == [added : SUBSET Registrants, observed : Seq(External),
             priority : [Groups -> Seq(External)]]

LEMMA AddToSchemeKeeps ==
  ASSUME NEW s \in Schemes0, NEW g \in Registrants
  PROVE  LET t == AddToScheme(s, g)
         IN  /\ t \in Schemes0
             /\ t.priority = s.priority
             /\ ToSet(s.observed) \subseteq ToSet(t.observed)
             /\ g = "providerV1" => ProviderV1 \in ToSet(t.observed)
<1> DEFINE t == AddToScheme(s, g)
<1>1. t \in Schemes0
  BY AddToSchemeOK DEF Schemes0, Groups
<1>2. t.priority = s.priority
  BY DEF AddToScheme, Schemes0
<1>3. /\ s.observed \in Seq(External)
      /\ t.observed = IF /\ g \in DOMAIN KnownTypes
                         /\ GroupVersion[g][2] # "__internal"
                         /\ ~ Contains(s.observed, GroupVersion[g])
                      THEN Append(s.observed, GroupVersion[g])
                      ELSE s.observed
  BY DEF AddToScheme, Schemes0
<1> HIDE DEF t
<1>4. ASSUME NEW gv \in External
      PROVE  /\ ToSet(s.observed) \subseteq ToSet(Append(s.observed, gv))
             /\ gv \in ToSet(Append(s.observed, gv))
  BY <1>3, ToSetAppend
<1>5. g \in DOMAIN KnownTypes /\ GroupVersion[g][2] # "__internal"
        => GroupVersion[g] \in External
  BY DEF External, KnownTypes, GroupVersion
<1>6. ToSet(s.observed) \subseteq ToSet(t.observed)
  BY <1>3, <1>4, <1>5
<1>7. ASSUME g = "providerV1" PROVE ProviderV1 \in ToSet(t.observed)
  <2>1. g \in DOMAIN KnownTypes /\ GroupVersion[g][2] # "__internal"
    BY <1>7 DEF KnownTypes, GroupVersion
  <2>2. GroupVersion[g] = ProviderV1
    BY <1>7 DEF ProviderV1
  <2>3. Contains(s.observed, ProviderV1) => ProviderV1 \in ToSet(s.observed)
    BY <1>3 DEF Contains, ToSet
  <2> QED
    BY <1>3, <1>4, <1>5, <2>1, <2>2, <2>3
<1> QED
  BY <1>1, <1>2, <1>6, <1>7 DEF t

LEMMA SetVersionPriorityKeeps ==
  ASSUME NEW s \in Schemes0,
         NEW g \in {"providerV1alpha1", "providerV1beta1", "providerV1"}
  PROVE  LET t == SetVersionPriority(s, g)
         IN  /\ t \in Schemes0
             /\ t.observed = s.observed
             /\ t.priority["config"] = s.priority["config"]
             /\ t.priority["credentialprovider"] = <<GroupVersion[g]>>
<1>1. SetVersionPriority(s, g) \in Schemes0
  BY SetVersionPriorityOK DEF Schemes0, Groups
<1>2. GroupVersion[g][1] = "credentialprovider"
  BY DEF GroupVersion
<1> QED
  BY <1>1, <1>2 DEF SetVersionPriority, Schemes0, Groups

LEMMA InstallPutsV1First ==
  ASSUME NEW s \in Schemes0, s.priority["config"] = <<>>
  PROVE  OnlyV1First(Install(s))
<1>1. {"provider", "providerV1alpha1", "providerV1beta1", "providerV1"}
        \subseteq Registrants
  BY DEF Registrants, KnownTypes
<1> DEFINE s0 == AddToScheme(s, "provider")
           a1 == AddToScheme(s0, "providerV1alpha1")
           s1 == SetVersionPriority(a1, "providerV1alpha1")
           a2 == AddToScheme(s1, "providerV1beta1")
           s2 == SetVersionPriority(a2, "providerV1beta1")
           a3 == AddToScheme(s2, "providerV1")
           s3 == SetVersionPriority(a3, "providerV1")
<1>2. Install(s) = s3
  BY DEF Install
<1> HIDE DEF s0, a1, s1, a2, s2, a3, s3
<1>3. s0 \in Schemes0 /\ s0.priority["config"] = <<>>
  BY <1>1, AddToSchemeKeeps DEF s0
<1>4. a1 \in Schemes0 /\ a1.priority["config"] = <<>>
  BY <1>1, <1>3, AddToSchemeKeeps DEF a1
<1>5. s1 \in Schemes0 /\ s1.priority["config"] = <<>>
  BY <1>4, SetVersionPriorityKeeps DEF s1
<1>6. a2 \in Schemes0 /\ a2.priority["config"] = <<>>
  BY <1>1, <1>5, AddToSchemeKeeps DEF a2
<1>7. s2 \in Schemes0 /\ s2.priority["config"] = <<>>
  BY <1>6, SetVersionPriorityKeeps DEF s2
<1>8. /\ a3 \in Schemes0 /\ a3.priority["config"] = <<>>
      /\ ProviderV1 \in ToSet(a3.observed)
  BY <1>1, <1>7, AddToSchemeKeeps DEF a3
<1>9. /\ s3.priority["config"] = <<>> /\ s3.observed = a3.observed
      /\ s3.priority["credentialprovider"] = <<ProviderV1>>
  BY <1>8, SetVersionPriorityKeeps DEF s3, ProviderV1
<1> QED
  BY <1>2, <1>8, <1>9 DEF OnlyV1First

LEMMA PriorityNext == PriorityOK /\ [Next]_vars => PriorityOK'
<1> SUFFICES ASSUME PriorityOK, [Next]_vars PROVE PriorityOK'
  OBVIOUS
<1>1. SchemeOK'
  BY SchemeNext DEF PriorityOK
<1>2. scheme \in Schemes0 /\ OnlyV1First(scheme)
  BY DEF PriorityOK, SchemeOK, Schemes0, Groups
<1>3. ASSUME NEW g \in Registrants, CallAddToScheme(g)
      PROVE  OnlyV1First(scheme')
  <2>1. scheme' = AddToScheme(scheme, g)
    BY <1>3 DEF CallAddToScheme
  <2> QED
    BY <1>2, <2>1, AddToSchemeKeeps DEF OnlyV1First
<1>4. CASE CallInstall
  <2>1. scheme' = Install(scheme)
    BY <1>4 DEF CallInstall
  <2> QED
    BY <1>1, <1>2, <2>1, InstallPutsV1First DEF OnlyV1First, PriorityOK
<1>5. CASE scheme' = scheme
  BY <1>1, <1>2, <1>5 DEF PriorityOK
<1>6. \/ \E g \in Registrants : CallAddToScheme(g)
      \/ CallInstall
      \/ scheme' = scheme
  <2>1. /\ \A o, g, p, given : New(o, g, p, given) => scheme' = scheme
        /\ \A o, n, c : Convert(o, n, c) => scheme' = scheme
        /\ \A o, n, c : ConvertToVersion(o, n, c) => scheme' = scheme
        /\ \A o, n : DeepCopy(o, n) => scheme' = scheme
        /\ \A o, f : Write(o, f) \/ Replace(o, f) => scheme' = scheme
    BY DEF New, Convert, ConvertToVersion, DeepCopy, Write, Replace
  <2>2. UNCHANGED vars => scheme' = scheme
    BY DEF vars
  <2> QED
    BY <2>1, <2>2 DEF Next
<1> QED
  BY <1>1, <1>3, <1>4, <1>5, <1>6 DEF PriorityOK

\* After Install v1 comes first, whatever was added before and is added later
\* and in whatever order, and every version added is listed once: by induction
\* over the versions observed.
THEOREM InstallPrefersV1 == Spec => []InstalledPrefersV1
<1>1. Init => PriorityOK
  BY SchemeInit DEF Init, PriorityOK, OnlyV1First, EmptyScheme
<1>2. PriorityOK => InstalledPrefersV1
  <2> SUFFICES ASSUME PriorityOK, NEW group \in Groups
               PROVE  LET versions == PrioritizedVersions(scheme, group)
                      IN  /\ ToSet(versions) =
                               {gv \in ToSet(scheme.observed) : gv[1] = group}
                          /\ IsInjective(versions)
                          /\ scheme.priority[group] # <<>> =>
                               versions[1] = <<"credentialprovider", "v1">>
    BY DEF InstalledPrefersV1, Groups
  <2> DEFINE first == scheme.priority[group]
             versions == PrioritizedVersions(scheme, group)
  <2>1. /\ first \in Seq(External) /\ scheme.observed \in Seq(External)
        /\ first = <<>> \/
             /\ group = "credentialprovider" /\ first = <<ProviderV1>>
             /\ ProviderV1 \in ToSet(scheme.observed)
    BY DEF PriorityOK, SchemeOK, OnlyV1First, Groups
  <2>2. /\ ProviderV1 = <<"credentialprovider", "v1">>
        /\ ProviderV1[1] = "credentialprovider"
    BY DEF ProviderV1, GroupVersion
  <2>3. IsInjective(<<>>) /\ ToSet(<<>>) = {}
    BY DEF IsInjective, ToSet
  <2>4. IsInjective(<<ProviderV1>>) /\ ToSet(<<ProviderV1>>) = {ProviderV1}
    BY DEF IsInjective, ToSet
  <2>5. IsInjective(first)
    BY <2>1, <2>3, <2>4
  <2>6. Lists(versions, first, scheme.observed, Len(scheme.observed), group)
    BY <2>1, <2>5, PrioritizedVersionsListed
  <2>7. {scheme.observed[m] : m \in 1 .. Len(scheme.observed)}
          = ToSet(scheme.observed)
    BY <2>1 DEF ToSet
  <2>8. ToSet(first) \subseteq {gv \in ToSet(scheme.observed) : gv[1] = group}
    BY <2>1, <2>2, <2>3, <2>4
  <2>9. first # <<>> => first[1] = ProviderV1
    BY <2>1
  <2> HIDE DEF versions, first
  <2>10. ToSet(versions) = {gv \in ToSet(scheme.observed) : gv[1] = group}
    BY <2>6, <2>7, <2>8 DEF Lists
  <2>11. /\ IsInjective(versions)
         /\ first # <<>> => versions[1] = <<"credentialprovider", "v1">>
    BY <2>2, <2>6, <2>9 DEF Lists
  <2> QED
    BY <2>10, <2>11 DEF versions, first
<1> QED
  BY <1>1, <1>2, PriorityNext, PTL DEF Spec

=============================================================================
