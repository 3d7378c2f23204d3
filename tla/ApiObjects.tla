-------------------------- MODULE ApiObjects --------------------------
(***************************************************************************)
(* A program sets up a scheme and then makes objects of one type, converts *)
(* them from version to version, copies them and changes them.  Objects of *)
(* different types have no memory in common, so that one type at a time is *)
(* enough.                                                                 *)
(*                                                                         *)
(* A converted object refers to the memory of the object it was made from: *)
(* a change that reaches that memory is seen through both.  A deep copy    *)
(* refers to memory of its own.                                            *)
(*                                                                         *)
(* What an object says is text about a pod.  The conversion functions only *)
(* assign some fields of the object they convert into.  The caller passes  *)
(* an object that is new, or one of which they assign every field.         *)
(***************************************************************************)
EXTENDS Schemes, Integers, FiniteSets

CONSTANTS
  Objects,    \* the program's variables for objects
  Pods,       \* what the objects are about
  Cells,      \* bound: addresses of pointed-to memory
  Nil,        \* the nil pointer, slice and map
  Empty,      \* the empty string
  Changed,    \* what the program writes over something
  UsedSchemes, \* bound: the schemes with which objects are made
  MaxChanged, \* bound: the addresses where something was written over
  MaxFamilies \* bound: families at a time

ASSUME NoTextAssumption == {Nil, Empty, Changed} \cap (Pods \cup Cells) = {}
ASSUME NilAssumption == Nil \notin {Empty, Changed} \cup DOMAIN Types
ASSUME TextAssumption == Empty # Changed /\ Pods \cap Cells = {}

VARIABLES
  scheme,    \* the program's scheme
  type,      \* the type of the objects
  object,    \* the version and the fields of every object
  memory,    \* what is at every address that somebody refers to
  families,  \* the objects made from each other without a deep copy
  trace      \* what an object has kept of what was given to its first ancestor

vars == <<scheme, type, object, memory, families, trace>>

Unused == [version |-> Nil]

InUse == {o \in Objects : object[o] # Unused}

Version(o) == object[o].version

IsReference(o, f) == f \in References(type, Version(o))

Addresses ==
  (UNION {{object[o].field[f] : f \in References(type, Version(o))} :
            o \in InUse}) \ {Nil}

Zero(g) ==
  [f \in FieldsOf(type, g) |-> IF f \in References(type, g) THEN Nil ELSE Empty]

\* Addresses nobody refers to, one for each of the fields.
IsFresh(fresh, fields) ==
  \A f, h \in fields : f # h => fresh[f] # fresh[h]

\* Which of them does not matter.
Fresh(fields) ==
  CHOOSE fresh \in [fields -> Cells \ Addresses] : IsFresh(fresh, fields)

NoRoomFor(fields) ==
  \A fresh \in [fields -> Cells \ Addresses] : ~ IsFresh(fresh, fields)

\* What one reads in field f of object o.
Read(o, f) ==
  IF IsReference(o, f) /\ object[o].field[f] # Nil
  THEN memory[object[o].field[f]]
  ELSE object[o].field[f]

Says(o) ==
  IF o \in InUse THEN [f \in FieldsOf(type, Version(o)) |-> Read(o, f)]
                 ELSE Unused

\* Memory after a step that leaves `there' at some addresses: what nobody
\* refers to any more is gone.
Left(there) ==
  [c \in Addresses' |-> IF c \in DOMAIN there THEN there[c] ELSE memory[c]]

\* The families when n becomes a relative of o, or of nobody.
Leave(n) == {family \ {n} : family \in families} \ {{}}

Join(n, o) ==
  {IF o \in family THEN family \cup {n} ELSE family : family \in Leave(n)}

Found(n) == Leave(n) \cup {{n}}

-----------------------------------------------------------------------------
(* The scheme.  It is set up before it is used.                            *)

CallAddToScheme(g) ==
  /\ InUse = {}
  /\ scheme' = AddToScheme(scheme, g)
  /\ UNCHANGED <<type, object, memory, families, trace>>

CallInstall ==
  /\ InUse = {}
  /\ scheme' = Install(scheme)
  /\ UNCHANGED <<type, object, memory, families, trace>>

-----------------------------------------------------------------------------
(* The objects.                                                            *)

\* A new object for pod p.  Its references are all set or all nil.
New(o, g, p, given) ==
  /\ scheme \in UsedSchemes
  /\ o \notin InUse
  /\ UNCHANGED <<scheme, type>>
  /\ LET set == References(type, g) \cap given
         fresh == Fresh(set)
     IN  /\ ~ NoRoomFor(set)
         /\ object' =
              [object EXCEPT ![o] =
                 [version |-> g,
                  field |-> [f \in FieldsOf(type, g) |->
                               IF f \in set THEN fresh[f]
                               ELSE IF f \in given THEN p
                               ELSE Zero(g)[f]]]]
         /\ memory' = Left([c \in {fresh[f] : f \in set} |-> p])
  /\ families' = Found(o)
  /\ Cardinality(families') <= MaxFamilies
  /\ trace' = [trace EXCEPT ![o] = [pod |-> p, kept |-> given]]

\* The fields of `out' after conversion c of an object with fields `in'.
Converted(c, in, out) ==
  [f \in FieldsOf(type, c.to) |-> IF f \in c.sets THEN in[f] ELSE out[f]]

\* An object with new memory for the given references, and what is there.
Renew(in, fields, fresh) ==
  [f \in DOMAIN in |-> IF f \in fields THEN fresh[f] ELSE in[f]]

Filled(in, fields, fresh) ==
  [c \in {fresh[f] : f \in fields} |->
     memory[in[CHOOSE f \in fields : fresh[f] = c]]]

\* Function c takes an object like o.
Takes(c, o) == c.type = type /\ c.from = Version(o)

\* The object to convert into is new, or all of it is assigned.
MayConvertInto(n, c) ==
  n \in InUse => /\ Version(n) = c.to
                 /\ FieldsOf(type, c.to) \subseteq FieldsOf(type, c.from)

Passes(o, n, g) ==
  trace' = [trace EXCEPT ![n] =
              [trace[o] EXCEPT !.kept = @ \cap FieldsOf(type, g)]]

\* Convert_..._To_... (or Scheme.Convert, which calls it).
Convert(o, n, c) ==
  /\ o \in InUse /\ n # o
  /\ Takes(c, o)
  /\ MayConvertInto(n, c)
  /\ UNCHANGED <<scheme, type>>
  /\ LET out == IF n \in InUse THEN object[n].field ELSE Zero(c.to)
     IN  object' = [object EXCEPT ![n] =
                      [version |-> c.to,
                       field |-> Converted(c, object[o].field, out)]]
  /\ memory' = Left(<<>>)
  /\ families' = Join(n, o)
  /\ Passes(o, n, c.to)

SetReferences(o, fields) == {f \in fields : object[o].field[f] # Nil}

\* Mutant: the deep copy of a response keeps the map.
DeepCopyKeepsAuth(o, n) ==
  /\ o \in InUse /\ n # o
  /\ UNCHANGED <<scheme, type>>
  /\ LET fields == SetReferences(o, Recreated(type, Version(o)) \ {"Auth"})
         fresh == Fresh(fields)
         in == object[o].field
     IN  /\ ~ NoRoomFor(fields)
         /\ object' = [object EXCEPT ![n] = [version |-> Version(o),
                                             field |-> Renew(in, fields, fresh)]]
         /\ memory' = Left(Filled(in, fields, fresh))
  /\ families' = Found(n)
  /\ Cardinality(families') <= MaxFamilies
  /\ Passes(o, n, Version(o))

\* DeepCopy and DeepCopyInto: `*out = *in' and then new memory.
DeepCopy(o, n) ==
  /\ o \in InUse /\ n # o
  /\ UNCHANGED <<scheme, type>>
  /\ LET fields == SetReferences(o, Recreated(type, Version(o)))
         fresh == Fresh(fields)
         in == object[o].field
     IN  /\ ~ NoRoomFor(fields)
         /\ object' = [object EXCEPT ![n] = [version |-> Version(o),
                                             field |-> Renew(in, fields, fresh)]]
         /\ memory' = Left(Filled(in, fields, fresh))
  /\ families' = Found(n)
  /\ Cardinality(families') <= MaxFamilies
  /\ Passes(o, n, Version(o))

\* Scheme.ConvertToVersion converts a deep copy into a new object of a type it
\* knows; without the type or the function it returns an error.
ConvertToVersion(o, n, c) ==
  /\ o \in InUse /\ n \notin InUse /\ n # o
  /\ Takes(c, o)
  /\ c.to \in DOMAIN GroupVersion
  /\ <<GroupVersion[c.to], type>> \in Known(scheme)
  /\ <<type, c.from, c.to>> \in Converters(scheme)
  /\ UNCHANGED <<scheme, type>>
  /\ LET fields == SetReferences(o, Recreated(type, c.from))
         fresh == Fresh(fields)
         in == object[o].field
     IN  /\ ~ NoRoomFor(fields)
         /\ object' =
              [object EXCEPT ![n] =
                 [version |-> c.to,
                  field |-> Converted(c, Renew(in, fields, fresh), Zero(c.to))]]
         /\ memory' = Left(Filled(in, fields, fresh))
  /\ families' = Found(n)
  /\ Cardinality(families') <= MaxFamilies
  /\ Passes(o, n, c.to)

\* The program changes what a field refers to, in place.
MayChange == Cardinality({c \in Addresses : memory[c] = Changed}) < MaxChanged

Write(o, f) ==
  /\ o \in InUse
  /\ f \in References(type, Version(o))
  /\ object[o].field[f] # Nil
  /\ MayChange
  /\ memory' = [memory EXCEPT ![object[o].field[f]] = Changed]
  /\ UNCHANGED <<scheme, type, object, families, trace>>

\* The program lets a field refer to something new.
Replace(o, f) ==
  /\ o \in InUse
  /\ f \in References(type, Version(o))
  /\ MayChange
  /\ UNCHANGED <<scheme, type, families, trace>>
  /\ ~ NoRoomFor({f})
  /\ object' = [object EXCEPT ![o].field[f] = Fresh({f})[f]]
  /\ memory' = Left([c \in {Fresh({f})[f]} |-> Changed])

-----------------------------------------------------------------------------
Init ==
  /\ scheme = EmptyScheme
  /\ type \in TypeNames
  /\ object = [o \in Objects |-> Unused]
  /\ memory = <<>>
  /\ families = {}
  /\ trace = [o \in Objects |-> Unused]

Next ==
  \/ \E g \in Registrants : CallAddToScheme(g)
  \/ CallInstall
  \/ \E o \in Objects :
       \/ \E g \in VersionsOf(type), p \in Pods :
            \/ New(o, g, p, FieldsOf(type, g))
            \/ New(o, g, p, FieldsOf(type, g) \ References(type, g))
       \/ \E n \in Objects :
            \/ \E c \in AllConversions : \/ Convert(o, n, c)
                                         \/ ConvertToVersion(o, n, c)
            \/ DeepCopy(o, n)
       \/ \E f \in UNION {References(type, g) : g \in VersionsOf(type)} :
            \/ Write(o, f)
            \/ Replace(o, f)

Spec == Init /\ [][Next]_vars

-----------------------------------------------------------------------------
Text == Pods \cup {Empty, Changed}

External == {GroupVersion[g] : g \in DOMAIN KnownTypes \ {"provider"}}

\* Every object has the fields of its version, and the families divide the
\* objects in use.  The internal version is not one of those a scheme lists.
TypeOK ==
  /\ scheme.added \subseteq Registrants
  /\ scheme.observed \in Seq(External)
  /\ \A group \in DOMAIN scheme.priority :
       scheme.priority[group] \in Seq(External)
  /\ type \in TypeNames
  /\ memory \in [Addresses -> Text]
  /\ \A o \in InUse :
       /\ Version(o) \in VersionsOf(type)
       /\ DOMAIN object[o].field = FieldsOf(type, Version(o))
       /\ \A f \in DOMAIN object[o].field :
            object[o].field[f] \in IF IsReference(o, f)
                                   THEN Cells \cup {Nil} ELSE Text
  /\ UNION families = InUse
  /\ \A a, b \in families : a # b => a \cap b = {}

\* Whatever a scheme converts it converts back, and the types of every version
\* of the credential provider API that it knows it converts to the internal
\* ones: of the functions that RegisterConversions of each package lists,
\* generated and manual, none is missing.
ConvertersComplete ==
  InUse = {} =>
  /\ \A p \in Converters(scheme) : <<p[1], p[3], p[2]>> \in Converters(scheme)
  /\ \A g \in {"providerV1", "providerV1beta1", "providerV1alpha1"} :
       \A t \in TypeNames :
         <<GroupVersion[g], t>> \in Known(scheme) =>
           <<t, g, "provider">> \in Converters(scheme)

\* After Install v1 is the version that comes first, whatever versions were
\* added to the scheme before it or are added later, and every version that
\* was added is listed once.
InstalledPrefersV1 ==
  InUse = {} =>
  \A group \in {"credentialprovider", "config"} :
    LET versions == PrioritizedVersions(scheme, group)
    IN  /\ ToSet(versions) = {gv \in ToSet(scheme.observed) : gv[1] = group}
        /\ IsInjective(versions)
        /\ scheme.priority[group] # <<>> =>
             versions[1] = <<"credentialprovider", "v1">>

\* An object, however often it was converted and copied and into whatever
\* object, says what was said when the first of its ancestors was made, all of
\* it about the same pod, except in fields that one of the versions on its way
\* does not have: those are empty, and never left over from another pod's
\* object.  So a plugin of an old version is never given a token.
SaysWhatItsOriginSaid ==
  \A o \in InUse : \A f \in FieldsOf(type, Version(o)) :
    Read(o, f) \in {Changed, IF f \in trace[o].kept THEN trace[o].pod
                             ELSE Zero(Version(o))[f]}

\* What a step changes it changes in one family: a deep copy, and what
\* ConvertToVersion returns, is safe from changes to its original, and the
\* original from changes to it.
ChangesStayInOneFamily ==
  [][LET changed == {o \in InUse : Says(o)' # Says(o)}
     IN  changed # {} => \E family \in families' : changed \subseteq family]_vars

=============================================================================
