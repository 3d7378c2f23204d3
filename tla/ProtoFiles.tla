----------------------------- MODULE ProtoFiles -----------------------------
(***************************************************************************)
(* Programs that link the generated message files (api.pb.go): how the     *)
(* parts of a file are put together when the program starts, and what      *)
(* becomes of a message that one program sends and another receives, each  *)
(* built from a version of its own.                                        *)
(*                                                                         *)
(* At the start every linked file's init builds the file's types from the  *)
(* tables of its file and enters their names into the program's            *)
(* registry; a name that is taken, or a file whose counts are wrong, makes *)
(* the program panic.  The protobuf runtime is external: the operators     *)
(* from DepIdx to InfoOf are what its TypeBuilder does with the tables.    *)
(***************************************************************************)
EXTENDS PluginDecls, PodDecls, SequencesExt

\* The files by the packages that have them.
GoFile ==
  [DevicePluginV1alpha |-> DevicePluginV1alpha,
   DevicePluginV1beta1 |-> DevicePluginV1beta1,
   DRAV1beta1 |-> DRAV1beta1,
   DRAV1 |-> DRAV1,
   DRAHealthV1alpha1 |-> DRAHealthV1alpha1,
   PluginRegistrationV1alpha1 |-> PluginRegistrationV1alpha1,
   PluginRegistrationV1beta1 |-> PluginRegistrationV1beta1,
   PluginRegistrationV1 |-> PluginRegistrationV1,
   PodResourcesV1alpha1 |-> PodResourcesV1alpha1,
   PodResourcesV1 |-> PodResourcesV1,
   PodsV1alpha1 |-> PodsV1alpha1]

Packages == DOMAIN GoFile

CONSTANTS
  Nil,        \* no message
  Processes,  \* programs running
  Links       \* for a process, the sets of packages it may be linked from

ASSUME LinksAssumption == Links \in [Processes -> SUBSET SUBSET Packages]

VARIABLES
  links,   \* the packages each process is linked from
  files,   \* the packages whose init has run: File_... is not nil
  status,  \* "starting", "running" or "panicked"
  sent,    \* the message on its way, or Nil
  got      \* what its receiver's getters return, or Nil

vars == <<links, files, status, sent, got>>

-----------------------------------------------------------------------------
(* Putting a file together.                                                *)

\* Below g is the generated code of one file.
Enums(g) == g.desc.enums
Messages(g) == g.desc.messages
GoType(g, i) == g.goTypes[Len(Enums(g)) + i]

\* Every name a file enters into the registry of its program: values of
\* enums belong to the package, not to their enum.
Names(g) ==
  LET names == {Messages(g)[i].name : i \in DOMAIN Messages(g)} \cup
               {g.desc.services[i].name : i \in DOMAIN g.desc.services} \cup
               ToSet(Enums(g)) \cup g.desc.values
  IN  {<<g.desc.package, n>> : n \in names}

\* The j-th index of one of the lists in depIdxs (both count from 0), whose
\* starts are at its end, and the type that an index stands for.
FieldTypes == 0
MethodInputs == 3
MethodOutputs == 4
DepIdx(g, list, j) ==
  LET idxs == g.depIdxs IN idxs[idxs[Len(idxs) - list] + j + 1]
TypeAt(g, idx) ==
  IF idx < Len(Enums(g)) THEN Enum(Enums(g)[idx + 1])
  ELSE Msg(Messages(g)[idx - Len(Enums(g)) + 1].name)

\* How many of a set of pairs come before one of them.
Before(p, q) == p[1] < q[1] \/ (p[1] = q[1] /\ p[2] < q[2])
Place(pairs, p) == Cardinality({q \in pairs : Before(q, p)})

\* The fields that take an index, as pairs of a message and a field of it;
\* they are counted in this order.
IsDep(type) == type[1] \in {"message", "enum"}
DepFields(g) ==
  UNION {{<<i, f>> : f \in {h \in DOMAIN Messages(g)[i].fields :
                              IsDep(Messages(g)[i].fields[h].type)}} :
          i \in DOMAIN Messages(g)}

\* The types of the fields of message i after the start.
TypesOf(g, i) ==
  LET fields == Messages(g)[i].fields
  IN  [f \in DOMAIN fields |->
         IF IsDep(fields[f].type)
         THEN TypeAt(g, DepIdx(g, FieldTypes, Place(DepFields(g), <<i, f>>)))
         ELSE fields[f].type]

\* The i-th message info of a file: the Go type it is for, its descriptor,
\* and the types of the descriptor's fields.
BuiltFrom(g) ==
  [i \in DOMAIN Messages(g) |->
    [goType |-> GoType(g, i).name, desc |-> Messages(g)[i],
     types |-> TypesOf(g, i)]]

Built == [k \in Packages |-> BuiltFrom(GoFile[k])]

\* What Reset and ProtoReflect store in a message of Go type T.
InfoOf(built, T) == built[T.info + 1]

\* The counts given to the TypeBuilder are those of the descriptor, where no
\* file declares an extension.
CountsMatch(g) ==
  /\ Len(Enums(g)) = g.numEnums
  /\ Len(Messages(g)) = g.numMessages
  /\ Len(g.desc.services) = g.numServices
  /\ g.numExtensions = 0

-----------------------------------------------------------------------------
(* Messages on the wire: for every field that is set its number and type.  *)

GoTypesOf(g) ==
  {T \in ToSet(g.goTypes) :
     T # NilType /\ \A e \in DOMAIN Enums(g) : T.name # Enums(g)[e]}
TypeNamed(g, name) == CHOOSE T \in GoTypesOf(g) : T.name = name

\* The struct field that the runtime uses for number n, if there is one.
FieldsWith(T, n) == {f \in DOMAIN T.fields : T.fields[f].number = n}

\* The numbers and types by which the fields of T are known on the wire.
WireFields(info, T) ==
  UNION {{<<f, info.desc.fields[n].number, info.types[n]>> :
            f \in FieldsWith(T, info.desc.fields[n].number)} :
          n \in DOMAIN info.desc.fields}

Marshalled(info, T, set) ==
  {<<w[2], w[3], w[1]>> : w \in {x \in WireFields(info, T) : x[1] \in set}}

\* The fields that are set after unmarshalling, each with the field of the
\* sender's struct whose value it has; other numbers are unknown fields.
Unmarshalled(info, T, bytes) ==
  UNION {{<<w[1], b[3]>> : b \in {x \in bytes : x[1] = w[2] /\ x[2] = w[3]}} :
           w \in WireFields(info, T)}

\* The ends of a file's methods: what is called, by its name on the wire,
\* and the type of the message that passes.
EndsOf(desc) ==
  UNION {UNION {{[path |-> <<desc.package, desc.services[s].name, m.name>>,
                  part |-> "input", type |-> m.input],
                 [path |-> <<desc.package, desc.services[s].name, m.name>>,
                  part |-> "output", type |-> m.output]} :
                m \in ToSet(desc.services[s].methods)} :
          s \in DOMAIN desc.services}

Ends == [k \in Packages |-> EndsOf(GoFile[k].desc)]

-----------------------------------------------------------------------------
Init ==
  /\ links \in {l \in [Processes -> UNION {Links[p] : p \in Processes}] :
                 \A p \in Processes : l[p] \in Links[p]}
  /\ files = [p \in Processes |-> {}]
  /\ status = [p \in Processes |-> "starting"]
  /\ sent = Nil
  /\ got = Nil

\* The init function of one file; it does nothing if the file is there.
InitFile(p, k) ==
  /\ status[p] = "starting"
  /\ k \in links[p] \ files[p]
  /\ IF /\ CountsMatch(GoFile[k])
        /\ \A h \in files[p] : Names(GoFile[k]) \cap Names(GoFile[h]) = {}
     THEN /\ files' = [files EXCEPT ![p] = @ \cup {k}]
          /\ UNCHANGED status
     ELSE /\ status' = [status EXCEPT ![p] = "panicked"]
          /\ UNCHANGED files
  /\ UNCHANGED <<links, sent, got>>

\* All files are there; main runs.
Main(p) ==
  /\ status[p] = "starting"
  /\ files[p] = links[p]
  /\ status' = [status EXCEPT ![p] = "running"]
  /\ UNCHANGED <<links, files, sent, got>>

\* Both ends of a method are known by its name on the wire.
Answers(q, e) ==
  /\ status[q] = "running"
  /\ \E k \in files[q] : \E r \in Ends[k] :
       <<r.path, r.part>> = <<e.path, e.part>>

\* A process sends a message with some of its fields set to another one.
Send(p, k, e) ==
  /\ status[p] = "running"
  /\ k \in files[p]
  /\ sent = Nil
  /\ \E q \in Processes \ {p} : Answers(q, e)
  /\ LET T == TypeNamed(GoFile[k], e.type)
     IN  \E set \in SUBSET DOMAIN T.fields :
           sent' = [from |-> p, end |-> <<e.path, e.part>>, set |-> set,
                    bytes |-> Marshalled(InfoOf(Built[k], T), T, set)]
  /\ UNCHANGED <<links, files, status, got>>

\* A process at the other end of the method takes it.
Receive(p, k, e) ==
  /\ status[p] = "running"
  /\ k \in files[p]
  /\ sent # Nil
  /\ sent.from # p
  /\ sent.end = <<e.path, e.part>>
  /\ got = Nil
  /\ LET T == TypeNamed(GoFile[k], e.type)
     IN  got' = Unmarshalled(InfoOf(Built[k], T), T, sent.bytes)
  /\ UNCHANGED <<links, files, status, sent>>

Forget ==
  /\ got # Nil
  /\ sent' = Nil
  /\ got' = Nil
  /\ UNCHANGED <<links, files, status>>

Next ==
  \/ \E p \in Processes : \E k \in links[p] : InitFile(p, k)
  \/ \E p \in Processes : Main(p)
  \/ \E p \in Processes : \E k \in files[p] : \E e \in Ends[k] : Send(p, k, e)
  \/ \E p \in Processes : \E k \in files[p] : \E e \in Ends[k] :
       Receive(p, k, e)
  \/ Forget

Spec == Init /\ [][Next]_vars

-----------------------------------------------------------------------------
(* Properties.                                                             *)

RegistrationPackages ==
  {"PluginRegistrationV1alpha1", "PluginRegistrationV1beta1",
   "PluginRegistrationV1"}

\* Types; no file is there that is not linked, and main runs after all init
\* functions, as Go promises.
TypeOK ==
  /\ links \in [Processes -> SUBSET Packages]
  /\ files \in [Processes -> SUBSET Packages]
  /\ status \in [Processes -> {"starting", "running", "panicked"}]
  /\ \A p \in Processes :
       /\ files[p] \subseteq links[p]
       /\ status[p] = "running" => files[p] = links[p]

\* A program may be linked from any of the packages, among them the three
\* unrelated files of the protobuf package v1alpha1, and starts; except that
\* it cannot hold two versions of the registration API, whose messages have
\* the same names in all of them.
OnlyRegistrationVersionsClash ==
  \A p \in Processes :
    LET versions == links[p] \cap RegistrationPackages
    IN  /\ status[p] = "panicked" => \E v, w \in versions : v # w
        /\ status[p] = "running" => \A v, w \in versions : v = w

\* The Go type that fits field f of a message with this info.
FittingType(g, info, f) ==
  LET type == info.types[f]
      entries == {i \in DOMAIN Messages(g) :
                    Messages(g)[i].entry /\ type = Msg(Messages(g)[i].name)}
      Fit(t) == IF t[1] = "message" THEN Ref(t[2]) ELSE t
  IN  IF entries # {}
      THEN LET i == CHOOSE i \in entries : TRUE
           IN  MapOf(Fit(TypesOf(g, i)[1]), Fit(TypesOf(g, i)[2]))
      ELSE CASE info.desc.fields[f].label = "one"   -> Fit(type)
             [] info.desc.fields[f].label = "maybe" -> Ptr(Fit(type))
             [] info.desc.fields[f].label = "many"  -> Slice(Fit(type))

\* The info is of T, and for every field of its descriptor there is one
\* struct field of T, of the type it resolves to, and no other struct field.
InfoFits(g, info, T) ==
  LET fields == info.desc.fields
  IN  /\ info.goType = T.name
      /\ info.desc.name = T.name
      /\ \A f \in DOMAIN fields :
           \E h \in DOMAIN T.fields :
             /\ FieldsWith(T, fields[f].number) = {h}
             /\ T.fields[h].type = FittingType(g, info, f)
      /\ \A h \in DOMAIN T.fields :
           \E f \in DOMAIN fields : T.fields[h].number = fields[f].number

\* Methods are pairs as well: of a service and a method of it.
Methods(g) ==
  UNION {{<<s, m>> : m \in DOMAIN g.desc.services[s].methods} :
          s \in DOMAIN g.desc.services}

MethodsFit(g) ==
  \A p \in Methods(g) :
    LET method == g.desc.services[p[1]].methods[p[2]]
        Resolved(list) == TypeAt(g, DepIdx(g, list, Place(Methods(g), p)))
    IN  /\ Resolved(MethodInputs) = Msg(method.input)
        /\ Resolved(MethodOutputs) = Msg(method.output)

FileFitsTogether(g, built) ==
  /\ \A T \in GoTypesOf(g) : InfoFits(g, InfoOf(built, T), T)
  /\ MethodsFit(g)

\* Once a program runs, the info that a message gets from ProtoReflect and
\* Reset is the one of its own Go type; every field of its descriptor has
\* one struct field of the type it resolves to through depIdxs, and no
\* struct field is left out.  The tables are generated one by one, and a
\* field that is in one of them only is dropped on the wire.
TypesFitTogether ==
  \A p \in Processes : status[p] = "running" =>
    \A k \in files[p] : FileFitsTogether(GoFile[k], Built[k])

\* Whoever takes a message from a method's other end, built from whichever
\* version that answers to the method's name on the wire, finds exactly the
\* fields the sender set, under the same names.
ArrivesWhole ==
  got # Nil => got = {<<f, f>> : f \in sent.set}
=============================================================================
