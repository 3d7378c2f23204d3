----------------------------- MODULE ProtoDecls -----------------------------
(***************************************************************************)
(* What the generated message files (api.pb.go) of the kubelet's APIs      *)
(* declare.  Each file says the same thing several times, and only the     *)
(* program's start brings the parts together:                              *)
(*                                                                         *)
(*  ...Desc     the descriptor, a string constant (rawDesc): messages and  *)
(*              their fields by number, enums, services; one message is    *)
(*              in ..._<Type>Desc;                                         *)
(*  ..._<Type>  a Go type: which element of the file's msgTypes its Reset, *)
(*              ProtoReflect and Descriptor use, and for each struct field *)
(*              the number in its tag and its type;                        *)
(*  ...GoTypes  goTypes, the Go types in the descriptor's order, nil for   *)
(*              the entries of maps;                                       *)
(*  ...DepIdxs  depIdxs, indices into goTypes: the type of every field     *)
(*              that is a message or an enum, then the inputs and the      *)
(*              outputs of the methods, then where these lists start.      *)
(*                                                                         *)
(* A field's name, its JSON name and its wire type are left out: the       *)
(* runtime finds the struct field of a descriptor's field by the number.   *)
(*                                                                         *)
(* PluginDecls and PodDecls have the files; this module has the words in   *)
(* which they are written.                                                 *)
(***************************************************************************)
EXTENDS Sequences, Naturals

\* A type is a sequence of words.
Str == <<"string">>
Bool == <<"bool">>
Int32 == <<"int32">>
Int64 == <<"int64">>
Uint64 == <<"uint64">>
Bytes == <<"[]", "byte">>
Msg(name) == <<"message", name>>
Enum(name) == <<"enum", name>>
Named(name) == <<name>>
Ptr(t) == <<"*">> \o t
Ref(name) == Ptr(Named(name))
Slice(t) == <<"[]">> \o t
MapOf(key, value) == <<"map">> \o key \o value

\* Descriptors.
One(number, type) == [number |-> number, label |-> "one", type |-> type]
Many(number, type) == [number |-> number, label |-> "many", type |-> type]
Maybe(number, type) == [number |-> number, label |-> "maybe", type |-> type]
Message(name, fields) ==
  [name |-> name, fields |-> fields, entry |-> FALSE]
Entry(name, fields) ==
  [name |-> name, fields |-> fields, entry |-> TRUE]
Method(name, input, output) ==
  [name |-> name, input |-> input, output |-> output]
Service(name, methods) == [name |-> name, methods |-> methods]
File(package, enums, values, messages, services) ==
  [package |-> package, enums |-> enums, values |-> values,
   messages |-> messages, services |-> services]

\* Go.
Tag(number, type) == [number |-> number, type |-> type]
NoFields == [f \in {} |-> Tag(0, Str)]
Struct(name, info, fields) ==
  [name |-> name, info |-> info, fields |-> fields]
EnumType(name, info) == Struct(name, info, NoFields)
NilType == Struct("nil", 0, NoFields)
TypeBuilder(desc, enums, messages, extensions, services, types, idxs) ==
  [desc |-> desc, numEnums |-> enums, numMessages |-> messages,
   numExtensions |-> extensions, numServices |-> services,
   goTypes |-> types, depIdxs |-> idxs]
=============================================================================
