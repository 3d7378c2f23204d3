# A TLA+ model of k8s.io/kubelet

The repository holds the APIs that a kubelet shares with its plugins and its
administrators: Go types, the code generated from them, and some code written by hand
between two versions of an API. No kubelet is in it. What runs is called by a
kubelet, a device plugin, a DRA driver, a credential provider or a monitoring agent,
each from its own goroutines and possibly built from another version of the
repository. The models are about what that code promises its callers when they do so
concurrently, when processes stop, and when connections break.

Paths below are relative to `src/`. "External" is what the code uses and does not
contain: gRPC, the network, the plugin's own methods, `runtime.Scheme`, the
goroutines that use an API object.

## 1. Inventory

| Component | State | Operations | Interacts with |
|---|---|---|---|
| **DRA plugin API**, `pkg/apis/dra/{v1,v1beta1}` | calls under way; messages with nil and empty slices, maps and elements | client and server wrappers (`conversion.go`), conversions (`conversion_internal.go`, `zz_generated.conversion.go`), unary stubs, handlers and registration (`api_grpc.pb.go`) | gRPC; the driver's methods; protobuf |
| **gRPC stubs and handlers**, `pkg/apis/*/*/api_grpc.pb.go` | streams, registered services | thirteen services: 23 unary methods, 4 server streams; `Register...Server`, `Unimplemented...Server` | gRPC, the server's methods |
| **Deep copies**, `config/*/zz_generated.deepcopy.go`, `pkg/apis/credentialprovider/**/zz_generated.deepcopy.go` | memory: objects, what they refer to, frames of running copies | `DeepCopyInto`, `DeepCopy`, `DeepCopyObject` of every type | goroutines that read, change and share API objects |
| **Protobuf messages**, `pkg/apis/*/*/api.pb.go` | a program's file registry; the message info in every message; once-only descriptors | `init` of eleven files, `Reset`, `ProtoReflect`, `Descriptor`, getters | the protobuf runtime; programs of other versions |
| **Credential provider conversions**, `pkg/apis/credentialprovider` | a scheme's tables; memory that converted objects share | conversions internal <-> v1, v1beta1, v1alpha1; `RegisterConversions`, `Install` | `runtime.Scheme`; the plugin's process |
| **API group registration**, `config/*/register.go`, defaults, model names | none of their own | `AddToScheme` | `runtime.Scheme` |
| **Node labels**, `pkg/apis/well_known_labels.go` | none | `IsKubeletLabel`, `getLabelNamespace` | the kubelet, the node restriction plugin |
| **Stats types, constants, pod labels** | none | `pkg/types/labels.go` reads one key of a map | |

Behaviours that are hard to test, and what makes each component correct:

* DRA: a call crosses up to two wrappers, a stub, the wire and a handler; either end
  may be v1 or v1beta1, and a driver may be upgraded between two calls. The answer
  must be that of this very call, a plugin must be entered at most once and with the
  claims the caller passed, an error must win over a response at every hop, and nil,
  empty and missing parts must come through. A panic of one handler takes every other
  call with it.
* Streams: a stub opens a stream in three calls that may fail one by one, while the
  handler is already running on the other side. A caller must never take a broken
  stream for a finished one, a method must not run on a message nobody sent, and
  neither side may wait for ever for the other.
* Paths: which method a stub reaches depends on strings repeated in three places per
  method, in eleven files; services of different versions look alike.
* Deep copies: nothing in Go ties a generated copy function to its type. A field that
  is left out is shared between original and copy, and then two goroutines that each
  believe to own their object race.
* Protobuf files: a file says the same thing in a descriptor, in Go structs and in
  index tables that count over all of it; they meet only when a program starts. Files
  share a namespace in every program that links them. Two programs of different
  versions understand each other by numbers only.
* Protobuf messages: reading one writes to it (`ProtoReflect` stores the info), and
  `Reset` takes the info away and puts it back while views of the message exist.
* Conversions through `unsafe.Pointer` make the new object share memory with the old;
  conversions to older versions drop fields without an error; and a conversion
  assigns only the fields that both versions have, whatever it converts into.
* Schemes: whether v1 comes first depends on the order of calls, which each replace
  what the one before said; a conversion that nobody registered is missed only when
  it is asked for.
* Labels: the rule is about domain names, the code about strings, and it returns from
  the middle of a loop over a map.

PROJECT.json lists these hazards line by line with the properties that cover them;
all of them have one.

## 2. Modules

| Module | Contents |
|---|---|
| `DRAConversion` | messages of both versions, their conversions, the wire, and when two messages say the same |
| `DRAPlugin` | calls: wrappers, stubs, handlers, the plugin's process; properties |
| `RemoteCall` | abstract: what a unary call promises |
| `DRAPluginRefinement` | DRAPlugin as a RemoteCall |
| `DRAPluginProofs` | proofs: the conversions, DRAPlugin, and that it implements RemoteCall |
| `Services` | the thirteen services: a table of the client stubs and one of the service descriptors |
| `GrpcCalls` | unary and streaming calls of any service, a server that stops and restarts; properties |
| `Feed` | abstract: what a call promises whose answer is a stream |
| `GrpcCallsProofs` | proofs, GrpcCalls implements Feed among them |
| `DeepCopyTypes` | the types: a table of their reference fields and one of the fields their DeepCopyInto handles |
| `DeepCopy` | goroutines that copy, change and publish objects; properties |
| `DeepCopyProofs` | proofs |
| `ProtoDecls`, `PluginDecls`, `PodDecls` | the eleven message files: descriptors, Go types, indices |
| `ProtoFiles`, `ProtoFilesProofs` | programs that link some of the files, and the messages they send each other; properties and proofs |
| `ProtoMessage`, `ProtoMessageProofs` | goroutines with one message and the compressed descriptor of its file; properties and proofs |
| `Conversions` | the types of four versions of the credential provider API and of the DRA devices, and the functions that convert them |
| `Schemes` | what every package registers, `Install`, and the methods of `runtime.Scheme` they call |
| `ApiObjects`, `ApiObjectsProofs` | a program that sets up a scheme, and makes, converts, copies and changes objects; properties and proofs |
| `KubeletLabels`, `KubeletLabelsProofs` | IsKubeletLabel; properties and proofs |
| `Induction` | induction over the natural numbers and recursive functions, for the proofs about lists and names |
| `MC...` | values for TLC |

`GrpcCalls` builds on `Services`, `DRAPlugin` on `DRAConversion`, `ProtoFiles` on
`PluginDecls` and `PodDecls`; `ApiObjects` is composed of `Schemes`, `Conversions` and the tables of
`DeepCopyTypes`.

### DRAConversion and DRAPlugin

A message is a record, a nil pointer, slice or map is `Nil`, a slice a sequence, a
map a function. Each `Convert...` operator is the chain of `Convert_` and
`autoConvert_` functions of the same name. A device of v1 has a share ID that v1beta1
does not have. `Wire...` is what marshalling and unmarshalling do: an empty slice
arrives as nil, a nil element as a zero message.

`Call` is the request half of a client wrapper and the stub up to `cc.Invoke`;
`Reject`, `Unimplemented` and `Enter` are what a handler does with a request;
`Answer` is the return of the driver's method through a server wrapper and the
handler; `Receive`, `Unavailable` and `Cancel` are the three ways in which `Invoke`
returns, with the response half of the client wrapper. `Stop`, `Restart` and `Lose`
are the environment: a process ends and takes its calls with it, another build takes
its place, a transport loses a message. `Register` contains the `testEmbeddedByValue`
test, which the wrappers hide. A panic in a wrapper (a response that is nil without
an error) or in an embedded nil pointer ends the process, as gRPC does not recover.

Errors are status codes. `Codes` are those with which a driver's method and a server's
interceptor fail: any codes at all, `Unimplemented` among them, and
handlers and wrappers pass it on; so a caller that is told `Unimplemented` cannot
conclude that the method did not run, and no property says so. What the caller can
rely on is `ErrorIsAnswer`: if its method ran and failed, it is told the method's own
code or one of `TransportCodes`, with which gRPC reports a broken connection and a
cancelled call.

Assumed: callers pass a request, not nil; a call in flight is lost with its process;
an interceptor either refuses a request before the handler runs or returns what the
handler returned; the server wrapper asks for a method only if the service it wraps
declares it, which all versions do.

### Services and GrpcCalls

`...Client` operators are read from the constants and stubs, `...Desc` operators from
the handlers and `ServiceDesc` values; `Desc` maps the wire name of a method to the
method its handler calls. At run time a call goes from the path of the stub, to the
service registered under the first part, to the handler under the second (`Targets`,
`Arrive`, `Enter`).

The stub of a stream is `NewStream`, `SendMsg`, `CloseSend`, each of which may fail;
`Invoke` and `InvokeEnd` are a unary stub. `Receive` is `RecvMsg` in a stream's
handler, or `dec` and the interceptor in a unary one, followed by what the handler
does with its error. `Send`, `ReturnStream` and `ReturnUnary` stand for the method.
`wire` are the messages on the way to the caller, `status` what follows them. A
stream is cut by the network (`Break`), the caller's context (`Cancel`) or the
process (`GoDown`); then any suffix of what is on the wire is lost. As gRPC
documents, `SendMsg` does not report a stream that the server has already ended: the
caller learns of it by reading. A method, an interceptor and a decoder may fail with any
of `Codes`; `outcome` keeps what the server ended a call with, so that a property can
tell a refusal by gRPC from one by the program.

The wrappers of the DRA API are not repeated here, and the content of messages is a
model value.

### DeepCopyTypes and DeepCopy

Memory is a sequence of blocks: structs, and arrays or maps of structs. A block has
flat contents and references. `...Fields` operators list the reference fields a type
declares; `...Copied` those its generated function copies. A field of the first table
that is missing in the second keeps what `*out = *in` put there: a reference into the
original.

`DeepCopy` allocates a block and begins it with `*out = *in`; `CopyField` is one `if
in.F != nil` of a `DeepCopyInto`, with the beginning of the nested copy;
`ReturnFromCopy` is its end. Other goroutines run between any two of these. `New`,
`Set`, `Assign`, `Write`, `Follow` are what users of the types do with an object of
their own, `Publish` hands it to everybody.

Assumed: who publishes an object stops writing it, and nobody writes an object
published by others without copying it (that is the convention the copies exist for;
the model shows that it suffices). Fields are copied in any order, which includes the
generated one. Allocation and the shallow copy are one step: no other goroutine has
the address yet. Types whose `DeepCopyInto` is external are given one reference each,
and `metav1.Time` none. A nil receiver returns nil and changes nothing, so it is not
a step.

### PluginDecls, PodDecls and ProtoFiles

A generated file is a record of tables: `...Desc` is its descriptor (`rawDesc`), one
operator per Go type gives the struct's fields with the numbers of their tags and the
index of the message info that the type's methods use, `...GoTypes` and `...DepIdxs`
are the slices of that name. `InitFile` is the `init` function of a file: it puts the
tables together as the runtime's `TypeBuilder` (external) does, compares the four counts given to it (enums,
messages, extensions, services) with the descriptor, and enters all names into the
registry of the program, or panics. `Main` is the end of the start. `Send`
sets any fields of a message of a method and encodes it by the info found for it
(`InfoOf`); `Receive` decodes it in a program of another version. Field names and
wire formats are left out, because the runtime finds a struct's field by its number;
types stand for formats.

### ProtoMessage

One message in memory. `Reflect`, `LoadMessageInfo` and `StoreMessageInfo` are the
branches of `ProtoReflect`, which tests the info and stores it in two steps; `Wipe`
and `RestoreMessageInfo` are the two statements of `Reset`; `ReflectNil` is
`ProtoReflect` of a nil pointer. `UseView` and `EndUse` are any use of a view,
external. `Descriptor` to `Return` are `rawDescGZIP` with its `sync.Once`. A
readers-writer lock (`BeginRead`, `BeginWrite`, `End`) stands for the contract of the
protobuf runtime: many readers or one writer. It is assumed, not shown: with a writer
that does not wait for readers, `Reset` takes the info from a view in use and
`ViewsServe` fails.

### Conversions, Schemes and ApiObjects

A conversion is its type, the two versions, and the fields that the generated or
manual function assigns. A string field holds text, a pointer, slice or map an
address; a converted field holds the same address as the original, as
`unsafe.Pointer` makes it. Text is what the object says about a pod, so that a
property can tell when a field speaks of another pod. `New`, `Convert`,
`ConvertToVersion` (the scheme's, which copies first), `DeepCopy`, `Write` and
`Replace` are what a program does with objects. `CallAddToScheme` and `CallInstall`
set up its scheme in any order. `families` and `trace` are history variables: which
objects were made from each other by conversion alone, and what was said of the first
of them.

The converted parts of DRA messages are built anew by the code of `DRAConversion`,
except the two lists of a device, hence `Device` here.

Assumed of callers: a scheme is set up before it is used; one converts into a new
object, or into one whose fields the conversion assigns all. The generated functions
do not clear other fields; without this assumption `SaysWhatItsOriginSaid` fails: a
request converted from v1beta1 into an object used before keeps the token that was in
it.

### KubeletLabels

A key is a sequence of slashes, dots and letters. `FindLabel`, `LookAt` and
`ReturnFalse` are the three places where `IsKubeletLabel` goes on or returns;
`LookAt` takes any allowed namespace that is left, as Go's iteration over a map does.
`NamespaceRule` says the same by the words between dots.

## 3. What the runs check

| Run | Question | Instance |
|---|---|---|
| `dra_data` | does everything a call carries come through? `TypeOK`, `ResultIsAnswer`, `RequestArrives`, `ErrorIsAnswer` | one call; all 8 routes of version and method; requests and answers with every kind of nil, empty and missing part; drivers that define both methods or one, of either version, well or wrongly embedded; two codes |
| `dra_order` | how often are methods run, is every caller's result its own, also across an upgrade, when does a process panic, does every call return? `RunsOnce`, `ResultIsAnswer`, `ResponseXorError`, `DirectServiceDoesNotPanic`, `EveryCallReturns` | two calls, one request, for every method and version an answer of its own; a v1beta1 driver that defines both methods, and a v1 driver that defines one and embeds a nil pointer |
| `dra_remote` | does all of it implement `RemoteCall`? `IsRemoteCall` | one call, all messages, complete drivers |
| `dra_embed` | violation: what a comment in the code promises of registration, `NoUnimplementedPanic` | one call |
| `grpc_routes` | which method does each stub reach, with what, what does the caller get, and is anybody left waiting? `TypeOK`, `EnteredWithRequest`, `ReachesMethod`, `IsFeed`, `NobodyLeftWaiting` | one call of every stub, to a program for every service, four special programs, up to two of two messages |
| `copy_kubelet` | does a copy of the kubelet's configuration share memory with its original? `Isolated` | one goroutine; every reference field of the configuration in turn, and with it every reference field of what it refers to: three blocks are copied |
| `copy_nested` | does a copy share memory with its original at any depth, is it equal? `Isolated`, `CopyIsEqual` | six types, four blocks deep, two references per block, aliased fields |
| `copy_shared` | may goroutines share objects without locks, and do copies end? `PublishedNeverChanges`, `CopyReturns` | two goroutines, arrays of two elements, two contents |
| `proto_files` | do the tables of every file fit together, which files may be linked together, does a message arrive whole in another version? `OnlyRegistrationVersionsClash`, `TypesFitTogether`, `ArrivesWhole` | a kubelet of all files with one registration version, all programs of two files, plugins of every single file; every method, every set of fields |
| `proto_message` | do views serve, is the descriptor finished when it is returned? `TypeOK`, `ViewsServe`, `DescriptorFinished`, `DescriptorReturns` | three goroutines |
| `api_objects` | is a scheme complete and does it prefer v1, what do converted objects say, who sees a change? `TypeOK`, `ConvertersComplete`, `InstalledPrefersV1`, `SaysWhatItsOriginSaid`, `ChangesStayInOneFamily` | packages added in any order; three objects about two pods, of every type and version |
| `kubelet_labels` | which labels may a kubelet set? `VerdictInAnyOrder`, `NamespaceRule` | 15852 keys: a namespace of the code with up to two symbols before and three after it |

`dra_embed` is the one finding. `RegisterDRAPluginServer` says that a nil embedded
`UnimplementedDRAPluginServer` is tested for at initialization "to prevent it from
happening at runtime later". A driver registered through `V1ServerWrapper` or
`V1Beta1ServerWrapper` is not tested, because the wrapper's type has no such method;
TLC shows the process panicking in a call.

Two remarks that are no findings. The comment of `IsKubeletLabel` speaks of
namespaces "in the KubeletLabelNamespaces() list"; the code also accepts the domains
below them, and `NamespaceRule` states the code's rule. And two versions of the
registration API in one program make it panic at its start, as protobuf documents;
`grpc_routes` has such a program nevertheless, because
`GOLANG_PROTOBUF_REGISTRATION_CONFLICT=warn` lets it start.

### Bounds, and why they are enough

* Calls of the DRA and gRPC models share only the server's process and what is
  registered in it, so two calls show what one call can do to another; in `GrpcCalls`
  even less, and there one call of every stub leaves room for every program. The
  proofs are for any number of calls. Data runs use one call, since conversions look
  at one message.
* Requests and answers have at most three claims, devices or entries. The conversions
  treat elements one by one, so one nil element between two others, an empty list and
  no list are all the cases they distinguish. The proofs drop this bound.
* `Codes` is `Unimplemented`, the only code that a property distinguishes, and in
  `dra_data` another one that a wrapper could exchange for it. The proofs are for any
  set of codes.
* `MaxItems` (`GrpcCalls`) is two messages of two values, which tells a lost, a
  repeated and a swapped message apart.
* `MaxBlocks`, `MaxHeap`, `MaxRefs` and `Width` (`DeepCopy`) bound the blocks made by
  hand, the blocks that exist when a copy begins, the references of a block that are
  set and the elements of an array. In `copy_kubelet` three blocks may exist when a copy
  begins: every field of the configuration gets set, one at a time, with a pointee that
  has a field set in turn. One path in the configuration is longer, from
  `ReservedMemory` over its elements and their `Limits` to what a quantity refers to;
  `copy_nested`, where up to four blocks exist when a copy begins, has it from the
  elements on, with two references per block. `copy_shared` has copies of copies. The
  proofs hold for any value of the bounds.
* `proto_files`: files meet in pairs (a name clashes with a name), and in the whole
  kubelet; one message is under way at a time, since messages do not meet.
* `proto_message`: a goroutine that resets, one that has a view, one that stores the
  info.
* `api_objects`: `Cells` is six addresses for three objects with at most three
  references each, `MaxFamilies` two families at a time, `MaxChanged` one address
  where something was written over; objects are made with one scheme (`UsedSchemes`),
  the kubelet's, while the properties of schemes are checked for every scheme that
  can be built. Three objects are an original, a relative and a copy. Objects and
  pods are symmetric: no definition distinguishes them. The action property is
  checked under this symmetry too, as it does not name an object either.
* `kubelet_labels`: the rule depends on the first slash and on the symbol before a
  suffix; both occur at every place around every namespace.

`DeepCopy`, `ApiObjects`, `ProtoFiles` and `KubeletLabels` have `CHECK_DEADLOCK
FALSE`, and only they: the first two stop when the bounds are used up, a program that
panicked at its start has stopped, and `IsKubeletLabel` returns. The others never
stop.

Every property has a mutant in PROJECT.json: a plausible mistake in the code under
which TLC finds the property violated. Mutants stand in the modules before the
definition they replace.

### Fairness

* `DRAPlugin!Fairness`: goroutines of handlers and stubs run, gRPC reports a broken
  connection to a waiting `Invoke`, and a driver's method returns. No deadline, no
  cancellation, no restart is assumed.
* `GrpcCalls!Fairness`: the goroutines of stubs and handlers run; a caller that was
  given a stream reads it until it gets an error (the documentation of `NewStream`
  that every stub refers to demands that, or a cancelled context); a method returns
  once the context of its stream is done. A `ListAndWatch` whose stream is up need
  never return.
* `DeepCopy!FairSpec`: a goroutine in a `DeepCopy` is scheduled again. Nothing locks,
  so that is all it takes.
* `ProtoMessage!FairSpec`: a goroutine in `rawDescGZIP` is scheduled again. Those
  that wait in `sync.Once` depend on the one that runs its function.

## 4. What is proved

For all constants that satisfy the named assumptions: any number of calls,
goroutines, objects, claims and devices, any drivers and server programs.

* `DRAPluginProofs`: `TypeCorrect`, `ResultsAreAnswers`, `RequestsArrive`,
  `CallsRunOnce`, `ErrorsAreAnswers`, `ResponseOrError`, `DirectServicesDoNotPanic`, `CallsAreRemoteCalls`.
  First the data: each conversion and each passage over the wire gives a message of
  the right version and keeps the claims, errors and devices; share IDs survive a way
  without v1beta1 and no other. The properties speak of a caller's result and the
  driver's answer only; the inductive invariant `Inv` says for each call where on its
  way it is and how the request sent, the request seen, the answer, the reply on the
  wire and the result then relate. One lemma per action; the steps of different calls
  meet only in `GoDown`, which gets its own. `CallsAreRemoteCalls` is the refinement,
  `Spec => IsRemoteCall`: two lemmas turn what `Inv` says of messages (the same claims,
  the same entries) into equal views; then `Call` is a `Submit`, `Enter` a `Begin`,
  `Answer` a `Finish`, a return of `Invoke` a `Succeed` or a `Fail`, and everything
  else, the wire, the process and its panics, a stutter.
* `GrpcCallsProofs`: `TypesOfCalls`, `RunsOnWhatWasSent`, `StubsReachTheirMethods`,
  `CallsAreFeeds`. Why a method runs only on the request its caller passed:
  `RequestOK` says that a request is on its way only after `SendMsg`, `EnteredOK`
  that a method runs only on what was on its way. `CallsAreFeeds` is the refinement
  of `Feed`; it rests on `DataOK`: as long as the caller waits, what it has followed
  by what is on the wire is the beginning of what the method sent, and all of it
  unless the stream was cut. `StubsReachTheirMethods` reduces to facts about the two
  tables of `Services`, for each stub and each descriptor, and to `ServerOK`:
  services of one wire name are never registered together. When the caller is told
  `Unimplemented`, it says that the server ended the call with that code itself (an
  interceptor or the method may) or does not define the method.
* `DeepCopyProofs`: `TypeCorrect`, `CopiesAreIsolated`,
  `PublishedObjectsNeverChange`, `CopiesAreEqual`. `AllCopied` is the fact about the
  generated code on which all rests: the two tables are equal. `Inv` extends the
  properties to copies that are not finished: a reference of a block that is being
  copied leads to the goroutine's own memory, except for the fields in `pending`,
  which still hold what the original holds; a block with such fields is on the stack
  of its owner, who is copying; the block it is made from is published and so cannot
  change underneath.
* `ProtoFilesProofs`: `OnlyVersionsClash`, `TypesAlwaysFit`, `MessagesArriveWhole`, for any number of programs linked from any of the files in any
  order. The clash is about names: files of different protobuf packages have different
  ones, those of one package other than the registration API too, so a program that
  runs links one version of that API (`OneVersion`). The types are about tables, and
  what has to be found in them is `Fits`: each message of the descriptor next to the Go
  type of its place, the fields that take an index in the order of `depIdxs`, each
  index leading to the message or enum the field names. One lemma per file
  (`DRAV1Fits` and so on) finds it message by message and index by index; the other
  lemmas need nothing else of the tables. The two older versions of the registration
  API have the same tables as v1 (`RegistrationVersionsAgree`). `TypesAlwaysFit`
  follows, and that marshalling and unmarshalling under one descriptor give back the
  fields that were set (`ThereAndBack`). `MessagesArriveWhole` adds the invariant
  `WireInv`, that a message under way is one that some file's type can have made, and
  `SameEnd`: sender and receiver, who agree on the path of the method only, have built
  the message from the same declarations.
* `ProtoMessageProofs`: `ViewsAlwaysServe`, `DescriptorAlwaysFinished`, under the
  contract between readers and writers (`Contract`). `ViewsServe` is not inductive: a message with views has
  its info except during a `Reset` (`InfoUnlessReset`), and whoever resets is alone
  with the message until it has put the info back (`HoldsAccess`).
* `ApiObjectsProofs`: `ObjectsWellFormed`, `ConversionsLoseAndMixNothing`,
  `DeepCopySeparates`, `SchemesConvertBothWays`, `InstallPrefersV1`. Two lemmas about
  the tables carry the first three: a conversion assigns exactly the fields that both
  versions have, and a deep copy makes every reference anew. The invariant adds to the properties that
  only the same field of two objects of one family refers to one address
  (`SharingOK`), so that a change is seen in one family only. `InstallPrefersV1` goes
  by induction over the lists of versions: the list of a group's versions has every
  observed version once, those with a priority first (`Lists`, `ListOneMore`); and only
  v1 ever gets a priority from a package here (`PriorityOK`), so Install has nothing to
  overtake.
* `KubeletLabelsProofs`: `VerdictDependsOnKeyOnly`, `NamespacesAreDomains`. The code
  compares the ends of strings, the rule speaks of the words between dots. That a name
  ends in a dot and a domain exactly if its words end in those of the domain
  (`BelowByWords`) is shown by taking letters off the two names, one at a time.
* `Induction`: a set of numbers with 0 and with the next of each has all of them, and a
  recursive definition over the numbers has a function that satisfies it. The
  libraries' induction theorems take an operator, which the provers cannot
  instantiate; these take a set, and rest on the well-foundedness of the order only.

The invariants that the proofs use were checked with TLC before.

Only model-checked is liveness (`EveryCallReturns`, `NobodyLeftWaiting`,
`CopyReturns`, `DescriptorReturns`), because fairness needs ENABLED, which is beyond
the prover. Every other property that a passing run checks is the conclusion of a
theorem. The type invariants of `DeepCopy` and `ProtoFiles` are proved but in no run:
Go's types and its order of initialization keep them, so that no mistake in this code
could break them; the other proofs need them.

## 5. What is not modelled

* `pkg/types/labels.go` (four functions that read one key of a map), stats types,
  constants, model names: there is no behaviour in them. The generated defaults are
  empty and registered nowhere.
* `kind` and `apiVersion` of objects (`TypeMeta`), and `metav1.AddToGroupVersion`:
  the scheme's.
* The names, JSON names and encodings of protobuf fields; unknown fields that a
  program passes on (no program here does).
* Flow control, keepalives and retries of gRPC: external. The stubs set no retry
  policy.
* Memory of DRA messages between two wrappers in one process, beyond the device's
  lists: the conversions build everything else anew.

## 6. Plan

The parts of the repository that have behaviour are modelled. What could be added:

1. Programs of `GrpcCalls` that are linked from the files of `ProtoFiles`, in one
   model. The two meet in one place, whether a program of two registration versions
   starts.
2. Objects of more than one type in `ApiObjects` (a configuration together with
   responses). They share nothing but the scheme.
