---------------------------- MODULE ProtoMessage ----------------------------
(***************************************************************************)
(* A generated message (api.pb.go) in the memory of one program, used by   *)
(* several goroutines, and the compressed descriptor of its file.          *)
(*                                                                         *)
(* A message carries a pointer to the message info of its type.  Nobody    *)
(* has to initialise it: ProtoReflect stores it when it finds none, even   *)
(* in a message that other goroutines are reading, and Reset, which wipes  *)
(* the whole message and the pointer with it, stores it again.  Views      *)
(* (protoreflect.Message) made before are views of the same memory and     *)
(* panic when the pointer is nil.                                          *)
(*                                                                         *)
(* External: the goroutines keep the contract of the protobuf runtime, any *)
(* number of readers or one writer of a message at a time; a lock stands   *)
(* for it.  The runtime's loads and stores of the pointer are atomic, as   *)
(* is sync.Once.                                                           *)
(***************************************************************************)
CONSTANTS
  Nil,
  Goroutines,
  MessageInfo,  \* &file_..._msgTypes[i], the info of the message's type
  Compressed    \* the descriptor, compressed

ASSUME InfoAssumption == MessageInfo # Nil
ASSUME CompressedAssumption == Compressed # Nil
ASSUME NobodyAssumption == Nil \notin Goroutines

VARIABLES
  info,      \* the pointer in the message
  readers,   \* goroutines that may read the message
  writer,    \* the goroutine that may change it, or Nil
  view,      \* for a goroutine, "none", "of message" or "of nil pointer"
  pc,        \* where a goroutine is
  once,      \* rawDescOnce: "new", "running" or "done"
  data,      \* rawDescData
  returned   \* what a goroutine's last call of Descriptor returned

message == <<info, readers, writer, view>>
descriptor == <<once, data, returned>>
vars == <<message, pc, descriptor>>

Locations ==
  {"idle", "loaded", "wiped", "using", "panicked", "once", "body", "return"}

Init ==
  /\ info = Nil
  /\ readers = {}
  /\ writer = Nil
  /\ view = [g \in Goroutines |-> "none"]
  /\ pc = [g \in Goroutines |-> "idle"]
  /\ once = "new"
  /\ data = Nil
  /\ returned = [g \in Goroutines |-> Nil]

Go(g, from, to) ==
  /\ pc[g] = from
  /\ pc' = [pc EXCEPT ![g] = to]

-----------------------------------------------------------------------------
(* The contract.                                                           *)

MayRead(g) == g \in readers \/ writer = g

BeginRead(g) ==
  /\ pc[g] = "idle"
  /\ writer = Nil
  /\ readers' = readers \cup {g}
  /\ UNCHANGED <<info, writer, view, pc, descriptor>>

BeginWrite(g) ==
  /\ pc[g] = "idle"
  /\ writer = Nil
  /\ readers = {}
  /\ writer' = g
  /\ UNCHANGED <<info, readers, view, pc, descriptor>>

\* A goroutine stops using the message, but may keep its view.
End(g) ==
  /\ pc[g] = "idle"
  /\ MayRead(g)
  /\ readers' = readers \ {g}
  /\ writer' = Nil
  /\ UNCHANGED <<info, view, pc, descriptor>>

-----------------------------------------------------------------------------
(* The message.                                                            *)

\* ProtoReflect: the message has its info.
Reflect(g) ==
  /\ pc[g] = "idle"
  /\ MayRead(g)
  /\ info # Nil
  /\ view' = [view EXCEPT ![g] = "of message"]
  /\ UNCHANGED <<info, readers, writer, pc, descriptor>>

\* ProtoReflect: it has none (LoadMessageInfo) ...
LoadMessageInfo(g) ==
  /\ MayRead(g)
  /\ info = Nil
  /\ Go(g, "idle", "loaded")
  /\ UNCHANGED <<message, descriptor>>

\* ... and gets it (StoreMessageInfo), whatever others did meanwhile.
\* Mutant: a message without info is returned as it is.
StoreMessageInfoForgotten(g) ==
  /\ Go(g, "loaded", "idle")
  /\ view' = [view EXCEPT ![g] = "of message"]
  /\ UNCHANGED <<info, readers, writer, descriptor>>
StoreMessageInfo(g) ==
  /\ Go(g, "loaded", "idle")
  /\ info' = MessageInfo
  /\ view' = [view EXCEPT ![g] = "of message"]
  /\ UNCHANGED <<readers, writer, descriptor>>

\* ProtoReflect of a nil pointer: mi.MessageOf(x) touches no message.
ReflectNil(g) ==
  /\ pc[g] = "idle"
  /\ view' = [view EXCEPT ![g] = "of nil pointer"]
  /\ UNCHANGED <<info, readers, writer, pc, descriptor>>

\* Reset: *x = T{} ...
Wipe(g) ==
  /\ writer = g
  /\ Go(g, "idle", "wiped")
  /\ info' = Nil
  /\ UNCHANGED <<readers, writer, view, descriptor>>

\* ... and the info again.
\* Mutant: Reset takes the info of another type: the wrong index in msgTypes.
RestoreAnotherInfo(g) ==
  /\ Go(g, "wiped", "idle")
  /\ info' = "info of another type"
  /\ UNCHANGED <<readers, writer, view, descriptor>>
\* Mutant: Reset leaves it to the next ProtoReflect to store the info.
RestoreMessageInfoForgotten(g) ==
  /\ Go(g, "wiped", "idle")
  /\ UNCHANGED <<message, descriptor>>
RestoreMessageInfo(g) ==
  /\ Go(g, "wiped", "idle")
  /\ info' = MessageInfo
  /\ UNCHANGED <<readers, writer, view, descriptor>>

\* Whatever is done through a view, such as marshalling, starts with the
\* info of its message and goes on to read the message by it.
UseView(g) ==
  /\ MayRead(g)
  /\ view[g] = "of message"
  /\ Go(g, "idle", IF info = Nil THEN "panicked" ELSE "using")
  /\ UNCHANGED <<message, descriptor>>

EndUse(g) ==
  /\ Go(g, "using", "idle")
  /\ UNCHANGED <<message, descriptor>>

-----------------------------------------------------------------------------
(* Descriptor and EnumDescriptor, of any message: rawDescGZIP.             *)

Descriptor(g) ==
  /\ Go(g, "idle", "once")
  /\ UNCHANGED <<message, descriptor>>

\* rawDescOnce.Do: the first caller runs the function, the others wait.
\* Mutant: a flag says that somebody has begun.
EnterBodyAsFlag(g) ==
  /\ once = "new"
  /\ Go(g, "once", "body")
  /\ once' = "done"
  /\ UNCHANGED <<message, data, returned>>
EnterBody(g) ==
  /\ once = "new"
  /\ Go(g, "once", "body")
  /\ once' = "running"
  /\ UNCHANGED <<message, data, returned>>

Compress(g) ==
  /\ Go(g, "body", "return")
  /\ data' = Compressed
  /\ once' = "done"
  /\ UNCHANGED <<message, returned>>

SkipBody(g) ==
  /\ once = "done"
  /\ Go(g, "once", "return")
  /\ UNCHANGED <<message, descriptor>>

\* Mutant: tries again as long as it has not returned anything yet.
ReturnRetried(g) ==
  /\ Go(g, "return", IF returned[g] = Nil THEN "once" ELSE "idle")
  /\ UNCHANGED <<message, descriptor>>
Return(g) ==
  /\ Go(g, "return", "idle")
  /\ returned' = [returned EXCEPT ![g] = data]
  /\ UNCHANGED <<message, once, data>>

DescriptorStep(g) == EnterBody(g) \/ Compress(g) \/ SkipBody(g) \/ Return(g)

-----------------------------------------------------------------------------
Next ==
  \E g \in Goroutines :
    \/ BeginRead(g) \/ BeginWrite(g) \/ End(g)
    \/ Reflect(g) \/ LoadMessageInfo(g) \/ StoreMessageInfo(g)
    \/ ReflectNil(g)
    \/ Wipe(g) \/ RestoreMessageInfo(g)
    \/ UseView(g) \/ EndUse(g)
    \/ Descriptor(g) \/ DescriptorStep(g)

Spec == Init /\ [][Next]_vars

\* A goroutine inside Descriptor goes on, as the Go scheduler lets it.
FairSpec == Spec /\ \A g \in Goroutines : WF_vars(DescriptorStep(g))

-----------------------------------------------------------------------------
(* Properties.                                                             *)

\* Types: in particular, a message never carries the info of another type.
TypeOK ==
  /\ info \in {Nil, MessageInfo}
  /\ readers \subseteq Goroutines
  /\ writer \in Goroutines \cup {Nil}
  /\ view \in [Goroutines -> {"none", "of message", "of nil pointer"}]
  /\ pc \in [Goroutines -> Locations]
  /\ once \in {"new", "running", "done"}
  /\ data \in {Nil, Compressed}
  /\ returned \in [Goroutines -> {Nil, Compressed}]

\* A view serves as long as its message does: over any number of Resets by
\* others, and when readers store the info at the same time, nobody who
\* keeps the contract finds the message without it or loses it meanwhile.
ViewsServe ==
  \A g \in Goroutines :
    /\ pc[g] # "panicked"
    /\ pc[g] = "using" => info = MessageInfo

\* Descriptor never returns a descriptor that is not there or not finished:
\* those who come while the first caller compresses it wait for the end.
DescriptorFinished ==
  \A g \in Goroutines : pc[g] = "return" => data = Compressed

\* Every call of Descriptor returns.
DescriptorReturns ==
  \A g \in Goroutines :
    pc[g] \in {"once", "body", "return"} ~> pc[g] = "idle"
=============================================================================
