---------------------------- MODULE DeepCopy ----------------------------
(***************************************************************************)
(* The generated DeepCopy functions at work.  Goroutines share an object   *)
(* by publishing it; who wants another version takes a deep copy of the    *)
(* published object, changes the copy and publishes that.  Nobody locks    *)
(* anything while reading, copying or changing: all rests on a deep copy   *)
(* having no memory in common with its original.                           *)
(*                                                                         *)
(* Memory is a sequence of blocks.  A block is a struct or an array or map *)
(* of structs; it holds flat contents and references to other blocks.      *)
(* DeepCopyInto is modelled at the grain of its if-statements: one step    *)
(* per reference field that is not nil.  Between two steps the copy still  *)
(* shares memory with its original, and other goroutines run.              *)
(***************************************************************************)
EXTENDS DeepCopyTypes, Naturals, Sequences, FiniteSets

CONSTANTS
  Procs,      \* goroutines
  Roots,      \* the kinds of objects they make, copy and publish
  Values,     \* flat contents of a block
  Width,      \* bound: elements of an array or map that hold references
  MaxRefs,    \* bound: references in a block that are not nil
  MaxBlocks,  \* bound: no block is made by hand beyond this many
  MaxHeap     \* bound: no DeepCopy begins beyond this many blocks

ASSUME RootsAssumption == Roots \subseteq Kinds
ASSUME WidthAssumption == Width \in Nat
ASSUME MaxRefsAssumption == MaxRefs \in Nat
ASSUME MaxBlocksAssumption == MaxBlocks \in Nat /\ MaxHeap \in Nat
ASSUME ProcsAssumption == "public" \notin Procs

VARIABLES
  heap,       \* the allocated blocks; an address is an index
  owner,      \* who may write a block: a goroutine, or nobody any more
  origin,     \* the block DeepCopyInto made a block from (Nil: made by hand)
  pending,    \* reference fields DeepCopyInto has still to copy, per block
  published,  \* the address of the published object
  object,     \* the object a goroutine has for itself
  at,         \* the block of it that it is working on
  stack,      \* DeepCopyInto frames: the blocks being copied into
  phase       \* "idle", "copying", "copied" (and not written since), "own"

vars == <<heap, owner, origin, pending, published, object, at, stack, phase>>

Nil == 0
Public == "public"
Addr == 1 .. Len(heap)

\* Every element of an array has reference fields of its own.
Slots(k) == (IF k.many THEN 1 .. Width ELSE {0}) \X Declared[k.pkg][k.type]

\* The fields DeepCopyInto looks at; the others keep what `*out = *in` put there.
Handled(k) == (IF k.many THEN 1 .. Width ELSE {0}) \X Copied[k.pkg][k.type]

Target(k, s) == Pointee(k, s[2])

NewBlock(k, v) == [kind |-> k, data |-> v, ref |-> [s \in Slots(k) |-> Nil]]

Next1 == Len(heap) + 1

Init ==
  /\ heap = <<>>
  /\ owner = <<>>
  /\ origin = <<>>
  /\ pending = <<>>
  /\ published = Nil
  /\ object = [p \in Procs |-> Nil]
  /\ at = [p \in Procs |-> Nil]
  /\ stack = [p \in Procs |-> <<>>]
  /\ phase = [p \in Procs |-> "idle"]

-----------------------------------------------------------------------------
(* What the users of the API types do with an object of their own.         *)

Owns(p) == phase[p] \in {"copied", "own"}

New(p, k, v) ==
  /\ phase[p] = "idle"
  /\ Len(heap) < MaxBlocks
  /\ heap' = Append(heap, NewBlock(k, v))
  /\ owner' = Append(owner, p)
  /\ origin' = Append(origin, Nil)
  /\ pending' = Append(pending, {})
  /\ object' = [object EXCEPT ![p] = Next1]
  /\ at' = [at EXCEPT ![p] = Next1]
  /\ phase' = [phase EXCEPT ![p] = "own"]
  /\ UNCHANGED <<published, stack>>

RoomFor(p, s) ==
  LET refs == heap[at[p]].ref
  IN  Cardinality({t \in DOMAIN refs \ {s} : refs[t] # Nil}) < MaxRefs

\* Give a nil reference field of the block a new value.
Set(p, s, v) ==
  /\ Owns(p)
  /\ Len(heap) < MaxBlocks
  /\ s \in Slots(heap[at[p]].kind)
  /\ heap[at[p]].ref[s] = Nil
  /\ RoomFor(p, s)
  /\ heap' = Append([heap EXCEPT ![at[p]].ref[s] = Next1],
                    NewBlock(Target(heap[at[p]].kind, s), v))
  /\ owner' = Append(owner, p)
  /\ origin' = Append(origin, Nil)
  /\ pending' = Append(pending, {})
  /\ phase' = [phase EXCEPT ![p] = "own"]
  /\ UNCHANGED <<published, object, at, stack>>

\* Let two fields of an object refer to the same memory, or set one to nil.
Assign(p, s, a) ==
  /\ Owns(p)
  /\ s \in Slots(heap[at[p]].kind)
  /\ a # Nil => /\ owner[a] = p
                /\ heap[a].kind = Target(heap[at[p]].kind, s)
                /\ RoomFor(p, s)
  /\ heap' = [heap EXCEPT ![at[p]].ref[s] = a]
  /\ phase' = [phase EXCEPT ![p] = "own"]
  /\ UNCHANGED <<owner, origin, pending, published, object, at, stack>>

Write(p, v) ==
  /\ Owns(p)
  /\ heap' = [heap EXCEPT ![at[p]].data = v]
  /\ phase' = [phase EXCEPT ![p] = "own"]
  /\ UNCHANGED <<owner, origin, pending, published, object, at, stack>>

Follow(p, s) ==
  /\ Owns(p)
  /\ s \in Slots(heap[at[p]].kind)
  /\ heap[at[p]].ref[s] # Nil
  /\ at' = [at EXCEPT ![p] = heap[at[p]].ref[s]]
  /\ UNCHANGED <<heap, owner, origin, pending, published, object, stack, phase>>

\* From here on nobody writes the object.
Publish(p) ==
  /\ Owns(p)
  /\ published' = object[p]
  /\ owner' = [a \in DOMAIN owner |-> IF owner[a] = p THEN Public ELSE owner[a]]
  /\ object' = [object EXCEPT ![p] = Nil]
  /\ at' = [at EXCEPT ![p] = Nil]
  /\ phase' = [phase EXCEPT ![p] = "idle"]
  /\ UNCHANGED <<heap, origin, pending, stack>>

-----------------------------------------------------------------------------
(* DeepCopy and DeepCopyInto.                                              *)

\* The block that DeepCopyInto is copying into, and the one it copies.
Out(p) == stack[p][Len(stack[p])]
In(p) == origin[Out(p)]

\* Allocate a block and begin it as `*out = *in` does.
Begin(p, a) ==
  /\ owner' = Append(owner, p)
  /\ origin' = Append(origin, a)
  /\ stack' = [stack EXCEPT ![p] = Append(@, Next1)]

\* new(T), then DeepCopyInto(out).  A nil receiver gives nil.
DeepCopy(p) ==
  /\ phase[p] = "idle"
  /\ published # Nil
  /\ Len(heap) < MaxHeap
  /\ heap' = Append(heap, heap[published])
  /\ pending' = Append(pending, Slots(heap[published].kind))
  /\ Begin(p, published)
  /\ object' = [object EXCEPT ![p] = Next1]
  /\ at' = [at EXCEPT ![p] = Next1]
  /\ phase' = [phase EXCEPT ![p] = "copying"]
  /\ UNCHANGED published

\* Reference fields that DeepCopyInto finds to be not nil and has not copied.
ToCopy(p) ==
  {s \in pending[Out(p)] \cap Handled(heap[In(p)].kind) : heap[In(p)].ref[s] # Nil}

\* Mutant: the block is allocated but what it refers to is not copied.
CopyFieldShallow(p, s) ==
  /\ phase[p] = "copying"
  /\ s \in ToCopy(p)
  /\ heap' = Append([heap EXCEPT ![Out(p)].ref[s] = Next1], heap[heap[In(p)].ref[s]])
  /\ pending' = Append([pending EXCEPT ![Out(p)] = @ \ {s}], {})
  /\ owner' = Append(owner, p)
  /\ origin' = Append(origin, heap[In(p)].ref[s])
  /\ UNCHANGED <<published, object, at, phase, stack>>

\* if in.F != nil { *out = new or make; copy into it }
CopyField(p, s) ==
  /\ phase[p] = "copying"
  /\ s \in ToCopy(p)
  /\ LET from == heap[In(p)].ref[s]
     IN  /\ heap' = Append([heap EXCEPT ![Out(p)].ref[s] = Next1], heap[from])
         /\ pending' = Append([pending EXCEPT ![Out(p)] = @ \ {s}],
                              Slots(heap[from].kind))
         /\ Begin(p, from)
  /\ UNCHANGED <<published, object, at, phase>>

\* Mutant: a nested call does not return.
ReturnFromOutermost(p) ==
  /\ phase[p] = "copying"
  /\ ToCopy(p) = {}
  /\ Len(stack[p]) = 1
  /\ pending' = [pending EXCEPT ![Out(p)] = {}]
  /\ stack' = [stack EXCEPT ![p] = <<>>]
  /\ phase' = [phase EXCEPT ![p] = "copied"]
  /\ UNCHANGED <<heap, owner, origin, published, object, at>>

\* The end of DeepCopyInto; with the outermost, DeepCopy returns the copy.
ReturnFromCopy(p) ==
  /\ phase[p] = "copying"
  /\ ToCopy(p) = {}
  /\ pending' = [pending EXCEPT ![Out(p)] = {}]
  /\ stack' = [stack EXCEPT ![p] = SubSeq(@, 1, Len(@) - 1)]
  /\ phase' = [phase EXCEPT ![p] = IF Len(stack[p]) = 1 THEN "copied" ELSE @]
  /\ UNCHANGED <<heap, owner, origin, published, object, at>>

CopyStep(p) ==
  \/ \E s \in ToCopy(p) : CopyField(p, s)
  \/ ReturnFromCopy(p)

-----------------------------------------------------------------------------
Use(p) ==
  \/ \E k \in Roots, v \in Values : New(p, k, v)
  \/ Owns(p) /\ \E s \in Slots(heap[at[p]].kind), v \in Values : Set(p, s, v)
  \/ Owns(p) /\ \E s \in Slots(heap[at[p]].kind), a \in {Nil} \cup Addr : Assign(p, s, a)
  \/ \E v \in Values : Write(p, v)
  \/ Owns(p) /\ \E s \in Slots(heap[at[p]].kind) : Follow(p, s)
  \/ Publish(p)

Copy(p) == DeepCopy(p) \/ (phase[p] = "copying" /\ CopyStep(p))

Next == \E p \in Procs : Use(p) \/ Copy(p)

Spec == Init /\ [][Next]_vars

\* A goroutine that is copying is not stopped for good.
FairSpec == Spec /\ \A p \in Procs : WF_vars(phase[p] = "copying" /\ CopyStep(p))

-----------------------------------------------------------------------------
(* Properties.                                                             *)

\* Every reference in memory is nil or leads to a block of the kind its field
\* is declared with.
TypeOK ==
  /\ \A a \in Addr :
       /\ heap[a].kind \in Kinds
       /\ heap[a].data \in Values
       /\ DOMAIN heap[a].ref = Slots(heap[a].kind)
       /\ \A s \in Slots(heap[a].kind) :
            heap[a].ref[s] # Nil => /\ heap[a].ref[s] \in Addr
                                    /\ heap[heap[a].ref[s]].kind = Target(heap[a].kind, s)
       /\ owner[a] \in Procs \cup {Public}
       /\ origin[a] \in {Nil} \cup Addr
       /\ pending[a] \subseteq Slots(heap[a].kind)
  /\ published \in {Nil} \cup Addr
  /\ object \in [Procs -> {Nil} \cup Addr]
  /\ at \in [Procs -> {Nil} \cup Addr]
  /\ stack \in [Procs -> Seq(Addr)]
  /\ phase \in [Procs -> {"idle", "copying", "copied", "own"}]

\* Once DeepCopy has returned, no field of any block of the copy refers to
\* memory that is not the copy's own: neither a field of the object itself
\* nor one of an array, a map or a struct that it refers to, at any depth and
\* whatever its owner has done to the copy since.
Isolated ==
  \A p \in Procs : Owns(p) =>
    \A a \in Addr : owner[a] = p =>
      \A s \in Slots(heap[a].kind) :
        heap[a].ref[s] # Nil => owner[heap[a].ref[s]] = p

\* Changing one's own object never changes a published one: readers and
\* copiers of published objects need no lock.
PublishedNeverChanges ==
  [][\A a \in Addr : owner[a] = Public => heap'[a] = heap[a]]_vars

\* A copy that has not been written is equal to its original all the way
\* down: the same contents, nil where the original is nil and only there.
CopyIsEqual ==
  \A p \in Procs : phase[p] = "copied" =>
    \A a \in Addr : owner[a] = p =>
      /\ heap[a].kind = heap[origin[a]].kind
      /\ heap[a].data = heap[origin[a]].data
      /\ \A s \in Slots(heap[a].kind) :
           /\ heap[a].ref[s] = Nil <=> heap[origin[a]].ref[s] = Nil
           /\ heap[a].ref[s] # Nil => origin[heap[a].ref[s]] = heap[origin[a]].ref[s]

\* DeepCopy returns, however the other goroutines are scheduled.
CopyReturns == \A p \in Procs : phase[p] = "copying" ~> phase[p] = "copied"

=============================================================================
