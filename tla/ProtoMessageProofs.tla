------------------------- MODULE ProtoMessageProofs -------------------------
(***************************************************************************)
(* Proofs about ProtoMessage, for any number of goroutines.                *)
(***************************************************************************)
EXTENDS ProtoMessage, TLAPS

\* The contract, which the proofs assume of the message's users: it is what
\* the guards of BeginRead and BeginWrite keep.
Contract == writer # Nil => readers = {}

\* Whoever is in the middle of something still has what it began with.
HoldsAccess ==
  \A g \in Goroutines :
    /\ pc[g] \in {"loaded", "using"} => MayRead(g)
    /\ pc[g] = "wiped" => writer = g

\* A message with views loses its info only for the length of a Reset.
InfoUnlessReset ==
  \A g \in Goroutines :
    (info = Nil /\ view[g] = "of message")
      => \E w \in Goroutines : pc[w] = "wiped"

\* One goroutine at most runs the function given to rawDescOnce, and nobody
\* has passed it before it has ended.
OnceInOrder ==
  /\ once = "done" => data = Compressed
  /\ \A g \in Goroutines :
       /\ pc[g] = "return" => once = "done"
       /\ pc[g] = "body" =>
            /\ once = "running"
            /\ \A h \in Goroutines : pc[h] = "body" => h = g

\* The inductive invariant.
IInv ==
  /\ TypeOK
  /\ Contract
  /\ HoldsAccess
  /\ InfoUnlessReset
  /\ ViewsServe
  /\ OnceInOrder

USE InfoAssumption, CompressedAssumption, NobodyAssumption

LEMMA InitIInv == Init => IInv
  BY DEF Init, IInv, TypeOK, Contract, HoldsAccess, InfoUnlessReset,
         ViewsServe, OnceInOrder, Locations

\* Types and the contract.
LEMMA TypeStep == IInv /\ [Next]_vars => TypeOK' /\ Contract'
<1> SUFFICES ASSUME IInv, [Next]_vars PROVE TypeOK' /\ Contract'
  OBVIOUS
<1> USE DEF IInv, TypeOK, Contract, Locations, Go, MayRead, message,
            descriptor
<1>1. CASE UNCHANGED vars
  BY <1>1 DEF vars
<1>2. CASE Next
  <2> PICK g \in Goroutines :
        \/ BeginRead(g) \/ BeginWrite(g) \/ End(g)
        \/ Reflect(g) \/ LoadMessageInfo(g) \/ StoreMessageInfo(g)
        \/ ReflectNil(g)
        \/ Wipe(g) \/ RestoreMessageInfo(g)
        \/ UseView(g) \/ EndUse(g)
        \/ Descriptor(g) \/ DescriptorStep(g)
    BY <1>2 DEF Next
  <2>1. CASE BeginRead(g) BY <2>1 DEF BeginRead
  <2>2. CASE BeginWrite(g) BY <2>2 DEF BeginWrite
  <2>3. CASE End(g) BY <2>3 DEF End
  <2>4. CASE Reflect(g) BY <2>4 DEF Reflect
  <2>5. CASE LoadMessageInfo(g) BY <2>5 DEF LoadMessageInfo
  <2>6. CASE StoreMessageInfo(g) BY <2>6 DEF StoreMessageInfo
  <2>7. CASE ReflectNil(g) BY <2>7 DEF ReflectNil
  <2>8. CASE Wipe(g) BY <2>8 DEF Wipe
  <2>9. CASE RestoreMessageInfo(g) BY <2>9 DEF RestoreMessageInfo
  <2>10. CASE UseView(g) BY <2>10 DEF UseView
  <2>11. CASE EndUse(g) BY <2>11 DEF EndUse
  <2>12. CASE Descriptor(g) BY <2>12 DEF Descriptor
  <2>13. CASE DescriptorStep(g)
    BY <2>13 DEF DescriptorStep, EnterBody, Compress, SkipBody, Return
  <2> QED BY <2>1, <2>2, <2>3, <2>4, <2>5, <2>6, <2>7, <2>8, <2>9, <2>10,
             <2>11, <2>12, <2>13
<1> QED BY <1>1, <1>2

\* The message: access, info and views.  Only Wipe takes the info away, and
\* its goroutine is alone with the message until it has put it back.
LEMMA MessageStep ==
  IInv /\ [Next]_vars => HoldsAccess' /\ InfoUnlessReset' /\ ViewsServe'
<1> SUFFICES ASSUME IInv, [Next]_vars
             PROVE  HoldsAccess' /\ InfoUnlessReset' /\ ViewsServe'
  OBVIOUS
<1> USE DEF IInv, TypeOK, Contract, HoldsAccess, InfoUnlessReset, ViewsServe,
            Locations, Go, MayRead, message, descriptor
<1>1. CASE UNCHANGED vars
  BY <1>1 DEF vars
<1>2. CASE Next
  <2> PICK g \in Goroutines :
        \/ BeginRead(g) \/ BeginWrite(g) \/ End(g)
        \/ Reflect(g) \/ LoadMessageInfo(g) \/ StoreMessageInfo(g)
        \/ ReflectNil(g)
        \/ Wipe(g) \/ RestoreMessageInfo(g)
        \/ UseView(g) \/ EndUse(g)
        \/ Descriptor(g) \/ DescriptorStep(g)
    BY <1>2 DEF Next
  <2>1. CASE BeginRead(g) BY <2>1 DEF BeginRead
  <2>2. CASE BeginWrite(g) BY <2>2 DEF BeginWrite
  <2>3. CASE End(g) BY <2>3 DEF End
  <2>4. CASE Reflect(g) BY <2>4 DEF Reflect
  <2>5. CASE LoadMessageInfo(g) BY <2>5 DEF LoadMessageInfo
  <2>6. CASE StoreMessageInfo(g) BY <2>6 DEF StoreMessageInfo
  <2>7. CASE ReflectNil(g) BY <2>7 DEF ReflectNil
  <2>8. CASE Wipe(g) BY <2>8 DEF Wipe
  <2>9. CASE RestoreMessageInfo(g) BY <2>9 DEF RestoreMessageInfo
  <2>10. CASE UseView(g) BY <2>10 DEF UseView
  <2>11. CASE EndUse(g) BY <2>11 DEF EndUse
  <2>12. CASE Descriptor(g) BY <2>12 DEF Descriptor
  <2>13. CASE DescriptorStep(g)
    <3>1. CASE EnterBody(g) BY <3>1 DEF EnterBody
    <3>2. CASE Compress(g) BY <3>2 DEF Compress
    <3>3. CASE SkipBody(g) BY <3>3 DEF SkipBody
    <3>4. CASE Return(g) BY <3>4 DEF Return
    <3> QED BY <2>13, <3>1, <3>2, <3>3, <3>4 DEF DescriptorStep
  <2> QED BY <2>1, <2>2, <2>3, <2>4, <2>5, <2>6, <2>7, <2>8, <2>9, <2>10,
             <2>11, <2>12, <2>13
<1> QED BY <1>1, <1>2

\* The once-only descriptor.
LEMMA OnceStep == IInv /\ [Next]_vars => OnceInOrder'
<1> SUFFICES ASSUME IInv, [Next]_vars PROVE OnceInOrder'
  OBVIOUS
<1> USE DEF IInv, TypeOK, OnceInOrder, Locations, Go, message, descriptor
<1>1. CASE UNCHANGED vars
  BY <1>1 DEF vars
<1>2. CASE Next
  <2> PICK g \in Goroutines :
        \/ BeginRead(g) \/ BeginWrite(g) \/ End(g)
        \/ Reflect(g) \/ LoadMessageInfo(g) \/ StoreMessageInfo(g)
        \/ ReflectNil(g)
        \/ Wipe(g) \/ RestoreMessageInfo(g)
        \/ UseView(g) \/ EndUse(g)
        \/ Descriptor(g) \/ DescriptorStep(g)
    BY <1>2 DEF Next
  <2>1. CASE BeginRead(g) \/ BeginWrite(g) \/ End(g)
    BY <2>1 DEF BeginRead, BeginWrite, End
  <2>2. CASE Reflect(g) \/ ReflectNil(g)
    BY <2>2 DEF Reflect, ReflectNil
  <2>3. CASE LoadMessageInfo(g) BY <2>3 DEF LoadMessageInfo
  <2>11. CASE StoreMessageInfo(g) BY <2>11 DEF StoreMessageInfo
  <2>4. CASE Wipe(g) \/ RestoreMessageInfo(g)
    BY <2>4 DEF Wipe, RestoreMessageInfo
  <2>5. CASE UseView(g) \/ EndUse(g) BY <2>5 DEF UseView, EndUse
  <2>6. CASE Descriptor(g) BY <2>6 DEF Descriptor
  <2>7. CASE EnterBody(g) BY <2>7 DEF EnterBody
  <2>8. CASE Compress(g) BY <2>8 DEF Compress
  <2>9. CASE SkipBody(g) BY <2>9 DEF SkipBody
  <2>10. CASE Return(g) BY <2>10 DEF Return
  <2> QED BY <2>1, <2>2, <2>3, <2>4, <2>5, <2>6, <2>7, <2>8, <2>9, <2>10,
             <2>11 DEF DescriptorStep
<1> QED BY <1>1, <1>2

LEMMA Invariance == Spec => []IInv
<1>1. IInv /\ [Next]_vars => IInv'
  BY TypeStep, MessageStep, OnceStep DEF IInv
<1> QED BY <1>1, InitIInv, PTL DEF Spec

\* Types: a message has no info or that of its own type.
THEOREM TypesOfMessage == Spec => []TypeOK
<1>1. IInv => TypeOK BY DEF IInv
<1> QED BY <1>1, Invariance, PTL

\* However many goroutines read a message, make and keep views of it and
\* reset it in turn, no view is ever used without the message's info.
THEOREM ViewsAlwaysServe == Spec => []ViewsServe
<1>1. IInv => ViewsServe BY DEF IInv
<1> QED BY <1>1, Invariance, PTL

\* However many goroutines ask for a descriptor at once, each gets the
\* finished one.
THEOREM DescriptorAlwaysFinished == Spec => []DescriptorFinished
<1>1. IInv => DescriptorFinished
  BY DEF IInv, OnceInOrder, DescriptorFinished
<1> QED BY <1>1, Invariance, PTL
=============================================================================
