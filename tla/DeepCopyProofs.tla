------------------------- MODULE DeepCopyProofs -------------------------
(***************************************************************************)
(* Proofs about DeepCopy, for any number of goroutines, objects and        *)
(* copies, and arrays of any length.                                       *)
(*                                                                         *)
(* They need two facts about the tables of DeepCopyTypes and nothing else: *)
(* the generated code copies the fields that the types declare, and what a *)
(* field refers to is in the tables as well.                               *)
(***************************************************************************)
EXTENDS DeepCopy, TLAPS

USE DEF Nil, Public

\* The generated functions of config/v1beta1 copy every reference field of
\* the kubelet's configuration.
LEMMA KubeletCopied == KubeletConfigurationFields = KubeletConfigurationCopied
<1>1. KubeletConfigurationFields \subseteq KubeletConfigurationCopied
  BY DEF KubeletConfigurationFields, KubeletConfigurationCopied,
         ServingFields, NodeStatusFields, ResourceManagerFields, EvictionFields,
         NodeAllocatableFields, ShutdownFields, AuthenticationFields,
         CrashLoopBackOffFields, EarlyCopied, MiddleCopied, LateCopied,
         WebhookAndAnonymousCopied, CrashLoopBackOffCopied
<1>2. KubeletConfigurationCopied \subseteq KubeletConfigurationFields
  BY DEF KubeletConfigurationFields, KubeletConfigurationCopied,
         ServingFields, NodeStatusFields, ResourceManagerFields, EvictionFields,
         NodeAllocatableFields, ShutdownFields, AuthenticationFields,
         CrashLoopBackOffFields, EarlyCopied, MiddleCopied, LateCopied,
         WebhookAndAnonymousCopied, CrashLoopBackOffCopied
<1> QED BY <1>1, <1>2

\* So do the functions of the other packages.
LEMMA AllCopied == Copied = Declared
<1>1. ConfigV1Copied = ConfigV1Fields
  BY DEF ConfigV1Copied, ConfigV1Fields
<1>2. ConfigV1alpha1Copied = ConfigV1alpha1Fields
  BY DEF ConfigV1alpha1Copied, ConfigV1alpha1Fields
<1>3. ConfigV1beta1Copied = ConfigV1beta1Fields
  BY KubeletCopied
  DEF ConfigV1beta1Copied, ConfigV1beta1Fields, CredentialProviderCopied,
      ImagePullCopied, AuthenticationFields, CrashLoopBackOffFields,
      WebhookAndAnonymousCopied, CrashLoopBackOffCopied
<1>4. /\ ProviderInternalCopied = ProviderInternalFields
      /\ ProviderV1Copied = ProviderV1Fields
      /\ ProviderV1beta1Copied = ProviderV1beta1Fields
      /\ ProviderV1alpha1Copied = ProviderV1alpha1Fields
      /\ OtherCopied = OtherFields
  BY DEF ProviderInternalCopied, ProviderInternalFields, ProviderV1Copied,
         ProviderV1Fields, ProviderV1beta1Copied, ProviderV1beta1Fields,
         ProviderV1alpha1Copied, ProviderV1alpha1Fields, OtherCopied, OtherFields
<1> QED BY <1>1, <1>2, <1>3, <1>4 DEF Copied, Declared

\* DeepCopyInto looks at every reference field there is.
LEMMA AllHandled == ASSUME NEW k PROVE Handled(k) = Slots(k)
  BY AllCopied DEF Handled, Slots

\* What is in the tables: the types with fields that refer to other types.
LEMMA KindIntro ==
  ASSUME NEW g \in Packages, NEW t \in DOMAIN Declared[g], NEW many \in BOOLEAN
  PROVE  [pkg |-> g, type |-> t, many |-> many] \in Kinds
  BY DEF Kinds

LEMMA KindElim ==
  ASSUME NEW k \in Kinds
  PROVE  /\ k.pkg \in Packages /\ k.type \in DOMAIN Declared[k.pkg]
         /\ k.many \in BOOLEAN
  BY DEF Kinds

\* Only these types have a field of one of the names that Pointee tells apart.
LEMMA NamedFields ==
  ASSUME NEW g \in Packages, NEW t \in DOMAIN Declared[g], NEW f \in Declared[g][t]
  PROVE  /\ f = "Providers" => "CredentialProvider" \in DOMAIN Declared[g]
         /\ f = "TokenAttributes" =>
              "ServiceAccountTokenAttributes" \in DOMAIN Declared[g]
         /\ f = "CredentialMapping" => "ImagePullCredentials" \in DOMAIN Declared[g]
         /\ f = "ReservedMemory" => "MemoryReservation" \in DOMAIN Declared[g]
         /\ f = "UserNamespaces" => "UserNamespaces" \in DOMAIN Declared[g]
<1>1. CASE g = "configV1"
  BY <1>1 DEF Declared, ConfigV1Fields
<1>2. CASE g = "configV1alpha1"
  BY <1>2 DEF Declared, ConfigV1alpha1Fields
<1>3. CASE g = "configV1beta1"
  <2>1. "TokenAttributes" \notin KubeletConfigurationFields
    BY DEF KubeletConfigurationFields, ServingFields, NodeStatusFields,
           ResourceManagerFields, EvictionFields, NodeAllocatableFields,
           ShutdownFields, AuthenticationFields, CrashLoopBackOffFields
  <2>2. Declared[g] = ConfigV1beta1Fields
    BY <1>3 DEF Declared
  <2>3. {"CredentialProvider", "ImagePullCredentials", "MemoryReservation",
         "UserNamespaces"} \subseteq DOMAIN ConfigV1beta1Fields
    BY DEF ConfigV1beta1Fields
  <2>4. "TokenAttributes" \notin ConfigV1beta1Fields[t]
    BY <2>1, <2>2 DEF ConfigV1beta1Fields, AuthenticationFields, CrashLoopBackOffFields
  <2> QED BY <2>2, <2>3, <2>4
<1>4. CASE g = "provider"
  BY <1>4 DEF Declared, ProviderInternalFields
<1>5. CASE g = "providerV1"
  BY <1>5 DEF Declared, ProviderV1Fields
<1>6. CASE g = "providerV1beta1"
  BY <1>6 DEF Declared, ProviderV1beta1Fields
<1>7. CASE g = "providerV1alpha1"
  BY <1>7 DEF Declared, ProviderV1alpha1Fields
<1>8. CASE g = "other"
  BY <1>8 DEF Declared, OtherFields
<1> QED BY <1>1, <1>2, <1>3, <1>4, <1>5, <1>6, <1>7, <1>8 DEF Packages, Declared

LEMMA OtherTypes ==
  /\ "other" \in Packages
  /\ {"Flat", "Strings", "Taint", "TracingConfiguration", "Quantity"}
       \subseteq DOMAIN Declared["other"]
  BY DEF Packages, Declared, OtherFields

\* A reference field of a block in the tables refers to a block in the tables.
LEMMA TargetKind ==
  ASSUME NEW k \in Kinds, NEW s \in Slots(k)
  PROVE  Target(k, s) \in Kinds
<1> DEFINE f == s[2]
<1>1. k.pkg \in Packages /\ k.type \in DOMAIN Declared[k.pkg] /\ f \in Declared[k.pkg][k.type]
  BY KindElim DEF Slots
<1>2. CASE f \in {"Providers", "TokenAttributes", "CredentialMapping",
                  "ReservedMemory", "UserNamespaces"}
  BY <1>1, <1>2, NamedFields, KindIntro DEF Target, Pointee, One, Many
<1>3. CASE f \notin {"Providers", "TokenAttributes", "CredentialMapping",
                     "ReservedMemory", "UserNamespaces"}
  BY <1>1, <1>3, OtherTypes, KindIntro DEF Target, Pointee, One, Many
<1> QED BY <1>2, <1>3

-----------------------------------------------------------------------------
(* Blocks.                                                                 *)

BlockSet == UNION {[kind : {k}, data : Values, ref : [Slots(k) -> Nat]] : k \in Kinds}

LEMMA BlockFacts ==
  ASSUME NEW b \in BlockSet
  PROVE  /\ b.kind \in Kinds /\ b.data \in Values /\ b.ref \in [Slots(b.kind) -> Nat]
         /\ b = [kind |-> b.kind, data |-> b.data, ref |-> b.ref]
  BY DEF BlockSet

LEMMA BlockIntro ==
  ASSUME NEW k \in Kinds, NEW v \in Values, NEW f \in [Slots(k) -> Nat]
  PROVE  [kind |-> k, data |-> v, ref |-> f] \in BlockSet
  BY DEF BlockSet

LEMMA NewBlockFacts ==
  ASSUME NEW k \in Kinds, NEW v \in Values
  PROVE  /\ NewBlock(k, v) \in BlockSet
         /\ NewBlock(k, v).kind = k
         /\ \A s \in Slots(k) : NewBlock(k, v).ref[s] = Nil
<1>1. [s \in Slots(k) |-> Nil] \in [Slots(k) -> Nat]
  OBVIOUS
<1> QED BY <1>1, BlockIntro DEF NewBlock

\* The block with reference s redirected to a.
Redirect(b, s, a) == [kind |-> b.kind, data |-> b.data, ref |-> [b.ref EXCEPT ![s] = a]]

RedirectAt(h, x, s, a) == [h EXCEPT ![x].ref[s] = a]

LEMMA RedirectFacts ==
  ASSUME NEW h \in Seq(BlockSet), NEW x \in 1 .. Len(h),
         NEW s \in Slots(h[x].kind), NEW a \in Nat
  PROVE  /\ RedirectAt(h, x, s, a) \in Seq(BlockSet)
         /\ Len(RedirectAt(h, x, s, a)) = Len(h)
         /\ RedirectAt(h, x, s, a)[x] = Redirect(h[x], s, a)
         /\ \A i \in 1 .. Len(h) : i # x => RedirectAt(h, x, s, a)[i] = h[i]
<1>1. h[x] \in BlockSet
  OBVIOUS
<1>2. h[x].kind \in Kinds /\ h[x].data \in Values /\ h[x].ref \in [Slots(h[x].kind) -> Nat]
  BY <1>1, BlockFacts
<1>3. h[x] = [kind |-> h[x].kind, data |-> h[x].data, ref |-> h[x].ref]
  BY <1>1, BlockFacts
<1>4. [h[x].ref EXCEPT ![s] = a] \in [Slots(h[x].kind) -> Nat]
  BY <1>2
<1>5. Redirect(h[x], s, a) \in BlockSet
  BY <1>2, <1>4, BlockIntro DEF Redirect
<1>6. [h[x] EXCEPT !.ref[s] = a] = Redirect(h[x], s, a)
  BY <1>3 DEF Redirect
<1>7. RedirectAt(h, x, s, a) = [h EXCEPT ![x] = Redirect(h[x], s, a)]
  BY <1>6 DEF RedirectAt
<1> QED BY <1>5, <1>7

-----------------------------------------------------------------------------
(* The inductive invariant.                                                *)

AllSlots == UNION {Slots(k) : k \in Kinds}

Shape ==
  /\ heap \in Seq(BlockSet)
  /\ owner \in Seq(Procs \cup {Public})
  /\ origin \in Seq(Nat)
  /\ pending \in Seq(SUBSET AllSlots)
  /\ Len(owner) = Len(heap) /\ Len(origin) = Len(heap) /\ Len(pending) = Len(heap)
  /\ published \in Nat
  /\ object \in [Procs -> Nat]
  /\ at \in [Procs -> Nat]
  /\ stack \in [Procs -> Seq(Nat)]
  /\ phase \in [Procs -> {"idle", "copying", "copied", "own"}]

\* References lead to blocks of the declared kind.
Typed(a) ==
  /\ pending[a] \subseteq Slots(heap[a].kind)
  /\ origin[a] \in {Nil} \cup Addr
  /\ \A s \in Slots(heap[a].kind) :
       heap[a].ref[s] # Nil => /\ heap[a].ref[s] \in Addr
                               /\ heap[heap[a].ref[s]].kind = Target(heap[a].kind, s)

\* A reference that DeepCopyInto is not still to copy stays with the owner.
Closed(a) ==
  \A s \in Slots(heap[a].kind) \ pending[a] :
    heap[a].ref[s] # Nil => owner[heap[a].ref[s]] = owner[a]

\* Only blocks on the stack of a copying goroutine have fields to be copied.
OnStack(a) ==
  /\ owner[a] \in Procs
  /\ phase[owner[a]] = "copying"
  /\ \E i \in 1 .. Len(stack[owner[a]]) : stack[owner[a]][i] = a

\* A block of a copy agrees with the published block it was made from; fields
\* that are still to be copied are as `*out = *in` left them.
Agrees(a) ==
  /\ origin[a] \in Addr
  /\ owner[origin[a]] = Public
  /\ heap[a].kind = heap[origin[a]].kind
  /\ heap[a].data = heap[origin[a]].data
  /\ \A s \in pending[a] : heap[a].ref[s] = heap[origin[a]].ref[s]
  /\ \A s \in Slots(heap[a].kind) \ pending[a] :
       /\ heap[a].ref[s] = Nil <=> heap[origin[a]].ref[s] = Nil
       /\ heap[a].ref[s] # Nil => origin[heap[a].ref[s]] = heap[origin[a]].ref[s]

IsCopy(a) == owner[a] \in Procs /\ phase[owner[a]] \in {"copying", "copied"}

BlockInv(a) ==
  /\ Typed(a)
  /\ Closed(a)
  /\ pending[a] # {} => OnStack(a)
  /\ IsCopy(a) => Agrees(a)

Mine(p, a) == a \in Addr /\ owner[a] = p

ProcInv(p) ==
  /\ phase[p] = "idle" => /\ object[p] = Nil /\ at[p] = Nil
                          /\ \A a \in Addr : owner[a] # p
  /\ phase[p] # "idle" => Mine(p, object[p]) /\ Mine(p, at[p])
  /\ phase[p] = "copying" <=> stack[p] # <<>>
  /\ \A i \in 1 .. Len(stack[p]) : Mine(p, stack[p][i])

Inv ==
  /\ Shape
  /\ \A a \in Addr : BlockInv(a)
  /\ \A p \in Procs : ProcInv(p)
  /\ published # Nil => Mine(Public, published)

LEMMA InitInv == Init => Inv
<1> SUFFICES ASSUME Init PROVE Inv
  OBVIOUS
<1>1. Addr = {}
  BY DEF Init, Addr
<1>2. Shape
  BY DEF Init, Shape
<1>3. ASSUME NEW p \in Procs PROVE ProcInv(p)
  BY <1>1 DEF Init, ProcInv
<1> QED BY <1>1, <1>2, <1>3 DEF Inv, Init

LEMMA ShapeFacts ==
  ASSUME Inv
  PROVE  /\ heap \in Seq(BlockSet) /\ owner \in Seq(Procs \cup {Public})
         /\ origin \in Seq(Nat) /\ pending \in Seq(SUBSET AllSlots)
         /\ Len(owner) = Len(heap) /\ Len(origin) = Len(heap)
         /\ Len(pending) = Len(heap)
         /\ published \in Nat
         /\ object \in [Procs -> Nat] /\ at \in [Procs -> Nat]
         /\ stack \in [Procs -> Seq(Nat)]
         /\ phase \in [Procs -> {"idle", "copying", "copied", "own"}]
         /\ Public \notin Procs
         /\ \A a \in Addr : heap[a] \in BlockSet
  BY ProcsAssumption DEF Inv, Shape, Addr

\* A step that leaves a block alone keeps what holds of it, if it leaves alone
\* the contents of published blocks and who owns what.
LEMMA Frame ==
  ASSUME Inv, NEW a \in Addr, Addr \subseteq Addr',
         heap'[a] = heap[a], pending'[a] = pending[a],
         \A c \in Addr : /\ heap'[c].kind = heap[c].kind
                         /\ owner'[c] = owner[c] /\ origin'[c] = origin[c]
                         /\ owner[c] = Public => heap'[c] = heap[c],
         IsCopy(a)' => IsCopy(a),
         pending[a] # {} => OnStack(a)'
  PROVE  BlockInv(a)'
<1>1. BlockInv(a)
  BY DEF Inv
<1>2. Typed(a)'
  BY <1>1 DEF BlockInv, Typed
<1>3. Closed(a)'
  BY <1>1 DEF BlockInv, Typed, Closed
<1>4. ASSUME IsCopy(a)' PROVE Agrees(a)'
  <2>1. Agrees(a)
    BY <1>1, <1>4 DEF BlockInv
  <2>2. heap'[origin'[a]] = heap[origin[a]] /\ origin'[a] \in Addr'
        /\ owner'[origin'[a]] = Public
    BY <2>1 DEF Agrees
  <2>3. \A s \in Slots(heap[a].kind) :
          heap[a].ref[s] # Nil => origin'[heap[a].ref[s]] = origin[heap[a].ref[s]]
    BY <1>1 DEF BlockInv, Typed
  <2> QED BY <2>1, <2>2, <2>3 DEF Agrees
<1> QED BY <1>2, <1>3, <1>4 DEF BlockInv

\* The step appends block b for goroutine p to the blocks h.
Grows(h, b, p, o, q, w) ==
  /\ heap' = Append(h, b) /\ owner' = Append(owner, p)
  /\ origin' = Append(origin, o) /\ pending' = Append(q, w)

LEMMA Appends ==
  ASSUME Inv, NEW h \in Seq(BlockSet), Len(h) = Len(heap), NEW b \in BlockSet,
         NEW p \in Procs, NEW o \in Nat, NEW q \in Seq(SUBSET AllSlots),
         Len(q) = Len(heap), NEW w \in SUBSET AllSlots,
         Grows(h, b, p, o, q, w)
  PROVE  /\ heap' \in Seq(BlockSet)
         /\ owner' \in Seq(Procs \cup {Public})
         /\ origin' \in Seq(Nat)
         /\ pending' \in Seq(SUBSET AllSlots)
         /\ Len(heap') = Next1 /\ Len(owner') = Next1
         /\ Len(origin') = Next1 /\ Len(pending') = Next1
         /\ Addr' = Addr \cup {Next1} /\ Next1 \notin Addr /\ Next1 \in Nat \ {0}
         /\ heap'[Next1] = b /\ owner'[Next1] = p
         /\ origin'[Next1] = o /\ pending'[Next1] = w
         /\ \A a \in Addr : /\ heap'[a] = h[a] /\ owner'[a] = owner[a]
                            /\ origin'[a] = origin[a] /\ pending'[a] = q[a]
<1> USE DEF Addr, Next1, Grows
<1>0. /\ heap \in Seq(BlockSet)
      /\ owner \in Seq(Procs \cup {Public})
      /\ origin \in Seq(Nat)
      /\ Len(owner) = Len(heap) /\ Len(origin) = Len(heap)
  BY ShapeFacts
<1>1. /\ heap' \in Seq(BlockSet)
      /\ owner' \in Seq(Procs \cup {Public})
      /\ origin' \in Seq(Nat)
      /\ pending' \in Seq(SUBSET AllSlots)
  BY <1>0
<1>2. /\ Len(heap') = Next1 /\ Len(owner') = Next1
      /\ Len(origin') = Next1 /\ Len(pending') = Next1
  BY <1>0
<1>3. Addr' = Addr \cup {Next1} /\ Next1 \notin Addr /\ Next1 \in Nat \ {0}
  BY <1>0, <1>2
<1>4. /\ heap'[Next1] = b /\ owner'[Next1] = p
      /\ origin'[Next1] = o /\ pending'[Next1] = w
  BY <1>0
<1>5. \A a \in Addr : /\ heap'[a] = h[a] /\ owner'[a] = owner[a]
                     /\ origin'[a] = origin[a] /\ pending'[a] = q[a]
  BY <1>0
<1> QED BY <1>1, <1>2, <1>3, <1>4, <1>5

\* A goroutine that the step is not of.
LEMMA Others ==
  ASSUME Inv, NEW q \in Procs, Addr \subseteq Addr',
         phase'[q] = phase[q], stack'[q] = stack[q],
         object'[q] = object[q], at'[q] = at[q],
         \A c \in Addr : owner'[c] = q <=> owner[c] = q,
         \A c \in Addr' \ Addr : owner'[c] # q
  PROVE  ProcInv(q)'
<1>1. ProcInv(q)
  BY DEF Inv
<1>2. \A a : Mine(q, a) => Mine(q, a)'
  BY DEF Mine
<1>3. phase'[q] = "idle" => /\ object'[q] = Nil /\ at'[q] = Nil
                            /\ \A a \in Addr' : owner'[a] # q
  BY <1>1 DEF ProcInv
<1>4. phase'[q] # "idle" => Mine(q, object[q])' /\ Mine(q, at[q])'
  BY <1>1, <1>2 DEF ProcInv, Mine
<1>5. \A i \in 1 .. Len(stack[q]) : Mine(q, stack[q][i])'
  BY <1>1, <1>2 DEF ProcInv, Mine
<1> QED BY <1>1, <1>3, <1>4, <1>5 DEF ProcInv

\* A block on the stack of a goroutine that the step is not of.
LEMMA StaysOnStack ==
  ASSUME NEW a, OnStack(a), owner'[a] = owner[a],
         phase'[owner[a]] = phase[owner[a]], stack'[owner[a]] = stack[owner[a]]
  PROVE  OnStack(a)'
  BY DEF OnStack

\* Nobody takes a published block back.
LEMMA PublishedStays ==
  ASSUME Inv, published' = published, Addr \subseteq Addr',
         \A c \in Addr : owner[c] = Public => owner'[c] = Public
  PROVE  (published # Nil => Mine(Public, published))'
  BY DEF Inv, Mine

-----------------------------------------------------------------------------
(* Every step keeps the invariant, and no step changes a published block.  *)

PublishedKept == \A a \in Addr : owner[a] = Public => heap'[a] = heap[a]

LEMMA NewInv ==
  ASSUME Inv, NEW p \in Procs, NEW k \in Kinds, NEW v \in Values, New(p, k, v)
  PROVE  Inv' /\ PublishedKept
<1> DEFINE b == NewBlock(k, v)
<1>0. PICK n : n = Next1
  OBVIOUS
<1>1. b \in BlockSet /\ b.kind = k /\ \A s \in Slots(k) : b.ref[s] = Nil
  BY NewBlockFacts
<1> HIDE DEF b
<1>2. /\ Grows(heap, b, p, Nil, pending, {})
      /\ phase[p] = "idle" /\ phase' = [phase EXCEPT ![p] = "own"]
      /\ object' = [object EXCEPT ![p] = n] /\ at' = [at EXCEPT ![p] = n]
      /\ published' = published /\ stack' = stack
  BY <1>0 DEF New, b, Grows
<1>3. heap \in Seq(BlockSet) /\ pending \in Seq(SUBSET AllSlots)
      /\ Len(pending) = Len(heap) /\ {} \in SUBSET AllSlots /\ Nil \in Nat
  BY ShapeFacts
<1>4. /\ heap' \in Seq(BlockSet) /\ owner' \in Seq(Procs \cup {Public})
      /\ origin' \in Seq(Nat) /\ pending' \in Seq(SUBSET AllSlots)
      /\ Len(heap') = n /\ Len(owner') = n
      /\ Len(origin') = n /\ Len(pending') = n
      /\ Addr' = Addr \cup {n} /\ n \notin Addr /\ n \in Nat \ {0}
      /\ heap'[n] = b /\ owner'[n] = p /\ origin'[n] = Nil /\ pending'[n] = {}
      /\ \A a \in Addr : /\ heap'[a] = heap[a] /\ owner'[a] = owner[a]
                         /\ origin'[a] = origin[a] /\ pending'[a] = pending[a]
  BY <1>0, <1>1, <1>2, <1>3, Appends
<1>6. Shape'
  BY <1>2, <1>4, ShapeFacts DEF Shape
<1>7. \A a \in Addr : owner[a] # p
  BY <1>2 DEF Inv, ProcInv
<1>8. ASSUME NEW a \in Addr PROVE BlockInv(a)'
  <2>1. IsCopy(a)' => IsCopy(a)
    BY <1>2, <1>4, <1>7, ShapeFacts DEF IsCopy
  <2>2. pending[a] # {} => OnStack(a)'
    <3> SUFFICES ASSUME pending[a] # {} PROVE OnStack(a)'
      OBVIOUS
    <3>1. OnStack(a)
      BY DEF Inv, BlockInv
    <3>2. owner[a] # p /\ owner[a] \in Procs
      BY <1>7, <3>1 DEF OnStack
    <3>3. phase'[owner[a]] = phase[owner[a]] /\ stack'[owner[a]] = stack[owner[a]]
      BY <1>2, <3>2, ShapeFacts
    <3> QED BY <1>4, <3>1, <3>3, StaysOnStack
  <2> QED BY <1>4, <2>1, <2>2, Frame
<1>9. BlockInv(n)'
  <2>1. ~IsCopy(n)'
    BY <1>2, <1>4, ShapeFacts DEF IsCopy
  <2> QED BY <1>1, <1>4, <2>1 DEF BlockInv, Typed, Closed
<1>10. ProcInv(p)'
  <2>1. phase'[p] = "own" /\ object'[p] = n /\ at'[p] = n /\ stack'[p] = stack[p]
    BY <1>2, ShapeFacts
  <2>2. stack[p] = <<>>
    BY <1>2 DEF Inv, ProcInv
  <2>3. Mine(p, object[p])' /\ Mine(p, at[p])'
    BY <1>4, <2>1 DEF Mine
  <2> QED BY <2>1, <2>2, <2>3 DEF ProcInv
<1>11. ASSUME NEW q \in Procs, q # p PROVE ProcInv(q)'
  BY <1>2, <1>4, <1>11, Others, ShapeFacts
<1>12. published' # Nil => Mine(Public, published)'
  BY <1>2, <1>4, PublishedStays
<1>p. PublishedKept
  BY <1>4 DEF PublishedKept
<1> QED BY <1>p, <1>4, <1>6, <1>8, <1>9, <1>10, <1>11, <1>12 DEF Inv

\* The blocks of a goroutine that is not copying are complete.
LEMMA OwnsFacts ==
  ASSUME Inv, NEW p \in Procs, Owns(p)
  PROVE  /\ at[p] \in Addr /\ owner[at[p]] = p
         /\ object[p] \in Addr /\ owner[object[p]] = p
         /\ phase[p] # "idle" /\ phase[p] # "copying" /\ stack[p] = <<>>
         /\ \A a \in Addr : owner[a] = p => pending[a] = {}
<1>1. ProcInv(p)
  BY DEF Inv
<1>2. phase[p] # "idle" /\ phase[p] # "copying"
  BY DEF Owns
<1>3. ASSUME NEW a \in Addr, owner[a] = p PROVE pending[a] = {}
  BY <1>2, <1>3 DEF Inv, BlockInv, OnStack
<1> QED BY <1>1, <1>2, <1>3 DEF ProcInv, Mine

\* So are published blocks, and what they refer to is published.
LEMMA PublicFacts ==
  ASSUME Inv, NEW a \in Addr, owner[a] = Public
  PROVE  /\ pending[a] = {}
         /\ \A s \in Slots(heap[a].kind) :
              heap[a].ref[s] # Nil => /\ heap[a].ref[s] \in Addr
                                      /\ owner[heap[a].ref[s]] = Public
<1>1. BlockInv(a)
  BY DEF Inv
<1>2. pending[a] = {}
  BY <1>1, ShapeFacts DEF BlockInv, OnStack
<1> QED BY <1>1, <1>2 DEF BlockInv, Typed, Closed

\* A step of a goroutine on its own object that keeps a block as it is.
LEMMA KeepsBlock ==
  ASSUME Inv, NEW p \in Procs, Owns(p), Addr \subseteq Addr',
         NEW a \in Addr, heap'[a] = heap[a], pending'[a] = pending[a],
         \A c \in Addr : /\ heap'[c].kind = heap[c].kind
                         /\ owner'[c] = owner[c] /\ origin'[c] = origin[c]
                         /\ owner[c] = Public => heap'[c] = heap[c],
         \A q \in Procs : q # p => phase'[q] = phase[q] /\ stack'[q] = stack[q],
         phase'[p] = "own" \/ phase'[p] = phase[p]
  PROVE  BlockInv(a)'
<1>1. owner'[a] = owner[a]
  OBVIOUS
<1>2. IsCopy(a)' => IsCopy(a)
  BY <1>1 DEF IsCopy
<1>3. ASSUME pending[a] # {} PROVE OnStack(a)'
  <2>1. OnStack(a)
    BY <1>3 DEF Inv, BlockInv
  <2>2. owner[a] # p /\ owner[a] \in Procs
    BY <1>3, <2>1, OwnsFacts DEF OnStack
  <2> QED BY <1>1, <2>1, <2>2, StaysOnStack
<1> QED BY <1>2, <1>3, Frame

\* A step that redirects a reference of the goroutine's own block.
LEMMA RedirectsBlock ==
  ASSUME Inv, NEW p \in Procs, Owns(p), Addr \subseteq Addr',
         NEW x \in Addr, owner[x] = p, NEW s \in Slots(heap[x].kind), NEW y \in Nat,
         heap'[x] = Redirect(heap[x], s, y), pending'[x] = pending[x],
         y # Nil => /\ y \in Addr' /\ owner'[y] = p
                    /\ heap'[y].kind = Target(heap[x].kind, s),
         \A c \in Addr : /\ heap'[c].kind = heap[c].kind
                         /\ owner'[c] = owner[c] /\ origin'[c] = origin[c],
         phase'[p] = "own"
  PROVE  BlockInv(x)'
<1>1. BlockInv(x) /\ pending[x] = {}
  BY OwnsFacts DEF Inv
<1>2. heap[x] \in BlockSet /\ heap[x].ref \in [Slots(heap[x].kind) -> Nat]
  BY ShapeFacts, BlockFacts
<1>3. /\ heap'[x].kind = heap[x].kind /\ heap'[x].ref[s] = y
      /\ \A t \in Slots(heap[x].kind) : t # s => heap'[x].ref[t] = heap[x].ref[t]
  BY <1>2 DEF Redirect
<1>4. Typed(x)'
  BY <1>1, <1>3 DEF BlockInv, Typed
<1>5. Closed(x)'
  BY <1>1, <1>3 DEF BlockInv, Typed, Closed
<1>6. ~IsCopy(x)'
  BY DEF IsCopy
<1> QED BY <1>1, <1>4, <1>5, <1>6 DEF BlockInv

LEMMA SetInv ==
  ASSUME Inv, NEW p \in Procs, NEW t \in Slots(heap[at[p]].kind), NEW v \in Values,
         Set(p, t, v)
  PROVE  Inv' /\ PublishedKept
<1>a. PICK n : n = Next1
  OBVIOUS
<1>0. PICK x, s, b, h : /\ x = at[p] /\ s = t
                        /\ b = NewBlock(Target(heap[x].kind, s), v)
                        /\ h = RedirectAt(heap, x, s, n)
  OBVIOUS
<1>1. Owns(p) /\ x \in Addr /\ owner[x] = p /\ s \in Slots(heap[x].kind) /\ x \in 1 .. Len(heap)
  BY <1>0, OwnsFacts DEF Set, Addr
<1>2. heap[x] \in BlockSet /\ heap[x].kind \in Kinds /\ n \in Nat
  BY <1>a, <1>1, ShapeFacts, BlockFacts DEF Next1
<1>3. /\ b \in BlockSet /\ b.kind = Target(heap[x].kind, s)
      /\ \A u \in Slots(b.kind) : b.ref[u] = Nil
  BY <1>0, <1>1, <1>2, NewBlockFacts, TargetKind
<1>4. /\ h \in Seq(BlockSet) /\ Len(h) = Len(heap)
      /\ h[x] = Redirect(heap[x], s, n)
      /\ \A i \in 1 .. Len(heap) : i # x => h[i] = heap[i]
  BY <1>0, <1>1, <1>2, RedirectFacts, ShapeFacts
<1>5. /\ Grows(h, b, p, Nil, pending, {})
      /\ phase' = [phase EXCEPT ![p] = "own"]
      /\ published' = published /\ stack' = stack /\ object' = object /\ at' = at
  BY <1>a, <1>0 DEF Set, Grows, RedirectAt
<1>6. heap \in Seq(BlockSet) /\ pending \in Seq(SUBSET AllSlots)
      /\ Len(pending) = Len(heap) /\ {} \in SUBSET AllSlots /\ Nil \in Nat
  BY ShapeFacts
<1>7. /\ heap' \in Seq(BlockSet) /\ owner' \in Seq(Procs \cup {Public})
      /\ origin' \in Seq(Nat) /\ pending' \in Seq(SUBSET AllSlots)
      /\ Len(heap') = n /\ Len(owner') = n
      /\ Len(origin') = n /\ Len(pending') = n
      /\ Addr' = Addr \cup {n} /\ n \notin Addr /\ n \in Nat \ {0}
      /\ heap'[n] = b /\ owner'[n] = p /\ origin'[n] = Nil /\ pending'[n] = {}
      /\ \A a \in Addr : /\ heap'[a] = h[a] /\ owner'[a] = owner[a]
                         /\ origin'[a] = origin[a] /\ pending'[a] = pending[a]
  <2>1. b \in BlockSet
    BY <1>3
  <2>2. h \in Seq(BlockSet) /\ Len(h) = Len(heap)
    BY <1>4
  <2>3. Grows(h, b, p, Nil, pending, {})
    BY <1>5
  <2>4. PICK o, q, w : o = Nil /\ q = pending /\ w = {}
    OBVIOUS
  <2>5. o \in Nat /\ q \in Seq(SUBSET AllSlots) /\ Len(q) = Len(heap)
        /\ w \in SUBSET AllSlots
    BY <1>6, <2>4
  <2>6. Grows(h, b, p, o, q, w)
    BY <2>3, <2>4
  <2>7. /\ heap' \in Seq(BlockSet) /\ owner' \in Seq(Procs \cup {Public})
        /\ origin' \in Seq(Nat) /\ pending' \in Seq(SUBSET AllSlots)
        /\ Len(heap') = n /\ Len(owner') = n
        /\ Len(origin') = n /\ Len(pending') = n
        /\ Addr' = Addr \cup {n} /\ n \notin Addr /\ n \in Nat \ {0}
        /\ heap'[n] = b /\ owner'[n] = p /\ origin'[n] = o /\ pending'[n] = w
        /\ \A a \in Addr : /\ heap'[a] = h[a] /\ owner'[a] = owner[a]
                           /\ origin'[a] = origin[a] /\ pending'[a] = q[a]
    <3>1. b \in BlockSet /\ h \in Seq(BlockSet) /\ Len(h) = Len(heap)
      BY <2>1, <2>2
    <3> QED BY ONLY Inv, p \in Procs, <1>a, <3>1, <2>5, <2>6, Appends, SMTT(30)
  <2> QED BY <2>4, <2>7
<1>8. /\ heap'[x] = Redirect(heap[x], s, n)
      /\ \A a \in Addr : a # x => heap'[a] = heap[a]
      /\ \A a \in Addr : heap'[a].kind = heap[a].kind
  <2>1. \A a \in Addr : heap'[a] = h[a]
    BY <1>7
  <2>2. heap'[x] = Redirect(heap[x], s, n) /\ \A a \in Addr : a # x => heap'[a] = heap[a]
    BY <1>1, <1>4, <2>1 DEF Addr
  <2>3. heap'[x].kind = heap[x].kind
    BY <2>2 DEF Redirect
  <2> QED BY <2>2, <2>3
<1>9. phase'[p] = "own" /\ \A q \in Procs : q # p => phase'[q] = phase[q]
  BY <1>5, ShapeFacts
<1>10. Shape'
  BY <1>5, <1>7, ShapeFacts DEF Shape
<1>11. ASSUME NEW a \in Addr, a # x PROVE BlockInv(a)'
  <2>1. \A c \in Addr : owner[c] = Public => heap'[c] = heap[c]
    BY <1>1, <1>8, ShapeFacts
  <2> QED BY <1>1, <1>5, <1>7, <1>8, <1>9, <1>11, <2>1, KeepsBlock, SMTT(40)
<1>12. BlockInv(x)'
  <2>1. /\ n \in Addr' /\ owner'[n] = p
        /\ heap'[n].kind = Target(heap[x].kind, s)
    BY <1>3, <1>7
  <2>2. /\ Addr \subseteq Addr' /\ pending'[x] = pending[x]
        /\ \A c \in Addr : /\ heap'[c].kind = heap[c].kind
                           /\ owner'[c] = owner[c] /\ origin'[c] = origin[c]
    BY <1>1, <1>7, <1>8
  <2>3. heap'[x] = Redirect(heap[x], s, n) /\ phase'[p] = "own"
    BY <1>8, <1>9
  <2> QED BY <1>1, <1>2, <2>1, <2>2, <2>3, RedirectsBlock
<1>13. BlockInv(n)'
  <2>1. ~IsCopy(n)'
    BY <1>7, <1>9 DEF IsCopy
  <2> QED BY <1>3, <1>7, <2>1 DEF BlockInv, Typed, Closed
<1>14. ProcInv(p)'
  <2>1. stack'[p] = <<>>
    BY <1>1, <1>5, OwnsFacts
  <2>2. Mine(p, object[p])' /\ Mine(p, at[p])'
    BY <1>1, <1>5, <1>7, OwnsFacts DEF Mine
  <2> QED BY <1>9, <2>1, <2>2 DEF ProcInv
<1>15. ASSUME NEW q \in Procs, q # p PROVE ProcInv(q)'
  BY <1>5, <1>7, <1>9, <1>15, Others, ShapeFacts
<1>16. published' # Nil => Mine(Public, published)'
  BY <1>5, <1>7, PublishedStays
<1>p. PublishedKept
  BY <1>1, <1>8, ShapeFacts DEF PublishedKept
<1> QED BY <1>p, <1>7, <1>10, <1>11, <1>12, <1>13, <1>14, <1>15, <1>16 DEF Inv

LEMMA AssignInv ==
  ASSUME Inv, NEW p \in Procs, NEW t \in Slots(heap[at[p]].kind),
         NEW y \in {Nil} \cup Addr, Assign(p, t, y)
  PROVE  Inv' /\ PublishedKept
<1>0. PICK x, s : x = at[p] /\ s = t
  OBVIOUS
<1>1. Owns(p) /\ x \in Addr /\ owner[x] = p /\ s \in Slots(heap[x].kind)
      /\ x \in 1 .. Len(heap) /\ y \in Nat
  BY <1>0, OwnsFacts, ShapeFacts, SMTT(40) DEF Assign, Addr
<1>2. y # Nil => y \in Addr /\ owner[y] = p /\ heap[y].kind = Target(heap[x].kind, s)
  BY <1>0 DEF Assign
<1>3. /\ heap' = RedirectAt(heap, x, s, y)
      /\ phase' = [phase EXCEPT ![p] = "own"]
      /\ owner' = owner /\ origin' = origin /\ pending' = pending
      /\ published' = published /\ stack' = stack /\ object' = object /\ at' = at
  BY <1>0 DEF Assign, RedirectAt
<1>4. /\ heap' \in Seq(BlockSet) /\ Len(heap') = Len(heap) /\ Addr' = Addr
      /\ heap'[x] = Redirect(heap[x], s, y)
      /\ \A a \in Addr : a # x => heap'[a] = heap[a]
  <2>1. heap \in Seq(BlockSet) /\ x \in 1 .. Len(heap) /\ s \in Slots(heap[x].kind)
        /\ y \in Nat
    BY <1>1, ShapeFacts
  <2> QED BY <1>3, <2>1, RedirectFacts DEF Addr
<1>5. \A a \in Addr : heap'[a].kind = heap[a].kind
  BY <1>1, <1>4 DEF Redirect
<1>6. phase'[p] = "own" /\ \A q \in Procs : q # p => phase'[q] = phase[q]
  BY <1>3, ShapeFacts
<1>7. Shape'
  BY <1>3, <1>4, ShapeFacts DEF Shape
<1>8. ASSUME NEW a \in Addr, a # x PROVE BlockInv(a)'
  <2>1. \A c \in Addr : owner[c] = Public => heap'[c] = heap[c]
    BY <1>1, <1>4, ShapeFacts
  <2> QED BY <1>1, <1>3, <1>4, <1>5, <1>6, <1>8, <2>1, KeepsBlock
<1>9. BlockInv(x)'
  <2>1. y # Nil => y \in Addr' /\ owner'[y] = p /\ heap'[y].kind = Target(heap[x].kind, s)
    BY <1>2, <1>3, <1>4, <1>5
  <2> QED BY <1>1, <1>3, <1>4, <1>5, <1>6, <2>1, RedirectsBlock, ZenonT(60)
<1>10. ProcInv(p)'
  <2>1. Mine(p, object[p])' /\ Mine(p, at[p])' /\ stack'[p] = <<>>
    BY <1>1, <1>3, <1>4, OwnsFacts DEF Mine
  <2> QED BY <1>6, <2>1 DEF ProcInv
<1>11. ASSUME NEW q \in Procs, q # p PROVE ProcInv(q)'
  BY <1>3, <1>4, <1>6, <1>11, Others
<1>12. published' # Nil => Mine(Public, published)'
  BY <1>3, <1>4, PublishedStays
<1>p. PublishedKept
  BY <1>1, <1>4, ShapeFacts DEF PublishedKept
<1> QED BY <1>p, <1>4, <1>7, <1>8, <1>9, <1>10, <1>11, <1>12 DEF Inv

LEMMA WriteInv ==
  ASSUME Inv, NEW p \in Procs, NEW v \in Values, Write(p, v)
  PROVE  Inv' /\ PublishedKept
<1>0. PICK x : x = at[p]
  OBVIOUS
<1>1. Owns(p) /\ x \in Addr /\ owner[x] = p /\ x \in 1 .. Len(heap)
  BY <1>0, OwnsFacts DEF Write, Addr
<1>2. /\ heap' = [heap EXCEPT ![x].data = v]
      /\ phase' = [phase EXCEPT ![p] = "own"]
      /\ owner' = owner /\ origin' = origin /\ pending' = pending
      /\ published' = published /\ stack' = stack /\ object' = object /\ at' = at
  BY <1>0 DEF Write
<1>3. heap[x] \in BlockSet /\ heap \in Seq(BlockSet)
  BY <1>1, ShapeFacts
<1>4. heap[x].kind \in Kinds /\ heap[x].ref \in [Slots(heap[x].kind) -> Nat]
      /\ heap[x] = [kind |-> heap[x].kind, data |-> heap[x].data, ref |-> heap[x].ref]
  BY <1>3, BlockFacts
<1> DEFINE b == [kind |-> heap[x].kind, data |-> v, ref |-> heap[x].ref]
<1>5. heap' = [heap EXCEPT ![x] = b]
  <2>1. [heap[x] EXCEPT !.data = v] = b
    BY <1>4
  <2> QED BY <1>2, <2>1
<1>6. b \in BlockSet /\ b.kind = heap[x].kind /\ b.ref = heap[x].ref
  BY <1>4, BlockIntro
<1> HIDE DEF b
<1>7. /\ heap' \in Seq(BlockSet) /\ Len(heap') = Len(heap) /\ Addr' = Addr
      /\ heap'[x].kind = heap[x].kind /\ heap'[x].ref = heap[x].ref
      /\ \A a \in Addr : a # x => heap'[a] = heap[a]
  BY <1>1, <1>3, <1>5, <1>6 DEF Addr
<1>8. phase'[p] = "own" /\ \A q \in Procs : q # p => phase'[q] = phase[q]
  BY <1>2, ShapeFacts
<1>9. Shape'
  BY <1>2, <1>7, ShapeFacts DEF Shape
<1>10. ASSUME NEW a \in Addr, a # x PROVE BlockInv(a)'
  <2>1. \A c \in Addr : owner[c] = Public => heap'[c] = heap[c]
    BY <1>1, <1>7, ShapeFacts
  <2>2. \A c \in Addr : heap'[c].kind = heap[c].kind
    BY <1>7
  <2> QED BY <1>1, <1>2, <1>7, <1>8, <1>10, <2>1, <2>2, KeepsBlock
<1>11. BlockInv(x)'
  <2>1. BlockInv(x) /\ pending[x] = {}
    BY <1>1, OwnsFacts DEF Inv
  <2>2. \A c \in Addr : heap'[c].kind = heap[c].kind
    BY <1>7
  <2>3. Typed(x)'
    BY <1>2, <1>7, <2>1, <2>2 DEF BlockInv, Typed
  <2>4. Closed(x)'
    BY <1>2, <1>7, <2>1 DEF BlockInv, Closed
  <2>5. ~IsCopy(x)'
    BY <1>1, <1>2, <1>8 DEF IsCopy
  <2> QED BY <1>2, <2>1, <2>3, <2>4, <2>5 DEF BlockInv
<1>12. ProcInv(p)'
  <2>1. Mine(p, object[p])' /\ Mine(p, at[p])' /\ stack'[p] = <<>>
    BY <1>1, <1>2, <1>7, OwnsFacts DEF Mine
  <2> QED BY <1>8, <2>1 DEF ProcInv
<1>13. ASSUME NEW q \in Procs, q # p PROVE ProcInv(q)'
  BY <1>2, <1>7, <1>8, <1>13, Others
<1>14. published' # Nil => Mine(Public, published)'
  BY <1>2, <1>7, PublishedStays
<1>p. PublishedKept
  BY <1>1, <1>7, ShapeFacts DEF PublishedKept
<1> QED BY <1>p, <1>7, <1>9, <1>10, <1>11, <1>12, <1>13, <1>14 DEF Inv

LEMMA FollowInv ==
  ASSUME Inv, NEW p \in Procs, NEW s \in Slots(heap[at[p]].kind), Follow(p, s)
  PROVE  Inv' /\ PublishedKept
<1>1. Owns(p) /\ at[p] \in Addr /\ owner[at[p]] = p /\ pending[at[p]] = {}
  BY OwnsFacts DEF Follow
<1>2. PICK y : /\ y = heap[at[p]].ref[s] /\ y # Nil
               /\ at' = [at EXCEPT ![p] = y]
               /\ heap' = heap /\ owner' = owner /\ origin' = origin /\ pending' = pending
               /\ published' = published /\ object' = object /\ stack' = stack
               /\ phase' = phase
  BY DEF Follow
<1>3. y \in Addr /\ owner[y] = p /\ y \in Nat
  <2>1. Typed(at[p]) /\ Closed(at[p])
    BY <1>1 DEF Inv, BlockInv
  <2>2. y \in Addr
    BY <1>2, <2>1 DEF Typed
  <2>3. owner[y] = p
    BY <1>1, <1>2, <2>1 DEF Closed
  <2> QED BY <2>2, <2>3 DEF Addr
<1>4. Addr' = Addr
  BY <1>2 DEF Addr
<1>5. Shape'
  BY <1>2, <1>3, ShapeFacts DEF Shape
<1>6. ASSUME NEW a \in Addr PROVE BlockInv(a)'
  BY <1>1, <1>2, <1>4, KeepsBlock
<1>7. ProcInv(p)'
  <2>1. at'[p] = y
    BY <1>2, ShapeFacts
  <2>2. Mine(p, object[p])' /\ Mine(p, at[p])' /\ stack'[p] = <<>>
    BY <1>1, <1>2, <1>3, <1>4, <2>1, OwnsFacts DEF Mine
  <2> QED BY <1>1, <1>2, <2>2, OwnsFacts DEF ProcInv
<1>8. ASSUME NEW q \in Procs, q # p PROVE ProcInv(q)'
  BY <1>2, <1>4, <1>8, Others, ShapeFacts
<1>9. published' # Nil => Mine(Public, published)'
  BY <1>2, <1>4, PublishedStays
<1>p. PublishedKept
  BY <1>2 DEF PublishedKept
<1> QED BY <1>p, <1>4, <1>5, <1>6, <1>7, <1>8, <1>9 DEF Inv

LEMMA PublishInv ==
  ASSUME Inv, NEW p \in Procs, Publish(p)
  PROVE  Inv' /\ PublishedKept
<1>1. Owns(p) /\ object[p] \in Addr /\ owner[object[p]] = p
      /\ \A a \in Addr : owner[a] = p => pending[a] = {}
  BY OwnsFacts DEF Publish
<1>2. /\ owner' = [a \in DOMAIN owner |-> IF owner[a] = p THEN Public ELSE owner[a]]
      /\ published' = object[p]
      /\ object' = [object EXCEPT ![p] = Nil] /\ at' = [at EXCEPT ![p] = Nil]
      /\ phase' = [phase EXCEPT ![p] = "idle"]
      /\ heap' = heap /\ origin' = origin /\ pending' = pending /\ stack' = stack
  BY DEF Publish
<1>3. Addr' = Addr
  BY <1>2 DEF Addr
<1>4. /\ owner' \in Seq(Procs \cup {Public}) /\ Len(owner') = Len(owner)
      /\ \A a \in Addr : /\ owner[a] = p => owner'[a] = Public
                         /\ owner[a] # p => owner'[a] = owner[a]
  <2>1. owner \in Seq(Procs \cup {Public}) /\ DOMAIN owner = Addr
        /\ Len(owner) = Len(heap)
    BY ShapeFacts DEF Addr
  <2>2. \A a \in Addr : owner'[a] = IF owner[a] = p THEN Public ELSE owner[a]
    BY <1>2, <2>1
  <2>3. owner' \in [1 .. Len(owner) -> Procs \cup {Public}]
    BY <1>2, <2>1, <2>2 DEF Addr
  <2>4. owner' \in Seq(Procs \cup {Public}) /\ Len(owner') = Len(owner)
    BY <2>1, <2>3
  <2> QED BY <2>2, <2>4
<1>5. phase'[p] = "idle" /\ \A q \in Procs : q # p => phase'[q] = phase[q]
  BY <1>2, ShapeFacts
<1>6. Shape'
  BY <1>1, <1>2, <1>4, ShapeFacts DEF Shape, Addr
<1>7. ASSUME NEW a \in Addr PROVE BlockInv(a)'
  <2>1. BlockInv(a)
    BY DEF Inv
  <2>2. Typed(a)'
    BY <1>2, <1>3, <2>1 DEF BlockInv, Typed
  <2>3. Closed(a)'
    BY <1>2, <1>4, <2>1, ZenonT(60) DEF BlockInv, Typed, Closed
  <2>4. ASSUME pending'[a] # {} PROVE OnStack(a)'
    <3>1. OnStack(a)
      BY <1>2, <2>1, <2>4 DEF BlockInv
    <3>2. owner[a] # p /\ owner[a] \in Procs
      BY <1>1, <1>2, <2>4, <3>1 DEF OnStack
    <3> QED BY <1>2, <1>4, <1>5, <3>1, <3>2, StaysOnStack
  <2>5. ASSUME IsCopy(a)' PROVE Agrees(a)'
    <3>1. owner[a] # p /\ IsCopy(a)
      BY <1>4, <1>5, <2>5, ShapeFacts DEF IsCopy
    <3>2. Agrees(a)
      BY <2>1, <3>1 DEF BlockInv
    <3>3. origin[a] \in Addr /\ owner'[origin[a]] = Public
      BY <1>4, <3>2, ShapeFacts DEF Agrees
    <3> QED BY <1>2, <1>3, <3>2, <3>3 DEF Agrees
  <2> QED BY <2>2, <2>3, <2>4, <2>5 DEF BlockInv
<1>8. ProcInv(p)'
  <2>1. stack'[p] = <<>>
    BY <1>1, <1>2, OwnsFacts
  <2>2. \A a \in Addr' : owner'[a] # p
    BY <1>3, <1>4, ShapeFacts
  <2>3. object'[p] = Nil /\ at'[p] = Nil
    BY <1>2, ShapeFacts
  <2> QED BY <1>5, <2>1, <2>2, <2>3 DEF ProcInv
<1>9. ASSUME NEW q \in Procs, q # p PROVE ProcInv(q)'
  <2>1. \A c \in Addr : owner'[c] = q <=> owner[c] = q
    BY <1>4, <1>9, ShapeFacts
  <2>2. object'[q] = object[q] /\ at'[q] = at[q] /\ stack'[q] = stack[q]
    BY <1>2, <1>9, ShapeFacts
  <2> QED BY <1>3, <1>5, <1>9, <2>1, <2>2, Others
<1>10. published' # Nil => Mine(Public, published)'
  BY <1>1, <1>2, <1>3, <1>4 DEF Mine
<1>p. PublishedKept
  BY <1>2 DEF PublishedKept
<1> QED BY <1>p, <1>3, <1>6, <1>7, <1>8, <1>9, <1>10 DEF Inv

-----------------------------------------------------------------------------
(* DeepCopy and DeepCopyInto keep it.                                      *)

\* A new block, of the contents of a published one and all still to be copied.
LEMMA BeginsBlock ==
  ASSUME Inv, NEW p \in Procs, NEW n \in Addr', Addr \subseteq Addr',
         NEW o \in Addr, owner[o] = Public,
         heap'[n] = heap[o], heap'[o] = heap[o], owner'[o] = owner[o],
         owner'[n] = p, origin'[n] = o, pending'[n] = Slots(heap[o].kind),
         \A c \in Addr : heap'[c].kind = heap[c].kind,
         phase'[p] = "copying",
         \E i \in 1 .. Len(stack'[p]) : stack'[p][i] = n
  PROVE  BlockInv(n)'
<1>1. Typed(o)
  BY DEF Inv, BlockInv
<1>2. \A s \in Slots(heap[o].kind) :
        heap[o].ref[s] # Nil => /\ heap[o].ref[s] \in Addr
                                /\ heap'[heap[o].ref[s]].kind = Target(heap[o].kind, s)
  BY <1>1 DEF Typed
<1>3. Typed(n)'
  BY <1>2 DEF Typed
<1>4. Closed(n)'
  BY DEF Closed
<1>5. OnStack(n)'
  BY DEF OnStack
<1>6. Agrees(n)'
  BY DEF Agrees
<1> QED BY <1>3, <1>4, <1>5, <1>6 DEF BlockInv

LEMMA DeepCopyInv ==
  ASSUME Inv, NEW p \in Procs, DeepCopy(p)
  PROVE  Inv' /\ PublishedKept
<1>a. PICK n : n = Next1
  OBVIOUS
<1>0. PICK o, b, w : o = published /\ b = heap[o] /\ w = Slots(heap[o].kind)
  OBVIOUS
<1>1. o \in Addr /\ owner[o] = Public /\ o \in Nat /\ phase[p] = "idle" /\ o # Nil
  BY <1>0 DEF DeepCopy, Inv, Mine, Addr
<1>2. b \in BlockSet /\ b.kind \in Kinds /\ w \in SUBSET AllSlots
  BY <1>0, <1>1, ShapeFacts, BlockFacts DEF AllSlots
<1>3. /\ Grows(heap, b, p, o, pending, w)
      /\ phase' = [phase EXCEPT ![p] = "copying"]
      /\ stack' = [stack EXCEPT ![p] = Append(@, n)]
      /\ object' = [object EXCEPT ![p] = n] /\ at' = [at EXCEPT ![p] = n]
      /\ published' = published
  BY <1>a, <1>0 DEF DeepCopy, Begin, Grows
<1>4. heap \in Seq(BlockSet) /\ pending \in Seq(SUBSET AllSlots)
      /\ Len(pending) = Len(heap)
  BY ShapeFacts
<1>5. /\ heap' \in Seq(BlockSet) /\ owner' \in Seq(Procs \cup {Public})
      /\ origin' \in Seq(Nat) /\ pending' \in Seq(SUBSET AllSlots)
      /\ Len(heap') = n /\ Len(owner') = n
      /\ Len(origin') = n /\ Len(pending') = n
      /\ Addr' = Addr \cup {n} /\ n \notin Addr /\ n \in Nat \ {0}
      /\ heap'[n] = b /\ owner'[n] = p /\ origin'[n] = o /\ pending'[n] = w
      /\ \A a \in Addr : /\ heap'[a] = heap[a] /\ owner'[a] = owner[a]
                         /\ origin'[a] = origin[a] /\ pending'[a] = pending[a]
  BY <1>a, <1>1, <1>2, <1>3, <1>4, Appends, SMTT(40)
<1>6. /\ phase'[p] = "copying" /\ stack'[p] = <<n>>
      /\ object'[p] = n /\ at'[p] = n
      /\ \A q \in Procs : q # p => /\ phase'[q] = phase[q] /\ stack'[q] = stack[q]
                                   /\ object'[q] = object[q] /\ at'[q] = at[q]
  <2>1. stack[p] = <<>>
    BY <1>1 DEF Inv, ProcInv
  <2> QED BY <1>3, <1>5, <2>1, ShapeFacts
<1>7. Shape'
  <2>1. stack' \in [Procs -> Seq(Nat)]
    BY <1>3, <1>5, ShapeFacts
  <2> QED BY <1>3, <1>5, <2>1, ShapeFacts DEF Shape
<1>8. \A a \in Addr : owner[a] # p
  BY <1>1 DEF Inv, ProcInv
<1>9. ASSUME NEW a \in Addr PROVE BlockInv(a)'
  <2>1. IsCopy(a)' => IsCopy(a)
    BY <1>5, <1>6, <1>8 DEF IsCopy
  <2>2. ASSUME pending[a] # {} PROVE OnStack(a)'
    <3>1. OnStack(a)
      BY <2>2 DEF Inv, BlockInv
    <3> QED BY <1>5, <1>6, <1>8, <3>1, StaysOnStack DEF OnStack
  <2> QED BY <1>5, <2>1, <2>2, Frame
<1>10. BlockInv(n)'
  <2>1. \E i \in 1 .. Len(stack'[p]) : stack'[p][i] = n
    BY <1>6
  <2>2. n \in Addr' /\ Addr \subseteq Addr' /\ \A c \in Addr : heap'[c].kind = heap[c].kind
    BY <1>5
  <2>3. heap'[n] = heap[o] /\ heap'[o] = heap[o] /\ owner'[o] = owner[o]
        /\ owner'[n] = p /\ origin'[n] = o /\ pending'[n] = Slots(heap[o].kind)
    BY <1>0, <1>1, <1>5
  <2> QED BY <1>1, <1>6, <2>1, <2>2, <2>3, BeginsBlock
<1>11. ProcInv(p)'
  BY <1>5, <1>6 DEF ProcInv, Mine
<1>12. ASSUME NEW q \in Procs, q # p PROVE ProcInv(q)'
  BY <1>5, <1>6, <1>12, Others
<1>13. published' # Nil => Mine(Public, published)'
  BY <1>3, <1>5, PublishedStays
<1>p. PublishedKept
  BY <1>5 DEF PublishedKept
<1> QED BY <1>p, <1>5, <1>7, <1>9, <1>10, <1>11, <1>12, <1>13 DEF Inv

\* The block that a goroutine is copying into, and its original.
LEMMA CopyingFacts ==
  ASSUME Inv, NEW p \in Procs, phase[p] = "copying"
  PROVE  /\ stack[p] \in Seq(Nat) /\ Len(stack[p]) \in Nat \ {0}
         /\ Out(p) \in Addr /\ owner[Out(p)] = p
         /\ Out(p) = stack[p][Len(stack[p])]
         /\ In(p) = origin[Out(p)] /\ In(p) \in Addr /\ owner[In(p)] = Public
         /\ heap[In(p)].kind = heap[Out(p)].kind
         /\ Agrees(Out(p))
<1>1. ProcInv(p)
  BY DEF Inv
<1>2. stack[p] \in Seq(Nat) /\ Len(stack[p]) \in Nat \ {0}
  BY <1>1, ShapeFacts DEF ProcInv
<1>3. Out(p) \in Addr /\ owner[Out(p)] = p
  BY <1>1, <1>2 DEF ProcInv, Mine, Out
<1>4. Agrees(Out(p))
  BY <1>3 DEF Inv, BlockInv, IsCopy
<1> QED BY <1>2, <1>3, <1>4 DEF Agrees, In, Out

LEMMA CopyFieldInv ==
  ASSUME Inv, NEW p \in Procs, NEW t, CopyField(p, t)
  PROVE  Inv' /\ PublishedKept
<1>a. PICK n : n = Next1
  OBVIOUS
<1>0. PICK x, o, s : x = Out(p) /\ o = In(p) /\ s = t
  OBVIOUS
<1>b. PICK from : from = heap[o].ref[s]
  OBVIOUS
<1>c. PICK b, w : b = heap[from] /\ w = Slots(heap[from].kind)
  OBVIOUS
<1>d. PICK h : h = RedirectAt(heap, x, s, n)
  OBVIOUS
<1>e. PICK q0 : q0 = [pending EXCEPT ![x] = @ \ {s}]
  OBVIOUS
<1>1. /\ phase[p] = "copying"
      /\ x \in Addr /\ owner[x] = p /\ x = stack[p][Len(stack[p])] /\ x \in 1 .. Len(heap)
      /\ o = origin[x] /\ o \in Addr /\ owner[o] = Public
      /\ heap[o].kind = heap[x].kind
      /\ Agrees(x)
  BY <1>0, CopyingFacts DEF CopyField, Addr
<1>2. s \in pending[x] /\ from # Nil
  BY <1>0, <1>b DEF CopyField, ToCopy
<1>3. BlockInv(x)
  BY <1>1 DEF Inv
<1>4. s \in Slots(heap[x].kind) /\ heap[x].ref[s] = from
  BY <1>1, <1>2, <1>3, <1>b DEF BlockInv, Typed, Agrees
<1>5. from \in Addr /\ owner[from] = Public /\ from \in Nat
      /\ heap[from].kind = Target(heap[x].kind, s)
  <2>1. from \in Addr /\ heap[from].kind = Target(heap[x].kind, s)
    BY <1>2, <1>3, <1>4 DEF BlockInv, Typed
  <2>2. owner[from] = Public
    BY <1>1, <1>2, <1>4, <1>b, PublicFacts
  <2> QED BY <2>1, <2>2 DEF Addr
<1>6. b \in BlockSet /\ b.kind \in Kinds /\ w \in SUBSET AllSlots
  BY <1>c, <1>5, ShapeFacts, BlockFacts DEF AllSlots
<1>7. n \in Nat
  BY <1>a, ShapeFacts DEF Next1
<1>8. /\ h \in Seq(BlockSet) /\ Len(h) = Len(heap)
      /\ h[x] = Redirect(heap[x], s, n)
      /\ \A i \in 1 .. Len(heap) : i # x => h[i] = heap[i]
  <2>1. heap \in Seq(BlockSet) /\ x \in 1 .. Len(heap)
    BY <1>1, ShapeFacts
  <2>2. s \in Slots(heap[x].kind)
    BY <1>4
  <2> QED BY <1>d, <1>7, <2>1, <2>2, RedirectFacts
<1>9. /\ q0 \in Seq(SUBSET AllSlots) /\ Len(q0) = Len(heap)
      /\ q0[x] = pending[x] \ {s}
      /\ \A a \in Addr : a # x => q0[a] = pending[a]
  <2>1. pending \in Seq(SUBSET AllSlots) /\ Len(pending) = Len(heap)
        /\ x \in 1 .. Len(pending)
    BY <1>1, ShapeFacts
  <2>2. pending[x] \ {s} \in SUBSET AllSlots
    BY <2>1
  <2> QED BY <1>e, <2>1, <2>2 DEF Addr
<1>10. /\ Grows(h, b, p, from, q0, w)
       /\ phase' = phase /\ object' = object /\ at' = at /\ published' = published
       /\ stack' = [stack EXCEPT ![p] = Append(@, n)]
  BY <1>a, <1>0, <1>b, <1>c, <1>d, <1>e DEF CopyField, Begin, Grows, RedirectAt
<1>11. /\ heap' \in Seq(BlockSet) /\ owner' \in Seq(Procs \cup {Public})
       /\ origin' \in Seq(Nat) /\ pending' \in Seq(SUBSET AllSlots)
       /\ Len(heap') = n /\ Len(owner') = n
       /\ Len(origin') = n /\ Len(pending') = n
       /\ Addr' = Addr \cup {n} /\ n \notin Addr /\ n \in Nat \ {0}
       /\ heap'[n] = b /\ owner'[n] = p /\ origin'[n] = from /\ pending'[n] = w
       /\ \A a \in Addr : /\ heap'[a] = h[a] /\ owner'[a] = owner[a]
                          /\ origin'[a] = origin[a] /\ pending'[a] = q0[a]
  <2>1. Len(q0) = Len(heap) /\ q0 \in Seq(SUBSET AllSlots)
    BY <1>9
  <2>2. h \in Seq(BlockSet) /\ Len(h) = Len(heap) /\ b \in BlockSet
    BY <1>6, <1>8
  <2>3. Grows(h, b, p, from, q0, w)
    BY <1>10
  <2>4. from \in Nat /\ w \in SUBSET AllSlots
    BY <1>5, <1>6
  <2> QED BY <1>a, <2>1, <2>2, <2>3, <2>4, Appends, SMTT(30)
<1>12. /\ heap'[x] = Redirect(heap[x], s, n)
       /\ \A a \in Addr : a # x => heap'[a] = heap[a]
       /\ \A a \in Addr : heap'[a].kind = heap[a].kind
       /\ \A a \in Addr : owner[a] = Public => heap'[a] = heap[a]
  <2>1. \A a \in Addr : heap'[a] = h[a]
    BY <1>11
  <2>2. heap'[x] = Redirect(heap[x], s, n) /\ \A a \in Addr : a # x => heap'[a] = heap[a]
    BY <1>1, <1>8, <2>1 DEF Addr
  <2>3. heap'[x].kind = heap[x].kind
    BY <2>2 DEF Redirect
  <2> QED BY <1>1, <2>2, <2>3, ShapeFacts
<1>13. \A a \in Addr : owner'[a] = owner[a] /\ origin'[a] = origin[a]
  BY <1>11
<1>14. /\ stack'[p] = Append(stack[p], n) /\ stack[p] \in Seq(Nat)
       /\ Len(stack'[p]) = Len(stack[p]) + 1 /\ stack'[p][Len(stack[p]) + 1] = n
       /\ \A i \in 1 .. Len(stack[p]) : stack'[p][i] = stack[p][i]
       /\ \A q \in Procs : q # p => stack'[q] = stack[q]
  BY <1>7, <1>10, ShapeFacts
<1>15. Shape'
  <2>1. stack' \in [Procs -> Seq(Nat)]
    BY <1>7, <1>10, ShapeFacts
  <2> QED BY <1>10, <1>11, <2>1, ShapeFacts DEF Shape
<1>16. ASSUME NEW a \in Addr, OnStack(a) PROVE OnStack(a)'
  <2>1. owner[a] \in Procs
    BY <1>16 DEF OnStack
  <2>2. CASE owner[a] = p
    <3>1. PICK i \in 1 .. Len(stack[p]) : stack[p][i] = a
      BY <1>16, <2>2 DEF OnStack
    <3>2. stack'[p][i] = a /\ i \in 1 .. Len(stack'[p])
      BY <1>14, <3>1
    <3> QED BY <1>1, <1>10, <1>13, <2>2, <3>2 DEF OnStack
  <2>3. CASE owner[a] # p
    BY <1>10, <1>13, <1>14, <1>16, <2>1, <2>3, StaysOnStack
  <2> QED BY <2>2, <2>3
<1>17. ASSUME NEW a \in Addr, a # x PROVE BlockInv(a)'
  <2>1. IsCopy(a)' => IsCopy(a)
    BY <1>10, <1>13 DEF IsCopy
  <2>2. pending[a] # {} => OnStack(a)'
    BY <1>16 DEF Inv, BlockInv
  <2>3. pending'[a] = pending[a] /\ Addr \subseteq Addr'
    BY <1>9, <1>11, <1>17
  <2> QED BY <1>12, <1>13, <1>17, <2>1, <2>2, <2>3, Frame
<1>18. BlockInv(x)'
  <2>1. heap[x].ref \in [Slots(heap[x].kind) -> Nat]
    BY <1>1, ShapeFacts, BlockFacts
  <2>2. /\ heap'[x].kind = heap[x].kind /\ heap'[x].data = heap[x].data
        /\ heap'[x].ref[s] = n
        /\ \A u \in Slots(heap[x].kind) : u # s => heap'[x].ref[u] = heap[x].ref[u]
    BY <1>4, <1>12, <2>1 DEF Redirect
  <2>3. pending'[x] = pending[x] \ {s}
    BY <1>1, <1>9, <1>11
  <2>4. n \in Addr' /\ Addr \subseteq Addr' /\ heap'[n].kind = Target(heap[x].kind, s)
        /\ owner'[n] = p /\ origin'[n] = from /\ n # Nil
    BY <1>5, <1>11, <1>c
  <2>5. Typed(x)'
    <3>1. Typed(x)
      BY <1>3 DEF BlockInv
    <3>2. pending'[x] \subseteq Slots(heap'[x].kind) /\ origin'[x] \in {Nil} \cup Addr'
      BY <1>1, <1>13, <2>2, <2>3, <2>4, <3>1 DEF Typed
    <3>3. ASSUME NEW u \in Slots(heap[x].kind), heap'[x].ref[u] # Nil
          PROVE  /\ heap'[x].ref[u] \in Addr'
                 /\ heap'[heap'[x].ref[u]].kind = Target(heap[x].kind, u)
      <4>1. CASE u = s
        BY <2>2, <2>4, <4>1
      <4>2. CASE u # s
        BY <1>12, <2>2, <2>4, <3>1, <3>3, <4>2 DEF Typed
      <4> QED BY <4>1, <4>2
    <3> QED BY <2>2, <3>2, <3>3 DEF Typed
  <2>6. Closed(x)'
    <3>1. ASSUME NEW u \in Slots(heap[x].kind) \ pending'[x], heap'[x].ref[u] # Nil
          PROVE  owner'[heap'[x].ref[u]] = p
      <4>1. CASE u = s
        BY <2>2, <2>4, <4>1
      <4>2. CASE u # s
        <5>1. u \in Slots(heap[x].kind) \ pending[x] /\ heap'[x].ref[u] = heap[x].ref[u]
          BY <2>2, <2>3, <3>1, <4>2
        <5>2. heap[x].ref[u] \in Addr /\ owner[heap[x].ref[u]] = owner[x]
          BY <1>3, <3>1, <5>1 DEF BlockInv, Typed, Closed
        <5> QED BY <1>1, <1>13, <5>1, <5>2
      <4> QED BY <4>1, <4>2
    <3> QED BY <1>1, <1>13, <2>2, <3>1 DEF Closed
  <2>7. OnStack(x)'
    BY <1>1, <1>2, <1>3, <1>16 DEF BlockInv
  <2>8. Agrees(x)'
    <3>1. heap'[o] = heap[o] /\ origin'[x] = o /\ owner'[o] = Public /\ o \in Addr'
      BY <1>1, <1>12, <1>13, <2>4
    <3>2. \A u \in pending'[x] : u # s /\ u \in pending[x] /\ u \in Slots(heap[x].kind)
      BY <1>3, <2>3 DEF BlockInv, Typed
    <3>3. \A u \in pending'[x] : heap'[x].ref[u] = heap[o].ref[u]
      BY <1>1, <2>2, <3>2 DEF Agrees
    <3>4. heap'[x].ref[s] # Nil /\ heap[o].ref[s] # Nil
          /\ origin'[heap'[x].ref[s]] = heap[o].ref[s]
      BY <1>2, <1>b, <2>2, <2>4
    <3>5. ASSUME NEW u \in Slots(heap[x].kind) \ pending'[x], u # s
          PROVE  /\ heap'[x].ref[u] = Nil <=> heap[o].ref[u] = Nil
                 /\ heap'[x].ref[u] # Nil => origin'[heap'[x].ref[u]] = heap[o].ref[u]
      <4>1. u \in Slots(heap[x].kind) \ pending[x]
        BY <2>3, <3>5
      <4>2. heap[x].ref[u] # Nil => heap[x].ref[u] \in Addr
        BY <1>3, <4>1 DEF BlockInv, Typed
      <4> QED BY <1>1, <1>13, <2>2, <3>5, <4>1, <4>2, ZenonT(60) DEF Agrees
    <3>6. heap'[x].kind = heap'[o].kind /\ heap'[x].data = heap'[o].data
      BY <1>1, <2>2, <3>1 DEF Agrees
    <3> QED BY <2>2, <3>1, <3>3, <3>4, <3>5, <3>6 DEF Agrees
  <2> QED BY <2>5, <2>6, <2>7, <2>8 DEF BlockInv
<1>19. BlockInv(n)'
  <2>1. \E i \in 1 .. Len(stack'[p]) : stack'[p][i] = n
    BY <1>14
  <2>2. n \in Addr' /\ Addr \subseteq Addr'
    BY <1>11
  <2>3. heap'[n] = heap[from] /\ heap'[from] = heap[from] /\ owner'[from] = owner[from]
        /\ owner'[n] = p /\ origin'[n] = from /\ pending'[n] = Slots(heap[from].kind)
    BY <1>c, <1>5, <1>11, <1>12, <1>13
  <2>4. phase'[p] = "copying"
    BY <1>1, <1>10
  <2> QED BY <1>5, <1>12, <2>1, <2>2, <2>3, <2>4, BeginsBlock
<1>20. ProcInv(p)'
  <2>1. ProcInv(p)
    BY DEF Inv
  <2>2. Mine(p, object[p])' /\ Mine(p, at[p])'
    BY <1>1, <1>10, <1>11, <1>13, <2>1 DEF ProcInv, Mine
  <2>3. ASSUME NEW i \in 1 .. Len(stack'[p]) PROVE Mine(p, stack[p][i])'
    <3>1. CASE i = Len(stack[p]) + 1
      <4>1. stack'[p][i] = n
        BY <1>14, <3>1
      <4> QED BY <1>11, <4>1 DEF Mine
    <3>2. CASE i # Len(stack[p]) + 1
      <4>1. i \in 1 .. Len(stack[p]) /\ stack'[p][i] = stack[p][i]
        BY <1>14, <3>2
      <4>2. stack[p][i] \in Addr /\ owner[stack[p][i]] = p
        BY <2>1, <4>1 DEF ProcInv, Mine
      <4>3. Addr \subseteq Addr'
        BY <1>11
      <4> QED BY <1>13, <4>1, <4>2, <4>3 DEF Mine
    <3> QED BY <3>1, <3>2
  <2>4. stack'[p] # <<>>
    BY <1>14
  <2>5. phase'[p] = "copying"
    BY <1>1, <1>10
  <2> QED BY <2>2, <2>3, <2>4, <2>5 DEF ProcInv
<1>21. ASSUME NEW q \in Procs, q # p PROVE ProcInv(q)'
  BY <1>10, <1>11, <1>14, <1>21, Others
<1>22. published' # Nil => Mine(Public, published)'
  BY <1>10, <1>11, <1>13, PublishedStays
<1>p. PublishedKept
  BY <1>12 DEF PublishedKept
<1> QED BY <1>p, <1>11, <1>15, <1>17, <1>18, <1>19, <1>20, <1>21, <1>22 DEF Inv

LEMMA ReturnFromCopyInv ==
  ASSUME Inv, NEW p \in Procs, ReturnFromCopy(p)
  PROVE  Inv' /\ PublishedKept
<1>0. PICK x, o, l : x = Out(p) /\ o = In(p) /\ l = Len(stack[p])
  OBVIOUS
<1>1. /\ phase[p] = "copying" /\ stack[p] \in Seq(Nat) /\ l \in Nat \ {0}
      /\ x \in Addr /\ owner[x] = p /\ x = stack[p][l]
      /\ o = origin[x] /\ o \in Addr /\ owner[o] = Public
      /\ heap[o].kind = heap[x].kind
      /\ Agrees(x)
  BY <1>0, CopyingFacts DEF ReturnFromCopy
<1>2. /\ pending' = [pending EXCEPT ![x] = {}]
      /\ stack' = [stack EXCEPT ![p] = SubSeq(@, 1, Len(@) - 1)]
      /\ phase' = [phase EXCEPT ![p] = IF l = 1 THEN "copied" ELSE @]
      /\ heap' = heap /\ owner' = owner /\ origin' = origin
      /\ published' = published /\ object' = object /\ at' = at
  BY <1>0 DEF ReturnFromCopy
<1>3. Addr' = Addr
  BY <1>2 DEF Addr
<1>4. /\ pending' \in Seq(SUBSET AllSlots) /\ Len(pending') = Len(heap)
      /\ pending'[x] = {} /\ \A a \in Addr : a # x => pending'[a] = pending[a]
  <2>1. pending \in Seq(SUBSET AllSlots) /\ Len(pending) = Len(heap)
        /\ {} \in SUBSET AllSlots
    BY ShapeFacts
  <2> QED BY <1>1, <1>2, <2>1 DEF Addr
<1>5. /\ stack'[p] \in Seq(Nat) /\ Len(stack'[p]) = l - 1
      /\ \A i \in 1 .. l - 1 : stack'[p][i] = stack[p][i]
      /\ \A q \in Procs : q # p => stack'[q] = stack[q]
  <2>1. stack'[p] = SubSeq(stack[p], 1, l - 1)
        /\ \A q \in Procs : q # p => stack'[q] = stack[q]
    BY <1>0, <1>2, ShapeFacts
  <2> QED BY <1>0, <1>1, <2>1, SMTT(40)
<1>6. /\ l = 1 => phase'[p] = "copied"
      /\ l # 1 => phase'[p] = "copying"
      /\ \A q \in Procs : q # p => phase'[q] = phase[q]
  BY <1>1, <1>2, ShapeFacts
<1>7. Shape'
  <2>1. stack' \in [Procs -> Seq(Nat)]
    <3>1. SubSeq(stack[p], 1, Len(stack[p]) - 1) \in Seq(Nat)
      BY <1>0, <1>1
    <3> QED BY <1>2, <3>1, ShapeFacts
  <2>2. phase' \in [Procs -> {"idle", "copying", "copied", "own"}]
    BY <1>2, ShapeFacts
  <2> QED BY <1>2, <1>4, <2>1, <2>2, ShapeFacts DEF Shape
\* What has not been copied needs no copying.
<1>8. \A s \in pending[x] : s \in Slots(heap[x].kind) /\ heap[o].ref[s] = Nil
                            /\ heap[x].ref[s] = Nil
  <2>1. pending[x] \subseteq Slots(heap[x].kind)
    BY <1>1 DEF Inv, BlockInv, Typed
  <2>2. \A s \in pending[x] \cap Handled(heap[o].kind) : heap[o].ref[s] = Nil
    BY <1>0 DEF ReturnFromCopy, ToCopy
  <2>3. Handled(heap[o].kind) = Slots(heap[x].kind)
    BY <1>1, AllHandled
  <2>4. \A s \in pending[x] : heap[x].ref[s] = heap[o].ref[s]
    BY <1>1 DEF Agrees
  <2> QED BY <2>1, <2>2, <2>3, <2>4
<1>9. ASSUME NEW a \in Addr, a # x, OnStack(a) PROVE OnStack(a)'
  <2>1. owner[a] \in Procs
    BY <1>9 DEF OnStack
  <2>2. CASE owner[a] = p
    <3>1. PICK i \in 1 .. l : stack[p][i] = a
      BY <1>0, <1>9, <2>2 DEF OnStack
    <3>2. i # l
      BY <1>1, <1>9, <3>1
    <3>3. i \in 1 .. Len(stack'[p]) /\ stack'[p][i] = a /\ l # 1
      BY <1>1, <1>5, <3>1, <3>2
    <3> QED BY <1>2, <1>6, <2>2, <3>3 DEF OnStack
  <2>3. CASE owner[a] # p
    BY <1>2, <1>5, <1>6, <1>9, <2>1, <2>3, StaysOnStack
  <2> QED BY <2>2, <2>3
<1>10. \A a \in Addr : IsCopy(a)' => IsCopy(a)
  BY <1>1, <1>2, <1>6 DEF IsCopy
<1>11. ASSUME NEW a \in Addr, a # x PROVE BlockInv(a)'
  <2>1. pending[a] # {} => OnStack(a)'
    BY <1>9, <1>11 DEF Inv, BlockInv
  <2>2. IsCopy(a)' => IsCopy(a)
    BY <1>10
  <2>3. Addr \subseteq Addr' /\ pending'[a] = pending[a]
    BY <1>3, <1>4, <1>11
  <2> QED BY <1>2, <2>1, <2>2, <2>3, Frame
<1>12. BlockInv(x)'
  <2>1. BlockInv(x)
    BY <1>1 DEF Inv
  <2>2. Typed(x)'
    BY <1>2, <1>3, <1>4, <2>1 DEF BlockInv, Typed
  <2>3. Closed(x)'
    BY <1>2, <1>4, <1>8, <2>1 DEF BlockInv, Closed
  <2>4. Agrees(x)'
    BY <1>1, <1>2, <1>3, <1>4, <1>8 DEF Agrees
  <2> QED BY <1>4, <2>2, <2>3, <2>4 DEF BlockInv
<1>13. ProcInv(p)'
  <2>1. ProcInv(p)
    BY DEF Inv
  <2>2. Mine(p, object[p])' /\ Mine(p, at[p])' /\ phase'[p] # "idle"
    BY <1>1, <1>2, <1>3, <1>6, <2>1 DEF ProcInv, Mine
  <2>3. \A i \in 1 .. l - 1 : Mine(p, stack[p][i])
    BY <1>0, <1>1, <2>1 DEF ProcInv
  <2>4. \A i \in 1 .. Len(stack'[p]) : Mine(p, stack[p][i])'
    BY <1>2, <1>3, <1>5, <2>3 DEF Mine
  <2>5. stack'[p] # <<>> <=> l # 1
    BY <1>1, <1>5
  <2> QED BY <1>6, <2>2, <2>4, <2>5 DEF ProcInv
<1>14. ASSUME NEW q \in Procs, q # p PROVE ProcInv(q)'
  BY <1>2, <1>3, <1>5, <1>6, <1>14, Others
<1>15. published' # Nil => Mine(Public, published)'
  BY <1>2, <1>3, PublishedStays
<1>p. PublishedKept
  BY <1>2 DEF PublishedKept
<1> QED BY <1>p, <1>3, <1>7, <1>11, <1>12, <1>13, <1>14, <1>15 DEF Inv

LEMMA StepInv ==
  ASSUME Inv, [Next]_vars
  PROVE  Inv' /\ PublishedKept
<1>1. ASSUME NEW p \in Procs, Use(p) PROVE Inv' /\ PublishedKept
  <2>1. ASSUME NEW k \in Roots, NEW v \in Values, New(p, k, v)
        PROVE  Inv' /\ PublishedKept
    BY <2>1, NewInv, RootsAssumption
  <2>2. ASSUME NEW s \in Slots(heap[at[p]].kind), NEW v \in Values, Set(p, s, v)
        PROVE  Inv' /\ PublishedKept
    BY <2>2, SetInv
  <2>3. ASSUME NEW s \in Slots(heap[at[p]].kind), NEW a \in {Nil} \cup Addr, Assign(p, s, a)
        PROVE  Inv' /\ PublishedKept
    BY <2>3, AssignInv
  <2>4. ASSUME NEW v \in Values, Write(p, v) PROVE Inv' /\ PublishedKept
    BY <2>4, WriteInv
  <2>5. ASSUME NEW s \in Slots(heap[at[p]].kind), Follow(p, s)
        PROVE  Inv' /\ PublishedKept
    BY <2>5, FollowInv
  <2>6. CASE Publish(p)
    BY <2>6, PublishInv
  <2> QED BY <1>1, <2>1, <2>2, <2>3, <2>4, <2>5, <2>6 DEF Use
<1>2. ASSUME NEW p \in Procs, Copy(p) PROVE Inv' /\ PublishedKept
  <2>1. CASE DeepCopy(p)
    BY <2>1, DeepCopyInv
  <2>2. ASSUME NEW s \in ToCopy(p), CopyField(p, s) PROVE Inv' /\ PublishedKept
    BY <2>2, CopyFieldInv
  <2>3. CASE ReturnFromCopy(p)
    BY <2>3, ReturnFromCopyInv
  <2> QED BY <1>2, <2>1, <2>2, <2>3 DEF Copy, CopyStep
<1>3. CASE UNCHANGED vars
  <2>1. Inv'
    <3>1. Shape' /\ Addr' = Addr
      BY <1>3 DEF vars, Inv, Shape, Addr
    <3>2. ASSUME NEW a \in Addr PROVE BlockInv(a)'
      <4>1. BlockInv(a)
        BY DEF Inv
      <4>2. Typed(a)' /\ Closed(a)'
        BY <1>3, <3>1, <4>1 DEF vars, BlockInv, Typed, Closed
      <4>3. Agrees(a) => Agrees(a)'
        BY <1>3, <3>1 DEF vars, Agrees
      <4> QED BY <1>3, <4>1, <4>2, <4>3 DEF vars, BlockInv, OnStack, IsCopy
    <3>3. ASSUME NEW p \in Procs PROVE ProcInv(p)'
      BY <1>3, <3>1 DEF vars, Inv, ProcInv, Mine
    <3>4. published' # Nil => Mine(Public, published)'
      BY <1>3, <3>1 DEF vars, Inv, Mine
    <3> QED BY <3>1, <3>2, <3>3, <3>4 DEF Inv
  <2>2. PublishedKept
    BY <1>3 DEF vars, PublishedKept
  <2> QED BY <2>1, <2>2
<1> QED BY <1>1, <1>2, <1>3 DEF Next

LEMMA Invariance == Spec => []Inv
<1>1. Inv /\ [Next]_vars => Inv'
  BY StepInv
<1> QED BY <1>1, InitInv, PTL DEF Spec

-----------------------------------------------------------------------------
(* The results.                                                            *)

\* Every reference in memory is nil or leads to a block of the kind that its
\* field is declared with, whatever is copied, assigned and published.
THEOREM TypeCorrect == Spec => []TypeOK
<1>1. Inv => TypeOK
  <2> SUFFICES ASSUME Inv PROVE TypeOK
    OBVIOUS
  <2>1. ASSUME NEW a \in Addr
        PROVE  /\ heap[a].kind \in Kinds
               /\ heap[a].data \in Values
               /\ DOMAIN heap[a].ref = Slots(heap[a].kind)
               /\ owner[a] \in Procs \cup {Public}
               /\ Typed(a)
    <3>1. heap[a] \in BlockSet
      BY ShapeFacts
    <3>2. owner[a] \in Procs \cup {Public}
      BY ShapeFacts DEF Addr
    <3>3. Typed(a)
      BY DEF Inv, BlockInv
    <3> QED BY <3>1, <3>2, <3>3, BlockFacts
  <2>2. published \in {Nil} \cup Addr
    BY DEF Inv, Mine
  <2>3. ASSUME NEW p \in Procs
        PROVE  object[p] \in {Nil} \cup Addr /\ at[p] \in {Nil} \cup Addr
               /\ stack[p] \in Seq(Addr)
    <3>1. ProcInv(p)
      BY DEF Inv
    <3>2. stack[p] \in Seq(Addr)
      <4>1. stack[p] \in Seq(Nat) /\ \A i \in 1 .. Len(stack[p]) : stack[p][i] \in Addr
        BY <3>1, ShapeFacts DEF ProcInv, Mine
      <4> QED BY <4>1
    <3>3. phase[p] # "idle" => object[p] \in Addr /\ at[p] \in Addr
      BY <3>1 DEF ProcInv, Mine
    <3>4. phase[p] = "idle" => object[p] = Nil /\ at[p] = Nil
      BY <3>1 DEF ProcInv
    <3> QED BY <3>2, <3>3, <3>4
  <2>4. /\ object \in [Procs -> {Nil} \cup Addr]
        /\ at \in [Procs -> {Nil} \cup Addr]
        /\ stack \in [Procs -> Seq(Addr)]
    BY <2>3, ShapeFacts
  <2> QED BY <2>1, <2>2, <2>4, ShapeFacts DEF TypeOK, Typed
<1> QED BY <1>1, Invariance, PTL

\* A copy that DeepCopy has returned has no memory in common with anything
\* else, and whatever its owner does to it, it keeps to itself.
THEOREM CopiesAreIsolated == Spec => []Isolated
<1>1. Inv => Isolated
  <2> SUFFICES ASSUME Inv, NEW p \in Procs, Owns(p), NEW a \in Addr, owner[a] = p,
                      NEW s \in Slots(heap[a].kind), heap[a].ref[s] # Nil
               PROVE  owner[heap[a].ref[s]] = p
    BY DEF Isolated
  <2>1. pending[a] = {} /\ Closed(a)
    BY OwnsFacts DEF Inv, BlockInv
  <2> QED BY <2>1 DEF Closed
<1> QED BY <1>1, Invariance, PTL

\* No step of any goroutine changes what has been published.
THEOREM PublishedObjectsNeverChange == Spec => PublishedNeverChanges
<1>1. Inv /\ [Next]_vars => [\A a \in Addr : owner[a] = Public => heap'[a] = heap[a]]_vars
  BY StepInv DEF PublishedKept
<1> QED BY <1>1, Invariance, PTL DEF Spec, PublishedNeverChanges

\* Until it is written, a copy is equal to what it was made from, all the way
\* down, for arrays of any length.
THEOREM CopiesAreEqual == Spec => []CopyIsEqual
<1>1. Inv => CopyIsEqual
  <2> SUFFICES ASSUME Inv, NEW p \in Procs, phase[p] = "copied",
                      NEW a \in Addr, owner[a] = p
               PROVE  Agrees(a) /\ pending[a] = {}
    BY DEF CopyIsEqual, Agrees
  <2>1. IsCopy(a)
    BY DEF IsCopy
  <2> QED BY <2>1, OwnsFacts DEF Inv, BlockInv, Owns
<1> QED BY <1>1, Invariance, PTL

=============================================================================
