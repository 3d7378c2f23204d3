---------------------------- MODULE Induction ----------------------------
(***************************************************************************)
(* Induction over the natural numbers, stated over sets, and the existence *)
(* of functions defined by recursion over them.  The induction theorems of *)
(* the libraries take the predicate as an operator; these take the set of  *)
(* the numbers that satisfy it, which the provers can instantiate.         *)
(***************************************************************************)
EXTENDS Integers, WellFoundedInduction, TLAPS

Less == {p \in Nat \X Nat : p[1] < p[2]}

LEMMA LessIsWellFounded == IsWellFoundedOn(Less, Nat)
BY NatLessThanWellFounded, Zenon DEF OpToRel, Less

\* A set of natural numbers has a least element.
THEOREM LeastElement ==
  ASSUME NEW T, T \subseteq Nat, T # {}
  PROVE  \E n \in T : \A m \in T : n <= m
<1>1. PICK n \in T : \A m \in T : ~ (<<m, n>> \in Less)
  BY LessIsWellFounded, WFMin
<1>2. ASSUME NEW m \in T
      PROVE  n <= m
  <2>1. <<m, n>> \in Nat \X Nat /\ <<m, n>> \notin Less
    BY <1>1
  <2>2. <<m, n>>[1] = m /\ <<m, n>>[2] = n
    OBVIOUS
  <2>3. ~ (m < n)
    BY <2>1, <2>2 DEF Less
  <2> QED
    BY <2>3
<1> QED
  BY <1>2

\* A set that has 0, and with every number the next one, has all of them.
THEOREM SetInduction ==
  ASSUME NEW S, 0 \in S, \A n \in Nat : n \in S => n + 1 \in S
  PROVE  \A n \in Nat : n \in S
<1> SUFFICES ASSUME NEW k \in Nat, k \notin S
             PROVE  FALSE
  OBVIOUS
<1> DEFINE T == {n \in Nat : n \notin S}
<1>1. T \subseteq Nat /\ T # {}
  OBVIOUS
<1>2. PICK n \in T : \A m \in T : n <= m
  <2> HIDE DEF T
  <2> QED
    BY <1>1, LeastElement
<1>3. n \in Nat /\ n # 0
  OBVIOUS
<1>4. n - 1 \in Nat /\ n - 1 + 1 = n
  BY <1>3
<1>5. n - 1 \in T
  BY <1>4
<1> QED
  BY <1>2, <1>3, <1>5

\* A function on 0 .. n whose value at 0 is given and whose other values are
\* each made from the one before: there is one, so that a definition by this
\* recursion defines one.
IsRecursive(f, n, a, step) ==
  f = [k \in 0 .. n |-> IF k = 0 THEN a ELSE step[f[k - 1]][k]]

THEOREM RecursiveFunctionExists ==
  ASSUME NEW A, NEW a \in A, NEW step \in [A -> [Nat -> A]], NEW n \in Nat
  PROVE  \E f \in [0 .. n -> A] : IsRecursive(f, n, a, step)
<1> DEFINE S == {m \in Nat : \E f \in [0 .. m -> A] : IsRecursive(f, m, a, step)}
<1>1. 0 \in S
  <2> DEFINE f == [k \in 0 .. 0 |-> a]
  <2>1. f \in [0 .. 0 -> A] /\ IsRecursive(f, 0, a, step)
    BY DEF IsRecursive
  <2> QED
    BY <2>1
<1>2. ASSUME NEW m \in Nat, m \in S
      PROVE  m + 1 \in S
  <2>1. PICK f \in [0 .. m -> A] : IsRecursive(f, m, a, step)
    BY <1>2
  <2> DEFINE g == [k \in 0 .. m + 1 |->
                     IF k = m + 1 THEN step[f[m]][m + 1] ELSE f[k]]
  <2>2. g \in [0 .. m + 1 -> A]
    OBVIOUS
  <2>3. ASSUME NEW k \in 0 .. m + 1
        PROVE  g[k] = IF k = 0 THEN a ELSE step[g[k - 1]][k]
    <3>1. CASE k = m + 1
      BY <3>1
    <3>2. CASE k \in 0 .. m /\ k # 0
      <4>1. g[k - 1] = f[k - 1] /\ g[k] = f[k]
        BY <3>2
      <4>2. f[k] = step[f[k - 1]][k]
        BY <3>2, <2>1 DEF IsRecursive
      <4> QED
        BY <4>1, <4>2, <3>2
    <3>3. CASE k = 0
      BY <3>3, <2>1 DEF IsRecursive
    <3> QED
      BY <3>1, <3>2, <3>3
  <2>4. IsRecursive(g, m + 1, a, step)
    BY <2>2, <2>3 DEF IsRecursive
  <2> HIDE DEF g
  <2> QED
    BY <2>2, <2>4
<1>3. n \in S
  <2> HIDE DEF S
  <2> QED
    BY <1>1, <1>2, SetInduction
<1> QED
  BY <1>3
=============================================================================
