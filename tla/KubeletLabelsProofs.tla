---------------------- MODULE KubeletLabelsProofs ----------------------
(***************************************************************************)
(* The verdict on a label does not depend on the order in which the        *)
(* allowed namespaces are looked at, and it is the one of the rule for     *)
(* domain names: comparing the ends of two names as strings, with a dot in *)
(* front, comes to the same as comparing their words from the right.       *)
(***************************************************************************)
EXTENDS KubeletLabels, Induction, SequenceTheorems

-----------------------------------------------------------------------------
(* Suffixes.                                                               *)

IsEnd(s, t) ==
  /\ Len(s) <= Len(t)
  /\ \A i \in 1 .. Len(s) : s[i] = t[Len(t) - Len(s) + i]

LEMMA SuffixIsEnd ==
  ASSUME NEW S, NEW s \in Seq(S), NEW t \in Seq(S)
  PROVE  IsSuffix(s, t) <=> IsEnd(s, t)
<1> DEFINE r == Reverse(s)
           u == Reverse(t)
<1>1. /\ r \in Seq(S) /\ Len(r) = Len(s)
      /\ \A i \in 1 .. Len(s) : r[i] = s[Len(s) - i + 1]
  BY DEF Reverse
<1>2. /\ u \in Seq(S) /\ Len(u) = Len(t)
      /\ \A i \in 1 .. Len(t) : u[i] = t[Len(t) - i + 1]
  BY DEF Reverse
<1> HIDE DEF r, u
<1>3. IsSuffix(s, t) <=>
        Len(s) <= Len(t) /\ SubSeq(r, 1, Len(r)) = SubSeq(u, 1, Len(r))
  BY <1>1, <1>2 DEF IsSuffix, IsPrefix, r, u
<1>4. ASSUME Len(s) <= Len(t)
      PROVE  SubSeq(r, 1, Len(r)) = SubSeq(u, 1, Len(r))
               <=> \A i \in 1 .. Len(s) : r[i] = u[i]
  <2>1. /\ SubSeq(r, 1, Len(r)) \in Seq(S) /\ SubSeq(u, 1, Len(r)) \in Seq(S)
        /\ Len(SubSeq(r, 1, Len(r))) = Len(s)
        /\ Len(SubSeq(u, 1, Len(r))) = Len(s)
        /\ \A i \in 1 .. Len(s) : /\ SubSeq(r, 1, Len(r))[i] = r[i]
                                  /\ SubSeq(u, 1, Len(r))[i] = u[i]
    BY <1>1, <1>2, <1>4
  <2> QED
    BY <2>1, SeqEqual
<1>5. ASSUME Len(s) <= Len(t)
      PROVE  (\A i \in 1 .. Len(s) : r[i] = u[i]) <=>
             (\A i \in 1 .. Len(s) : s[i] = t[Len(t) - Len(s) + i])
  <2>1. ASSUME \A i \in 1 .. Len(s) : r[i] = u[i], NEW i \in 1 .. Len(s)
        PROVE  s[i] = t[Len(t) - Len(s) + i]
    <3> DEFINE j == Len(s) - i + 1
    <3>1. j \in 1 .. Len(s) /\ j \in 1 .. Len(t)
      BY <1>5
    <3>2. Len(s) - j + 1 = i /\ Len(t) - j + 1 = Len(t) - Len(s) + i
      OBVIOUS
    <3> QED
      BY <1>1, <1>2, <2>1, <3>1, <3>2
  <2>2. ASSUME \A i \in 1 .. Len(s) : s[i] = t[Len(t) - Len(s) + i],
               NEW j \in 1 .. Len(s)
        PROVE  r[j] = u[j]
    <3> DEFINE i == Len(s) - j + 1
    <3>1. i \in 1 .. Len(s) /\ j \in 1 .. Len(t)
      BY <1>5
    <3>2. Len(t) - j + 1 = Len(t) - Len(s) + i
      OBVIOUS
    <3> QED
      BY <1>1, <1>2, <2>2, <3>1, <3>2
  <2> QED
    BY <2>1, <2>2
<1> QED
  BY <1>3, <1>4, <1>5 DEF IsEnd

LEMMA SuffixOfEmpty ==
  ASSUME NEW S, NEW s \in Seq(S), NEW t \in Seq(S)
  PROVE  /\ IsSuffix(<<>>, t)
         /\ s # <<>> => ~ IsSuffix(s, <<>>)
<1> DEFINE e == <<>>
<1>1. e \in Seq(S) /\ Len(e) = 0 /\ Len(t) \in Nat
  OBVIOUS
<1>2. s # e => Len(s) > 0
  OBVIOUS
<1> HIDE DEF e
<1>3. IsSuffix(e, t)
  <2>1. 1 .. Len(e) = {} /\ Len(e) <= Len(t)
    BY <1>1
  <2>2. IsEnd(e, t)
    BY <2>1 DEF IsEnd
  <2> QED
    BY <1>1, <2>2, SuffixIsEnd
<1>4. s # e => ~ IsSuffix(s, e)
  <2>1. Len(s) > 0 => ~ Len(s) <= Len(e)
    BY <1>1
  <2> QED
    BY <1>1, <1>2, <2>1, SuffixIsEnd DEF IsEnd
<1> QED
  BY <1>3, <1>4 DEF e

LEMMA SuffixAppend ==
  ASSUME NEW S, NEW s \in Seq(S), NEW t \in Seq(S), NEW a \in S, NEW b \in S
  PROVE  IsSuffix(Append(s, a), Append(t, b)) <=> a = b /\ IsSuffix(s, t)
<1> DEFINE p == Append(s, a)
           q == Append(t, b)
<1>1. /\ p \in Seq(S) /\ Len(p) = Len(s) + 1 /\ p[Len(s) + 1] = a
      /\ \A i \in 1 .. Len(s) : p[i] = s[i]
  OBVIOUS
<1>2. /\ q \in Seq(S) /\ Len(q) = Len(t) + 1 /\ q[Len(t) + 1] = b
      /\ \A i \in 1 .. Len(t) : q[i] = t[i]
  OBVIOUS
<1>3. Len(s) \in Nat /\ Len(t) \in Nat
  OBVIOUS
<1> HIDE DEF p, q
<1>4. IsSuffix(p, q) <=> /\ Len(p) <= Len(q)
                         /\ \A i \in 1 .. Len(p) : p[i] = q[Len(q) - Len(p) + i]
  BY <1>1, <1>2, SuffixIsEnd DEF IsEnd
<1>5. IsSuffix(s, t) <=>
        /\ Len(s) <= Len(t)
        /\ \A i \in 1 .. Len(s) : s[i] = t[Len(t) - Len(s) + i]
  BY SuffixIsEnd DEF IsEnd
<1>6. \A i \in Int : Len(q) - Len(p) + i = Len(t) - Len(s) + i
  BY <1>1, <1>2, <1>3
<1>7. Len(t) - Len(s) + (Len(s) + 1) = Len(t) + 1
  BY <1>3
<1>8. ASSUME Len(s) <= Len(t), NEW i \in 1 .. Len(s)
      PROVE  p[i] = s[i] /\ q[Len(t) - Len(s) + i] = t[Len(t) - Len(s) + i]
  BY <1>1, <1>2, <1>3, <1>8
<1>9. 1 .. Len(p) = (1 .. Len(s)) \cup {Len(s) + 1}
  BY <1>1, <1>3
<1>10. Len(p) <= Len(q) <=> Len(s) <= Len(t)
  BY <1>1, <1>2, <1>3
<1>11. IsSuffix(p, q) <=> a = b /\ IsSuffix(s, t)
  <2>1. CASE ~ Len(s) <= Len(t)
    BY <2>1, <1>4, <1>5, <1>10
  <2>2. CASE Len(s) <= Len(t)
    <3>1. ASSUME NEW i \in 1 .. Len(p)
          PROVE  q[Len(q) - Len(p) + i] = q[Len(t) - Len(s) + i]
      <4>1. Len(q) - Len(p) + i = Len(t) - Len(s) + i
        BY <1>6
      <4> QED
        BY <4>1
    <3>2. IsSuffix(p, q) <=>
            \A i \in 1 .. Len(p) : p[i] = q[Len(t) - Len(s) + i]
      BY <2>2, <3>1, <1>4, <1>10, Zenon
    <3>3. (\A i \in 1 .. Len(p) : p[i] = q[Len(t) - Len(s) + i])
            <=> /\ \A i \in 1 .. Len(s) : p[i] = q[Len(t) - Len(s) + i]
                /\ p[Len(s) + 1] = q[Len(t) - Len(s) + (Len(s) + 1)]
      BY <1>9, Zenon
    <3>4. IsSuffix(p, q) <=>
            /\ \A i \in 1 .. Len(s) : p[i] = q[Len(t) - Len(s) + i]
            /\ a = b
      BY <3>2, <3>3, <1>1, <1>2, <1>7, Zenon
    <3> QED
      BY <2>2, <3>4, <1>5, <1>8
  <2> QED
    BY <2>1, <2>2
<1> QED
  BY <1>11 DEF p, q

-----------------------------------------------------------------------------
(* The words of a name.                                                    *)

PartLists(S) == Seq(Seq(S)) \ {<<>>}

LEMMA ExtendType ==
  ASSUME NEW S, NEW p \in PartLists(S), NEW c \in S
  PROVE  Extend(p, c) \in PartLists(S)
<1>1. p \in Seq(Seq(S)) /\ p # <<>> /\ Len(p) \in 1 .. Len(p)
  BY DEF PartLists
<1>2. p[Len(p)] \in Seq(S)
  BY <1>1
<1>3. Append(p[Len(p)], c) \in Seq(S) /\ <<>> \in Seq(S)
  BY <1>2
<1>4. CASE c = "."
  <2>1. Append(p, <<>>) \in Seq(Seq(S)) /\ Append(p, <<>>) # <<>>
    BY <1>1, <1>3, AppendProperties
  <2> QED
    BY <1>4, <2>1 DEF Extend, PartLists
<1>5. CASE c # "."
  <2> DEFINE q == [p EXCEPT ![Len(p)] = Append(p[Len(p)], c)]
  <2>1. q \in Seq(Seq(S)) /\ Len(q) = Len(p)
    BY <1>1, <1>3, ExceptSeq
  <2>2. Len(p) # 0
    BY <1>1
  <2>3. q # <<>>
    BY <2>1, <2>2
  <2> QED
    BY <1>5, <2>1, <2>3 DEF Extend, PartLists
<1> QED
  BY <1>4, <1>5

\* Extend on a list taken apart at its last word.
LEMMA ExtendLast ==
  ASSUME NEW S, NEW q \in Seq(Seq(S)), NEW w \in Seq(S), NEW c \in S
  PROVE  Extend(Append(q, w), c) =
           IF c = "." THEN Append(Append(q, w), <<>>)
           ELSE Append(q, Append(w, c))
<1> DEFINE p == Append(q, w)
<1>1. /\ p \in Seq(Seq(S)) /\ Len(p) = Len(q) + 1 /\ p[Len(q) + 1] = w
      /\ \A i \in 1 .. Len(q) : p[i] = q[i]
  OBVIOUS
<1>2. CASE c = "."
  BY <1>2 DEF Extend
<1>3. CASE c # "."
  <2> DEFINE v == Append(w, c)
             x == [p EXCEPT ![Len(p)] = v]
             y == Append(q, v)
  <2>1. v \in Seq(S)
    OBVIOUS
  <2> HIDE DEF p, v
  <2>2. Len(q) \in Nat /\ Len(p) \in 1 .. Len(p)
    BY <1>1
  <2>3. /\ x \in Seq(Seq(S)) /\ Len(x) = Len(p)
        /\ \A j \in 1 .. Len(p) : x[j] = IF j = Len(p) THEN v ELSE p[j]
    BY <1>1, <2>1, <2>2, ExceptSeq
  <2>4. /\ y \in Seq(Seq(S)) /\ Len(y) = Len(q) + 1 /\ y[Len(q) + 1] = v
        /\ \A i \in 1 .. Len(q) : y[i] = q[i]
    BY <2>1
  <2> HIDE DEF x, y
  <2>5. x = y
    <3>1. ASSUME NEW j \in 1 .. Len(x) PROVE x[j] = y[j]
      <4>1. j \in 1 .. Len(q) \/ j = Len(q) + 1
        BY <1>1, <2>2, <2>3
      <4>2. CASE j \in 1 .. Len(q)
        BY <1>1, <2>2, <2>3, <2>4, <4>2
      <4>3. CASE j = Len(q) + 1
        BY <1>1, <2>2, <2>3, <2>4, <4>3
      <4> QED
        BY <4>1, <4>2, <4>3
    <3> QED
      BY <1>1, <2>3, <2>4, <3>1, SeqEqual
  <2>6. p[Len(p)] = w
    BY <1>1
  <2>7. Extend(p, c) = x
    BY <1>3, <2>6 DEF Extend, x, v
  <2> QED
    BY <1>3, <2>5, <2>7 DEF y, v, p
<1> QED
  BY <1>2, <1>3

\* The recursion in Parts defines a function.
IsPartsOf(f, name) ==
  /\ f[0] = << <<>> >>
  /\ \A n \in 1 .. Len(name) : f[n] = Extend(f[n - 1], name[n])
  /\ Parts(name) = f[Len(name)]

LEMMA PartsFunction ==
  ASSUME NEW S, NEW name \in Seq(S)
  PROVE  \E f \in [0 .. Len(name) -> PartLists(S)] : IsPartsOf(f, name)
<1> DEFINE A == PartLists(S)
           a == << <<>> >>
           N == Len(name)
           step == [p \in A |-> [n \in Nat |->
                      IF n \in 1 .. N THEN Extend(p, name[n]) ELSE p]]
           IsIt(f) == f = [n \in 0 .. N |->
                             IF n = 0 THEN << <<>> >>
                             ELSE Extend(f[n - 1], name[n])]
<1>1. a \in A /\ N \in Nat
  BY DEF PartLists
<1>2. step \in [A -> [Nat -> A]]
  <2>1. ASSUME NEW p \in A, NEW n \in 1 .. N
        PROVE  Extend(p, name[n]) \in A
    <3>1. name[n] \in S
      OBVIOUS
    <3> QED
      BY <3>1, ExtendType
  <2> HIDE DEF A, N
  <2> QED
    BY <2>1
<1>3. PICK f \in [0 .. N -> A] : IsRecursive(f, N, a, step)
  <2> HIDE DEF A, a, N, step
  <2> QED
    BY <1>1, <1>2, RecursiveFunctionExists
<1>4. \A k \in 0 .. N : k # 0 =>
        step[f[k - 1]][k] = Extend(f[k - 1], name[k])
  <2> HIDE DEF A, N
  <2> QED
    BY <1>1, <1>3
<1>5. \A k \in 0 .. N :
        f[k] = IF k = 0 THEN << <<>> >> ELSE Extend(f[k - 1], name[k])
  <2> HIDE DEF A, N, step
  <2> QED
    BY <1>3, <1>4 DEF IsRecursive
<1>6. IsIt(f)
  <2> HIDE DEF A, N, step
  <2> QED
    BY <1>3, <1>5 DEF IsRecursive
<1> DEFINE g == CHOOSE h : IsIt(h)
<1>7. IsIt(g)
  <2> HIDE DEF IsIt
  <2> QED
    BY <1>6
<1>8. Parts(name) = g[Len(name)]
  BY DEF Parts
<1> HIDE DEF g
<1>9. \A n \in 0 .. N : g[n] = IF n = 0 THEN << <<>> >>
                               ELSE Extend(g[n - 1], name[n])
  <2> HIDE DEF N
  <2> QED
    BY <1>7
<1>10. \A n \in Nat : n \in 0 .. N => g[n] \in A
  <2> DEFINE T == {n \in Nat : n \in 0 .. N => g[n] \in A}
  <2>1. 0 \in T
    BY <1>1, <1>9
  <2>2. ASSUME NEW n \in Nat, n \in T PROVE n + 1 \in T
    <3> SUFFICES ASSUME n + 1 \in 0 .. N PROVE g[n + 1] \in A
      OBVIOUS
    <3>1. n \in 0 .. N /\ n + 1 # 0 /\ n + 1 - 1 = n /\ n + 1 \in 1 .. N
      BY <1>1
    <3>2. g[n] \in A /\ name[n + 1] \in S
      BY <2>2, <3>1
    <3>3. g[n + 1] = Extend(g[n], name[n + 1])
      BY <1>9, <3>1
    <3> QED
      BY <3>2, <3>3, ExtendType
  <2> HIDE DEF T
  <2>3. \A n \in Nat : n \in T
    BY <2>1, <2>2, SetInduction
  <2> QED
    BY <2>3 DEF T
<1>11. g \in [0 .. N -> A]
  <2> HIDE DEF A, N
  <2> QED
    BY <1>1, <1>7, <1>10
<1>12. IsPartsOf(g, name)
  BY <1>1, <1>8, <1>9 DEF IsPartsOf
<1> QED
  BY <1>11, <1>12

LEMMA PartsType ==
  ASSUME NEW S, NEW name \in Seq(S)
  PROVE  Parts(name) \in PartLists(S)
<1>1. PICK f \in [0 .. Len(name) -> PartLists(S)] : IsPartsOf(f, name)
  BY PartsFunction
<1> QED
  BY <1>1 DEF IsPartsOf

LEMMA PartsEmpty == Parts(<<>>) = << <<>> >>
<1>1. <<>> \in Seq({}) /\ Len(<<>>) = 0
  OBVIOUS
<1>2. PICK f \in [0 .. Len(<<>>) -> PartLists({})] : IsPartsOf(f, <<>>)
  BY <1>1, PartsFunction
<1> QED
  BY <1>1, <1>2 DEF IsPartsOf

LEMMA PartsAppend ==
  ASSUME NEW S, NEW s \in Seq(S), NEW c \in S
  PROVE  Parts(Append(s, c)) = Extend(Parts(s), c)
<1> DEFINE t == Append(s, c)
<1>1. /\ t \in Seq(S) /\ Len(t) = Len(s) + 1 /\ t[Len(s) + 1] = c
      /\ \A n \in 1 .. Len(s) : t[n] = s[n]
      /\ Len(s) \in Nat
  OBVIOUS
<1> HIDE DEF t
<1>2. PICK f \in [0 .. Len(s) -> PartLists(S)] : IsPartsOf(f, s)
  BY PartsFunction
<1>3. PICK g \in [0 .. Len(t) -> PartLists(S)] : IsPartsOf(g, t)
  BY <1>1, PartsFunction
<1>4. \A n \in Nat : n <= Len(s) => f[n] = g[n]
  <2> DEFINE T == {n \in Nat : n <= Len(s) => f[n] = g[n]}
  <2>1. 0 \in T
    BY <1>2, <1>3 DEF IsPartsOf
  <2>2. ASSUME NEW n \in Nat, n \in T PROVE n + 1 \in T
    <3> SUFFICES ASSUME n + 1 <= Len(s) PROVE f[n + 1] = g[n + 1]
      OBVIOUS
    <3>1. /\ n + 1 \in 1 .. Len(s) /\ n + 1 \in 1 .. Len(t)
          /\ n + 1 - 1 = n /\ n <= Len(s)
      BY <1>1
    <3>2. f[n] = g[n] /\ s[n + 1] = t[n + 1]
      BY <1>1, <2>2, <3>1
    <3> QED
      BY <1>2, <1>3, <3>1, <3>2 DEF IsPartsOf
  <2> HIDE DEF T
  <2>3. \A n \in Nat : n \in T
    BY <2>1, <2>2, SetInduction
  <2> QED
    BY <2>3 DEF T
<1>5. Parts(s) = g[Len(s)]
  BY <1>1, <1>2, <1>4 DEF IsPartsOf
<1>6. Len(s) + 1 \in 1 .. Len(t) /\ Len(s) + 1 - 1 = Len(s)
  BY <1>1
<1>7. Parts(t) = g[Len(s) + 1] /\ g[Len(s) + 1] = Extend(g[Len(s)], c)
  BY <1>1, <1>3, <1>6, SMTT(40) DEF IsPartsOf
<1> QED
  BY <1>5, <1>7 DEF t

\* Parts of a name, taken apart at the last word.
LEMMA PartsLast ==
  ASSUME NEW S, NEW name \in Seq(S)
  PROVE  \E q \in Seq(Seq(S)), w \in Seq(S) : Parts(name) = Append(q, w)
<1>1. Parts(name) \in Seq(Seq(S)) /\ Parts(name) # <<>>
  BY PartsType DEF PartLists
<1> QED
  BY <1>1, SequenceEmptyOrAppend

-----------------------------------------------------------------------------
(* Names below a domain.                                                   *)

\* The name is the domain, or ends in a dot and the domain.
IsBelow(domain, name) ==
  name = domain \/ IsSuffix(<<".">> \o domain, name)

LEMMA BelowStep ==
  ASSUME NEW S, "." \in S, NEW d \in Seq(S), NEW n \in Seq(S),
         NEW x \in S, NEW c \in S
  PROVE  IsBelow(Append(d, x), Append(n, c)) <=> x = c /\ IsBelow(d, n)
<1>1. <<".">> \o d \in Seq(S)
  OBVIOUS
<1>2. <<".">> \o Append(d, x) = Append(<<".">> \o d, x)
  <2>1. Append(d, x) = d \o <<x>>
    BY AppendIsConcat
  <2>2. Append(<<".">> \o d, x) = (<<".">> \o d) \o <<x>>
    BY <1>1, AppendIsConcat
  <2>3. <<".">> \in Seq(S) /\ <<x>> \in Seq(S)
    OBVIOUS
  <2> QED
    BY <2>1, <2>2, <2>3, ConcatAssociative
<1>3. Append(n, c) = Append(d, x) <=> n = d /\ c = x
  BY AppendInjective
<1>4. IsSuffix(Append(<<".">> \o d, x), Append(n, c))
        <=> x = c /\ IsSuffix(<<".">> \o d, n)
  BY <1>1, SuffixAppend
<1> QED
  BY <1>2, <1>3, <1>4 DEF IsBelow

LEMMA BelowBase ==
  ASSUME NEW S, "." \in S, NEW n \in Seq(S), NEW c \in S
  PROVE  /\ IsBelow(<<>>, <<>>)
         /\ IsBelow(<<>>, Append(n, c)) <=> c = "."
         /\ ~ IsBelow(Append(n, c), <<>>)
<1>1. /\ <<>> \in Seq(S) /\ <<".">> = Append(<<>>, ".")
      /\ <<".">> \o <<>> = <<".">>
  BY ConcatEmptySeq
<1>2. Append(n, c) # <<>>
  OBVIOUS
<1>3. IsSuffix(<<".">>, Append(n, c)) <=> c = "."
  <2> DEFINE none == <<>>
  <2>1. none \in Seq(S) /\ <<".">> = Append(none, ".")
    BY <1>1
  <2>2. IsSuffix(none, n)
    BY <2>1, SuffixOfEmpty
  <2> HIDE DEF none
  <2>3. IsSuffix(Append(none, "."), Append(n, c)) <=> "." = c
    BY <2>1, <2>2, SuffixAppend
  <2> QED
    BY <2>1, <2>3
<1>4. /\ <<".">> \o Append(n, c) \in Seq(S)
      /\ <<".">> \o Append(n, c) # <<>>
  OBVIOUS
<1>5. ~ IsSuffix(<<".">> \o Append(n, c), <<>>)
  BY <1>1, <1>4, SuffixOfEmpty
<1> QED
  BY <1>1, <1>2, <1>3, <1>5 DEF IsBelow

LEMMA PartsOfAppend ==
  ASSUME NEW S, NEW n \in Seq(S), NEW c \in S,
         NEW r \in Seq(Seq(S)), NEW v \in Seq(S), Parts(n) = Append(r, v)
  PROVE  Parts(Append(n, c)) = IF c = "." THEN Append(Append(r, v), <<>>)
                               ELSE Append(r, Append(v, c))
<1>1. Parts(Append(n, c)) = Extend(Append(r, v), c)
  BY PartsAppend
<1>2. Extend(Append(r, v), c) = IF c = "." THEN Append(Append(r, v), <<>>)
                                ELSE Append(r, Append(v, c))
  BY ExtendLast
<1> QED
  BY <1>1, <1>2

\* SuffixAppend for lists of words.
LEMMA SuffixAppendWord ==
  ASSUME NEW S
  PROVE  \A q, r \in Seq(Seq(S)) : \A w, v \in Seq(S) :
           IsSuffix(Append(q, w), Append(r, v)) <=> w = v /\ IsSuffix(q, r)
<1> DEFINE W == Seq(S)
<1> HIDE DEF W
<1>1. \A q, r \in Seq(W) : \A w, v \in W :
        IsSuffix(Append(q, w), Append(r, v)) <=> w = v /\ IsSuffix(q, r)
  BY SuffixAppend
<1> QED
  BY <1>1 DEF W

LEMMA AppendWords ==
  ASSUME NEW S, NEW q \in Seq(Seq(S)), NEW w \in Seq(S), NEW x \in S
  PROVE  /\ Append(w, x) \in Seq(S) /\ Append(w, x) # <<>>
         /\ Append(q, w) \in Seq(Seq(S)) /\ Append(q, w) # <<>>
         /\ <<>> \in Seq(S) /\ <<>> \in Seq(Seq(S))
BY AppendProperties

LEMMA PartsBelowStep ==
  ASSUME NEW S, NEW d \in Seq(S), NEW n \in Seq(S),
         NEW x \in S, NEW c \in S
  PROVE  IsSuffix(Parts(Append(d, x)), Parts(Append(n, c)))
           <=> x = c /\ IsSuffix(Parts(d), Parts(n))
<1>1. PICK q \in Seq(Seq(S)), w \in Seq(S) : Parts(d) = Append(q, w)
  BY PartsLast
<1>2. PICK r \in Seq(Seq(S)), v \in Seq(S) : Parts(n) = Append(r, v)
  BY PartsLast
<1> DEFINE W == Seq(S)
           L == Seq(W)
           none == <<>>
           dParts == Append(q, w)
           nParts == Append(r, v)
           wx == Append(w, x)
           vc == Append(v, c)
<1>3. /\ none \in W /\ w \in W /\ v \in W
      /\ wx \in W /\ wx # none /\ vc \in W /\ vc # none
      /\ q \in L /\ r \in L /\ dParts \in L /\ nParts \in L
  BY AppendWords
<1>4. /\ Parts(Append(d, x)) = IF x = "." THEN Append(dParts, none)
                               ELSE Append(q, wx)
      /\ Parts(Append(n, c)) = IF c = "." THEN Append(nParts, none)
                               ELSE Append(r, vc)
  BY <1>1, <1>2, PartsOfAppend, ZenonT(60)
<1>5. \A s, t \in L : \A a, b \in W :
        IsSuffix(Append(s, a), Append(t, b)) <=> a = b /\ IsSuffix(s, t)
  BY SuffixAppendWord
<1>6. wx = vc <=> w = v /\ x = c
  BY AppendInjective
<1>7. IsSuffix(dParts, nParts) <=> w = v /\ IsSuffix(q, r)
  BY <1>3, <1>5
<1> HIDE DEF W, L, none, dParts, nParts, wx, vc
<1>8. CASE x = "." /\ c = "."
  <2>1. IsSuffix(Append(dParts, none), Append(nParts, none))
          <=> IsSuffix(dParts, nParts)
    BY <1>3, <1>5
  <2> QED
    BY <1>1, <1>2, <1>4, <1>8, <2>1 DEF dParts, nParts
<1>9. CASE x = "." /\ c # "."
  <2>1. ~ IsSuffix(Append(dParts, none), Append(r, vc))
    BY <1>3, <1>5
  <2> QED
    BY <1>4, <1>9, <2>1
<1>10. CASE x # "." /\ c = "."
  <2>1. ~ IsSuffix(Append(q, wx), Append(nParts, none))
    BY <1>3, <1>5
  <2> QED
    BY <1>4, <1>10, <2>1
<1>11. CASE x # "." /\ c # "."
  <2>1. IsSuffix(Append(q, wx), Append(r, vc)) <=> wx = vc /\ IsSuffix(q, r)
    BY <1>3, <1>5
  <2>2. IsSuffix(Append(q, wx), Append(r, vc))
          <=> x = c /\ IsSuffix(dParts, nParts)
    BY <1>6, <1>7, <2>1
  <2> QED
    BY <1>1, <1>2, <1>4, <1>11, <2>2 DEF dParts, nParts
<1> QED
  BY <1>8, <1>9, <1>10, <1>11

LEMMA PartsBelowBase ==
  ASSUME NEW S, NEW n \in Seq(S), NEW c \in S
  PROVE  /\ IsSuffix(Parts(<<>>), Parts(<<>>))
         /\ IsSuffix(Parts(<<>>), Parts(Append(n, c))) <=> c = "."
         /\ ~ IsSuffix(Parts(Append(n, c)), Parts(<<>>))
<1>1. PICK r \in Seq(Seq(S)), v \in Seq(S) : Parts(n) = Append(r, v)
  BY PartsLast
<1> DEFINE none == <<>>
           last == Append(r, v)
           word == Append(v, c)
<1>2. /\ none \in Seq(S) /\ none \in Seq(Seq(S))
      /\ word \in Seq(S) /\ word # none
      /\ last \in Seq(Seq(S)) /\ last # none
  BY AppendWords
<1>3. Parts(<<>>) = Append(none, none)
  BY PartsEmpty
<1>4. Parts(Append(n, c)) = IF c = "." THEN Append(last, none)
                            ELSE Append(r, word)
  BY <1>1, PartsOfAppend
<1>5. IsSuffix(none, none) /\ IsSuffix(none, last) /\ ~ IsSuffix(last, none)
  <2> DEFINE W == Seq(S)
  <2> HIDE DEF W
  <2>1. none \in Seq(W) /\ last \in Seq(W) /\ last # none
    BY <1>2 DEF W
  <2> HIDE DEF last
  <2> QED
    BY <2>1, SuffixOfEmpty
<1>6. \A s, t \in Seq(Seq(S)) : \A a, b \in Seq(S) :
        IsSuffix(Append(s, a), Append(t, b)) <=> a = b /\ IsSuffix(s, t)
  BY SuffixAppendWord
<1> HIDE DEF none, last, word
<1>9. IsSuffix(Append(none, none), Append(none, none))
  BY <1>2, <1>5, <1>6
<1>7. CASE c = "."
  <2>1. /\ IsSuffix(Append(none, none), Append(last, none))
        /\ ~ IsSuffix(Append(last, none), Append(none, none))
    BY <1>2, <1>5, <1>6
  <2> QED
    BY <1>3, <1>4, <1>7, <1>9, <2>1 DEF none
<1>8. CASE c # "."
  <2>1. /\ ~ IsSuffix(Append(none, none), Append(r, word))
        /\ ~ IsSuffix(Append(r, word), Append(none, none))
    BY <1>2, <1>6
  <2> QED
    BY <1>3, <1>4, <1>8, <1>9, <2>1 DEF none
<1> QED
  BY <1>7, <1>8

\* A name is a domain or lies below it exactly if its last words are the
\* domain's: by induction over the length of the domain.
LEMMA BelowByWords ==
  ASSUME NEW S, "." \in S, NEW domain \in Seq(S), NEW name \in Seq(S)
  PROVE  IsBelow(domain, name) <=> IsSuffix(Parts(domain), Parts(name))
<1> DEFINE Same(d, n) == IsBelow(d, n) <=> IsSuffix(Parts(d), Parts(n))
           T == {k \in Nat : \A d \in Seq(S) : Len(d) = k =>
                              \A n \in Seq(S) : Same(d, n)}
<1>1. ASSUME NEW d \in Seq(S)
      PROVE  d = <<>> \/ \E e \in Seq(S), x \in S :
                           d = Append(e, x) /\ Len(d) = Len(e) + 1
  <2> SUFFICES ASSUME d # <<>>
               PROVE  \E e \in Seq(S), x \in S :
                        d = Append(e, x) /\ Len(d) = Len(e) + 1
    OBVIOUS
  <2>1. PICK e \in Seq(S), x \in S : d = Append(e, x)
    BY SequenceEmptyOrAppend
  <2>2. Len(Append(e, x)) = Len(e) + 1
    BY AppendProperties
  <2> QED
    BY <2>1, <2>2, Zenon
<1>2. 0 \in T
  <2>1. ASSUME NEW d \in Seq(S), Len(d) = 0, NEW n \in Seq(S)
        PROVE  Same(d, n)
    <3>1. d = <<>>
      BY <2>1
    <3>2. CASE n = <<>>
      <4>1. "." \in S
        OBVIOUS
      <4> QED
        BY <3>1, <3>2, <4>1, BelowBase, PartsBelowBase
    <3>3. CASE \E m \in Seq(S), c \in S : n = Append(m, c)
      BY <3>1, <3>3, BelowBase, PartsBelowBase
    <3> QED
      BY <1>1, <3>2, <3>3
  <2> QED
    BY <2>1
<1>3. ASSUME NEW k \in Nat, k \in T PROVE k + 1 \in T
  <2>1. ASSUME NEW d \in Seq(S), Len(d) = k + 1, NEW n \in Seq(S)
        PROVE  Same(d, n)
    <3>1. PICK e \in Seq(S), x \in S : d = Append(e, x) /\ Len(e) = k
      <4>1. d # <<>>
        BY <2>1
      <4>2. PICK e \in Seq(S), x \in S : d = Append(e, x) /\ Len(d) = Len(e) + 1
        BY <1>1, <4>1
      <4>3. Len(e) = k
        BY <2>1, <4>2
      <4> QED
        BY <4>2, <4>3
    <3>2. CASE n = <<>>
      BY <3>1, <3>2, BelowBase, PartsBelowBase
    <3>3. ASSUME NEW m \in Seq(S), NEW c \in S, n = Append(m, c)
          PROVE  Same(d, n)
      <4>1. Same(e, m)
        BY <1>3, <3>1
      <4> QED
        BY <3>1, <3>3, <4>1, BelowStep, PartsBelowStep
    <3> QED
      BY <1>1, <3>2, <3>3
  <2> QED
    BY <2>1
<1>4. Len(domain) \in T
  <2> HIDE DEF T
  <2> QED
    BY <1>2, <1>3, SetInduction
<1> QED
  BY <1>4

-----------------------------------------------------------------------------
(* Namespaces of labels.                                                   *)

\* Position i holds the first slash of k.
IsFirstSlash(k, i) ==
  i \in DOMAIN k /\ k[i] = "/" /\ \A j \in 1 .. i - 1 : k[j] # "/"

LEMMA NamespaceAtSlash ==
  ASSUME NEW S, NEW k \in Seq(S)
  PROVE  /\ \A i \in DOMAIN k :
              IsFirstSlash(k, i) => getLabelNamespace(k) = SubSeq(k, 1, i - 1)
         /\ \/ \E i \in DOMAIN k : IsFirstSlash(k, i)
            \/ getLabelNamespace(k) = <<>>
<1> DEFINE I == {i \in 1 .. Len(k) : k[i] = "/"}
<1>1. DOMAIN k = 1 .. Len(k) /\ Len(k) \in Nat /\ I \subseteq Nat
  OBVIOUS
<1>2. Contains(k, "/") <=> I # {}
  BY DEF Contains
<1>3. I # {} => SelectInSeq(k, LAMBDA c : c = "/") = Min(I)
  BY DEF SelectInSeq
<1>4. ASSUME NEW i \in DOMAIN k
      PROVE  IsFirstSlash(k, i) <=> i \in I /\ \A j \in I : i <= j
  BY <1>1 DEF IsFirstSlash
<1>5. ASSUME I # {}
      PROVE  \E i \in I : \A j \in I : i <= j
  <2> HIDE DEF I
  <2> QED
    BY <1>1, <1>5, LeastElement
<1>6. ASSUME NEW i \in I, \A j \in I : i <= j
      PROVE  Min(I) = i
  <2>1. \A m \in I : (\A j \in I : m <= j) => m = i
    BY <1>1, <1>6
  <2> HIDE DEF I
  <2> QED
    BY <1>6, <2>1 DEF Min
<1>7. \A i \in DOMAIN k :
        IsFirstSlash(k, i) => getLabelNamespace(k) = SubSeq(k, 1, i - 1)
  <2> SUFFICES ASSUME NEW i \in DOMAIN k, IsFirstSlash(k, i)
               PROVE  getLabelNamespace(k) = SubSeq(k, 1, i - 1)
    OBVIOUS
  <2>1. i \in I /\ \A j \in I : i <= j
    BY <1>4
  <2>2. I # {} /\ Min(I) = i
    BY <2>1, <1>6
  <2> HIDE DEF I
  <2> QED
    BY <1>2, <1>3, <2>2 DEF getLabelNamespace
<1>8. (\E i \in DOMAIN k : IsFirstSlash(k, i)) \/ getLabelNamespace(k) = <<>>
  <2>1. CASE I = {}
    BY <1>2, <2>1 DEF getLabelNamespace
  <2>2. CASE I # {}
    BY <1>1, <1>4, <1>5, <2>2
  <2> QED
    BY <2>1, <2>2
<1> QED
  BY <1>7, <1>8

LEMMA AllowedNamespaces ==
  \A allowed \in kubeletLabelNamespaces :
    /\ allowed \in Seq({"kubelet", "node", "kubernetes", "io", "."})
    /\ allowed # <<>>
<1> DEFINE W == {"kubelet", "node", "kubernetes", "io", "."}
<1>1. \A word \in {"kubelet", "node"} : <<word, ".">> \in Seq(W)
  OBVIOUS
<1>2. Kubernetes \in Seq(W) /\ Len(Kubernetes) = 3
  BY DEF Kubernetes
<1> HIDE DEF W
<1>3. ASSUME NEW word \in {"kubelet", "node"}
      PROVE  In(word, Kubernetes) \in Seq(W) /\ In(word, Kubernetes) # <<>>
  <2> DEFINE front == <<word, ".">>
  <2>1. front \in Seq(W) /\ Len(front) = 2
    BY <1>1
  <2>2. In(word, Kubernetes) = front \o Kubernetes
    BY DEF In
  <2> HIDE DEF front
  <2>3. /\ front \o Kubernetes \in Seq(W)
        /\ Len(front \o Kubernetes) = Len(front) + Len(Kubernetes)
    BY <1>2, <2>1, ConcatProperties
  <2>4. Len(front \o Kubernetes) = 5
    BY <1>2, <2>1, <2>3
  <2> QED
    BY <2>2, <2>3, <2>4
<1> QED
  BY <1>3 DEF kubeletLabelNamespaces, LabelNamespaceSuffixKubelet,
              LabelNamespaceSuffixNode, W

\* IsKubeletLabel follows the rule for names.
FollowsRule(k) ==
  IsKubeletLabel(k) <=>
    \/ k \in kubeletLabels
    \/ \E i \in DOMAIN k :
         /\ k[i] = "/"
         /\ \A j \in 1 .. i - 1 : k[j] # "/"
         /\ \E allowed \in kubeletLabelNamespaces :
              IsSuffix(Parts(allowed), Parts(SubSeq(k, 1, i - 1)))

LEMMA RuleOfKeys == \A k \in Keys : FollowsRule(k)
<1> SUFFICES ASSUME NEW k \in Keys PROVE FollowsRule(k)
  OBVIOUS
<1> DEFINE S == ToSet(k) \cup {"kubelet", "node", "kubernetes", "io", "."}
<1>1. k \in Seq(S) /\ "." \in S
  <2>1. k \in Seq(ToSet(k))
    BY KeysAssumption
  <2> QED
    BY <2>1, SeqMonotonic
<1>2. \A allowed \in kubeletLabelNamespaces : allowed \in Seq(S) /\ allowed # <<>>
  BY AllowedNamespaces, SeqMonotonic
<1> HIDE DEF S
<1>3. ASSUME NEW name \in Seq(S), NEW allowed \in kubeletLabelNamespaces
      PROVE  /\ IsOf(name, allowed) <=> IsSuffix(Parts(allowed), Parts(name))
             /\ ~ IsOf(<<>>, allowed)
  <2>1. IsOf(name, allowed) <=> IsSuffix(Parts(allowed), Parts(name))
    BY <1>1, <1>2, BelowByWords DEF IsOf, IsBelow
  <2>2. /\ <<".">> \o allowed \in Seq(S) /\ <<".">> \o allowed # <<>>
        /\ allowed # <<>> /\ <<>> \in Seq(S)
    BY <1>1, <1>2
  <2>3. ~ IsSuffix(<<".">> \o allowed, <<>>)
    BY <2>2, SuffixOfEmpty
  <2> QED
    BY <2>1, <2>2, <2>3 DEF IsOf
<1>4. \A i \in DOMAIN k : SubSeq(k, 1, i - 1) \in Seq(S)
  BY <1>1
<1>5. CASE \E i \in DOMAIN k : IsFirstSlash(k, i)
  <2>1. PICK i \in DOMAIN k : IsFirstSlash(k, i)
    BY <1>5
  <2>2. getLabelNamespace(k) = SubSeq(k, 1, i - 1)
    BY <1>1, <2>1, NamespaceAtSlash
  <2>3. \A j \in DOMAIN k : IsFirstSlash(k, j) => j = i
    BY <1>1, <2>1 DEF IsFirstSlash
  <2>4. \A allowed \in kubeletLabelNamespaces :
          IsOf(getLabelNamespace(k), allowed)
            <=> IsSuffix(Parts(allowed), Parts(SubSeq(k, 1, i - 1)))
    BY <1>3, <1>4, <2>2
  <2> QED
    BY <2>1, <2>3, <2>4, Zenon DEF FollowsRule, IsKubeletLabel, IsFirstSlash
<1>6. CASE ~ \E i \in DOMAIN k : IsFirstSlash(k, i)
  <2>1. getLabelNamespace(k) = <<>>
    BY <1>1, <1>6, NamespaceAtSlash
  <2>2. \A allowed \in kubeletLabelNamespaces :
          ~ IsOf(getLabelNamespace(k), allowed)
    BY <1>1, <1>3, <2>1
  <2> QED
    BY <1>6, <2>2, Zenon DEF FollowsRule, IsKubeletLabel, IsFirstSlash
<1> QED
  BY <1>5, <1>6

-----------------------------------------------------------------------------
(* The loop.                                                               *)

\* While the loop runs, the key is not of any namespace already looked at.
Inv ==
  /\ left \subseteq kubeletLabelNamespaces
  /\ verdict = "none" =>
       \A allowed \in kubeletLabelNamespaces \ left :
         ~ IsOf(getLabelNamespace(key), allowed)
  /\ VerdictInAnyOrder

LEMMA InvInit == Init => Inv
BY DEF Init, Inv, VerdictInAnyOrder

LEMMA InvNext == Inv /\ [Next]_vars => Inv'
<1> SUFFICES ASSUME Inv, [Next]_vars
             PROVE  Inv'
  OBVIOUS
<1>1. CASE FindLabel
  BY <1>1 DEF Inv, FindLabel, VerdictInAnyOrder, IsKubeletLabel
<1>2. ASSUME NEW allowed \in left, LookAt(allowed)
      PROVE  Inv'
  <2>1. key' = key /\ key \notin kubeletLabels /\ verdict = "none"
    BY <1>2 DEF LookAt
  <2>2. left' = left \ {allowed} /\ allowed \in kubeletLabelNamespaces
    BY <1>2 DEF LookAt, Inv
  <2>3. CASE IsOf(getLabelNamespace(key), allowed)
    BY <1>2, <2>1, <2>2, <2>3
       DEF LookAt, Inv, VerdictInAnyOrder, IsKubeletLabel
  <2>4. CASE ~ IsOf(getLabelNamespace(key), allowed)
    BY <1>2, <2>1, <2>2, <2>4 DEF LookAt, Inv, VerdictInAnyOrder
  <2> QED
    BY <2>3, <2>4
<1>3. CASE ReturnFalse
  BY <1>3 DEF Inv, ReturnFalse, VerdictInAnyOrder, IsKubeletLabel
<1>4. CASE UNCHANGED vars
  BY <1>4 DEF Inv, vars, VerdictInAnyOrder
<1> QED
  BY <1>1, <1>2, <1>3, <1>4 DEF Next

\* Whatever the key and whatever the order of the map: IsKubeletLabel returns
\* true if the key is a listed label or of one of the allowed namespaces, and
\* false otherwise.
THEOREM VerdictDependsOnKeyOnly == Spec => []VerdictInAnyOrder
<1>1. Inv => VerdictInAnyOrder
  BY DEF Inv
<1> QED
  BY <1>1, InvInit, InvNext, PTL DEF Spec

\* Whatever the key: a label may be set by a kubelet if it is listed or if the
\* words before its first slash end in those of an allowed domain.  A name
\* that ends in the same letters only, as xnode.kubernetes.io does, is none.
THEOREM NamespacesAreDomains == Spec => []NamespaceRule
<1> DEFINE Known == key \in Keys
<1>1. Init => Known
  BY DEF Init
<1>2. Known /\ [Next]_vars => Known'
  BY DEF Next, FindLabel, LookAt, ReturnFalse, vars
<1>3. Known /\ VerdictInAnyOrder => NamespaceRule
  BY RuleOfKeys DEF FollowsRule, VerdictInAnyOrder, NamespaceRule
<1> QED
  BY <1>1, <1>2, <1>3, VerdictDependsOnKeyOnly, PTL DEF Spec

=============================================================================
