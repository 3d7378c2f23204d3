-------------------------- MODULE GrpcCallsProofs --------------------------
(***************************************************************************)
(* Proofs about GrpcCalls, for any number of calls of any stubs with any   *)
(* requests, any server programs, and any number and kind of messages.     *)
(***************************************************************************)
EXTENDS GrpcCalls, TLAPS

\* Used throughout: what errors there are, and that "OK" is none.
USE CodesAssumption DEF Errors

-----------------------------------------------------------------------------
(* The inductive invariant: of the variables' types, of the server, and of *)
(* every call.                                                             *)

Types ==
  /\ process \in {"registering", "serving", "down"}
  /\ build \in Builds
  /\ services \subseteq build.serves
  /\ stub \in [Calls -> StubsUsed \cup {Nil}]
  /\ req \in [Calls -> Requests \cup {Nil}]
  /\ client \in [Calls -> {"idle", "opened", "sent", "reading", "invoking",
                           "over", "failed"}]
  /\ link \in [Calls -> {"none", "up", "cut"}]
  /\ up \in [Calls -> Requests \cup {Nil}]
  /\ handler \in [Calls -> {"none", "receiving", "running", "ended"}]
  /\ wire \in [Calls -> Seq(Items)]
  /\ status \in [Calls -> Errors \cup {"OK", Nil}]
  /\ got \in [Calls -> Seq(Items)]
  /\ entered \in [Calls -> Entry \cup {Nil}]
  /\ made \in [Calls -> Seq(Items)]
  /\ outcome \in [Calls -> Errors \cup {"OK", Nil}]

\* While no server serves, no handler runs and every stream is cut.
ServerOK ==
  /\ process = "down" => services = {}
  /\ process = "serving" => services = build.serves
  /\ \A s, t \in services : ServiceDesc[s].name = ServiceDesc[t].name => s = t
  /\ process # "serving" =>
       \A c \in Calls : /\ handler[c] \notin {"receiving", "running"}
                        /\ ~Up(c)

\* The request is on its way only after the caller has sent it.
RequestOK(c) ==
  /\ link[c] = "none" => /\ client[c] \in {"idle", "failed"}
                         /\ up[c] = Nil
                         /\ handler[c] = "none"
                         /\ status[c] = Nil
  /\ client[c] = "idle" => link[c] = "none"
  /\ client[c] = "opened" => up[c] = Nil
  /\ client[c] # "idle" => stub[c] \in StubsUsed /\ req[c] \in Requests
  /\ up[c] # Nil => up[c] = req[c]

\* A method runs after its handler has received the request.
EnteredOK(c) ==
  /\ entered[c] = Nil => /\ made[c] = <<>> /\ wire[c] = <<>> /\ got[c] = <<>>
                         /\ outcome[c] # "OK"
                         /\ handler[c] # "ended" => outcome[c] = Nil
                         /\ handler[c] # "running"
  /\ entered[c] # Nil => /\ up[c] # Nil
                         /\ entered[c].m = up[c]
                         /\ entered[c].service \in Services
                         /\ handler[c] \in {"running", "ended"}
  /\ handler[c] = "running" => /\ outcome[c] = Nil
                               /\ made[c] # <<>> => ServedAsStream(c)
  /\ Len(made[c]) <= MaxItems

\* A status ends a stream; OK is the method's.
StatusOK(c) ==
  /\ link[c] = "up" /\ status[c] # Nil => handler[c] = "ended"
  /\ link[c] = "cut" => status[c] # Nil
  /\ status[c] = "OK" => outcome[c] = "OK"

\* g and then w are the beginning of m.
Begun(g, w, m) ==
  /\ Len(g) + Len(w) <= Len(m)
  /\ \A i \in 1..Len(g) : g[i] = m[i]
  /\ \A i \in 1..Len(w) : w[i] = m[Len(g) + i]

\* Nothing of m is missing.
Whole(g, w, m) == Len(g) + Len(w) = Len(m)

\* What the caller has and what is on the wire are the beginning of what was
\* sent, and all of it if the stream is up or ended well.
DataOK(c) ==
  ~Returned(c) =>
    /\ Begun(got[c], wire[c], made[c])
    /\ link[c] = "up" \/ status[c] = "OK" =>
         Whole(got[c], wire[c], made[c])
    /\ client[c] = "invoking" => got[c] = <<>>

CallOK(c) == RequestOK(c) /\ EnteredOK(c) /\ StatusOK(c) /\ DataOK(c)

Inv == Types /\ ServerOK /\ \A c \in Calls : CallOK(c)

-----------------------------------------------------------------------------
(* Lemmas.                                                                 *)

\* What a step leaves of a call it is not about.
Same(c) ==
  /\ stub'[c] = stub[c] /\ req'[c] = req[c] /\ client'[c] = client[c]
  /\ link'[c] = link[c] /\ up'[c] = up[c] /\ handler'[c] = handler[c]
  /\ wire'[c] = wire[c] /\ status'[c] = status[c] /\ got'[c] = got[c]
  /\ entered'[c] = entered[c] /\ made'[c] = made[c]
  /\ outcome'[c] = outcome[c]

LEMMA SameCallOK ==
  ASSUME NEW c, CallOK(c), Same(c)
  PROVE  CallOK(c)' /\ (Up(c)' <=> Up(c))
<1>1. RequestOK(c)' /\ StatusOK(c)'
  BY DEF CallOK, RequestOK, StatusOK, Same
<1>2. EnteredOK(c)'
  BY DEF CallOK, EnteredOK, Same, ServedAsStream
<1>3. DataOK(c)'
  BY DEF CallOK, DataOK, Same, Returned
<1>4. Up(c)' <=> Up(c)
  BY DEF Same, Returned, Up
<1> QED
  BY <1>1, <1>2, <1>3, <1>4 DEF CallOK

\* A step about one call, while the server stays what it is.
LEMMA OneCall ==
  ASSUME Inv, NEW c \in Calls, UNCHANGED serverVars,
         Types', CallOK(c)', \A d \in Calls \ {c} : Same(d),
         process # "serving" => /\ handler'[c] \notin {"receiving", "running"}
                                /\ ~Up(c)'
  PROVE  Inv'
<1>1. \A d \in Calls : CallOK(d)'
  BY SameCallOK DEF Inv
<1>2. ServerOK'
  <2>1. \A d \in Calls \ {c} : (Up(d)' <=> Up(d)) /\ handler'[d] = handler[d]
    BY SameCallOK DEF Inv, Same
  <2> QED
    BY <2>1 DEF Inv, ServerOK, serverVars
<1> QED
  BY <1>1, <1>2 DEF Inv

\* The beginning of a sequence.
LEMMA Beginning ==
  ASSUME NEW S, NEW s \in Seq(S), NEW k \in 0..Len(s)
  PROVE  /\ SubSeq(s, 1, k) \in Seq(S)
         /\ Len(SubSeq(s, 1, k)) = k
         /\ \A i \in 1..k : SubSeq(s, 1, k)[i] = s[i]
OBVIOUS

LEMMA EmptyBeginning ==
  ASSUME NEW S, NEW s \in Seq(S), NEW t \in Seq(S), Len(t) <= Len(s), s = <<>>
  PROVE  t = <<>>
OBVIOUS

\* A sequence with one more element.
LEMMA Longer ==
  ASSUME NEW S, NEW s \in Seq(S), NEW x \in S
  PROVE  /\ Append(s, x) \in Seq(S)
         /\ Len(Append(s, x)) = Len(s) + 1
         /\ \A i \in 1..Len(s) : Append(s, x)[i] = s[i]
         /\ Append(s, x)[Len(s) + 1] = x
OBVIOUS

\* A sequence without its first element.
LEMMA Shorter ==
  ASSUME NEW S, NEW s \in Seq(S), s # <<>>
  PROVE  /\ Head(s) \in S /\ Head(s) = s[1]
         /\ Tail(s) \in Seq(S)
         /\ Len(s) \in Nat \ {0}
         /\ Len(Tail(s)) = Len(s) - 1
         /\ \A i \in 1..(Len(s) - 1) : Tail(s)[i] = s[i + 1]
OBVIOUS

LEMMA NothingBegun ==
  Begun(<<>>, <<>>, <<>>) /\ Whole(<<>>, <<>>, <<>>)
BY DEF Begun, Whole

LEMMA NothingLeft ==
  ASSUME NEW S, NEW g \in Seq(S), NEW w \in Seq(S), Begun(g, w, <<>>)
  PROVE  g = <<>> /\ w = <<>>
<1>1. Len(g) \in Nat /\ Len(w) \in Nat /\ Len(<<>>) = 0
  OBVIOUS
<1>2. Len(g) + Len(w) <= 0
  BY <1>1 DEF Begun
<1>3. Len(g) = 0 /\ Len(w) = 0
  BY <1>1, <1>2
<1> QED
  BY <1>3

\* A message passes from the wire to the caller.
LEMMA Delivered ==
  ASSUME NEW S, NEW g \in Seq(S), NEW w \in Seq(S), NEW m \in Seq(S),
         Begun(g, w, m), w # <<>>
  PROVE  /\ Begun(Append(g, Head(w)), Tail(w), m)
         /\ Whole(g, w, m) => Whole(Append(g, Head(w)), Tail(w), m)
         /\ Head(w) = m[Len(g) + 1]
         /\ Len(g) < Len(m)
<1> DEFINE G == Append(g, Head(w))
           W == Tail(w)
<1>1. /\ Len(g) \in Nat /\ Len(m) \in Nat /\ Len(w) \in Nat \ {0}
      /\ Len(W) = Len(w) - 1 /\ Len(G) = Len(g) + 1
  BY Shorter, Longer
<1>2. \A i \in 1..(Len(w) - 1) : W[i] = w[i + 1]
  BY Shorter
<1>3. (\A i \in 1..Len(g) : G[i] = g[i]) /\ G[Len(g) + 1] = Head(w)
  BY Shorter, Longer
<1>4. Head(w) = m[Len(g) + 1]
  <2>1. w[1] = m[Len(g) + 1]
    BY <1>1 DEF Begun
  <2> QED
    BY <2>1, Shorter
<1> HIDE DEF G, W
<1>5. \A i \in 1..Len(G) : G[i] = m[i]
  <2> SUFFICES ASSUME NEW i \in 1..Len(G) PROVE G[i] = m[i]
    OBVIOUS
  <2>1. CASE i \in 1..Len(g)
    BY <1>3, <2>1 DEF Begun
  <2>2. CASE i = Len(g) + 1
    BY <1>3, <1>4, <2>2
  <2> QED
    BY <1>1, <2>1, <2>2
<1>6. \A i \in 1..Len(W) : W[i] = m[Len(G) + i]
  <2> SUFFICES ASSUME NEW i \in 1..Len(W) PROVE W[i] = m[Len(G) + i]
    OBVIOUS
  <2>1. i + 1 \in 1..Len(w) /\ i \in 1..(Len(w) - 1)
    BY <1>1
  <2>2. W[i] = w[i + 1] /\ w[i + 1] = m[Len(g) + (i + 1)]
    BY <1>2, <2>1 DEF Begun
  <2>3. Len(g) + (i + 1) = Len(G) + i
    BY <1>1
  <2> QED
    BY <2>2, <2>3
<1>7. Len(g) + Len(w) <= Len(m)
  BY DEF Begun
<1>8. Len(G) + Len(W) = Len(g) + Len(w) /\ Len(g) < Len(m)
  BY <1>1, <1>7
<1>9. Begun(G, W, m)
  BY <1>5, <1>6, <1>7, <1>8 DEF Begun
<1>10. Whole(g, w, m) => Whole(G, W, m)
  BY <1>8 DEF Whole
<1> QED
  BY <1>4, <1>8, <1>9, <1>10 DEF G, W

\* The method sends a message on a stream that is up, or one that is not.
LEMMA Produced ==
  ASSUME NEW S, NEW g \in Seq(S), NEW w \in Seq(S), NEW m \in Seq(S),
         NEW x \in S, Begun(g, w, m)
  PROVE  /\ Begun(g, w, Append(m, x))
         /\ Whole(g, w, m) => /\ Begun(g, Append(w, x), Append(m, x))
                              /\ Whole(g, Append(w, x), Append(m, x))
<1> DEFINE M == Append(m, x)
           W == Append(w, x)
<1>1. /\ Len(g) \in Nat /\ Len(m) \in Nat /\ Len(w) \in Nat
      /\ Len(W) = Len(w) + 1 /\ Len(M) = Len(m) + 1
  BY Longer
<1>2. (\A i \in 1..Len(m) : M[i] = m[i]) /\ M[Len(m) + 1] = x
  BY Longer
<1>3. (\A i \in 1..Len(w) : W[i] = w[i]) /\ W[Len(w) + 1] = x
  BY Longer
<1> HIDE DEF M, W
<1>4. Len(g) + Len(w) <= Len(m)
  BY DEF Begun
<1>5. \A i \in 1..Len(g) : g[i] = M[i]
  BY <1>1, <1>2, <1>4 DEF Begun
<1>6. \A i \in 1..Len(w) : w[i] = M[Len(g) + i]
  <2> SUFFICES ASSUME NEW i \in 1..Len(w) PROVE w[i] = M[Len(g) + i]
    OBVIOUS
  <2>1. Len(g) + i \in 1..Len(m)
    BY <1>1, <1>4
  <2>2. w[i] = m[Len(g) + i]
    BY DEF Begun
  <2> QED
    BY <1>2, <2>1, <2>2
<1>7. Begun(g, w, M)
  BY <1>1, <1>4, <1>5, <1>6 DEF Begun
<1>8. ASSUME Len(g) + Len(w) = Len(m)
      PROVE  Begun(g, W, M) /\ Len(g) + Len(W) = Len(M)
  <2>1. \A i \in 1..Len(W) : W[i] = M[Len(g) + i]
    <3> SUFFICES ASSUME NEW i \in 1..Len(W) PROVE W[i] = M[Len(g) + i]
      OBVIOUS
    <3>1. CASE i \in 1..Len(w)
      BY <1>3, <1>6, <3>1
    <3>2. CASE i = Len(w) + 1
      BY <1>1, <1>2, <1>3, <1>8, <3>2
    <3> QED
      BY <1>1, <3>1, <3>2
  <2>2. Len(g) + Len(W) = Len(M)
    BY <1>1, <1>8
  <2> QED
    BY <1>1, <1>5, <2>1, <2>2 DEF Begun
<1> QED
  BY <1>7, <1>8 DEF M, W, Whole

\* The sequences of a call.
LEMMA Lengths ==
  ASSUME Types, NEW c \in Calls
  PROVE  /\ wire[c] \in Seq(Items) /\ got[c] \in Seq(Items)
         /\ made[c] \in Seq(Items)
         /\ Len(wire[c]) \in Nat /\ Len(got[c]) \in Nat /\ Len(made[c]) \in Nat
<1>1. wire[c] \in Seq(Items) /\ got[c] \in Seq(Items) /\ made[c] \in Seq(Items)
  BY DEF Types
<1> QED
  BY <1>1

\* Streams that are cut.
LEMMA CutStreams ==
  ASSUME Types, NEW C \in SUBSET Calls, NEW code \in Errors, Cut(C, code)
  PROVE  /\ link' \in [Calls -> {"none", "up", "cut"}]
         /\ wire' \in [Calls -> Seq(Items)]
         /\ status' \in [Calls -> Errors \cup {"OK", Nil}]
         /\ \A c \in Calls \ C : /\ link'[c] = link[c] /\ wire'[c] = wire[c]
                                 /\ status'[c] = status[c]
         /\ \A c \in C :
              /\ link'[c] = "cut"
              /\ Len(wire'[c]) <= Len(wire[c])
              /\ \A i \in 1..Len(wire'[c]) : wire'[c][i] = wire[c][i]
              /\ status'[c] = "OK" => /\ status[c] = "OK"
                                      /\ Len(wire'[c]) = Len(wire[c])
              /\ status'[c] # Nil
              /\ status'[c] \in {status[c], code}
<1>1. PICK kept \in [C -> 0..MaxItems] :
        /\ \A c \in C : kept[c] <= Len(wire[c])
        /\ wire' = [c \in Calls |->
                      IF c \in C THEN SubSeq(wire[c], 1, kept[c]) ELSE wire[c]]
        /\ status' = [c \in Calls |->
                        IF c \in C /\ \/ status[c] = Nil
                                       \/ kept[c] < Len(wire[c])
                          THEN code ELSE status[c]]
  BY DEF Cut
<1>2. link' = [c \in Calls |-> IF c \in C THEN "cut" ELSE link[c]]
  BY DEF Cut
<1>3. ASSUME NEW c \in C
      PROVE  /\ SubSeq(wire[c], 1, kept[c]) \in Seq(Items)
             /\ Len(SubSeq(wire[c], 1, kept[c])) = kept[c]
             /\ \A i \in 1..kept[c] : SubSeq(wire[c], 1, kept[c])[i] = wire[c][i]
  <2>1. c \in Calls
    OBVIOUS
  <2>2. wire[c] \in Seq(Items) /\ kept[c] \in 0..Len(wire[c])
    BY <1>1, <2>1, Lengths
  <2> QED
    BY <2>2, Beginning
<1>4. wire' \in [Calls -> Seq(Items)]
  BY <1>1, <1>3 DEF Types
<1>5. status' \in [Calls -> Errors \cup {"OK", Nil}]
  BY <1>1 DEF Types
<1>6. link' \in [Calls -> {"none", "up", "cut"}]
  BY <1>2 DEF Types
<1>7. ASSUME NEW c \in C
      PROVE  /\ link'[c] = "cut"
             /\ wire'[c] = SubSeq(wire[c], 1, kept[c])
             /\ status'[c] = IF status[c] = Nil \/ kept[c] < Len(wire[c])
                             THEN code ELSE status[c]
  BY <1>1, <1>2
<1>8. code # "OK" /\ code # Nil
  BY NilAssumption DEF Errors
<1>9. ASSUME NEW c \in C
      PROVE  /\ Len(wire'[c]) <= Len(wire[c])
             /\ \A i \in 1..Len(wire'[c]) : wire'[c][i] = wire[c][i]
             /\ status'[c] = "OK" => /\ status[c] = "OK"
                                     /\ Len(wire'[c]) = Len(wire[c])
             /\ status'[c] # Nil
  <2>1. c \in Calls
    OBVIOUS
  <2>2. Len(wire[c]) \in Nat /\ kept[c] \in 0..Len(wire[c])
    BY <1>1, <2>1, Lengths
  <2> QED
    BY <1>3, <1>7, <1>8, <2>2
<1> QED
  BY <1>1, <1>2, <1>4, <1>5, <1>6, <1>7, <1>9

\* What is left on the wire of a stream that is cut.
Shortened(c) ==
  /\ wire'[c] \in Seq(Items)
  /\ Len(wire'[c]) <= Len(wire[c])
  /\ \A i \in 1..Len(wire'[c]) : wire'[c][i] = wire[c][i]
  /\ status'[c] # Nil
  /\ status'[c] = "OK" => /\ status[c] = "OK"
                          /\ Len(wire'[c]) = Len(wire[c])

CutTypes ==
  /\ link' \in [Calls -> {"none", "up", "cut"}]
  /\ wire' \in [Calls -> Seq(Items)]
  /\ status' \in [Calls -> Errors \cup {"OK", Nil}]

LEMMA CutStream ==
  ASSUME Types, NEW c \in Calls, NEW code \in Errors, Cut({c}, code)
  PROVE  /\ CutTypes
         /\ \A d \in Calls \ {c} : /\ link'[d] = link[d] /\ wire'[d] = wire[d]
                                   /\ status'[d] = status[d]
         /\ link'[c] = "cut"
         /\ Shortened(c)
         /\ status'[c] \in {status[c], code}
<1>1. {c} \in SUBSET Calls
  OBVIOUS
<1>2. wire' \in [Calls -> Seq(Items)]
  BY <1>1, CutStreams
<1> QED
  BY <1>1, <1>2, CutStreams DEF CutTypes, Shortened

\* A call whose stream is cut.
LEMMA CutCallOK ==
  ASSUME Types, NEW c \in Calls, CallOK(c), link[c] # "none",
         link'[c] = "cut", Shortened(c),
         stub'[c] = stub[c], req'[c] = req[c], up'[c] = up[c],
         client'[c] \in {client[c], "failed"},
         client[c] = "idle" => client'[c] = "idle",
         handler'[c] \in {handler[c], "ended"},
         got'[c] = got[c], entered'[c] = entered[c], made'[c] = made[c],
         outcome'[c] = outcome[c]
  PROVE  CallOK(c)'
<1>1. RequestOK(c)'
  BY DEF CallOK, RequestOK
<1>2. EnteredOK(c)'
  <2>1. wire[c] = <<>> => wire'[c] = <<>>
    BY Lengths, EmptyBeginning DEF Shortened
  <2> QED
    BY <2>1 DEF CallOK, EnteredOK, ServedAsStream
<1>3. StatusOK(c)'
  BY DEF CallOK, StatusOK, Shortened
<1>4. DataOK(c)'
  <2>1. Returned(c) => Returned(c)'
    BY DEF Returned
  <2>2. SUFFICES ASSUME ~Returned(c)
                 PROVE  DataOK(c)'
    BY <2>1 DEF DataOK
  <2>3. /\ Len(wire[c]) \in Nat /\ Len(wire'[c]) \in Nat
        /\ Len(got[c]) \in Nat /\ Len(made[c]) \in Nat
    BY Lengths DEF Shortened
  <2>4. /\ Len(got[c]) + Len(wire[c]) <= Len(made[c])
        /\ \A i \in 1..Len(got[c]) : got[c][i] = made[c][i]
        /\ \A i \in 1..Len(wire[c]) : wire[c][i] = made[c][Len(got[c]) + i]
        /\ status[c] = "OK" => Len(got[c]) + Len(wire[c]) = Len(made[c])
        /\ client[c] = "invoking" => got[c] = <<>>
    BY <2>2 DEF CallOK, DataOK, Begun, Whole
  <2>5. Len(got[c]) + Len(wire'[c]) <= Len(made[c])
    <3>1. Len(got[c]) + Len(wire[c]) <= Len(made[c])
      BY <2>4
    <3>2. Len(wire'[c]) <= Len(wire[c])
      BY DEF Shortened
    <3>3. \A a, b, d, m \in Nat : a + b <= m /\ d <= b => a + d <= m
      OBVIOUS
    <3> QED
      BY <2>3, <3>1, <3>2, <3>3
  <2>6. \A i \in 1..Len(wire'[c]) : wire'[c][i] = made[c][Len(got[c]) + i]
    BY <2>3, <2>4 DEF Shortened
  <2>7. link'[c] = "up" \/ status'[c] = "OK" =>
          Len(got[c]) + Len(wire'[c]) = Len(made[c])
    BY <2>3, <2>4 DEF Shortened
  <2>8. client'[c] = "invoking" => got[c] = <<>>
    BY <2>4
  <2> QED
    BY <2>4, <2>5, <2>6, <2>7, <2>8 DEF DataOK, Begun, Whole
<1> QED
  BY <1>1, <1>2, <1>3, <1>4 DEF CallOK

-----------------------------------------------------------------------------
(* Every step of a call.                                                   *)

LEMMA NewStreamInv ==
  ASSUME Inv, NEW c \in Calls, NewStream(c)
  PROVE  Inv'
<1>1. PICK s \in StubsUsed, r \in Requests : Choose(c, s, r)
  BY DEF NewStream
<1>2. /\ client[c] = "idle"
      /\ client' = [client EXCEPT ![c] = client'[c]]
      /\ \/ /\ process = "serving"
            /\ client'[c] = "opened"
            /\ link' = [link EXCEPT ![c] = "up"]
         \/ client'[c] = "failed" /\ link' = link
      /\ UNCHANGED <<serverVars, got, up, handler, wire, status, history>>
  BY DEF NewStream, Step, Inv, Types
<1>3. Types'
  <2>1. stub' \in [Calls -> StubsUsed \cup {Nil}]
    BY <1>1 DEF Inv, Types, Choose
  <2>2. req' \in [Calls -> Requests \cup {Nil}]
    BY <1>1 DEF Inv, Types, Choose
  <2>3. client' \in [Calls -> {"idle", "opened", "sent", "reading", "invoking",
                               "over", "failed"}]
    BY <1>2 DEF Inv, Types
  <2>4. link' \in [Calls -> {"none", "up", "cut"}]
    BY <1>2 DEF Inv, Types
  <2> QED
    BY <1>2, <2>1, <2>2, <2>3, <2>4 DEF Inv, Types, serverVars, history
<1>4. \A d \in Calls \ {c} : Same(d)
  BY <1>1, <1>2 DEF Inv, Types, Same, history, Choose
<1>5. CallOK(c)'
  <2>0. /\ RequestOK(c) /\ EnteredOK(c) /\ StatusOK(c) /\ DataOK(c)
        /\ stub'[c] = s /\ req'[c] = r
        /\ link'[c] \in {link[c], "up"}
        /\ client'[c] = "opened" => link'[c] = "up"
        /\ entered'[c] = entered[c] /\ made'[c] = made[c]
        /\ outcome'[c] = outcome[c]
    BY <1>1, <1>2 DEF Inv, Types, CallOK, Choose, history
  <2>1. link[c] = "none" /\ up[c] = Nil /\ handler[c] = "none"
        /\ status[c] = Nil /\ entered[c] = Nil
    BY <1>2, <2>0 DEF RequestOK, EnteredOK
  <2>2. RequestOK(c)'
    BY <1>2, <2>0, <2>1 DEF RequestOK
  <2>3. EnteredOK(c)'
    BY <1>2, <2>0, <2>1 DEF EnteredOK, ServedAsStream
  <2>4. StatusOK(c)'
    BY <1>2, <2>0, <2>1, NilAssumption DEF StatusOK
  <2>5. DataOK(c)'
    <3>1. made[c] = <<>> /\ wire[c] = <<>> /\ got[c] = <<>>
      BY <2>0, <2>1 DEF EnteredOK
    <3> QED
      BY <1>2, <2>0, <3>1, NothingBegun DEF DataOK
  <2> QED
    BY <2>2, <2>3, <2>4, <2>5 DEF CallOK
<1>6. process # "serving" => /\ handler'[c] \notin {"receiving", "running"}
                             /\ ~Up(c)'
  BY <1>2 DEF Inv, CallOK, RequestOK, Up
<1> QED
  BY <1>2, <1>3, <1>4, <1>5, <1>6, OneCall

LEMMA SendMsgInv ==
  ASSUME Inv, NEW c \in Calls, SendMsg(c)
  PROVE  Inv'
<1>1. /\ UNCHANGED <<serverVars, stub, req, got, handler, history>>
      /\ client[c] = "opened"
      /\ client' = [client EXCEPT ![c] = client'[c]]
      /\ client'[c] \in {"sent", "failed"}
  BY DEF SendMsg, Step, Inv, Types
<1>2. /\ link[c] # "none" /\ up[c] = Nil /\ entered[c] = Nil
      /\ stub[c] \in StubsUsed /\ req[c] \in Requests
      /\ RequestOK(c) /\ EnteredOK(c) /\ StatusOK(c) /\ DataOK(c)
  BY <1>1 DEF Inv, CallOK, RequestOK, EnteredOK
<1>3. process # "serving" => /\ handler'[c] \notin {"receiving", "running"}
                             /\ link[c] # "up"
  BY <1>1 DEF Inv, ServerOK, Up, Returned
<1>4. CASE /\ client'[c] = "sent"
           /\ up' = [up EXCEPT ![c] = IF link[c] = "up" THEN req[c] ELSE Nil]
           /\ UNCHANGED <<link, wire, status>>
  <2>1. Types'
    BY <1>1, <1>2, <1>4, ZenonT(60) DEF Inv, Types, serverVars, history
  <2>2. \A d \in Calls \ {c} : Same(d)
    BY <1>1, <1>4 DEF Inv, Types, Same, history
  <2>3. up'[c] \in {req[c], Nil}
    BY <1>4 DEF Inv, Types
  <2>4. RequestOK(c)'
    BY <1>1, <1>2, <1>4, <2>3 DEF RequestOK
  <2>5. EnteredOK(c)'
    BY <1>1, <1>2, <1>4 DEF EnteredOK, ServedAsStream, history
  <2>6. StatusOK(c)'
    BY <1>1, <1>2, <1>4 DEF StatusOK, history
  <2>7. DataOK(c)'
    BY <1>1, <1>2, <1>4 DEF DataOK, history, Returned
  <2> QED
    BY <1>1, <1>3, <1>4, <2>1, <2>2, <2>4, <2>5, <2>6, <2>7, OneCall
       DEF CallOK, Up
<1>5. CASE client'[c] = "failed" /\ Cut({c}, "Canceled") /\ up' = up
  <2>1. /\ CutTypes
        /\ \A d \in Calls \ {c} : /\ link'[d] = link[d] /\ wire'[d] = wire[d]
                                  /\ status'[d] = status[d]
        /\ link'[c] = "cut"
        /\ Shortened(c)
    BY <1>5, CutStream DEF Inv, Errors
  <2>2. Types'
    <3>1. client' \in [Calls -> {"idle", "opened", "sent", "reading",
                                 "invoking", "over", "failed"}]
      BY <1>1 DEF Inv, Types
    <3> QED
      BY <1>1, <1>5, <2>1, <3>1
         DEF Inv, Types, CutTypes, serverVars, history
  <2>3. \A d \in Calls \ {c} : Same(d)
    BY <1>1, <1>5, <2>1 DEF Inv, Types, Same, history
  <2>4. CallOK(c)'
    BY <1>1, <1>2, <1>5, <2>1, CutCallOK DEF Inv, history
  <2> QED
    BY <1>1, <1>3, <2>1, <2>2, <2>3, <2>4, OneCall DEF Up
<1> QED
  BY <1>1, <1>4, <1>5 DEF SendMsg, Step, Inv, Types

LEMMA CloseSendInv ==
  ASSUME Inv, NEW c \in Calls, CloseSend(c)
  PROVE  Inv'
<1>1. /\ UNCHANGED <<serverVars, stub, req, got, streamVars, history>>
      /\ client[c] = "sent"
      /\ client' = [client EXCEPT ![c] = client'[c]]
      /\ client'[c] \in {"reading", "failed"}
  BY DEF CloseSend, Step, Inv, Types
<1>2. Types'
  BY <1>1, ZenonT(60) DEF Inv, Types, serverVars, streamVars, history
<1>3. \A d \in Calls \ {c} : Same(d)
  BY <1>1 DEF Inv, Types, Same, streamVars, history
<1>4. RequestOK(c) /\ EnteredOK(c) /\ StatusOK(c) /\ DataOK(c)
  BY DEF Inv, CallOK
<1>5. RequestOK(c)' /\ EnteredOK(c)' /\ StatusOK(c)' /\ DataOK(c)'
  BY <1>1, <1>4 DEF RequestOK, EnteredOK, ServedAsStream, StatusOK, DataOK,
                    Returned, streamVars, history
<1>6. process # "serving" => /\ handler'[c] \notin {"receiving", "running"}
                             /\ ~Up(c)'
  BY <1>1 DEF Inv, ServerOK, Up, Returned, streamVars
<1> QED
  BY <1>1, <1>2, <1>3, <1>5, <1>6, OneCall DEF CallOK

LEMMA InvokeInv ==
  ASSUME Inv, NEW c \in Calls, Invoke(c)
  PROVE  Inv'
<1>1. PICK s \in StubsUsed, r \in Requests :
        /\ Choose(c, s, r)
        /\ client[c] = "idle"
        /\ client' = [client EXCEPT ![c] = client'[c]]
        /\ \/ /\ process = "serving"
              /\ client'[c] = "invoking"
              /\ link' = [link EXCEPT ![c] = "up"]
              /\ up' = [up EXCEPT ![c] = r]
           \/ client'[c] = "failed" /\ link' = link /\ up' = up
        /\ UNCHANGED <<serverVars, got, handler, wire, status, history>>
  BY DEF Invoke, Step, Inv, Types
<1>2. Types'
  <2>1. stub' \in [Calls -> StubsUsed \cup {Nil}]
    BY <1>1 DEF Inv, Types, Choose
  <2>2. req' \in [Calls -> Requests \cup {Nil}]
    BY <1>1 DEF Inv, Types, Choose
  <2>3. client' \in [Calls -> {"idle", "opened", "sent", "reading", "invoking",
                               "over", "failed"}]
    BY <1>1 DEF Inv, Types
  <2>4. link' \in [Calls -> {"none", "up", "cut"}]
    BY <1>1 DEF Inv, Types
  <2>5. up' \in [Calls -> Requests \cup {Nil}]
    BY <1>1, ZenonT(60) DEF Inv, Types
  <2> QED
    BY <1>1, <2>1, <2>2, <2>3, <2>4, <2>5 DEF Inv, Types, serverVars, history
<1>3. \A d \in Calls \ {c} : Same(d)
  BY <1>1 DEF Inv, Types, Same, history, Choose
<1>4. CallOK(c)'
  <2>1. /\ link[c] = "none" /\ up[c] = Nil /\ handler[c] = "none"
        /\ status[c] = Nil /\ entered[c] = Nil
        /\ RequestOK(c) /\ EnteredOK(c)
    BY <1>1 DEF Inv, CallOK, RequestOK, EnteredOK
  <2>2. /\ stub'[c] = s /\ req'[c] = r
        /\ up'[c] # Nil => up'[c] = r
        /\ link'[c] \in {link[c], "up"}
        /\ link'[c] = "none" => client'[c] = "failed" /\ up'[c] = up[c]
        /\ client'[c] \in {"invoking", "failed"}
        /\ entered'[c] = entered[c] /\ made'[c] = made[c]
        /\ outcome'[c] = outcome[c]
    BY <1>1, <2>1 DEF Inv, Types, Choose, history
  <2>3. RequestOK(c)'
    BY <1>1, <2>1, <2>2 DEF RequestOK
  <2>4. EnteredOK(c)'
    BY <1>1, <2>1, <2>2 DEF EnteredOK, ServedAsStream
  <2>5. StatusOK(c)'
    BY <1>1, <2>1, <2>2, NilAssumption DEF StatusOK
  <2>6. DataOK(c)'
    <3>1. made[c] = <<>> /\ wire[c] = <<>> /\ got[c] = <<>>
      BY <2>1 DEF EnteredOK
    <3> QED
      BY <1>1, <2>2, <3>1, NothingBegun DEF DataOK
  <2> QED
    BY <2>3, <2>4, <2>5, <2>6 DEF CallOK
<1>5. process # "serving" => /\ handler'[c] \notin {"receiving", "running"}
                             /\ ~Up(c)'
  BY <1>1 DEF Inv, CallOK, RequestOK, Up
<1> QED
  BY <1>1, <1>2, <1>3, <1>4, <1>5, OneCall

LEMMA RecvInv ==
  ASSUME Inv, NEW c \in Calls, Recv(c)
  PROVE  Inv'
<1>1. /\ UNCHANGED <<serverVars, stub, req, client, link, up, handler, status,
                     history>>
      /\ client[c] = "reading" /\ wire[c] # <<>>
      /\ got' = [got EXCEPT ![c] = Append(got[c], Head(wire[c]))]
      /\ wire' = [wire EXCEPT ![c] = Tail(wire[c])]
  BY DEF Recv
<1>2. /\ wire[c] \in Seq(Items) /\ got[c] \in Seq(Items)
      /\ made[c] \in Seq(Items)
  BY Lengths DEF Inv
<1>3. /\ Append(got[c], Head(wire[c])) \in Seq(Items)
      /\ Tail(wire[c]) \in Seq(Items)
  BY <1>1, <1>2, Shorter, Longer
<1>4. Types'
  BY <1>1, <1>3 DEF Inv, Types, serverVars, history
<1>5. \A d \in Calls \ {c} : Same(d)
  BY <1>1 DEF Inv, Types, Same, history
<1>6. CallOK(c)'
  <2>1. RequestOK(c) /\ EnteredOK(c) /\ StatusOK(c) /\ DataOK(c)
    BY DEF Inv, CallOK
  <2>2. /\ got'[c] = Append(got[c], Head(wire[c]))
        /\ wire'[c] = Tail(wire[c])
    BY <1>1 DEF Inv, Types
  <2>3. RequestOK(c)' /\ StatusOK(c)'
    BY <1>1, <2>1 DEF RequestOK, StatusOK, history
  <2>4. EnteredOK(c)'
    BY <1>1, <2>1 DEF EnteredOK, ServedAsStream, history
  <2>5. Begun(got[c], wire[c], made[c])
    BY <1>1, <2>1 DEF DataOK, Returned
  <2>6. /\ Begun(got'[c], wire'[c], made[c])
        /\ Whole(got[c], wire[c], made[c]) => Whole(got'[c], wire'[c], made[c])
    <3>1. /\ Begun(Append(got[c], Head(wire[c])), Tail(wire[c]), made[c])
          /\ Whole(got[c], wire[c], made[c]) =>
               Whole(Append(got[c], Head(wire[c])), Tail(wire[c]), made[c])
      BY <1>1, <1>2, <2>5, Delivered
    <3> QED
      BY <2>2, <3>1
  <2>7. DataOK(c)'
    BY <1>1, <2>1, <2>6 DEF DataOK, Returned, history
  <2> QED
    BY <2>3, <2>4, <2>7 DEF CallOK
<1>7. process # "serving" => /\ handler'[c] \notin {"receiving", "running"}
                             /\ ~Up(c)'
  BY <1>1 DEF Inv, ServerOK, Up, Returned
<1> QED
  BY <1>1, <1>4, <1>5, <1>6, <1>7, OneCall

LEMMA RecvEndInv ==
  ASSUME Inv, NEW c \in Calls, RecvEnd(c)
  PROVE  Inv'
<1>1. /\ UNCHANGED <<serverVars, stub, req, got, streamVars, history>>
      /\ client[c] = "reading"
      /\ client' = [client EXCEPT ![c] = client'[c]]
      /\ client'[c] \in {"over", "failed"}
      /\ status[c] # Nil
  BY DEF RecvEnd, Inv, Types
<1>2. Types'
  <2>1. client' \in [Calls -> {"idle", "opened", "sent", "reading", "invoking",
                               "over", "failed"}]
    BY <1>1 DEF Inv, Types
  <2> QED
    BY <1>1, <2>1 DEF Inv, Types, serverVars, streamVars, history
<1>3. \A d \in Calls \ {c} : Same(d)
  BY <1>1 DEF Inv, Types, Same, streamVars, history
<1>4. RequestOK(c) /\ EnteredOK(c) /\ StatusOK(c)
  BY DEF Inv, CallOK
<1>5. RequestOK(c)' /\ EnteredOK(c)' /\ StatusOK(c)' /\ DataOK(c)'
  BY <1>1, <1>4 DEF RequestOK, EnteredOK, ServedAsStream, StatusOK, DataOK,
                    Returned, streamVars, history
<1>6. process # "serving" => /\ handler'[c] \notin {"receiving", "running"}
                             /\ ~Up(c)'
  BY <1>1 DEF Inv, ServerOK, Up, Returned, streamVars
<1> QED
  BY <1>1, <1>2, <1>3, <1>5, <1>6, OneCall DEF CallOK

LEMMA InvokeEndInv ==
  ASSUME Inv, NEW c \in Calls, InvokeEnd(c)
  PROVE  Inv'
<1>1. /\ UNCHANGED <<serverVars, stub, req, streamVars, history>>
      /\ client[c] = "invoking"
      /\ client' = [client EXCEPT ![c] = client'[c]]
      /\ client'[c] \in {"over", "failed"}
      /\ got' = [got EXCEPT ![c] = got'[c]]
      /\ got'[c] \in {got[c], wire[c]}
      /\ status[c] # Nil
  BY DEF InvokeEnd, StubResult, Inv, Types
<1>2. Types'
  <2>1. got' \in [Calls -> Seq(Items)]
    <3>1. got'[c] \in Seq(Items)
      BY <1>1, Lengths DEF Inv
    <3> QED
      BY <1>1, <3>1 DEF Inv, Types
  <2>2. client' \in [Calls -> {"idle", "opened", "sent", "reading", "invoking",
                               "over", "failed"}]
    <3>1. /\ client' = [client EXCEPT ![c] = client'[c]]
          /\ client'[c] \in {"over", "failed"}
      BY <1>1
    <3> QED
      BY <3>1 DEF Inv, Types
  <2>3. UNCHANGED <<serverVars, stub, req, streamVars, history>>
    BY <1>1
  <2> QED
    BY <2>1, <2>2, <2>3 DEF Inv, Types, serverVars, streamVars, history
<1>3. \A d \in Calls \ {c} : Same(d)
  BY <1>1 DEF Inv, Types, Same, streamVars, history
<1>4. RequestOK(c) /\ EnteredOK(c) /\ StatusOK(c)
  BY DEF Inv, CallOK
<1>5. RequestOK(c)' /\ EnteredOK(c)' /\ StatusOK(c)' /\ DataOK(c)'
  BY <1>1, <1>4 DEF RequestOK, EnteredOK, ServedAsStream, StatusOK, DataOK,
                    Returned, streamVars, history
<1>6. process # "serving" => /\ handler'[c] \notin {"receiving", "running"}
                             /\ ~Up(c)'
  BY <1>1 DEF Inv, ServerOK, Up, Returned, streamVars
<1> QED
  BY <1>1, <1>2, <1>3, <1>5, <1>6, OneCall DEF CallOK

LEMMA CutInv ==
  ASSUME Inv, NEW c \in Calls, Break(c) \/ Cancel(c)
  PROVE  Inv'
<1>1. PICK code \in Errors : Cut({c}, code)
  BY DEF Break, Cancel, Errors
<1>2. /\ UNCHANGED <<serverVars, callerVars, up, handler, history>>
      /\ Up(c)
  BY DEF Break, Cancel
<1>3. /\ CutTypes
      /\ \A d \in Calls \ {c} : /\ link'[d] = link[d] /\ wire'[d] = wire[d]
                                /\ status'[d] = status[d]
      /\ link'[c] = "cut"
      /\ Shortened(c)
  BY <1>1, CutStream DEF Inv
<1>4. Types'
  BY <1>2, <1>3 DEF Inv, Types, CutTypes, serverVars, callerVars, history
<1>5. \A d \in Calls \ {c} : Same(d)
  BY <1>2, <1>3 DEF Same, callerVars, history
<1>6. CallOK(c)'
  BY <1>2, <1>3, CutCallOK DEF Inv, Up, callerVars, history
<1>7. process # "serving" => /\ handler'[c] \notin {"receiving", "running"}
                             /\ ~Up(c)'
  BY <1>2, <1>3 DEF Inv, ServerOK, Up
<1> QED
  BY <1>2, <1>4, <1>5, <1>6, <1>7, OneCall

\* What Finish does to a call.
LEMMA Finished ==
  ASSUME Types, NEW c \in Calls, NEW code \in Errors \cup {"OK"},
         Finish(c, code)
  PROVE  /\ handler' \in [Calls -> {"none", "receiving", "running", "ended"}]
         /\ status' \in [Calls -> Errors \cup {"OK", Nil}]
         /\ \A d \in Calls \ {c} : /\ handler'[d] = handler[d]
                                   /\ status'[d] = status[d]
         /\ handler'[c] = "ended"
         /\ status'[c] = IF link[c] = "up" THEN code ELSE status[c]
BY DEF Types, Finish

LEMMA ArriveInv ==
  ASSUME Inv, NEW c \in Calls, Arrive(c)
  PROVE  Inv'
<1>1. /\ UNCHANGED <<serverVars, callerVars, link, up, wire, history>>
      /\ process = "serving" /\ link[c] = "up" /\ handler[c] = "none"
  BY DEF Arrive, Up
<1>2. /\ handler' \in [Calls -> {"none", "receiving", "running", "ended"}]
      /\ status' \in [Calls -> Errors \cup {"OK", Nil}]
      /\ \A d \in Calls \ {c} : /\ handler'[d] = handler[d]
                                /\ status'[d] = status[d]
      /\ \/ handler'[c] = "receiving" /\ status'[c] = status[c]
         \/ handler'[c] = "ended" /\ status'[c] = "Unimplemented"
  <2>1. CASE /\ handler' = [handler EXCEPT ![c] = "receiving"]
             /\ status' = status
    BY <2>1 DEF Inv, Types
  <2>2. CASE Finish(c, "Unimplemented")
    BY <1>1, <2>2, Finished DEF Inv, Errors
  <2> QED
    BY <2>1, <2>2 DEF Arrive
<1>3. Types'
  BY <1>1, <1>2 DEF Inv, Types, serverVars, callerVars, history
<1>4. \A d \in Calls \ {c} : Same(d)
  BY <1>1, <1>2 DEF Same, callerVars, history
<1>5. RequestOK(c) /\ EnteredOK(c) /\ StatusOK(c) /\ DataOK(c)
  BY DEF Inv, CallOK
<1>6. RequestOK(c)' /\ EnteredOK(c)' /\ StatusOK(c)' /\ DataOK(c)'
  BY <1>1, <1>2, <1>5 DEF RequestOK, EnteredOK, ServedAsStream, StatusOK,
                          DataOK, Returned, callerVars, history
<1>7. process # "serving" => /\ handler'[c] \notin {"receiving", "running"}
                             /\ ~Up(c)'
  BY <1>1
<1> QED
  BY <1>1, <1>3, <1>4, <1>6, <1>7, OneCall DEF CallOK

\* A method is a method of the tables, and what runs is not Nil.
LEMMA Entered ==
  ASSUME Inv, NEW c \in Calls, NEW m \in Requests, Enter(c, m)
  PROVE  \/ /\ handler' = [handler EXCEPT ![c] = "running"]
            /\ status' = status
            /\ \E t \in Targets(c), n \in Methods :
                 /\ n = ServiceDesc[t].handler[PathOf(c)[2]]
                 /\ entered' = [entered EXCEPT ![c] =
                                  [service |-> t, method |-> n, m |-> m]]
                 /\ [service |-> t, method |-> n, m |-> m] \in Entry
                 /\ [service |-> t, method |-> n, m |-> m] # Nil
         \/ /\ Finish(c, "Unimplemented")
            /\ entered' = entered
            /\ \E t \in Targets(c) :
                 <<t, ServiceDesc[t].handler[PathOf(c)[2]]>>
                   \notin build.implements
<1> DEFINE Name(t) == ServiceDesc[t].handler[PathOf(c)[2]]
<1>1. PICK t \in Targets(c) :
        IF <<t, Name(t)>> \in build.implements
          THEN /\ handler' = [handler EXCEPT ![c] = "running"]
               /\ status' = status
               /\ entered' = [entered EXCEPT ![c] =
                                [service |-> t, method |-> Name(t), m |-> m]]
          ELSE Finish(c, "Unimplemented") /\ entered' = entered
  BY DEF Enter
<1>2. CASE <<t, Name(t)>> \in build.implements
  <2>1. build.implements \subseteq Services \X Methods
    BY BuildsAssumption DEF Inv, Types, Build
  <2>2. t \in Services /\ Name(t) \in Methods
    BY <1>2, <2>1
  <2>3. [service |-> t, method |-> Name(t), m |-> m] \in Entry
    BY <2>2 DEF Entry
  <2>4. [service |-> t, method |-> Name(t), m |-> m] # Nil
    BY <2>3, NilAssumption
  <2> QED
    BY <1>1, <1>2, <2>2, <2>3, <2>4
<1>3. CASE <<t, Name(t)>> \notin build.implements
  BY <1>1, <1>3
<1> QED
  BY <1>2, <1>3

\* What Receive does: the handler ends with an error, or the method runs on
\* the request.
Began(c) ==
  /\ up[c] # Nil
  /\ handler' = [handler EXCEPT ![c] = "running"]
  /\ status' = status /\ outcome' = outcome
  /\ \E t \in Targets(c), n \in Methods :
       /\ n = ServiceDesc[t].handler[PathOf(c)[2]]
       /\ entered' = [entered EXCEPT ![c] =
                        [service |-> t, method |-> n, m |-> up[c]]]
       /\ [service |-> t, method |-> n, m |-> up[c]] \in Entry
       /\ [service |-> t, method |-> n, m |-> up[c]] # Nil

Refused(c) ==
  /\ entered' = entered
  /\ \/ \E code \in Errors :
          Finish(c, code) /\ outcome' = [outcome EXCEPT ![c] = code]
     \/ Finish(c, "Canceled") /\ outcome' = outcome
     \/ /\ up[c] # Nil
        /\ Finish(c, "Unimplemented") /\ outcome' = outcome
        /\ \E t \in Targets(c) :
             <<t, ServiceDesc[t].handler[PathOf(c)[2]]>>
               \notin build.implements

LEMMA Received ==
  ASSUME Inv, NEW c \in Calls, Receive(c)
  PROVE  /\ handler[c] = "receiving"
         /\ UNCHANGED <<serverVars, callerVars, link, up, wire, made>>
         /\ Began(c) \/ Refused(c)
<1>1. CASE up[c] # Nil /\ Handler(c, up[c], Nil) /\ outcome' = outcome
  <2>1. up[c] \in Requests /\ Enter(c, up[c])
    BY <1>1 DEF Inv, Types, Handler
  <2> QED
    BY <1>1, <2>1, Entered DEF Receive, Began, Refused
<1>2. CASE \/ \E code \in Errors :
                 /\ Handler(c, Zero, code)
                 /\ outcome' = [outcome EXCEPT ![c] = code]
           \/ Handler(c, Zero, "Canceled") /\ outcome' = outcome
  BY <1>2, NilAssumption DEF Receive, Handler, Errors, Refused
<1> QED
  BY <1>1, <1>2 DEF Receive

LEMMA ReceiveInv ==
  ASSUME Inv, NEW c \in Calls, Receive(c)
  PROVE  Inv'
<1>1. /\ UNCHANGED <<serverVars, callerVars, link, up, wire, made>>
      /\ handler[c] = "receiving"
      /\ Began(c) \/ Refused(c)
  BY Received
<1>2. /\ RequestOK(c) /\ EnteredOK(c) /\ StatusOK(c) /\ DataOK(c)
      /\ process = "serving"
      /\ entered[c] = Nil
  BY <1>1 DEF Inv, CallOK, ServerOK, EnteredOK
<1>3. /\ handler' \in [Calls -> {"none", "receiving", "running", "ended"}]
      /\ status' \in [Calls -> Errors \cup {"OK", Nil}]
      /\ entered' \in [Calls -> Entry \cup {Nil}]
      /\ \A d \in Calls \ {c} : /\ handler'[d] = handler[d]
                                /\ status'[d] = status[d]
                                /\ entered'[d] = entered[d]
                                /\ outcome'[d] = outcome[d]
      /\ outcome' \in [Calls -> Errors \cup {"OK", Nil}]
      /\ \/ /\ handler'[c] = "running" /\ status'[c] = status[c]
            /\ entered'[c] \in Entry \ {Nil} /\ entered'[c].m = up[c]
            /\ up[c] # Nil /\ outcome'[c] = outcome[c]
         \/ /\ handler'[c] = "ended" /\ entered'[c] = entered[c]
            /\ outcome'[c] \in Errors \cup {outcome[c]}
            /\ \/ status'[c] = status[c]
               \/ link[c] = "up" /\ status'[c] \in Errors
  <2>1. CASE Began(c)
    BY <2>1 DEF Inv, Types, Began
  <2>2. CASE Refused(c)
    <3>1. PICK code \in Errors :
            /\ Finish(c, code) /\ entered' = entered
            /\ \/ outcome' = outcome
               \/ outcome' = [outcome EXCEPT ![c] = code]
      <4>1. "Canceled" \in Errors /\ "Unimplemented" \in Errors
        BY DEF Errors
      <4> QED
        BY <2>2, <4>1 DEF Refused
    <3>2. /\ outcome' \in [Calls -> Errors \cup {"OK", Nil}]
          /\ \A d \in Calls \ {c} : outcome'[d] = outcome[d]
          /\ outcome'[c] \in Errors \cup {outcome[c]}
      <4>1. outcome \in [Calls -> Errors \cup {"OK", Nil}]
        BY DEF Inv, Types
      <4>2. CASE outcome' = outcome
        BY <4>1, <4>2
      <4>3. CASE outcome' = [outcome EXCEPT ![c] = code]
        BY <4>1, <4>3
      <4> QED
        BY <3>1, <4>2, <4>3
    <3>3. Types
      BY DEF Inv
    <3>4. /\ handler' \in [Calls -> {"none", "receiving", "running", "ended"}]
          /\ status' \in [Calls -> Errors \cup {"OK", Nil}]
          /\ \A d \in Calls \ {c} : /\ handler'[d] = handler[d]
                                    /\ status'[d] = status[d]
          /\ handler'[c] = "ended"
          /\ \/ status'[c] = status[c]
             \/ link[c] = "up" /\ status'[c] \in Errors
      BY <3>1, <3>3, Finished
    <3>5. /\ entered' \in [Calls -> Entry \cup {Nil}]
          /\ entered' = entered
      BY <3>1, <3>3 DEF Types
    <3> QED
      BY <3>2, <3>4, <3>5
  <2> QED
    BY <1>1, <2>1, <2>2
<1>4. Types'
  BY <1>1, <1>3 DEF Inv, Types, serverVars, callerVars
<1>5. \A d \in Calls \ {c} : Same(d)
  BY <1>1, <1>3 DEF Same, callerVars
<1>6. RequestOK(c)'
  BY <1>1, <1>2, <1>3 DEF RequestOK, callerVars
<1>7. EnteredOK(c)'
  <2>1. entered'[c] # Nil => entered'[c].service \in Services
    BY <1>2, <1>3 DEF Entry
  <2> QED
    BY <1>1, <1>2, <1>3, <2>1
       DEF EnteredOK, ServedAsStream, callerVars, Errors
<1>8. StatusOK(c)'
  <2>1. status[c] # "OK"
    BY <1>2 DEF StatusOK, EnteredOK
  <2> QED
    BY <1>1, <1>2, <1>3, <2>1, NilAssumption DEF StatusOK, Errors
<1>9. DataOK(c)'
  BY <1>1, <1>2, <1>3 DEF DataOK, Returned, callerVars, Errors
<1>10. process # "serving" => /\ handler'[c] \notin {"receiving", "running"}
                              /\ ~Up(c)'
  BY <1>2
<1> QED
  BY <1>1, <1>4, <1>5, <1>6, <1>7, <1>8, <1>9, <1>10, OneCall DEF CallOK

LEMMA SendInv ==
  ASSUME Inv, NEW c \in Calls, Send(c)
  PROVE  Inv'
<1>1. PICK x \in Items :
        /\ made' = [made EXCEPT ![c] = Append(made[c], x)]
        /\ wire' = [wire EXCEPT ![c] = IF link[c] = "up"
                                       THEN Append(wire[c], x) ELSE wire[c]]
        /\ UNCHANGED <<serverVars, callerVars, link, up, handler, status,
                       entered, outcome>>
        /\ handler[c] = "running" /\ ServedAsStream(c)
        /\ Len(made[c]) < MaxItems
  BY DEF Send
<1>2. /\ RequestOK(c) /\ EnteredOK(c) /\ StatusOK(c) /\ DataOK(c)
      /\ process = "serving"
      /\ entered[c] # Nil
  BY <1>1 DEF Inv, CallOK, ServerOK, EnteredOK
<1>3. /\ wire[c] \in Seq(Items) /\ got[c] \in Seq(Items)
      /\ made[c] \in Seq(Items)
      /\ Append(made[c], x) \in Seq(Items) /\ Append(wire[c], x) \in Seq(Items)
      /\ Len(Append(made[c], x)) = Len(made[c]) + 1
      /\ Len(made[c]) \in Nat
  BY Lengths, Longer DEF Inv
<1>4. Types'
  <2>1. made' \in [Calls -> Seq(Items)]
    BY <1>1, <1>3 DEF Inv, Types
  <2>2. wire' \in [Calls -> Seq(Items)]
    BY <1>1, <1>3 DEF Inv, Types
  <2> QED
    BY <1>1, <2>1, <2>2 DEF Inv, Types, serverVars, callerVars
<1>5. \A d \in Calls \ {c} : Same(d)
  BY <1>1 DEF Inv, Types, Same, callerVars
<1>6. /\ made'[c] = Append(made[c], x)
      /\ wire'[c] = IF link[c] = "up" THEN Append(wire[c], x) ELSE wire[c]
  BY <1>1 DEF Inv, Types
<1>7. RequestOK(c)' /\ StatusOK(c)'
  BY <1>1, <1>2 DEF RequestOK, StatusOK, callerVars
<1>8. EnteredOK(c)'
  <2>1. Len(made'[c]) <= MaxItems
    BY <1>1, <1>3, <1>6, MaxAssumption
  <2> QED
    BY <1>1, <1>2, <2>1 DEF EnteredOK, ServedAsStream, callerVars
<1>9. DataOK(c)'
  <2> SUFFICES ASSUME ~Returned(c)
               PROVE  DataOK(c)'
    BY <1>1 DEF DataOK, Returned, callerVars
  <2>1. Begun(got[c], wire[c], made[c])
    BY <1>2 DEF DataOK
  <2>2. /\ Begun(got[c], wire[c], Append(made[c], x))
        /\ Whole(got[c], wire[c], made[c]) =>
             /\ Begun(got[c], Append(wire[c], x), Append(made[c], x))
             /\ Whole(got[c], Append(wire[c], x), Append(made[c], x))
    <3>1. /\ wire[c] \in Seq(Items) /\ got[c] \in Seq(Items)
          /\ made[c] \in Seq(Items)
      BY <1>3
    <3> QED
      BY <2>1, <3>1, Produced
  <2>3. CASE link[c] = "up"
    BY <1>1, <1>2, <1>6, <2>2, <2>3 DEF DataOK, callerVars
  <2>4. CASE link[c] # "up"
    <3>1. status[c] # "OK"
      BY <1>1, <1>2, NilAssumption DEF EnteredOK, StatusOK
    <3> QED
      BY <1>1, <1>2, <1>6, <2>2, <2>4, <3>1 DEF DataOK, callerVars
  <2> QED
    BY <2>3, <2>4
<1>10. process # "serving" => /\ handler'[c] \notin {"receiving", "running"}
                              /\ ~Up(c)'
  BY <1>2
<1> QED
  BY <1>1, <1>4, <1>5, <1>7, <1>8, <1>9, <1>10, OneCall DEF CallOK

LEMMA ReturnStreamInv ==
  ASSUME Inv, NEW c \in Calls, ReturnStream(c)
  PROVE  Inv'
<1>1. PICK code \in Errors \cup {"OK"} :
        /\ outcome' = [outcome EXCEPT ![c] = code]
        /\ Finish(c, code)
        /\ handler[c] = "running"
        /\ UNCHANGED <<serverVars, callerVars, link, up, wire, entered, made>>
  BY DEF ReturnStream
<1>2. /\ handler' \in [Calls -> {"none", "receiving", "running", "ended"}]
      /\ status' \in [Calls -> Errors \cup {"OK", Nil}]
      /\ \A d \in Calls \ {c} : /\ handler'[d] = handler[d]
                                /\ status'[d] = status[d]
      /\ handler'[c] = "ended"
      /\ status'[c] = IF link[c] = "up" THEN code ELSE status[c]
  BY <1>1, Finished DEF Inv, Errors
<1>3. /\ RequestOK(c) /\ EnteredOK(c) /\ StatusOK(c) /\ DataOK(c)
      /\ process = "serving"
      /\ outcome[c] = Nil
  BY <1>1 DEF Inv, CallOK, ServerOK, EnteredOK
<1>4. Types'
  BY <1>1, <1>2 DEF Inv, Types, serverVars, callerVars
<1>5. \A d \in Calls \ {c} : Same(d)
  BY <1>1, <1>2 DEF Inv, Types, Same, callerVars
<1>6. outcome'[c] = code
  BY <1>1 DEF Inv, Types
<1>7. status[c] # "OK"
  BY <1>3, NilAssumption DEF StatusOK
<1>8. RequestOK(c)'
  BY <1>1, <1>2, <1>3 DEF RequestOK, callerVars
<1>9. EnteredOK(c)'
  BY <1>1, <1>2, <1>3 DEF EnteredOK, callerVars
<1>10. StatusOK(c)'
  BY <1>1, <1>2, <1>3, <1>6, <1>7 DEF StatusOK, callerVars
<1>11. DataOK(c)'
  BY <1>1, <1>2, <1>3, <1>7 DEF DataOK, Returned, callerVars
<1> QED
  BY <1>1, <1>3, <1>4, <1>5, <1>8, <1>9, <1>10, <1>11, OneCall DEF CallOK

LEMMA ReturnUnaryInv ==
  ASSUME Inv, NEW c \in Calls, ReturnUnary(c)
  PROVE  Inv'
<1>1. /\ handler[c] = "running" /\ ~ServedAsStream(c)
      /\ UNCHANGED <<serverVars, callerVars, link, up, entered>>
  BY DEF ReturnUnary
<1>2. /\ RequestOK(c) /\ EnteredOK(c) /\ StatusOK(c) /\ DataOK(c)
      /\ process = "serving"
      /\ outcome[c] = Nil
      /\ entered[c] # Nil
      /\ made[c] = <<>>
  BY <1>1 DEF Inv, CallOK, ServerOK, EnteredOK
<1>3. status[c] # "OK"
  BY <1>2, NilAssumption DEF StatusOK
<1>4. ASSUME NEW code \in Errors \cup {"OK"}, Finish(c, code)
      PROVE  /\ handler' \in [Calls -> {"none", "receiving", "running", "ended"}]
             /\ status' \in [Calls -> Errors \cup {"OK", Nil}]
             /\ \A d \in Calls \ {c} : /\ handler'[d] = handler[d]
                                       /\ status'[d] = status[d]
             /\ handler'[c] = "ended"
             /\ status'[c] = IF link[c] = "up" THEN code ELSE status[c]
  BY <1>4, Finished DEF Inv, Errors
<1>5. ASSUME NEW code \in Errors, outcome' = [outcome EXCEPT ![c] = code],
             UNCHANGED <<made, wire>>, Finish(c, code)
      PROVE  Inv'
  <2>1. Types'
    BY <1>1, <1>4, <1>5 DEF Inv, Types, serverVars, callerVars
  <2>2. \A d \in Calls \ {c} : Same(d)
    BY <1>1, <1>4, <1>5 DEF Inv, Types, Same, callerVars
  <2>3. /\ outcome'[c] = code /\ handler'[c] = "ended" /\ code # "OK"
        /\ status'[c] = IF link[c] = "up" THEN code ELSE status[c]
    BY <1>4, <1>5 DEF Inv, Types, Errors
  <2>4. RequestOK(c)'
    BY <1>1, <1>2, <2>3 DEF RequestOK, callerVars
  <2>5. EnteredOK(c)'
    BY <1>1, <1>2, <1>5, <2>3 DEF EnteredOK, callerVars
  <2>6. StatusOK(c)'
    BY <1>1, <1>2, <1>3, <2>3 DEF StatusOK, callerVars
  <2>7. DataOK(c)'
    BY <1>1, <1>2, <1>3, <1>5, <2>3 DEF DataOK, Returned, callerVars
  <2> QED
    BY <1>1, <1>2, <2>1, <2>2, <2>4, <2>5, <2>6, <2>7, OneCall DEF CallOK
<1>6. CASE /\ outcome' = [outcome EXCEPT ![c] = "OK"]
           /\ \E x \in Items :
                /\ made' = [made EXCEPT ![c] = <<x>>]
                /\ wire' = [wire EXCEPT ![c] =
                              IF link[c] = "up" THEN <<x>> ELSE wire[c]]
           /\ Finish(c, "OK")
  <2>1. PICK x \in Items :
          /\ made' = [made EXCEPT ![c] = <<x>>]
          /\ wire' = [wire EXCEPT ![c] =
                        IF link[c] = "up" THEN <<x>> ELSE wire[c]]
    BY <1>6
  <2>2. <<x>> \in Seq(Items) /\ Len(<<x>>) = 1
    OBVIOUS
  <2>3. Types'
    <3>1. made' \in [Calls -> Seq(Items)]
      BY <2>1, <2>2 DEF Inv, Types
    <3>2. wire' \in [Calls -> Seq(Items)]
      BY <2>1, <2>2 DEF Inv, Types
    <3>3. outcome' \in [Calls -> Errors \cup {"OK", Nil}]
      BY <1>6 DEF Inv, Types
    <3> QED
      BY <1>1, <1>4, <1>6, <3>1, <3>2, <3>3
         DEF Inv, Types, serverVars, callerVars
  <2>4. \A d \in Calls \ {c} : Same(d)
    BY <1>1, <1>4, <1>6, <2>1 DEF Inv, Types, Same, callerVars
  <2>5. /\ outcome'[c] = "OK" /\ handler'[c] = "ended"
        /\ status'[c] = IF link[c] = "up" THEN "OK" ELSE status[c]
        /\ made'[c] = <<x>>
        /\ wire'[c] = IF link[c] = "up" THEN <<x>> ELSE wire[c]
    BY <1>4, <1>6, <2>1 DEF Inv, Types
  <2>6. RequestOK(c)'
    BY <1>1, <1>2, <2>5 DEF RequestOK, callerVars
  <2>7. EnteredOK(c)'
    BY <1>1, <1>2, <2>2, <2>5, MaxAssumption DEF EnteredOK, callerVars
  <2>8. StatusOK(c)'
    BY <1>1, <1>2, <1>3, <2>5 DEF StatusOK, callerVars
  <2>9. DataOK(c)'
    <3> SUFFICES ASSUME ~Returned(c)
                 PROVE  DataOK(c)'
      BY <1>1 DEF DataOK, Returned, callerVars
    <3>1. Begun(got[c], wire[c], made[c])
      BY <1>2 DEF DataOK
    <3>2. wire[c] \in Seq(Items) /\ got[c] \in Seq(Items)
      BY Lengths DEF Inv
    <3>3. got[c] = <<>> /\ wire[c] = <<>>
      BY <1>2, <3>1, <3>2, NothingLeft
    <3>4. /\ Begun(<<>>, <<x>>, <<x>>) /\ Whole(<<>>, <<x>>, <<x>>)
          /\ Begun(<<>>, <<>>, <<x>>)
      BY DEF Begun, Whole
    <3>5. CASE link[c] = "up"
      BY <1>1, <2>5, <3>3, <3>4, <3>5 DEF DataOK, callerVars
    <3>6. CASE link[c] # "up"
      BY <1>1, <1>3, <2>5, <3>3, <3>4, <3>6 DEF DataOK, callerVars
    <3> QED
      BY <3>5, <3>6
  <2> QED
    BY <1>1, <1>2, <2>3, <2>4, <2>6, <2>7, <2>8, <2>9, OneCall DEF CallOK
<1> QED
  BY <1>5, <1>6 DEF ReturnUnary

-----------------------------------------------------------------------------
(* Every step of the server's process.                                     *)

LEMMA GoDownInv ==
  ASSUME Inv, GoDown
  PROVE  Inv'
<1> DEFINE C == {c \in Calls : Up(c)}
<1>1. /\ process' = "down" /\ services' = {}
      /\ UNCHANGED <<build, callerVars, up, history>>
      /\ Cut(C, "Unavailable")
  BY DEF GoDown
<1>2. handler' = [c \in Calls |-> IF handler[c] \in {"receiving", "running"}
                                   THEN "ended" ELSE handler[c]]
  BY DEF GoDown
<1>3. C \in SUBSET Calls /\ "Unavailable" \in Errors
  BY DEF Errors
<1> HIDE DEF C
<1>4. /\ CutTypes
      /\ \A c \in Calls \ C : /\ link'[c] = link[c] /\ wire'[c] = wire[c]
                              /\ status'[c] = status[c]
      /\ \A c \in C : link'[c] = "cut" /\ Shortened(c)
  <2>1. wire' \in [Calls -> Seq(Items)]
    BY <1>1, <1>3, CutStreams DEF Inv
  <2>2. CutTypes
    BY <1>1, <1>3, <2>1, CutStreams DEF Inv, CutTypes
  <2>3. \A c \in Calls \ C : /\ link'[c] = link[c] /\ wire'[c] = wire[c]
                             /\ status'[c] = status[c]
    BY <1>1, <1>3, CutStreams DEF Inv
  <2>4. ASSUME NEW c \in C
        PROVE  link'[c] = "cut" /\ Shortened(c)
    <3>1. wire'[c] \in Seq(Items)
      BY <1>3, <2>1
    <3> QED
      BY <1>1, <1>3, <3>1, CutStreams DEF Inv, Shortened
  <2> QED
    BY <2>2, <2>3, <2>4
<1>5. handler' \in [Calls -> {"none", "receiving", "running", "ended"}]
  BY <1>2 DEF Inv, Types
<1>6. Types'
  BY <1>1, <1>4, <1>5 DEF Inv, Types, CutTypes, callerVars, history
<1>7. ASSUME NEW c \in Calls
      PROVE  CallOK(c)' /\ ~Up(c)'
  <2>1. /\ RequestOK(c) /\ EnteredOK(c) /\ StatusOK(c) /\ DataOK(c)
        /\ CallOK(c)
    BY DEF Inv, CallOK
  <2>2. handler'[c] = IF handler[c] \in {"receiving", "running"}
                      THEN "ended" ELSE handler[c]
    BY <1>2
  <2>3. CASE c \in C
    <3>1. link[c] # "none" /\ handler'[c] \in {handler[c], "ended"}
      BY <2>2, <2>3 DEF C, Up
    <3>2. link'[c] = "cut" /\ Shortened(c)
      BY <1>4, <2>3
    <3> QED
      BY <1>1, <2>1, <3>1, <3>2, CutCallOK DEF Inv, Up, callerVars, history
  <2>4. CASE c \notin C
    <3>1. ~Up(c)
      BY <2>4 DEF C
    <3>2. /\ link'[c] = link[c] /\ wire'[c] = wire[c]
          /\ status'[c] = status[c]
      BY <1>4, <2>4
    <3>3. RequestOK(c)'
      BY <1>1, <2>1, <2>2, <3>2 DEF RequestOK, callerVars
    <3>4. EnteredOK(c)'
      BY <1>1, <2>1, <2>2, <3>2
         DEF EnteredOK, ServedAsStream, callerVars, history
    <3>5. StatusOK(c)'
      BY <1>1, <2>1, <2>2, <3>1, <3>2 DEF StatusOK, Up, callerVars, history
    <3>6. DataOK(c)'
      BY <1>1, <2>1, <2>2, <3>2 DEF DataOK, Returned, callerVars, history
    <3>7. ~Up(c)'
      BY <1>1, <2>2, <3>1, <3>2 DEF Up, Returned, callerVars
    <3> QED
      BY <3>3, <3>4, <3>5, <3>6, <3>7 DEF CallOK
  <2> QED
    BY <2>3, <2>4
<1>8. ServerOK'
  <2>1. \A c \in Calls : handler'[c] \notin {"receiving", "running"}
    BY <1>2
  <2> QED
    BY <1>1, <1>7, <2>1 DEF ServerOK
<1> QED
  BY <1>6, <1>7, <1>8 DEF Inv

\* A step of the process alone.
LEMMA OnlyProcess ==
  ASSUME Inv, UNCHANGED <<callerVars, streamVars, history>>,
         Types', services' = {} \/ process = "registering",
         process \in {"registering", "down"},
         process' = "serving" => services' = build'.serves,
         process' = "down" => services' = {},
         \A s, t \in services' :
           ServiceDesc[s].name = ServiceDesc[t].name => s = t
  PROVE  Inv'
<1>1. \A c \in Calls : Same(c)
  BY DEF Same, callerVars, streamVars, history
<1>2. \A c \in Calls : CallOK(c)' /\ (Up(c)' <=> Up(c))
  BY <1>1, SameCallOK DEF Inv
<1>3. \A c \in Calls : handler'[c] \notin {"receiving", "running"} /\ ~Up(c)'
  BY <1>1, <1>2 DEF Inv, ServerOK, Same
<1>4. ServerOK'
  BY <1>3 DEF ServerOK
<1> QED
  BY <1>2, <1>4 DEF Inv

LEMMA ProcessInv ==
  ASSUME Inv, ProcessStep
  PROVE  Inv'
<1>1. ASSUME NEW s \in Services, Register(s)
      PROVE  Inv'
  <2>1. CASE GoDown
    BY <2>1, GoDownInv
  <2>2. CASE /\ \A t \in services : ServiceDesc[t].name # ServiceDesc[s].name
             /\ services' = services \cup {s}
             /\ UNCHANGED <<process, build, callerVars, streamVars, history>>
    <3>1. process = "registering" /\ s \in build.serves
      BY <1>1 DEF Register
    <3>2. Types'
      BY <2>2, <3>1 DEF Inv, Types, callerVars, streamVars, history
    <3>3. \A r, t \in services' :
            ServiceDesc[r].name = ServiceDesc[t].name => r = t
      BY <2>2 DEF Inv, ServerOK
    <3> QED
      BY <2>2, <3>1, <3>2, <3>3, OnlyProcess
  <2> QED
    BY <1>1, <2>1, <2>2 DEF Register
<1>2. CASE Serve
  <2>1. /\ process = "registering" /\ services = build.serves
        /\ process' = "serving"
        /\ UNCHANGED <<build, services, callerVars, streamVars, history>>
    BY <1>2 DEF Serve
  <2>2. Types'
    BY <2>1 DEF Inv, Types, callerVars, streamVars, history
  <2>3. \A r, t \in services' :
          ServiceDesc[r].name = ServiceDesc[t].name => r = t
    BY <2>1 DEF Inv, ServerOK
  <2> QED
    BY <2>1, <2>2, <2>3, OnlyProcess
<1>3. CASE Stop
  BY <1>3, GoDownInv DEF Stop
<1>4. CASE Restart
  <2>1. /\ process = "down" /\ process' = "registering" /\ build' \in Builds
        /\ services = {}
        /\ UNCHANGED <<services, callerVars, streamVars, history>>
    BY <1>4 DEF Restart, Inv, ServerOK
  <2>2. Types'
    BY <2>1 DEF Inv, Types, callerVars, streamVars, history
  <2> QED
    BY <2>1, <2>2, OnlyProcess
<1> QED
  BY <1>1, <1>2, <1>3, <1>4 DEF ProcessStep

-----------------------------------------------------------------------------
(* The invariant.                                                          *)

LEMMA InvInit == Init => Inv
<1> SUFFICES ASSUME Init PROVE Inv
  OBVIOUS
<1>1. Types
  <2>1. <<>> \in Seq(Items)
    OBVIOUS
  <2> QED
    BY <2>1 DEF Init, Types
<1>2. ServerOK
  BY DEF Init, ServerOK, Up
<1>3. ASSUME NEW c \in Calls PROVE CallOK(c)
  <2>1. RequestOK(c)
    BY DEF Init, RequestOK
  <2>2. EnteredOK(c)
    BY MaxAssumption, NilAssumption DEF Init, EnteredOK
  <2>3. StatusOK(c)
    BY NilAssumption DEF Init, StatusOK
  <2>4. DataOK(c)
    BY NothingBegun DEF Init, DataOK
  <2> QED
    BY <2>1, <2>2, <2>3, <2>4 DEF CallOK
<1> QED
  BY <1>1, <1>2, <1>3 DEF Inv

LEMMA InvNext == Inv /\ [Next]_vars => Inv'
<1> SUFFICES ASSUME Inv, [Next]_vars PROVE Inv'
  OBVIOUS
<1>1. CASE ProcessStep
  BY <1>1, ProcessInv
<1>2. ASSUME NEW c \in Calls, CallStep(c) PROVE Inv'
  BY <1>2, NewStreamInv, SendMsgInv, CloseSendInv, RecvInv, RecvEndInv,
     InvokeInv, InvokeEndInv, ArriveInv, ReceiveInv, SendInv,
     ReturnStreamInv, ReturnUnaryInv, CutInv DEF CallStep
<1>3. CASE UNCHANGED vars
  <2>1. Types' /\ ServerOK'
    BY <1>3 DEF Inv, Types, ServerOK, Up, Returned, vars, serverVars,
                callerVars, streamVars, history
  <2>2. \A c \in Calls : Same(c)
    BY <1>3 DEF Same, vars, callerVars, streamVars, history
  <2>3. \A c \in Calls : CallOK(c)'
    BY <2>2, SameCallOK DEF Inv
  <2> QED
    BY <2>1, <2>3 DEF Inv
<1> QED
  BY <1>1, <1>2, <1>3 DEF Next

LEMMA Invariance == Spec => []Inv
BY InvInit, InvNext, PTL DEF Spec

\* The variables have their types, whatever programs are started and stopped
\* and whatever breaks.
THEOREM TypesOfCalls == Spec => []TypeOK
<1>1. ASSUME Inv PROVE TypeOK
  <2>1. \A c \in Calls : /\ wire[c] \in Seq(Items) /\ got[c] \in Seq(Items)
                         /\ made[c] \in Seq(Items)
    BY <1>1, Lengths DEF Inv
  <2>2. \A c \in Calls : Len(made[c]) <= MaxItems
    BY <1>1 DEF Inv, CallOK, EnteredOK
  <2> QED
    BY <1>1, <2>1, <2>2 DEF Inv, Types, TypeOK
<1> QED
  BY <1>1, Invariance, PTL

\* A method runs only on the request its caller passed and sent.
THEOREM RunsOnWhatWasSent == Spec => []EnteredWithRequest
<1>1. ASSUME Inv PROVE EnteredWithRequest
  BY <1>1 DEF Inv, CallOK, RequestOK, EnteredOK, EnteredWithRequest
<1> QED
  BY <1>1, Invariance, PTL

-----------------------------------------------------------------------------
(* The tables of stubs and descriptors.                                    *)

LEMMA ServiceNames ==
  /\ Services = DOMAIN Client
  /\ Services =
       {"DeviceRegistrationV1alpha", "DevicePluginV1alpha",
        "DeviceRegistrationV1beta1", "DevicePluginV1beta1",
        "DRAPluginV1beta1", "DRAPluginV1", "DRAHealthV1alpha1",
        "PluginRegistrationV1alpha1", "PluginRegistrationV1beta1",
        "PluginRegistrationV1", "PodResourcesV1alpha1", "PodResourcesV1",
        "PodsV1alpha1"}
BY DEF Services, Client, ServiceDesc

\* The tables of service s fit each other, and name is its wire name.
Fit(s, name) ==
  /\ ServiceDesc[s].name = name
  /\ DOMAIN ServiceDesc[s].handler = DOMAIN Client[s].path
  /\ \A m \in DOMAIN Client[s].path :
       /\ Client[s].path[m] = <<name, m>>
       /\ ServiceDesc[s].handler[m] = m

LEMMA ServiceTables ==
  /\ Fit("DeviceRegistrationV1alpha", "deviceplugin.Registration")
  /\ Fit("DevicePluginV1alpha", "deviceplugin.DevicePlugin")
  /\ Fit("DeviceRegistrationV1beta1", "v1beta1.Registration")
  /\ Fit("DevicePluginV1beta1", "v1beta1.DevicePlugin")
  /\ Fit("DRAPluginV1beta1", "k8s.io.kubelet.pkg.apis.dra.v1beta1.DRAPlugin")
  /\ Fit("DRAPluginV1", "k8s.io.kubelet.pkg.apis.dra.v1.DRAPlugin")
  /\ Fit("DRAHealthV1alpha1", "v1alpha1.DRAResourceHealth")
  /\ Fit("PluginRegistrationV1alpha1", "pluginregistration.Registration")
  /\ Fit("PluginRegistrationV1beta1", "pluginregistration.Registration")
  /\ Fit("PluginRegistrationV1", "pluginregistration.Registration")
  /\ Fit("PodResourcesV1alpha1", "v1alpha1.PodResourcesLister")
  /\ Fit("PodResourcesV1", "v1.PodResourcesLister")
  /\ Fit("PodsV1alpha1", "v1alpha1.Pods")
<1>1. Fit("DeviceRegistrationV1alpha", "deviceplugin.Registration")
  BY DEF Fit, Client, ServiceDesc, Stubs, Desc,
         DeviceRegistrationV1alphaClient, DeviceRegistrationV1alphaDesc
<1>2. Fit("DevicePluginV1alpha", "deviceplugin.DevicePlugin")
  BY DEF Fit, Client, ServiceDesc, Stubs, Desc,
         DevicePluginV1alphaClient, DevicePluginV1alphaDesc
<1>3. Fit("DeviceRegistrationV1beta1", "v1beta1.Registration")
  BY DEF Fit, Client, ServiceDesc, Stubs, Desc,
         DeviceRegistrationV1beta1Client, DeviceRegistrationV1beta1Desc
<1>4. Fit("DevicePluginV1beta1", "v1beta1.DevicePlugin")
  BY DEF Fit, Client, ServiceDesc, Stubs, Desc,
         DevicePluginV1beta1Client, DevicePluginV1beta1Desc
<1>5. Fit("DRAPluginV1beta1",
         "k8s.io.kubelet.pkg.apis.dra.v1beta1.DRAPlugin")
  BY DEF Fit, Client, ServiceDesc, Stubs, Desc,
         DRAPluginV1beta1Client, DRAPluginV1beta1Desc
<1>6. Fit("DRAPluginV1", "k8s.io.kubelet.pkg.apis.dra.v1.DRAPlugin")
  BY DEF Fit, Client, ServiceDesc, Stubs, Desc,
         DRAPluginV1Client, DRAPluginV1Desc
<1>7. Fit("DRAHealthV1alpha1", "v1alpha1.DRAResourceHealth")
  BY DEF Fit, Client, ServiceDesc, Stubs, Desc,
         DRAHealthV1alpha1Client, DRAHealthV1alpha1Desc
<1>8. Fit("PluginRegistrationV1alpha1", "pluginregistration.Registration")
  BY DEF Fit, Client, ServiceDesc, Stubs, Desc,
         PluginRegistrationV1alpha1Client, PluginRegistrationV1alpha1Desc
<1>9. Fit("PluginRegistrationV1beta1", "pluginregistration.Registration")
  BY DEF Fit, Client, ServiceDesc, Stubs, Desc,
         PluginRegistrationV1beta1Client, PluginRegistrationV1beta1Desc
<1>10. Fit("PluginRegistrationV1", "pluginregistration.Registration")
  BY DEF Fit, Client, ServiceDesc, Stubs, Desc,
         PluginRegistrationV1Client, PluginRegistrationV1Desc
<1>11. Fit("PodResourcesV1alpha1", "v1alpha1.PodResourcesLister")
  BY DEF Fit, Client, ServiceDesc, Stubs, Desc,
         PodResourcesV1alpha1Client, PodResourcesV1alpha1Desc
<1>12. Fit("PodResourcesV1", "v1.PodResourcesLister")
  BY DEF Fit, Client, ServiceDesc, Stubs, Desc,
         PodResourcesV1Client, PodResourcesV1Desc
<1>13. Fit("PodsV1alpha1", "v1alpha1.Pods")
  BY DEF Fit, Client, ServiceDesc, Stubs, Desc,
         PodsV1alpha1Client, PodsV1alpha1Desc
<1> QED
  BY <1>1, <1>2, <1>3, <1>4, <1>5, <1>6, <1>7, <1>8, <1>9, <1>10, <1>11,
     <1>12, <1>13

\* Two services have one name on the wire only if they are versions of the
\* registration API, and those have the same methods.
LEMMA NamesTell ==
  ASSUME NEW s \in Services, NEW t \in Services
  PROVE  /\ ServiceDesc[s].name = ServiceDesc[t].name <=> SameApi(s, t)
         /\ SameApi(s, t) => DOMAIN Client[s].path = DOMAIN Client[t].path
<1>1. \A v \in RegistrationVersions :
        /\ v \in Services
        /\ ServiceDesc[v].name = "pluginregistration.Registration"
        /\ DOMAIN Client[v].path = {"GetInfo", "NotifyRegistrationStatus"}
  BY ServiceNames, ServiceTables
     DEF RegistrationVersions, Fit, Client, Stubs, PluginRegistrationV1Client,
         PluginRegistrationV1beta1Client, PluginRegistrationV1alpha1Client
<1>2. ASSUME ServiceDesc[s].name = ServiceDesc[t].name
      PROVE  SameApi(s, t)
  BY <1>2, ServiceNames, ServiceTables DEF Fit, SameApi, RegistrationVersions
<1> QED
  BY <1>1, <1>2 DEF SameApi

LEMMA PathsAndHandlers ==
  ASSUME NEW s \in Services, NEW m \in DOMAIN Client[s].path
  PROVE  /\ Client[s].path[m] = <<ServiceDesc[s].name, m>>
         /\ DOMAIN ServiceDesc[s].handler = DOMAIN Client[s].path
         /\ ServiceDesc[s].handler[m] = m
BY ServiceNames, ServiceTables DEF Fit

\* Only Arrive and Receive of a call make its method run, or tell its caller
\* that there is none when the method has not said so.
Quiet(c) ==
  /\ entered'[c] = entered[c]
  /\ status'[c] = "Unimplemented" =>
       status[c] = "Unimplemented" \/ outcome'[c] = "Unimplemented"

LEMMA CutIsQuiet ==
  ASSUME Inv, NEW c \in Calls, NEW d \in Calls,
         NEW code \in {"Canceled", "Unavailable"},
         Cut({d}, code), UNCHANGED history
  PROVE  Quiet(c)
<1>1. code \in Errors /\ code # "Unimplemented"
  BY DEF Errors
<1>2. /\ \A b \in Calls \ {d} : status'[b] = status[b]
      /\ status'[d] \in {status[d], code}
  BY <1>1, CutStream DEF Inv
<1> QED
  BY <1>1, <1>2 DEF Quiet, history

LEMMA QuietSteps ==
  ASSUME Inv, NEW c \in Calls, NEW d \in Calls, CallStep(d)
  PROVE  Quiet(c) \/ (c = d /\ (Arrive(c) \/ Receive(c)))
<1>1. CASE NewStream(d) \/ CloseSend(d) \/ RecvEnd(d) \/ Invoke(d)
  BY <1>1 DEF NewStream, CloseSend, RecvEnd, Invoke, Quiet, streamVars, history
<1>2. CASE Recv(d) \/ InvokeEnd(d) \/ Send(d)
  BY <1>2 DEF Recv, InvokeEnd, Send, Quiet, streamVars, history
<1>3. CASE SendMsg(d)
  <2>1. CASE Cut({d}, "Canceled")
    BY <1>3, <2>1, CutIsQuiet DEF SendMsg
  <2>2. CASE status' = status
    BY <1>3, <2>2 DEF SendMsg, Quiet, history
  <2> QED
    BY <1>3, <2>1, <2>2 DEF SendMsg
<1>4. CASE Break(d) \/ Cancel(d)
  BY <1>4, CutIsQuiet DEF Break, Cancel
<1>5. CASE ReturnStream(d) \/ ReturnUnary(d)
  <2>1. PICK code \in Errors \cup {"OK"} :
          Finish(d, code) /\ outcome' = [outcome EXCEPT ![d] = code]
    BY <1>5 DEF ReturnStream, ReturnUnary
  <2>2. entered' = entered
    BY <1>5 DEF ReturnStream, ReturnUnary
  <2>3. /\ \A b \in Calls \ {d} : status'[b] = status[b]
        /\ status'[d] \in {code, status[d]}
        /\ outcome'[d] = code
    BY <2>1, Finished DEF Inv, Types
  <2> QED
    BY <2>2, <2>3 DEF Quiet
<1>6. CASE Arrive(d) /\ c # d
  <2>1. /\ entered' = entered
        /\ Finish(d, "Unimplemented") \/ status' = status
    BY <1>6 DEF Arrive, history
  <2> QED
    BY <1>6, <2>1, Finished DEF Inv, Errors, Quiet
<1>7. CASE Receive(d) /\ c # d
  <2>1. CASE Began(d)
    BY <1>7, <2>1 DEF Began, Quiet, Inv, Types
  <2>2. CASE Refused(d)
    BY <1>7, <2>2, Finished DEF Refused, Quiet, Inv, Errors
  <2> QED
    BY <1>7, <2>1, <2>2, Received
<1> QED
  BY <1>1, <1>2, <1>3, <1>4, <1>5, <1>6, <1>7 DEF CallStep

LEMMA ProcessIsQuiet ==
  ASSUME Inv, NEW c \in Calls, ProcessStep
  PROVE  Quiet(c)
<1>1. ASSUME GoDown PROVE Quiet(c)
  <2> DEFINE C == {d \in Calls : Up(d)}
  <2>1. C \in SUBSET Calls /\ "Unavailable" \in Errors /\ Cut(C, "Unavailable")
    BY <1>1 DEF GoDown, Errors
  <2> HIDE DEF C
  <2>2. status'[c] \in {status[c], "Unavailable"}
    BY <2>1, CutStreams, ZenonT(60) DEF Inv
  <2> QED
    BY <1>1, <2>2 DEF GoDown, Quiet, history
<1>2. ASSUME UNCHANGED <<streamVars, history>> PROVE Quiet(c)
  BY <1>2 DEF Quiet, streamVars, history
<1> QED
  BY <1>1, <1>2 DEF ProcessStep, Register, Serve, Stop, Restart

\* Where the path of a stub leads.
LEMMA Leads ==
  ASSUME Inv, NEW c \in Calls, link[c] # "none", client[c] # "idle"
  PROVE  /\ stub[c].service \in Services
         /\ stub[c].method \in DOMAIN Client[stub[c].service].path
         /\ PathOf(c)[2] = stub[c].method
         /\ \A t \in Services :
              t \in Targets(c) <=> t \in services /\ SameApi(t, stub[c].service)
         /\ \A t \in Targets(c) :
              /\ t \in Services
              /\ stub[c].method \in DOMAIN ServiceDesc[t].handler
              /\ ServiceDesc[t].handler[stub[c].method] = stub[c].method
<1> DEFINE s == stub[c].service
           m == stub[c].method
<1>1. stub[c] \in Stub
  BY StubsAssumption DEF Inv, CallOK, RequestOK
<1>2. s \in Services /\ m \in DOMAIN Client[s].path
  BY <1>1 DEF Stub
<1> HIDE DEF s, m
<1>3. PathOf(c) = Client[s].path[m]
  BY DEF PathOf, s, m
<1>4. PathOf(c) = <<ServiceDesc[s].name, m>>
  BY <1>2, <1>3, PathsAndHandlers
<1>5. services \subseteq Services
  BY BuildsAssumption DEF Inv, Types, Build
<1>6. \A t \in Services :
        t \in Targets(c) <=> t \in services /\ SameApi(t, s)
  BY <1>2, <1>4, NamesTell DEF Targets
<1>7. ASSUME NEW t \in Targets(c)
      PROVE  /\ t \in Services
             /\ m \in DOMAIN ServiceDesc[t].handler
             /\ ServiceDesc[t].handler[m] = m
  <2>1. t \in Services /\ SameApi(t, s)
    BY <1>5, <1>6 DEF Targets
  <2>2. m \in DOMAIN Client[t].path
    BY <1>2, <2>1, NamesTell
  <2> QED
    BY <2>1, <2>2, PathsAndHandlers
<1> QED
  BY <1>2, <1>4, <1>6, <1>7 DEF s, m

\* A server that serves and does not find the method, or does not define it,
\* does not implement the stub's method.
LEMMA NotImplemented ==
  ASSUME Inv, NEW c \in Calls, link[c] # "none", client[c] # "idle",
         process = "serving",
         \A t \in Targets(c) :
           \/ PathOf(c)[2] \notin DOMAIN ServiceDesc[t].handler
           \/ <<t, ServiceDesc[t].handler[PathOf(c)[2]]>>
                \notin build.implements
  PROVE  ~Implemented(stub[c])
<1> SUFFICES ASSUME Implemented(stub[c]) PROVE FALSE
  OBVIOUS
<1>1. PICK t \in build.serves : /\ SameApi(stub[c].service, t)
                                /\ <<t, stub[c].method>> \in build.implements
  BY DEF Implemented
<1>2. t \in services /\ t \in Services
  BY BuildsAssumption DEF Inv, ServerOK, Types, Build
<1>3. t \in Targets(c)
  BY <1>1, <1>2, Leads DEF SameApi
<1> QED
  BY <1>1, <1>3, Leads

LEMMA ReachesStep ==
  ASSUME Inv, NEW c \in Calls, [Next]_vars
  PROVE  /\ entered[c] = Nil /\ entered'[c] # Nil =>
              /\ entered'[c].method = stub[c].method
              /\ SameApi(entered'[c].service, stub[c].service)
         /\ status[c] # "Unimplemented" /\ status'[c] = "Unimplemented" =>
              outcome'[c] = "Unimplemented" \/ ~Implemented(stub[c])
<1>1. CASE Quiet(c)
  BY <1>1 DEF Quiet
<1>2. CASE Arrive(c)
  <2>1. /\ entered' = entered /\ process = "serving" /\ link[c] = "up"
        /\ \/ status' = status
           \/ \A t \in Targets(c) :
                PathOf(c)[2] \notin DOMAIN ServiceDesc[t].handler
    BY <1>2 DEF Arrive, Up, history
  <2>2. client[c] # "idle"
    BY <2>1 DEF Inv, CallOK, RequestOK
  <2> QED
    BY <2>1, <2>2, NotImplemented
<1>3. CASE Receive(c)
  <2>1. handler[c] = "receiving" /\ (Began(c) \/ Refused(c))
    BY <1>3, Received
  <2>2. /\ link[c] # "none" /\ client[c] # "idle" /\ process = "serving"
    BY <2>1 DEF Inv, CallOK, RequestOK, ServerOK
  <2>3. CASE Began(c)
    <3>1. PICK t \in Targets(c), n \in Methods :
            /\ n = ServiceDesc[t].handler[PathOf(c)[2]]
            /\ entered' = [entered EXCEPT ![c] =
                             [service |-> t, method |-> n, m |-> up[c]]]
      BY <2>3 DEF Began
    <3>2. entered'[c] = [service |-> t, method |-> n, m |-> up[c]]
      BY <3>1 DEF Inv, Types
    <3>3. n = stub[c].method /\ SameApi(t, stub[c].service)
      BY <2>2, <3>1, Leads
    <3> QED
      BY <2>3, <3>2, <3>3 DEF Began
  <2>4. CASE Refused(c)
    <3>1. ASSUME NEW code \in Errors, Finish(c, code),
                 \/ outcome' = [outcome EXCEPT ![c] = code]
                 \/ code = "Canceled"
          PROVE  status'[c] = "Unimplemented" =>
                   \/ status[c] = "Unimplemented"
                   \/ outcome'[c] = "Unimplemented"
      BY <3>1, Finished DEF Inv, Types
    <3>2. CASE \E t \in Targets(c) :
                 <<t, ServiceDesc[t].handler[PathOf(c)[2]]>>
                   \notin build.implements
      <4>1. \A r, t \in Targets(c) : r = t
        BY DEF Targets, Inv, ServerOK
      <4> QED
        BY <2>2, <2>4, <3>2, <4>1, NotImplemented DEF Refused
    <3> QED
      BY <2>4, <3>1, <3>2 DEF Refused, Errors
  <2> QED
    BY <2>1, <2>3, <2>4
<1>4. CASE UNCHANGED vars
  BY <1>4 DEF vars, streamVars, history
<1>5. \/ Quiet(c) \/ Arrive(c) \/ Receive(c) \/ UNCHANGED vars
  <2>1. CASE ProcessStep
    BY <2>1, ProcessIsQuiet
  <2>2. ASSUME NEW d \in Calls, CallStep(d)
        PROVE  Quiet(c) \/ Arrive(c) \/ Receive(c)
    BY <2>2, QuietSteps
  <2> QED
    BY <2>1, <2>2 DEF Next
<1> QED
  BY <1>1, <1>2, <1>3, <1>4, <1>5

\* A stub leads to the method it is named for; and where neither that method
\* nor an interceptor has said "Unimplemented", only the callers of a program
\* that does not define the method are told so, for any server programs and
\* any number of calls.
THEOREM StubsReachTheirMethods == Spec => ReachesMethod
<1> DEFINE Reaches ==
      \A c \in Calls :
        /\ entered[c] = Nil /\ entered'[c] # Nil =>
             /\ entered'[c].method = stub[c].method
             /\ SameApi(entered'[c].service, stub[c].service)
        /\ status[c] # "Unimplemented" /\ status'[c] = "Unimplemented" =>
             outcome'[c] = "Unimplemented" \/ ~Implemented(stub[c])
<1>1. Inv /\ [Next]_vars => Reaches
  BY ReachesStep
<1> QED
  BY <1>1, Invariance, PTL DEF Spec, ReachesMethod

-----------------------------------------------------------------------------
(* The calls implement Feed: every step of a call is a step of its feed.   *)

LEMMA WholeStream ==
  ASSUME NEW S, NEW g \in Seq(S), NEW m \in Seq(S),
         Begun(g, <<>>, m), Whole(g, <<>>, m)
  PROVE  g = m
<1>1. Len(g) = Len(m)
  BY DEF Whole
<1>2. \A i \in 1..Len(g) : g[i] = m[i]
  BY DEF Begun
<1> QED
  BY <1>1, <1>2

LEMMA WholeAnswer ==
  ASSUME NEW S, NEW w \in Seq(S), NEW m \in Seq(S),
         Begun(<<>>, w, m), Whole(<<>>, w, m)
  PROVE  w = m
<1>1. Len(w) = Len(m)
  BY DEF Whole
<1>2. \A i \in 1..Len(w) : w[i] = m[i]
  <2>1. \A i \in 1..Len(w) : w[i] = m[Len(<<>>) + i]
    BY DEF Begun
  <2>2. \A i \in 1..Len(w) : Len(<<>>) + i = i
    OBVIOUS
  <2> QED
    BY <2>1, <2>2
<1> QED
  BY <1>1, <1>2

\* Where a call of the feed is.
LEMMA FeedOf ==
  ASSUME NEW c \in Calls
  PROVE  /\ Phase[c] = IF client[c] \in {"idle", "over", "failed"}
                       THEN client[c] ELSE "open"
         /\ entered[c] = Nil => Run[c] = "never"
         /\ entered[c] # Nil /\ outcome[c] = Nil => Run[c] = "going on"
         /\ entered[c] # Nil /\ outcome[c] = "OK" => Run[c] = "succeeded"
         /\ entered[c] # Nil /\ outcome[c] \in Errors => Run[c] = "failed"
BY NilAssumption DEF Phase, Run, RunOf, Errors

LEMMA FeedOfNext ==
  ASSUME NEW c \in Calls
  PROVE  /\ Phase'[c] = IF client'[c] \in {"idle", "over", "failed"}
                        THEN client'[c] ELSE "open"
         /\ entered'[c] = Nil => Run'[c] = "never"
         /\ entered'[c] # Nil /\ outcome'[c] = Nil => Run'[c] = "going on"
         /\ entered'[c] # Nil /\ outcome'[c] = "OK" => Run'[c] = "succeeded"
         /\ entered'[c] # Nil /\ outcome'[c] \in Errors => Run'[c] = "failed"
BY NilAssumption DEF Phase, Run, RunOf, Errors

LEMMA PhaseSteps ==
  ASSUME NEW c \in Calls, client' = [client EXCEPT ![c] = client'[c]],
         client \in [Calls -> {"idle", "opened", "sent", "reading", "invoking",
                              "over", "failed"}]
  PROVE  Phase' = [Phase EXCEPT ![c] = Phase'[c]]
BY DEF Phase

LEMMA RunSteps ==
  ASSUME NEW c \in Calls, \A d \in Calls \ {c} : Run'[d] = Run[d]
  PROVE  Run' = [Run EXCEPT ![c] = Run'[c]]
<1>1. DOMAIN Run = Calls
  BY DEF Run
<1>2. Run' = [d \in Calls |-> Run'[d]]
  BY DEF Run
<1>3. [Run EXCEPT ![c] = Run'[c]]
        = [d \in Calls |-> IF d = c THEN Run'[c] ELSE Run[d]]
  BY <1>1
<1>4. [d \in Calls |-> Run'[d]]
        = [d \in Calls |-> IF d = c THEN Run'[c] ELSE Run[d]]
  OBVIOUS
<1>5. Run' = [d \in Calls |-> IF d = c THEN Run'[c] ELSE Run[d]]
  BY <1>2, <1>4, Zenon
<1> QED
  BY <1>3, <1>5, Zenon

LEMMA RunStays == entered' = entered /\ outcome' = outcome => Run' = Run
BY DEF Run, RunOf

LEMMA PhaseStays == client' = client => Phase' = Phase
BY DEF Phase

\* A step of the caller alone.
LEMMA FeedCaller ==
  ASSUME Inv, NEW c \in Calls, UNCHANGED <<got, history>>,
         client' = [client EXCEPT ![c] = client'[c]],
         \/ client[c] = "idle" /\ client'[c] \in {"opened", "invoking", "failed"}
         \/ client[c] = "opened" /\ client'[c] \in {"sent", "failed"}
         \/ client[c] = "sent" /\ client'[c] \in {"reading", "failed"}
         \/ client[c] \in {"reading", "invoking"} /\ client'[c] = "failed"
  PROVE  [CallFeed!Next]_(CallFeed!vars)
<1>1. Phase' = [Phase EXCEPT ![c] = Phase'[c]]
  BY PhaseSteps DEF Inv, Types
<1>2. Run' = Run /\ made' = made /\ got' = got
  BY RunStays DEF history
<1>3. CASE client[c] = "idle" /\ client'[c] \in {"opened", "invoking"}
  <2>1. Phase[c] = "idle" /\ Phase'[c] = "open"
    BY <1>3, FeedOf, FeedOfNext
  <2>2. CallFeed!Submit(c)
    BY <1>1, <1>2, <2>1 DEF CallFeed!Submit
  <2> QED
    BY <2>2 DEF CallFeed!Next
<1>4. CASE client'[c] = "failed"
  <2>1. Phase[c] \in {"idle", "open"} /\ Phase'[c] = "failed"
    BY <1>4, FeedOf, FeedOfNext
  <2>2. CallFeed!Fail(c)
    BY <1>1, <1>2, <2>1 DEF CallFeed!Fail
  <2> QED
    BY <2>2 DEF CallFeed!Next
<1>5. CASE client[c] # "idle" /\ client'[c] \in {"sent", "reading"}
  <2>1. Phase[c] = "open" /\ Phase'[c] = "open"
    BY <1>5, FeedOf, FeedOfNext
  <2>2. Phase' = Phase
    BY <1>1, <2>1 DEF Phase
  <2> QED
    BY <1>2, <2>2 DEF CallFeed!vars
<1> QED
  BY <1>3, <1>4, <1>5

\* The caller is told that its call is over.
LEMMA FeedEnd ==
  ASSUME Inv, NEW c \in Calls, UNCHANGED history,
         client' = [client EXCEPT ![c] = "over"],
         client[c] \in {"reading", "invoking"},
         status[c] = "OK",
         got' = [got EXCEPT ![c] = made[c]]
  PROVE  CallFeed!Next
<1>1. Phase' = [Phase EXCEPT ![c] = Phase'[c]]
  <2>1. client'[c] = "over"
    BY DEF Inv, Types
  <2> QED
    BY <2>1, PhaseSteps DEF Inv, Types
<1>2. Run' = Run /\ made' = made
  BY RunStays DEF history
<1>3. Phase[c] = "open" /\ Phase'[c] = "over"
  BY FeedOf, FeedOfNext DEF Inv, Types
<1>4. outcome[c] = "OK" /\ entered[c] # Nil
  BY NilAssumption DEF Inv, CallOK, StatusOK, EnteredOK
<1>5. Run[c] = "succeeded"
  BY <1>4, FeedOf
<1>6. CallFeed!End(c)
  BY <1>1, <1>2, <1>3, <1>5 DEF CallFeed!End
<1> QED
  BY <1>6 DEF CallFeed!Next

LEMMA FeedRecvEnd ==
  ASSUME Inv, NEW c \in Calls, RecvEnd(c)
  PROVE  [CallFeed!Next]_(CallFeed!vars)
<1>1. CASE status[c] = "OK"
  <2>1. /\ client' = [client EXCEPT ![c] = "over"]
        /\ client[c] = "reading" /\ wire[c] = <<>>
        /\ got' = got /\ UNCHANGED history
    BY <1>1 DEF RecvEnd
  <2>2. Begun(got[c], <<>>, made[c]) /\ Whole(got[c], <<>>, made[c])
    BY <1>1, <2>1 DEF Inv, CallOK, DataOK, Returned
  <2>3. got[c] \in Seq(Items) /\ made[c] \in Seq(Items)
    BY Lengths DEF Inv
  <2>4. got[c] = made[c]
    BY <2>2, <2>3, WholeStream
  <2>5. got' = [got EXCEPT ![c] = made[c]]
    BY <2>1, <2>4 DEF Inv, Types
  <2> QED
    BY <1>1, <2>1, <2>5, FeedEnd
<1>2. CASE status[c] # "OK"
  <2>1. /\ client' = [client EXCEPT ![c] = client'[c]]
        /\ client[c] = "reading" /\ client'[c] = "failed"
        /\ UNCHANGED <<got, history>>
    BY <1>2 DEF RecvEnd, Inv, Types
  <2> QED
    BY <2>1, FeedCaller
<1> QED
  BY <1>1, <1>2

LEMMA FeedInvokeEnd ==
  ASSUME Inv, NEW c \in Calls, InvokeEnd(c)
  PROVE  [CallFeed!Next]_(CallFeed!vars)
<1>1. CASE status[c] = "OK"
  <2>1. /\ client' = [client EXCEPT ![c] = "over"]
        /\ client[c] = "invoking"
        /\ got' = [got EXCEPT ![c] = wire[c]]
        /\ UNCHANGED history
    BY <1>1 DEF InvokeEnd, StubResult
  <2>2. Begun(<<>>, wire[c], made[c]) /\ Whole(<<>>, wire[c], made[c])
    BY <1>1, <2>1 DEF Inv, CallOK, DataOK, Returned
  <2>3. wire[c] \in Seq(Items) /\ made[c] \in Seq(Items)
    BY Lengths DEF Inv
  <2>4. wire[c] = made[c]
    BY <2>2, <2>3, WholeAnswer
  <2> QED
    BY <1>1, <2>1, <2>4, FeedEnd
<1>2. CASE status[c] # "OK"
  <2>1. /\ client' = [client EXCEPT ![c] = client'[c]]
        /\ client[c] = "invoking" /\ client'[c] = "failed"
        /\ UNCHANGED <<got, history>>
    BY <1>2 DEF InvokeEnd, StubResult, Inv, Types
  <2> QED
    BY <2>1, FeedCaller
<1> QED
  BY <1>1, <1>2

LEMMA FeedRecv ==
  ASSUME Inv, NEW c \in Calls, Recv(c)
  PROVE  CallFeed!Next
<1>1. /\ client[c] = "reading" /\ wire[c] # <<>>
      /\ got' = [got EXCEPT ![c] = Append(@, Head(wire[c]))]
      /\ client' = client /\ UNCHANGED history
  BY DEF Recv
<1>2. Phase' = Phase /\ Run' = Run /\ made' = made
  BY <1>1, RunStays, PhaseStays DEF history
<1>3. Phase[c] = "open"
  BY <1>1, FeedOf
<1>4. Begun(got[c], wire[c], made[c])
  BY <1>1 DEF Inv, CallOK, DataOK, Returned
<1>5. /\ wire[c] \in Seq(Items) /\ got[c] \in Seq(Items)
      /\ made[c] \in Seq(Items)
  BY Lengths DEF Inv
<1>6. Head(wire[c]) = made[c][Len(got[c]) + 1] /\ Len(got[c]) < Len(made[c])
  BY <1>1, <1>4, <1>5, Delivered
<1>7. got' = [got EXCEPT ![c] = Append(@, made[c][Len(@) + 1])]
  BY <1>1, <1>6
<1>8. CallFeed!Deliver(c)
  BY <1>2, <1>3, <1>6, <1>7 DEF CallFeed!Deliver
<1> QED
  BY <1>8 DEF CallFeed!Next

LEMMA FeedReceive ==
  ASSUME Inv, NEW c \in Calls, Receive(c)
  PROVE  [CallFeed!Next]_(CallFeed!vars)
<1>1. /\ handler[c] = "receiving"
      /\ client' = client /\ got' = got /\ made' = made
      /\ Began(c) \/ Refused(c)
  BY Received DEF callerVars
<1>2. Phase' = Phase
  BY <1>1, PhaseStays
<1>3. CASE Began(c)
  <2>1. entered[c] = Nil /\ outcome[c] = Nil /\ client[c] # "idle"
    BY <1>1 DEF Inv, CallOK, EnteredOK, RequestOK
  <2>2. PICK e \in Entry \ {Nil} : entered' = [entered EXCEPT ![c] = e]
    BY <1>3 DEF Began
  <2>3. entered'[c] # Nil
    BY <2>2 DEF Inv, Types
  <2>4. Run[c] = "never" /\ Run'[c] = "going on" /\ Phase[c] # "idle"
    BY <1>1, <1>3, <2>1, <2>3, FeedOf, FeedOfNext DEF Began
  <2>5. \A d \in Calls \ {c} : Run'[d] = Run[d]
    BY <1>3, <2>2 DEF Began, Run, RunOf, Inv, Types
  <2>6. Run' = [Run EXCEPT ![c] = "going on"]
    BY <2>4, <2>5, RunSteps
  <2>7. CallFeed!Begin(c)
    BY <1>1, <1>2, <2>4, <2>6 DEF CallFeed!Begin
  <2> QED
    BY <2>7 DEF CallFeed!Next
<1>4. CASE Refused(c)
  <2>1. entered[c] = Nil /\ entered' = entered
    BY <1>1, <1>4 DEF Inv, CallOK, EnteredOK, Refused
  <2>2. \A d \in Calls \ {c} : outcome'[d] = outcome[d]
    BY <1>4 DEF Refused, Inv, Types
  <2>3. Run' = Run
    BY <2>1, <2>2 DEF Run, RunOf
  <2> QED
    BY <1>1, <1>2, <2>3 DEF CallFeed!vars
<1> QED
  BY <1>1, <1>3, <1>4

LEMMA FeedSend ==
  ASSUME Inv, NEW c \in Calls, Send(c)
  PROVE  CallFeed!Next
<1>1. /\ handler[c] = "running"
      /\ client' = client /\ got' = got
      /\ entered' = entered /\ outcome' = outcome
      /\ \E x \in Items : made' = [made EXCEPT ![c] = Append(@, x)]
  BY DEF Send, callerVars
<1>2. Phase' = Phase /\ Run' = Run
  BY <1>1, RunStays, PhaseStays
<1>3. Run[c] = "going on"
  <2>1. entered[c] # Nil /\ outcome[c] = Nil
    BY <1>1 DEF Inv, CallOK, EnteredOK
  <2> QED
    BY <2>1, FeedOf
<1>4. CallFeed!Produce(c)
  BY <1>1, <1>2, <1>3 DEF CallFeed!Produce
<1> QED
  BY <1>4 DEF CallFeed!Next

\* A method returns.
LEMMA FeedReturn ==
  ASSUME Inv, NEW c \in Calls, NEW code \in Errors \cup {"OK"},
         handler[c] = "running",
         client' = client, got' = got, entered' = entered,
         outcome' = [outcome EXCEPT ![c] = code],
         \/ made' = made
         \/ /\ code = "OK"
            /\ \E x \in Items : made' = [made EXCEPT ![c] = Append(@, x)]
  PROVE  CallFeed!Next
<1>1. Phase' = Phase
  BY PhaseStays
<1>2. entered[c] # Nil /\ outcome[c] = Nil /\ outcome'[c] = code
  BY DEF Inv, CallOK, EnteredOK, Types
<1>3. Run[c] = "going on"
  BY <1>2, FeedOf
<1>4. Run'[c] = IF code = "OK" THEN "succeeded" ELSE "failed"
  BY <1>2, FeedOfNext DEF Errors
<1>5. \A d \in Calls \ {c} : Run'[d] = Run[d]
  BY DEF Run, RunOf, Inv, Types
<1>6. Run' = [Run EXCEPT ![c] = Run'[c]]
  BY <1>5, RunSteps
<1>7. CallFeed!Finish(c)
  BY <1>1, <1>3, <1>4, <1>6 DEF CallFeed!Finish
<1> QED
  BY <1>7 DEF CallFeed!Next

LEMMA FeedReturnUnary ==
  ASSUME Inv, NEW c \in Calls, ReturnUnary(c)
  PROVE  CallFeed!Next
<1>1. /\ handler[c] = "running" /\ ~ServedAsStream(c)
      /\ client' = client /\ got' = got /\ entered' = entered
  BY DEF ReturnUnary, callerVars
<1>2. ASSUME NEW code \in Errors, outcome' = [outcome EXCEPT ![c] = code],
             made' = made
      PROVE  CallFeed!Next
  BY <1>1, <1>2, FeedReturn
<1>3. ASSUME NEW x \in Items, made' = [made EXCEPT ![c] = <<x>>],
             outcome' = [outcome EXCEPT ![c] = "OK"]
      PROVE  CallFeed!Next
  <2>1. made[c] = <<>>
    BY <1>1 DEF Inv, CallOK, EnteredOK
  <2>2. made' = [made EXCEPT ![c] = Append(@, x)]
    BY <1>3, <2>1
  <2> QED
    BY <1>1, <1>3, <2>2, FeedReturn
<1> QED
  BY <1>2, <1>3 DEF ReturnUnary

LEMMA FeedStep ==
  ASSUME Inv, NEW c \in Calls, CallStep(c)
  PROVE  [CallFeed!Next]_(CallFeed!vars)
<1>1. CASE NewStream(c) \/ Invoke(c) \/ SendMsg(c) \/ CloseSend(c)
  <2>1. /\ client' = [client EXCEPT ![c] = client'[c]]
        /\ UNCHANGED <<got, history>>
    BY <1>1 DEF NewStream, Invoke, SendMsg, CloseSend, Step, Inv, Types
  <2>2. \/ client[c] = "idle" /\ client'[c] \in {"opened", "invoking", "failed"}
        \/ client[c] = "opened" /\ client'[c] \in {"sent", "failed"}
        \/ client[c] = "sent" /\ client'[c] \in {"reading", "failed"}
    BY <1>1 DEF NewStream, Invoke, SendMsg, CloseSend, Step, Inv, Types
  <2> QED
    BY <2>1, <2>2, FeedCaller
<1>2. CASE Arrive(c) \/ Break(c) \/ Cancel(c)
  <2>1. UNCHANGED <<client, got, entered, outcome, made>>
    BY <1>2 DEF Arrive, Break, Cancel, callerVars, history
  <2> QED
    BY <2>1, RunStays, PhaseStays DEF CallFeed!vars
<1>3. CASE ReturnStream(c)
  <2>1. PICK code \in Errors \cup {"OK"} :
          outcome' = [outcome EXCEPT ![c] = code]
    BY <1>3 DEF ReturnStream
  <2> QED
    BY <1>3, <2>1, FeedReturn DEF ReturnStream, callerVars
<1> QED
  BY <1>1, <1>2, <1>3, FeedRecv, FeedRecvEnd, FeedInvokeEnd, FeedReceive,
     FeedSend, FeedReturnUnary DEF CallStep

\* The calls implement Feed: a caller gets the beginning of what the method
\* sent, in order and without gaps, and all of it if it is told that the
\* call is over, for any number of calls and messages.
THEOREM CallsAreFeeds == Spec => IsFeed
<1>1. Init => CallFeed!Init
  BY DEF Init, CallFeed!Init, Phase, Run, RunOf
<1>2. Inv /\ [Next]_vars => [CallFeed!Next]_(CallFeed!vars)
  <2> SUFFICES ASSUME Inv, [Next]_vars
               PROVE  [CallFeed!Next]_(CallFeed!vars)
    OBVIOUS
  <2>1. CASE ProcessStep \/ UNCHANGED vars
    <3>1. UNCHANGED <<client, got, entered, outcome, made>>
      BY <2>1 DEF ProcessStep, Register, Serve, Stop, Restart, GoDown, vars,
                  callerVars, history
    <3> QED
      BY <3>1, RunStays, PhaseStays DEF CallFeed!vars
  <2>2. ASSUME NEW c \in Calls, CallStep(c)
        PROVE  [CallFeed!Next]_(CallFeed!vars)
    BY <2>2, FeedStep
  <2> QED
    BY <2>1, <2>2 DEF Next
<1> QED
  BY <1>1, <1>2, Invariance, PTL DEF Spec, IsFeed, CallFeed!Spec

=============================================================================
