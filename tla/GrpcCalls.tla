----------------------------- MODULE GrpcCalls -----------------------------
(***************************************************************************)
(* Calls of the kubelet's gRPC services through the generated client       *)
(* stubs, gRPC (external), and the generated handlers of a server process: *)
(* unary calls, and the streams of ListAndWatch, NodeWatchResources and    *)
(* WatchPods.  The tables of Services say which path a stub calls and      *)
(* which method a path leads to.                                           *)
(*                                                                         *)
(* A stream is opened by three calls of the stub, each of which may fail,  *)
(* while the server's handler is already running, and then lives until the *)
(* method returns, the connection breaks, a process ends, or the caller's  *)
(* context does.  What the server has sent may be lost with it.            *)
(***************************************************************************)
EXTENDS Services, Sequences, Naturals

CONSTANTS
  Nil,        \* no message, no error
  Calls,      \* identities of calls
  StubsUsed,  \* the [service, method] stubs callers use
  Requests,   \* the requests they pass
  Items,      \* the messages methods send
  Codes,      \* the codes with which methods, interceptors and decoders fail
  MaxItems,   \* bound: the messages a method sends
  Builds      \* the server programs that may run

Stub == {s \in [service : Services,
                method : UNION {DOMAIN Client[v].path : v \in Services}] :
           s.method \in DOMAIN Client[s.service].path}

Methods == {s.method : s \in Stub}

\* A server program: the services it registers, how it embeds their
\* Unimplemented servers, and the methods <<service, method>> it defines.
Build == [serves : SUBSET Services, embeds : {"value", "nil pointer"},
          implements : SUBSET (Services \X Methods)]

\* The message new(T) a handler receives into.
Zero == "zero"

\* A method that runs, with the message it is given.
Entry == [service : Services, method : Methods, m : Requests \cup {Zero}]

\* All codes that a call may fail with, those of gRPC itself among them.
Errors == Codes \cup {"Unimplemented", "Unavailable", "Canceled"}

ASSUME StubsAssumption  == StubsUsed \subseteq Stub
ASSUME BuildsAssumption == Builds \subseteq Build
ASSUME MaxAssumption    == MaxItems \in Nat \ {0}
ASSUME ZeroAssumption   == Zero \notin Requests
ASSUME NilAssumption    ==
  Nil \notin Requests \cup Items \cup Entry \cup Errors \cup {"OK"}
ASSUME CodesAssumption  == "OK" \notin Codes

VARIABLES
  process,   \* "registering", "serving" or "down"
  build,     \* the program that runs
  services,  \* the services registered
  stub,      \* stub[c]: the stub c uses
  req,       \* req[c]: the request its caller passed
  client,    \* client[c]: where the caller is
  link,      \* link[c]: "none", "up" or "cut"
  up,        \* up[c]: the request on its way to the handler
  handler,   \* handler[c]: "none", "receiving", "running" or "ended"
  wire,      \* wire[c]: the messages on their way to the caller
  status,    \* status[c]: "OK" or the error that follows them
  got        \* got[c]: the messages the caller has

\* History variables.
VARIABLES
  entered,   \* entered[c]: the service, method and message that ran
  made,      \* made[c]: the messages the method sent
  outcome    \* outcome[c]: "OK" or the error that it, or the interceptor
             \* or decoder before it, returned

serverVars == <<process, build, services>>
callerVars == <<stub, req, client, got>>
streamVars == <<link, up, handler, wire, status>>
history    == <<entered, made, outcome>>
vars       == <<serverVars, callerVars, streamVars, history>>

Init ==
  /\ process = "registering"
  /\ build \in Builds
  /\ services = {}
  /\ stub    = [c \in Calls |-> Nil]
  /\ req     = [c \in Calls |-> Nil]
  /\ client  = [c \in Calls |-> "idle"]
  /\ link    = [c \in Calls |-> "none"]
  /\ up      = [c \in Calls |-> Nil]
  /\ handler = [c \in Calls |-> "none"]
  /\ wire    = [c \in Calls |-> <<>>]
  /\ status  = [c \in Calls |-> Nil]
  /\ got     = [c \in Calls |-> <<>>]
  /\ entered = [c \in Calls |-> Nil]
  /\ made    = [c \in Calls |-> <<>>]
  /\ outcome = [c \in Calls |-> Nil]

Returned(c) == client[c] \in {"over", "failed"}

-----------------------------------------------------------------------------
(* Streams that are cut.                                                   *)

\* A stream matters until both ends are done with it.
Up(c) == link[c] = "up" /\ (handler[c] # "ended" \/ ~Returned(c))

\* The streams in C break: of the messages on the wire the caller gets the
\* first kept[c], and then, unless that was all, the error code.
Cut(C, code) ==
  /\ link' = [c \in Calls |-> IF c \in C THEN "cut" ELSE link[c]]
  /\ \E kept \in [C -> 0..MaxItems] :
       /\ \A c \in C : kept[c] <= Len(wire[c])
       /\ wire' = [c \in Calls |->
                     IF c \in C THEN SubSeq(wire[c], 1, kept[c]) ELSE wire[c]]
       /\ status' = [c \in Calls |->
                       IF c \in C /\ (status[c] = Nil \/ kept[c] < Len(wire[c]))
                         THEN code ELSE status[c]]

\* The network fails, or the server's transport closes the stream.
Break(c) ==
  /\ Up(c)
  /\ Cut({c}, "Unavailable")
  /\ UNCHANGED <<serverVars, callerVars, up, handler, history>>

\* The caller's context ends; that is also how a caller releases a stream
\* it was not given.
Cancel(c) ==
  /\ Up(c)
  /\ Cut({c}, "Canceled")
  /\ UNCHANGED <<serverVars, callerVars, up, handler, history>>

-----------------------------------------------------------------------------
(* The server's process.                                                   *)

\* All of its handlers end with the process.
GoDown ==
  /\ process' = "down"
  /\ services' = {}
  /\ handler' = [c \in Calls |-> IF handler[c] \in {"receiving", "running"}
                                   THEN "ended" ELSE handler[c]]
  /\ Cut({c \in Calls : Up(c)}, "Unavailable")
  /\ UNCHANGED <<build, callerVars, up, history>>

\* Register<Service>Server(s, srv): a nil embedded pointer panics; gRPC ends
\* the process if the name is taken.  (Two versions of the registration API
\* share their protobuf names as well, so that a program that links both has
\* by default ended even before, in the init functions of the packages.)
Register(s) ==
  /\ process = "registering"
  /\ s \in build.serves \ services
  /\ IF \/ build.embeds = "nil pointer"
        \/ \E t \in services : ServiceDesc[t].name = ServiceDesc[s].name
       THEN GoDown
       ELSE /\ services' = services \cup {s}
            /\ UNCHANGED <<process, build, callerVars, streamVars, history>>

Serve ==
  /\ process = "registering"
  /\ services = build.serves
  /\ process' = "serving"
  /\ UNCHANGED <<build, services, callerVars, streamVars, history>>

\* The process exits or is killed.
Stop ==
  /\ process # "down"
  /\ GoDown

Restart ==
  /\ process = "down"
  /\ process' = "registering"
  /\ build' \in Builds
  /\ UNCHANGED <<services, callerVars, streamVars, history>>

-----------------------------------------------------------------------------
(* The client stubs.                                                       *)

Streaming(s) == s.method \in Client[s.service].streams
PathOf(c)    == Client[stub[c].service].path[stub[c].method]

Step(c, from, to) ==
  /\ client[c] = from
  /\ client' = [client EXCEPT ![c] = to]

Choose(c, s, r) ==
  /\ stub' = [stub EXCEPT ![c] = s]
  /\ req' = [req EXCEPT ![c] = r]

\* cc.NewStream in a stream's stub; without a connection it fails.
NewStream(c) ==
  /\ \E s \in StubsUsed, r \in Requests : Streaming(s) /\ Choose(c, s, r)
  /\ \/ /\ process = "serving"
        /\ Step(c, "idle", "opened")
        /\ link' = [link EXCEPT ![c] = "up"]
     \/ /\ Step(c, "idle", "failed")
        /\ link' = link
  /\ UNCHANGED <<serverVars, got, up, handler, wire, status, history>>

\* SendMsg in a stream's stub.  A stream that is already cut or answered is
\* not reported here; an error of the client's own ends the stream.
SendMsg(c) ==
  /\ \/ /\ Step(c, "opened", "sent")
        /\ up' = [up EXCEPT ![c] = IF link[c] = "up" THEN req[c] ELSE Nil]
        /\ UNCHANGED <<link, wire, status>>
     \/ /\ Step(c, "opened", "failed")
        /\ Cut({c}, "Canceled")
        /\ up' = up
  /\ UNCHANGED <<serverVars, stub, req, got, handler, history>>

\* CloseSend in a stream's stub.  If it fails the caller is given no stream,
\* and the one that was opened stays open.
CloseSend(c) ==
  /\ Step(c, "sent", "reading") \/ Step(c, "sent", "failed")
  /\ UNCHANGED <<serverVars, stub, req, got, streamVars, history>>

\* cc.Invoke in a unary stub, up to where it waits for the answer.
Invoke(c) ==
  /\ \E s \in StubsUsed, r \in Requests :
       /\ ~Streaming(s)
       /\ Choose(c, s, r)
       /\ \/ /\ process = "serving"
             /\ Step(c, "idle", "invoking")
             /\ link' = [link EXCEPT ![c] = "up"]
             /\ up' = [up EXCEPT ![c] = r]
          \/ /\ Step(c, "idle", "failed")
             /\ UNCHANGED <<link, up>>
  /\ UNCHANGED <<serverVars, got, handler, wire, status, history>>

\* Recv on the stream the caller was given: the next message.
Recv(c) ==
  /\ client[c] = "reading"
  /\ wire[c] # <<>>
  /\ got' = [got EXCEPT ![c] = Append(@, Head(wire[c]))]
  /\ wire' = [wire EXCEPT ![c] = Tail(@)]
  /\ UNCHANGED <<serverVars, stub, req, client, link, up, handler, status,
                 history>>

\* Recv returns io.EOF if the status is OK, the status if it is an error.
RecvEnd(c) ==
  /\ client[c] = "reading"
  /\ wire[c] = <<>>
  /\ status[c] # Nil
  /\ client' = [client EXCEPT ![c] =
                   IF status[c] = "OK" THEN "over" ELSE "failed"]
  /\ UNCHANGED <<serverVars, stub, req, got, streamVars, history>>

\* Mutant: the stub returns out whatever Invoke returned.
StubResultWithOut(c) ==
  /\ client' = [client EXCEPT ![c] = "over"]
  /\ got' = [got EXCEPT ![c] = wire[c]]

\* Mutant: the stub returns nil instead of out.
StubResultNil(c) ==
  /\ client' = [client EXCEPT ![c] =
                   IF status[c] = "OK" THEN "over" ELSE "failed"]
  /\ got' = [got EXCEPT ![c] = <<Nil>>]

\* The end of a unary stub: out, or nil and the error.
StubResult(c) ==
  IF status[c] = "OK"
    THEN /\ client' = [client EXCEPT ![c] = "over"]
         /\ got' = [got EXCEPT ![c] = wire[c]]
    ELSE /\ client' = [client EXCEPT ![c] = "failed"]
         /\ got' = got

InvokeEnd(c) ==
  /\ client[c] = "invoking"
  /\ status[c] # Nil
  /\ StubResult(c)
  /\ UNCHANGED <<serverVars, stub, req, streamVars, history>>

-----------------------------------------------------------------------------
(* The server's handlers.                                                  *)

\* The handler of c ends with the status code.
Finish(c, code) ==
  /\ handler' = [handler EXCEPT ![c] = "ended"]
  /\ status' = [status EXCEPT ![c] = IF link[c] = "up" THEN code ELSE @]

\* The services registered under the name that c's path starts with.
Targets(c) == {t \in services : ServiceDesc[t].name = PathOf(c)[1]}

\* gRPC hands a new stream to the handler of its path, if there is one.
Arrive(c) ==
  /\ process = "serving"
  /\ Up(c)
  /\ handler[c] = "none"
  /\ \/ /\ \E t \in Targets(c) : PathOf(c)[2] \in DOMAIN ServiceDesc[t].handler
        /\ handler' = [handler EXCEPT ![c] = "receiving"]
        /\ status' = status
     \/ /\ \A t \in Targets(c) :
               PathOf(c)[2] \notin DOMAIN ServiceDesc[t].handler
        /\ Finish(c, "Unimplemented")
  /\ UNCHANGED <<serverVars, callerVars, link, up, wire, history>>

\* The handler calls the server's method, or the Unimplemented server's.
Enter(c, m) ==
  \E t \in Targets(c) :
    LET method == ServiceDesc[t].handler[PathOf(c)[2]] IN
    IF <<t, method>> \in build.implements
      THEN /\ handler' = [handler EXCEPT ![c] = "running"]
           /\ status' = status
           /\ entered' = [entered EXCEPT ![c] =
                            [service |-> t, method |-> method, m |-> m]]
      ELSE /\ Finish(c, "Unimplemented")
           /\ entered' = entered

\* Mutant: the handler does not look at the error.
HandlerIgnoringError(c, m, err) == Enter(c, m)

\* Mutant: the handler tries to receive again.
HandlerRetrying(c, m, err) ==
  IF err # Nil THEN UNCHANGED <<handler, status, entered>> ELSE Enter(c, m)

\* A generated handler after RecvMsg(m) or dec(in): it returns the error, or
\* calls the method with m.
Handler(c, m, err) ==
  IF err # Nil
    THEN /\ Finish(c, err)
         /\ entered' = entered
    ELSE Enter(c, m)

\* RecvMsg(m) of a stream's handler, or dec(in) and the interceptor of a
\* unary one: the request, an error of its own (it cannot be decoded, or is
\* refused with any code), or the error of a stream that was cut.
Receive(c) ==
  /\ handler[c] = "receiving"
  /\ \/ up[c] # Nil /\ Handler(c, up[c], Nil) /\ outcome' = outcome
     \/ /\ up[c] # Nil
        /\ \E code \in Codes :
             /\ Handler(c, Zero, code)
             /\ outcome' = [outcome EXCEPT ![c] = code]
     \/ link[c] = "cut" /\ Handler(c, Zero, "Canceled") /\ outcome' = outcome
  /\ UNCHANGED <<serverVars, callerVars, link, up, wire, made>>

ServedAsStream(c) ==
  entered[c].method \in ServiceDesc[entered[c].service].streams

\* A stream's method sends a message; it is lost if the stream is cut.
Send(c) ==
  /\ handler[c] = "running"
  /\ ServedAsStream(c)
  /\ Len(made[c]) < MaxItems
  /\ \E x \in Items :
       /\ made' = [made EXCEPT ![c] = Append(@, x)]
       /\ wire' = [wire EXCEPT ![c] =
                     IF link[c] = "up" THEN Append(@, x) ELSE @]
  /\ UNCHANGED <<serverVars, callerVars, link, up, handler, status, entered,
                 outcome>>

\* A stream's method returns, and the handler returns what it returned, any
\* code included.
ReturnStream(c) ==
  /\ handler[c] = "running"
  /\ ServedAsStream(c)
  /\ \E code \in Codes \cup {"OK"} :
       /\ outcome' = [outcome EXCEPT ![c] = code]
       /\ Finish(c, code)
  /\ UNCHANGED <<serverVars, callerVars, link, up, wire, entered, made>>

\* A unary method returns a response or any error; a response beside an error
\* is not sent.
ReturnUnary(c) ==
  /\ handler[c] = "running"
  /\ ~ServedAsStream(c)
  /\ \/ /\ outcome' = [outcome EXCEPT ![c] = "OK"]
        /\ \E x \in Items :
             /\ made' = [made EXCEPT ![c] = <<x>>]
             /\ wire' = [wire EXCEPT ![c] = IF link[c] = "up" THEN <<x>> ELSE @]
        /\ Finish(c, "OK")
     \/ /\ \E code \in Codes :
             /\ outcome' = [outcome EXCEPT ![c] = code]
             /\ Finish(c, code)
        /\ UNCHANGED <<made, wire>>
  /\ UNCHANGED <<serverVars, callerVars, link, up, entered>>

-----------------------------------------------------------------------------
CallStep(c) ==
  \/ NewStream(c) \/ SendMsg(c) \/ CloseSend(c) \/ Recv(c) \/ RecvEnd(c)
  \/ Invoke(c) \/ InvokeEnd(c)
  \/ Arrive(c) \/ Receive(c) \/ Send(c) \/ ReturnStream(c) \/ ReturnUnary(c)
  \/ Break(c) \/ Cancel(c)

ProcessStep ==
  \/ \E s \in Services : Register(s)
  \/ Serve \/ Stop \/ Restart

Next == ProcessStep \/ \E c \in Calls : CallStep(c)

Spec == Init /\ [][Next]_vars

\* The goroutines of both sides run.  A caller that was given a stream
\* reads it to its end, as the documentation of NewStream that the stubs
\* refer to demands; a method returns once its stream is cut, because its
\* context is done.  A method whose stream is up need never return.
Fairness ==
  \A c \in Calls :
    /\ WF_vars(SendMsg(c)) /\ WF_vars(CloseSend(c))
    /\ WF_vars(Recv(c)) /\ WF_vars(RecvEnd(c)) /\ WF_vars(InvokeEnd(c))
    /\ WF_vars(Receive(c))
    /\ WF_vars(link[c] = "cut" /\ (ReturnStream(c) \/ ReturnUnary(c)))

FairSpec == Spec /\ Fairness

-----------------------------------------------------------------------------
(* Properties.                                                             *)

TypeOK ==
  /\ process \in {"registering", "serving", "down"}
  /\ build \in Builds
  /\ services \subseteq build.serves
  /\ stub \in [Calls -> StubsUsed \cup {Nil}]
  /\ req \in [Calls -> Requests \cup {Nil}]
  /\ client \in [Calls -> {"idle", "opened", "sent", "reading", "invoking",
                           "over", "failed"}]
  /\ link \in [Calls -> {"none", "up", "cut"}]
  /\ up \in [Calls -> Requests \cup {Nil}]
  /\ handler \in [Calls -> {"none", "receiving", "running", "ended"}]
  /\ \A c \in Calls :
       /\ wire[c] \in Seq(Items) /\ got[c] \in Seq(Items)
       /\ made[c] \in Seq(Items) /\ Len(made[c]) <= MaxItems
  /\ status \in [Calls -> Errors \cup {"OK", Nil}]
  /\ outcome \in [Calls -> Errors \cup {"OK", Nil}]
  /\ entered \in [Calls -> Entry \cup {Nil}]

\* Two services whose clients and servers may be mixed.
SameApi(s, t) == s = t \/ {s, t} \subseteq RegistrationVersions

\* The server's methods that the stub s may lead to.
Implemented(s) ==
  \E t \in build.serves :
    SameApi(s.service, t) /\ <<t, s.method>> \in build.implements

\* A stub leads to the method it is named for, of the same API in the same
\* version (the three versions of the registration API have one wire name
\* and may be mixed); and where neither that method nor an interceptor has
\* said "Unimplemented" itself, only the callers of a program that does not
\* define the method are told so (the tables of paths and descriptors in every
\* api_grpc.pb.go).
ReachesMethod ==
  [][\A c \in Calls :
       /\ entered[c] = Nil /\ entered'[c] # Nil =>
            /\ entered'[c].method = stub[c].method
            /\ SameApi(entered'[c].service, stub[c].service)
       /\ status[c] # "Unimplemented" /\ status'[c] = "Unimplemented" =>
            outcome'[c] = "Unimplemented" \/ ~Implemented(stub[c])]_vars

\* A method runs only on the request its caller passed, and only if the
\* caller sent it: a stream that is opened and then cut, or whose SendMsg
\* fails, must not run the method on the zero message its handler has made
\* (the handlers of ListAndWatch, NodeWatchResources and WatchPods).
EnteredWithRequest ==
  \A c \in Calls :
    entered[c] # Nil => up[c] = req[c] /\ entered[c].m = req[c]

\* A call as a Feed: where its caller is and how its method runs.
Phase ==
  [c \in Calls |->
    IF client[c] \in {"idle", "over", "failed"} THEN client[c] ELSE "open"]
RunOf(c) ==
  CASE entered[c] = Nil -> "never"
    [] entered[c] # Nil /\ outcome[c] = Nil -> "going on"
    [] entered[c] # Nil /\ outcome[c] = "OK" -> "succeeded"
    [] OTHER -> "failed"
Run == [c \in Calls |-> RunOf(c)]

CallFeed == INSTANCE Feed WITH phase <- Phase, run <- Run

\* Every behaviour of a call is that of a Feed: what the caller received is
\* a prefix of what the method sent, and when the stub of a unary call
\* returns no error, or Recv returns io.EOF, the method has ended well and
\* nothing is missing.
IsFeed == CallFeed!Spec

\* When a stream is cut, by the network, by the end of the server's process
\* or by its caller, neither end is left waiting: the handler ends, and the
\* stub or Recv returns.  That covers the stream a stub opened and did not
\* give to its caller, once the caller's context ends.
NobodyLeftWaiting ==
  \A c \in Calls :
    link[c] = "cut" ~> handler[c] \in {"none", "ended"} /\ Returned(c)
=============================================================================
