------------------------------ MODULE DRAPlugin ------------------------------
(***************************************************************************)
(* Calls of the DRA plugin API, from a caller on the kubelet's side to the *)
(* plugin and back, each through                                           *)
(*                                                                         *)
(*   - a client wrapper (dra/v1beta1/conversion.go), if the caller uses    *)
(*     another version of the API than the connection,                     *)
(*   - the generated client stub (dra/<version>/api_grpc.pb.go),           *)
(*   - gRPC (external),                                                    *)
(*   - the generated handler of the service the call names, and            *)
(*   - a server wrapper, if the plugin implements another version than     *)
(*     that service.                                                       *)
(*                                                                         *)
(* Handlers of different calls run concurrently; a step here is what a     *)
(* goroutine does between two points where others can observe it. A Go     *)
(* panic in a handler ends the plugin's process (gRPC does not recover),   *)
(* and with it every call it is serving; the process may be restarted,     *)
(* possibly as a build with another plugin.                                *)
(***************************************************************************)
EXTENDS DRAConversion, Naturals

CONSTANTS
  Calls,         \* identities of calls
  Paths,         \* the [api, wire, method] a call may take
  Requests,      \* the requests a caller may pass
  Answers(_, _), \* Answers(m, v): the responses a v plugin may give to m
  Codes,         \* the codes with which methods and interceptors fail
  Plugins        \* the plugin builds that may run

Path   == [api : Versions, wire : Versions, method : Methods]

\* embeds: how Unimplemented<Service>Server is embedded in the plugin's
\* type; implements: the methods the type defines itself.
Plugin == [api : Versions, embeds : {"value", "nil pointer"},
           implements : SUBSET Methods]

ASSUME PathsAssumption    == Paths \subseteq Path
ASSUME RequestsAssumption == Requests \subseteq Request
ASSUME PluginsAssumption  == Plugins \subseteq Plugin
ASSUME AnswersAssumption  ==
  \A m \in Methods, v \in Versions : \A r \in Answers(m, v) :
    IsResponse(m, v, r) /\ r # Nil

\* What a Go function with results (response, error) returns.
Pair(resp, err) == [resp |-> resp, err |-> err]
Failure(code)   == Pair(Nil, code)

\* The codes gRPC itself gives for a call whatever has become of it.
TransportCodes == {"Unavailable", "Canceled"}

\* All codes that a caller may be told.
Errors == Codes \cup TransportCodes

ASSUME CodesAssumption == Nil \notin Errors /\ "Unimplemented" \in Codes

\* What a plugin of version v returned.
Returned(v, ret) == [api |-> v, ret |-> ret]

ASSUME ReturnedAssumption ==
  \A m \in Methods, v \in Versions :
    \A resp \in {Nil} \cup Answers(m, v), err \in {Nil} \cup Codes :
      Nil # Returned(v, Pair(resp, err))

PairOK(m, v, ret) ==
  /\ ret \in [resp : {ret.resp}, err : {Nil} \cup Errors]
  /\ ret.resp # Nil => IsResponse(m, v, ret.resp)

VARIABLES
  plugin,    \* the plugin build that runs
  process,   \* "registering", "serving" or "down"
  panic,     \* why the process last went down, if it panicked
  services,  \* the versions whose service is registered
  client,    \* client[c]: "idle", "waiting" or "returned"
  server,    \* server[c]: "none", "arriving", "running", "replied", "lost"
  path,      \* path[c]: the path of c
  req,       \* req[c]: the request the caller passed
  sent,      \* sent[c]: the request on the wire
  reply,     \* reply[c]: the reply on the wire
  result     \* result[c]: what the caller got

\* History variables: what the plugin saw and did.
VARIABLES
  runs,      \* runs[c]: how often the plugin's method was entered for c
  seen,      \* seen[c]: the request it was entered with
  answer     \* answer[c]: the API version it implements, and its results

processVars == <<plugin, process, panic, services>>
callVars    == <<client, server, path, req, sent, reply, result>>
history     == <<runs, seen, answer>>
vars        == <<processVars, callVars, history>>

Init ==
  /\ plugin \in Plugins
  /\ process = "registering"
  /\ panic = "none"
  /\ services = {}
  /\ client = [c \in Calls |-> "idle"]
  /\ server = [c \in Calls |-> "none"]
  /\ path   = [c \in Calls |-> Nil]
  /\ req    = [c \in Calls |-> Nil]
  /\ sent   = [c \in Calls |-> Nil]
  /\ reply  = [c \in Calls |-> Nil]
  /\ result = [c \in Calls |-> Nil]
  /\ runs   = [c \in Calls |-> 0]
  /\ seen   = [c \in Calls |-> Nil]
  /\ answer = [c \in Calls |-> Nil]

-----------------------------------------------------------------------------
(* The plugin's process.                                                   *)

\* Mutant: a call that is running is sent again to the next process.
GoDownResending(cause) ==
  /\ process' = "down"
  /\ panic' = cause
  /\ services' = {}
  /\ server' = [c \in Calls |-> IF server[c] = "running"
                                  THEN "arriving" ELSE server[c]]
  /\ UNCHANGED <<plugin, client, path, req, sent, reply, result>>

\* Every call the process was handed is lost with it.
GoDown(cause) ==
  /\ process' = "down"
  /\ panic' = cause
  /\ services' = {}
  /\ server' = [c \in Calls |-> IF server[c] \in {"arriving", "running"}
                                  THEN "lost" ELSE server[c]]
  /\ UNCHANGED <<plugin, client, path, req, sent, reply, result>>

\* Mutant: no server is tested.
NothingTested(v) == FALSE

\* Only a plugin that is registered itself has the method testEmbeddedByValue:
\* the wrappers embed interfaces that do not declare it.
HasTestEmbeddedByValue(v) == plugin.api = v

\* RegisterDRAPluginServer(s, srv) of version v, where srv is the plugin or
\* the plugin in a server wrapper.
Register(v) ==
  /\ process = "registering"
  /\ v \notin services
  /\ IF HasTestEmbeddedByValue(v) /\ plugin.embeds = "nil pointer"
       THEN GoDown("registration")
       ELSE /\ services' = services \cup {v}
            /\ UNCHANGED <<plugin, process, panic, callVars>>
  /\ UNCHANGED history

Serve ==
  /\ process = "registering"
  /\ services # {}
  /\ process' = "serving"
  /\ UNCHANGED <<plugin, panic, services, callVars, history>>

\* The process exits or is killed.
Stop ==
  /\ process # "down"
  /\ GoDown("none")
  /\ UNCHANGED history

Restart ==
  /\ process = "down"
  /\ process' = "registering"
  /\ panic' = "none"
  /\ plugin' \in Plugins
  /\ UNCHANGED <<services, callVars, history>>

-----------------------------------------------------------------------------
(* The caller's side.                                                      *)

\* The request half of a client wrapper, if there is one.
ClientRequest(p, r) == IF p.api = p.wire THEN r ELSE ConvertRequest(p.method, r)

\* Mutant: out is returned beside the error.
StubResultWithOut(out, err) == Pair(out, err)

\* What the stub makes of the message Invoke decoded into out, and its error.
StubResult(out, err) == IF err # Nil THEN Failure(err) ELSE Pair(out, Nil)

\* The response half of V1ClientWrapper and V1Beta1ClientWrapper.
ClientWrapper(p, ret) ==
  IF ret.err # Nil
    THEN Failure(ret.err)
    ELSE Pair(ConvertResponse(p.method, ret.resp, p.api), Nil)

ClientResult(p, out, err) ==
  IF p.api = p.wire THEN StubResult(out, err)
                    ELSE ClientWrapper(p, StubResult(out, err))

\* A call up to the point where Invoke has handed the request to gRPC.
Call(c, p, r) ==
  /\ client[c] = "idle"
  /\ client' = [client EXCEPT ![c] = "waiting"]
  /\ server' = [server EXCEPT ![c] = "arriving"]
  /\ path' = [path EXCEPT ![c] = p]
  /\ req' = [req EXCEPT ![c] = r]
  /\ sent' = [sent EXCEPT ![c] = WireRequest(ClientRequest(p, r))]
  /\ UNCHANGED <<processVars, reply, result, history>>

Return(c, out, err) ==
  /\ client[c] = "waiting"
  /\ client' = [client EXCEPT ![c] = "returned"]
  /\ result' = [result EXCEPT ![c] = ClientResult(path[c], out, err)]
  /\ UNCHANGED <<processVars, server, path, req, sent, reply, history>>

\* Invoke returns because the reply arrived.
Receive(c) ==
  /\ server[c] = "replied"
  /\ Return(c, reply[c].resp, reply[c].err)

\* Mutant: a request waits until the process serves.
UnavailableWhenLost(c) ==
  /\ server[c] = "lost"
  /\ Return(c, ZeroResponse, "Unavailable")

\* Invoke returns because the connection broke or cannot be made.
Unavailable(c) ==
  /\ server[c] = "lost" \/ (server[c] = "arriving" /\ process # "serving")
  /\ Return(c, ZeroResponse, "Unavailable")

\* Invoke returns because the caller's context ended, whatever the server does.
Cancel(c) == Return(c, ZeroResponse, "Canceled")

\* The transport loses the request or the reply.
Lose(c) ==
  /\ server[c] \in {"arriving", "replied"}
  /\ server' = [server EXCEPT ![c] = "lost"]
  /\ UNCHANGED <<processVars, client, path, req, sent, reply, result, history>>

-----------------------------------------------------------------------------
(* The plugin's side.                                                      *)

\* gRPC sends an error as a status and drops the response beside it; a nil
\* response is encoded like the zero message.
Marshal(m, v, ret) ==
  IF ret.err # Nil
    THEN Failure(ret.err)
    ELSE IF ret.resp = Nil
      THEN Pair(ZeroResponse, Nil)
      ELSE Pair(WireResponse(m, ret.resp, v), Nil)

Reply(c, ret) ==
  /\ server' = [server EXCEPT ![c] = "replied"]
  /\ reply' = [reply EXCEPT ![c] = Marshal(path[c].method, path[c].wire, ret)]
  /\ UNCHANGED <<processVars, client, path, req, sent, result>>

\* The request half of a server wrapper, if there is one.
ServerRequest(c) ==
  IF plugin.api = path[c].wire THEN sent[c]
                               ELSE ConvertRequest(path[c].method, sent[c])

\* Mutant: the response decides whether the call succeeded.
ServerWrapperResponseFirst(p, ret) ==
  IF ret.resp = Nil
    THEN Failure(ret.err)
    ELSE Pair(ConvertResponse(p.method, ret.resp, p.wire), Nil)

\* Mutant: the error is wrapped in one without its status code.
ServerWrapperRewording(p, ret) ==
  IF ret.err # Nil
    THEN Failure("Unknown")
    ELSE Pair(ConvertResponse(p.method, ret.resp, p.wire), Nil)

\* The response half of V1ServerWrapper and V1Beta1ServerWrapper: it reads
\* through the response without looking whether it is nil.
ServerWrapper(p, ret) ==
  IF ret.err # Nil
    THEN Failure(ret.err)
    ELSE Pair(ConvertResponse(p.method, ret.resp, p.wire), Nil)

Arrived(c) == process = "serving" /\ server[c] = "arriving"

\* gRPC knows no such service, the handler cannot decode the request, or its
\* interceptor does not let it pass and gives any error for it: the plugin is
\* not called.
Reject(c) ==
  /\ Arrived(c)
  /\ \E code \in Codes :
       /\ path[c].wire \notin services => code = "Unimplemented"
       /\ Reply(c, Failure(code))
  /\ UNCHANGED history

\* The handler calls a method the plugin does not define: the one promoted
\* from the embedded UnimplementedDRAPluginServer.
Unimplemented(c) ==
  /\ Arrived(c)
  /\ path[c].wire \in services
  /\ path[c].method \notin plugin.implements
  /\ IF plugin.embeds = "nil pointer" THEN GoDown("unimplemented")
                                      ELSE Reply(c, Failure("Unimplemented"))
  /\ UNCHANGED history

\* The handler calls a method of the plugin.
Enter(c) ==
  /\ Arrived(c)
  /\ path[c].wire \in services
  /\ path[c].method \in plugin.implements
  /\ server' = [server EXCEPT ![c] = "running"]
  /\ runs' = [runs EXCEPT ![c] = @ + 1]
  /\ seen' = [seen EXCEPT ![c] = ServerRequest(c)]
  /\ UNCHANGED <<processVars, client, path, req, sent, reply, result, answer>>

\* The plugin's method returns (external: any response, any error,
\* "Unimplemented" among them, both or neither), and the handler with it.
Answer(c) ==
  /\ server[c] = "running"
  /\ \E resp \in {Nil} \cup Answers(path[c].method, plugin.api),
        err \in {Nil} \cup Codes :
       LET ret == Pair(resp, err) IN
       /\ answer' = [answer EXCEPT ![c] = Returned(plugin.api, ret)]
       /\ IF plugin.api = path[c].wire
            THEN Reply(c, ret)
            ELSE IF err = Nil /\ resp = Nil
              THEN GoDown("nil response")
              ELSE Reply(c, ServerWrapper(path[c], ret))
  /\ UNCHANGED <<runs, seen>>

-----------------------------------------------------------------------------
Next ==
  \/ \E v \in Versions : Register(v)
  \/ Serve
  \/ Stop
  \/ Restart
  \/ \E c \in Calls :
       \/ \E p \in Paths, r \in Requests : Call(c, p, r)
       \/ Receive(c)
       \/ Unavailable(c)
       \/ Cancel(c)
       \/ Lose(c)
       \/ Reject(c)
       \/ Unimplemented(c)
       \/ Enter(c)
       \/ Answer(c)

Spec == Init /\ [][Next]_vars

\* Goroutines run, gRPC notices a broken connection, and a plugin's method
\* returns; nothing says that a caller gives up or that a plugin stays up.
Fairness ==
  \A c \in Calls :
    /\ WF_vars(Receive(c))
    /\ WF_vars(Unavailable(c))
    /\ WF_vars(Unimplemented(c) \/ Enter(c) \/ Reject(c))
    /\ WF_vars(Answer(c))

FairSpec == Spec /\ Fairness

-----------------------------------------------------------------------------
(* Properties.                                                             *)

\* Every variable holds a value of its Go type, in the version of the API in
\* which that value exists.
TypeOK ==
  /\ plugin \in Plugins
  /\ process \in {"registering", "serving", "down"}
  /\ panic \in {"none", "registration", "nil response", "unimplemented"}
  /\ services \in SUBSET Versions
  /\ client \in [Calls -> {"idle", "waiting", "returned"}]
  /\ server \in [Calls -> {"none", "arriving", "running", "replied", "lost"}]
  /\ path \in [Calls -> {Nil} \cup Paths]
  /\ req \in [Calls -> {Nil} \cup Requests]
  /\ sent \in [Calls -> {Nil} \cup Request]
  /\ runs \in [Calls -> Nat]
  /\ seen \in [Calls -> {Nil} \cup Request]
  /\ answer = [c \in Calls |-> answer[c]]
  /\ reply  = [c \in Calls |-> reply[c]]
  /\ result = [c \in Calls |-> result[c]]
  /\ \A c \in Calls :
       /\ client[c] # "idle" => path[c] \in Paths /\ req[c] \in Requests
       /\ answer[c] # Nil =>
            /\ answer[c] \in [api : Versions, ret : {answer[c].ret}]
            /\ PairOK(path[c].method, answer[c].api, answer[c].ret)
       /\ reply[c] # Nil => PairOK(path[c].method, path[c].wire, reply[c])
       /\ result[c] # Nil => PairOK(path[c].method, path[c].api, result[c])

OnlyV1(c) ==
  path[c].api = "v1" /\ path[c].wire = "v1" /\ answer[c].api = "v1"

\* A response reaches the caller as the plugin gave it for that very call:
\* the same claims, and for each the same error and the same devices in the
\* same order, whatever versions of the API the call passed through. A share
\* ID survives if and only if no part of the way is v1beta1.
ResultIsAnswer ==
  \A c \in Calls :
    result[c] # Nil /\ result[c].err = Nil =>
      /\ answer[c] # Nil /\ answer[c].ret.err = Nil
      /\ SameEntries(path[c].method, answer[c].ret.resp, result[c].resp,
                     OnlyV1(c))

\* A plugin's method is entered with the claims the caller passed, all of
\* them and in that order, a nil claim having become an empty one.
RequestArrives ==
  \A c \in Calls :
    seen[c] # Nil => Received(req[c], seen[c])

\* A call runs the plugin's method once if it succeeds and at most once if it
\* fails, whichever processes it meets.
RunsOnce ==
  \A c \in Calls :
    /\ runs[c] <= 1
    /\ result[c] # Nil /\ result[c].err = Nil => runs[c] = 1

\* A call that ran the plugin's method and failed is told the code of the error
\* that this very run returned, through every wrapper, or that the transport or
\* the caller gave up: "Unimplemented" means that nothing has run, unless the
\* plugin's own method says it.
ErrorIsAnswer ==
  \A c \in Calls :
    result[c] # Nil /\ runs[c] > 0 =>
      \/ result[c].err \in {Nil} \cup TransportCodes
      \/ answer[c] # Nil /\ answer[c].ret.err = result[c].err

\* The caller gets a response or an error, never both and never neither, also
\* when the plugin returned both or neither.
ResponseXorError ==
  \A c \in Calls :
    result[c] # Nil => (result[c].resp = Nil) # (result[c].err = Nil)

\* A process that serves the plugin under its own version only does not
\* panic: registration has refused a plugin whose unimplemented methods would.
DirectServiceDoesNotPanic ==
  [][process = "serving" /\ services = {plugin.api} => panic' = "none"]_vars

\* The comment in RegisterDRAPluginServer: a nil embedded
\* UnimplementedDRAPluginServer is found at registration "to prevent it from
\* happening at runtime later".
NoUnimplementedPanic == panic # "unimplemented"

\* Every call returns to its caller, though the plugin may panic or be stopped
\* under it and the caller sets no deadline.
EveryCallReturns ==
  \A c \in Calls : (client[c] = "waiting") ~> (client[c] = "returned")
=============================================================================
