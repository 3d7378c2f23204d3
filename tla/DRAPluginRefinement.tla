------------------------- MODULE DRAPluginRefinement -------------------------
(***************************************************************************)
(* The call of a DRA plugin as a RemoteCall: what the two sides see of a   *)
(* message is what its getters return, and a share ID is left out, which   *)
(* v1beta1 does not carry.                                                 *)
(***************************************************************************)
EXTENDS DRAPlugin

NoView == "none"

RequestView(r) ==
  LET claims == Elements(r.claims) IN
  [i \in DOMAIN claims |-> ClaimOf(claims[i])]

EntryView(m, e) ==
  IF m = "NodePrepareResources"
    THEN LET devices == DevicesOf(e) IN
         [error   |-> ErrorOf(e),
          devices |-> [i \in DOMAIN devices |-> DeviceOf(devices[i])]]
    ELSE [error |-> ErrorOf(e)]

ResponseView(m, r) ==
  [k \in Keys(r) |-> EntryView(m, r.claims[k])]

Inputs  == {RequestView(r) : r \in Requests}
Outputs ==
  UNION {{ResponseView(m, r) :
            r \in {Nil} \cup UNION {Answers(m, v) : v \in Versions}} :
           m \in Methods}

-----------------------------------------------------------------------------
(* What RemoteCall shows of a call.                                        *)

PhaseOf(c) ==
  CASE client[c] = "idle"    -> "idle"
    [] client[c] = "waiting" -> "pending"
    [] OTHER -> IF result[c].err = Nil THEN "succeeded" ELSE "failed"

GivenOf(c) == IF client[c] = "idle" THEN NoView ELSE RequestView(req[c])

RunOf(c) ==
  CASE runs[c] = 0 -> "never"
    [] runs[c] # 0 /\ answer[c] = Nil -> "going on"
    [] OTHER -> IF answer[c].ret.err = Nil THEN "succeeded" ELSE "failed"

TakenOf(c) == IF runs[c] = 0 THEN NoView ELSE RequestView(seen[c])

MadeOf(c) ==
  IF answer[c] = Nil \/ answer[c].ret.err # Nil
    THEN NoView
    ELSE ResponseView(path[c].method, answer[c].ret.resp)

GotOf(c) ==
  IF client[c] # "returned" \/ result[c].err # Nil
    THEN NoView
    ELSE ResponseView(path[c].method, result[c].resp)

Phase == [c \in Calls |-> PhaseOf(c)]
Given == [c \in Calls |-> GivenOf(c)]
Run   == [c \in Calls |-> RunOf(c)]
Taken == [c \in Calls |-> TakenOf(c)]
Made  == [c \in Calls |-> MadeOf(c)]
Got   == [c \in Calls |-> GotOf(c)]

Remote == INSTANCE RemoteCall WITH
  None <- NoView, phase <- Phase, given <- Given, run <- Run,
  taken <- Taken, made <- Made, got <- Got

\* Every behaviour of the wrappers, stubs and handlers is a behaviour of
\* RemoteCall.
IsRemoteCall == Remote!Spec
=============================================================================
