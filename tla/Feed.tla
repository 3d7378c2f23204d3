-------------------------------- MODULE Feed --------------------------------
(***************************************************************************)
(* What a call of a kubelet API promises when the answer is a stream of    *)
(* messages; a unary call is a feed of one.  The method runs at most once; *)
(* its caller gets what it produced, in order and without gaps, and may be *)
(* cut off at any point; but a caller that is told the feed is over has    *)
(* all of it, and the method ended well.                                   *)
(***************************************************************************)
EXTENDS Sequences, Naturals

CONSTANTS
  Calls,     \* identities of calls
  Items      \* what a method may produce

VARIABLES
  phase,     \* phase[c]: "idle", "open", "over" or "failed"
  run,       \* run[c]: "never", "going on", "succeeded" or "failed"
  made,      \* made[c]: what the method produced
  got        \* got[c]: what the caller received

vars == <<phase, run, made, got>>

Init ==
  /\ phase = [c \in Calls |-> "idle"]
  /\ run   = [c \in Calls |-> "never"]
  /\ made  = [c \in Calls |-> <<>>]
  /\ got   = [c \in Calls |-> <<>>]

Submit(c) ==
  /\ phase[c] = "idle"
  /\ phase' = [phase EXCEPT ![c] = "open"]
  /\ UNCHANGED <<run, made, got>>

\* The method may begin after its caller has given up.
Begin(c) ==
  /\ phase[c] # "idle"
  /\ run[c] = "never"
  /\ run' = [run EXCEPT ![c] = "going on"]
  /\ UNCHANGED <<phase, made, got>>

Produce(c) ==
  /\ run[c] = "going on"
  /\ \E x \in Items : made' = [made EXCEPT ![c] = Append(@, x)]
  /\ UNCHANGED <<phase, run, got>>

\* A method ends well, possibly with a last item, or with an error.
Finish(c) ==
  /\ run[c] = "going on"
  /\ \/ /\ run' = [run EXCEPT ![c] = "succeeded"]
        /\ \/ made' = made
           \/ \E x \in Items : made' = [made EXCEPT ![c] = Append(@, x)]
     \/ /\ run' = [run EXCEPT ![c] = "failed"]
        /\ made' = made
  /\ UNCHANGED <<phase, got>>

Deliver(c) ==
  /\ phase[c] = "open"
  /\ Len(got[c]) < Len(made[c])
  /\ got' = [got EXCEPT ![c] = Append(@, made[c][Len(@) + 1])]
  /\ UNCHANGED <<phase, run, made>>

End(c) ==
  /\ phase[c] = "open"
  /\ run[c] = "succeeded"
  /\ phase' = [phase EXCEPT ![c] = "over"]
  /\ got' = [got EXCEPT ![c] = made[c]]
  /\ UNCHANGED <<run, made>>

Fail(c) ==
  /\ phase[c] \in {"idle", "open"}
  /\ phase' = [phase EXCEPT ![c] = "failed"]
  /\ UNCHANGED <<run, made, got>>

Next ==
  \E c \in Calls :
    \/ Submit(c) \/ Begin(c) \/ Produce(c) \/ Finish(c)
    \/ Deliver(c) \/ End(c) \/ Fail(c)

Spec == Init /\ [][Next]_vars
=============================================================================
