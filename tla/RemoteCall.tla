------------------------------ MODULE RemoteCall ------------------------------
(***************************************************************************)
(* What a unary call of a kubelet plugin API promises, whatever versions,  *)
(* wrappers and messages it is made of: the implementation runs at most    *)
(* once, on the input the caller gave; the caller gets the output of that  *)
(* very run, or an error, and after an error knows nothing of the run:     *)
(* it may not have happened, may still be going on, or may have succeeded. *)
(***************************************************************************)
CONSTANTS
  Calls,     \* identities of calls
  Inputs,    \* what a caller may ask
  Outputs,   \* what an implementation may answer
  None       \* no input, no output

VARIABLES
  phase,     \* phase[c]: "idle", "pending", "succeeded" or "failed"
  given,     \* given[c]: what the caller of c asks
  run,       \* run[c]: "never", "going on", "succeeded" or "failed"
  taken,     \* taken[c]: what the implementation was asked
  made,      \* made[c]: what the implementation answered, if it succeeded
  got        \* got[c]: what the caller got, if it succeeded

vars == <<phase, given, run, taken, made, got>>

Init ==
  /\ phase = [c \in Calls |-> "idle"]
  /\ given = [c \in Calls |-> None]
  /\ run   = [c \in Calls |-> "never"]
  /\ taken = [c \in Calls |-> None]
  /\ made  = [c \in Calls |-> None]
  /\ got   = [c \in Calls |-> None]

Submit(c) ==
  /\ phase[c] = "idle"
  /\ phase' = [phase EXCEPT ![c] = "pending"]
  /\ \E x \in Inputs : given' = [given EXCEPT ![c] = x]
  /\ UNCHANGED <<run, taken, made, got>>

Begin(c) ==
  /\ phase[c] # "idle"
  /\ run[c] = "never"
  /\ run' = [run EXCEPT ![c] = "going on"]
  /\ taken' = [taken EXCEPT ![c] = given[c]]
  /\ UNCHANGED <<phase, given, made, got>>

Finish(c) ==
  /\ run[c] = "going on"
  /\ \/ /\ run' = [run EXCEPT ![c] = "succeeded"]
        /\ \E y \in Outputs : made' = [made EXCEPT ![c] = y]
     \/ /\ run' = [run EXCEPT ![c] = "failed"]
        /\ made' = made
  /\ UNCHANGED <<phase, given, taken, got>>

Succeed(c) ==
  /\ phase[c] = "pending"
  /\ run[c] = "succeeded"
  /\ phase' = [phase EXCEPT ![c] = "succeeded"]
  /\ got' = [got EXCEPT ![c] = made[c]]
  /\ UNCHANGED <<given, run, taken, made>>

Fail(c) ==
  /\ phase[c] = "pending"
  /\ phase' = [phase EXCEPT ![c] = "failed"]
  /\ UNCHANGED <<given, run, taken, made, got>>

Next ==
  \E c \in Calls :
    Submit(c) \/ Begin(c) \/ Finish(c) \/ Succeed(c) \/ Fail(c)

Spec == Init /\ [][Next]_vars
=============================================================================
