---------------------------- MODULE AtomicPointer ----------------------------
(***************************************************************************)
(* What a pointer transfer promises its callers: Set and Get take effect   *)
(* at one instant between their call and their return (an atomic           *)
(* register).                                                              *)
(***************************************************************************)
CONSTANTS Threads, Pointers, Empty, NoResult

VARIABLES value,    \* the pointer held
          phase,    \* of each thread's call
          arg,      \* what each thread asks to set
          result    \* what a finished Get is about to return

vars == <<value, phase, arg, result>>

Init ==
    /\ value = Empty
    /\ phase = [t \in Threads |-> "idle"]
    /\ arg = [t \in Threads |-> Empty]
    /\ result = [t \in Threads |-> NoResult]

InvokeSet(t, p) ==
    /\ phase[t] = "idle"
    /\ phase' = [phase EXCEPT ![t] = "set"]
    /\ arg' = [arg EXCEPT ![t] = p]
    /\ UNCHANGED <<value, result>>

InvokeGet(t) ==
    /\ phase[t] = "idle"
    /\ phase' = [phase EXCEPT ![t] = "get"]
    /\ UNCHANGED <<value, arg, result>>

Write(t) ==
    /\ phase[t] = "set"
    /\ phase' = [phase EXCEPT ![t] = "done"]
    /\ value' = arg[t]
    /\ UNCHANGED <<arg, result>>

Read(t) ==
    /\ phase[t] = "get"
    /\ phase' = [phase EXCEPT ![t] = "done"]
    /\ result' = [result EXCEPT ![t] = value]
    /\ UNCHANGED <<value, arg>>

Return(t) ==
    /\ phase[t] = "done"
    /\ phase' = [phase EXCEPT ![t] = "idle"]
    /\ result' = [result EXCEPT ![t] = NoResult]
    /\ arg' = [arg EXCEPT ![t] = Empty]
    /\ UNCHANGED value

Next ==
    \E t \in Threads :
        \/ \E p \in Pointers : InvokeSet(t, p)
        \/ InvokeGet(t) \/ Write(t) \/ Read(t) \/ Return(t)

Spec == Init /\ [][Next]_vars
==============================================================================
