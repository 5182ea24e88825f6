--------------------------- MODULE AtomicRegister ---------------------------
(***************************************************************************)
(* What the atomics of ports/IoT promise: a number that tasks load, store  *)
(* and add to, where each call takes effect at one moment between its      *)
(* beginning and its end.  AiaAtomic is the implementation.                *)
(***************************************************************************)
EXTENDS Naturals

CONSTANTS Task, Range, Value, Addendum

VARIABLES
    value,      \* the number
    phase,      \* of each task: "idle", in a call that is "called", or "done"
    call,       \* the call it is in
    ret         \* what the call returns

vars == <<value, phase, call, ret>>

Call == [op : {"load"}] \cup [op : {"store"}, val : Value] \cup [op : {"add"}, val : Addendum]

NoCall == [op |-> "none"]

Init == /\ value \in Value
        /\ phase = [t \in Task |-> "idle"]
        /\ call = [t \in Task |-> NoCall]
        /\ ret = [t \in Task |-> 0]

Begin(t) ==
    /\ phase[t] = "idle"
    /\ phase' = [phase EXCEPT ![t] = "called"]
    /\ \E c \in Call : call' = [call EXCEPT ![t] = c]
    /\ UNCHANGED <<value, ret>>

TakeEffect(t) ==
    /\ phase[t] = "called"
    /\ phase' = [phase EXCEPT ![t] = "done"]
    /\ \/ /\ call[t].op = "load"
          /\ ret' = [ret EXCEPT ![t] = value]
          /\ UNCHANGED value
       \/ /\ call[t].op = "store"
          /\ value' = call[t].val
          /\ UNCHANGED ret
       \/ /\ call[t].op = "add"
          /\ value' = (value + call[t].val) % Range
          /\ ret' = [ret EXCEPT ![t] = value]
    /\ UNCHANGED call

End(t) ==
    /\ phase[t] = "done"
    /\ phase' = [phase EXCEPT ![t] = "idle"]
    /\ call' = [call EXCEPT ![t] = NoCall]
    /\ ret' = [ret EXCEPT ![t] = 0]
    /\ UNCHANGED value

Next == \E t \in Task : Begin(t) \/ TakeEffect(t) \/ End(t)

Spec == Init /\ [][Next]_vars
=============================================================================
