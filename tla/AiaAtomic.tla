------------------------------ MODULE AiaAtomic ------------------------------
(***************************************************************************)
(* The atomic numbers of ports/IoT/include/iot/aia_iot_config.h:           *)
(* AiaAtomic_Load_u32, AiaAtomic_Store_u32 and AiaAtomic_Add_u32.  The     *)
(* index of a data stream and AiaAtomicBool are this number under other    *)
(* names: a set stores one, a clear zero.                                  *)
(*                                                                         *)
(* External: Atomic_OR_u32, Atomic_Add_u32 and Atomic_CompareAndSwap_u32   *)
(* of FreeRTOS, one step each.  The store reads the number before it calls *)
(* the swap, and that is a step of its own.                                *)
(***************************************************************************)
EXTENDS Naturals

CONSTANTS
    Task,
    Range,      \* how many values a uint32_t has
    Value,      \* those the callers store
    Addendum    \* those the callers add

ASSUME AtomicAssumption ==
    /\ Range \in Nat \ {0}
    /\ Value \subseteq 0 .. Range - 1
    /\ Addendum \subseteq 0 .. Range - 1

VARIABLES
    operand,    \* the number
    pc,         \* where each task is in its call
    call,       \* the call it is in
    expected,   \* what a store has read
    ret         \* what the call returns

vars == <<operand, pc, call, expected, ret>>

Call == [op : {"load"}] \cup [op : {"store"}, val : Value] \cup [op : {"add"}, val : Addendum]

NoCall == [op |-> "none"]

Init == /\ operand \in Value
        /\ pc = [t \in Task |-> "idle"]
        /\ call = [t \in Task |-> NoCall]
        /\ expected = [t \in Task |-> 0]
        /\ ret = [t \in Task |-> 0]

Goto(t, from, to) == pc[t] = from /\ pc' = [pc EXCEPT ![t] = to]

---------------------------------------------------------------------------
Begin(t) ==
    /\ Goto(t, "idle", "called")
    /\ \E c \in Call : call' = [call EXCEPT ![t] = c]
    /\ UNCHANGED <<operand, expected, ret>>

\* Atomic_OR_u32 with zero.
Load(t) ==
    /\ call[t].op = "load"
    /\ Goto(t, "called", "done")
    /\ ret' = [ret EXCEPT ![t] = operand]
    /\ UNCHANGED <<operand, call, expected>>

\* A wrong Add: it does not wrap.
AddUnbounded(t) ==
    /\ call[t].op = "add"
    /\ Goto(t, "called", "done")
    /\ ret' = [ret EXCEPT ![t] = operand]
    /\ operand' = operand + call[t].val
    /\ UNCHANGED <<call, expected>>

Add(t) ==
    /\ call[t].op = "add"
    /\ Goto(t, "called", "done")
    /\ ret' = [ret EXCEPT ![t] = operand]
    /\ operand' = (operand + call[t].val) % Range
    /\ UNCHANGED <<call, expected>>

\* The argument *operand of the swap.
StoreRead(t) ==
    /\ call[t].op = "store"
    /\ Goto(t, "called", "swap")
    /\ expected' = [expected EXCEPT ![t] = operand]
    /\ UNCHANGED <<operand, call, ret>>

\* A wrong StoreSwap: it returns after a swap that did not take place.
StoreSwapOnce(t) ==
    /\ Goto(t, "swap", "done")
    /\ operand' = IF operand = expected[t] THEN call[t].val ELSE operand
    /\ expected' = [expected EXCEPT ![t] = 0]
    /\ UNCHANGED <<call, ret>>

\* A wrong StoreSwap: it swaps again without another look at the number.
StoreSwapBlindly(t) ==
    /\ operand = expected[t]
    /\ Goto(t, "swap", "done")
    /\ operand' = call[t].val
    /\ expected' = [expected EXCEPT ![t] = 0]
    /\ UNCHANGED <<call, ret>>

\* Atomic_CompareAndSwap_u32, and the loop around it.
StoreSwap(t) ==
    /\ \/ operand = expected[t] /\ Goto(t, "swap", "done") /\ operand' = call[t].val
       \/ operand # expected[t] /\ Goto(t, "swap", "called") /\ UNCHANGED operand
    /\ expected' = [expected EXCEPT ![t] = 0]
    /\ UNCHANGED <<call, ret>>

End(t) ==
    /\ Goto(t, "done", "idle")
    /\ call' = [call EXCEPT ![t] = NoCall]
    /\ ret' = [ret EXCEPT ![t] = 0]
    /\ UNCHANGED <<operand, expected>>

Step(t) == Load(t) \/ Add(t) \/ StoreRead(t) \/ StoreSwap(t) \/ End(t)

Next == \E t \in Task : Begin(t) \/ Step(t)

Spec == Init /\ [][Next]_vars

\* Tasks of equal priority: each goes on with its call sooner or later.
FairSpec == Spec /\ \A t \in Task : WF_vars(Step(t))

---------------------------------------------------------------------------
(* Properties. *)

TypeOK ==
    /\ operand \in 0 .. Range - 1
    /\ pc \in [Task -> {"idle", "called", "swap", "done"}]
    /\ call \in [Task -> Call \cup {NoCall}]
    /\ expected \in [Task -> 0 .. Range - 1]
    /\ ret \in [Task -> 0 .. Range - 1]

\* Whatever the tasks do to the number between the two steps of a store, and even if it has
\* the value that is stored or comes back to the one that was read: the store takes effect
\* once, at one moment, and so does every load and every addition.
Register ==
    INSTANCE AtomicRegister WITH
        value <- operand,
        phase <- [t \in Task |-> IF pc[t] = "swap" THEN "called" ELSE pc[t]]

ImplementsRegister == Register!Spec

\* A store that does not return is overtaken again and again: other tasks change the
\* number without end.  No call waits for another one.
Overtakes(t) == operand' # operand /\ pc'[t] = pc[t]
StarvesOnlyIfOvertaken ==
    \A t \in Task : []<>(pc[t] = "idle") \/ []<><<Overtakes(t)>>_vars
=============================================================================
