-------------------------- MODULE AiaAtomic_proofs --------------------------
(***************************************************************************)
(* For any number of tasks and any width: the atomics keep their range and *)
(* implement a register.  The tasks' stores that were read for and not yet *)
(* swapped are calls that have not taken effect.                           *)
(***************************************************************************)
EXTENDS AiaAtomic, TLAPS

\* Only a store is ever between its two steps, and only a call begun is in one.
CallsInv ==
    /\ TypeOK
    /\ \A t \in Task : pc[t] = "swap" => call[t].op = "store"
    /\ \A t \in Task : pc[t] \in {"called", "swap"} => call[t] \in Call

LEMMA ValueInRange ==
    ASSUME NEW c \in Call
    PROVE  /\ c.op = "store" => c.val \in Value /\ c.val \in 0 .. Range - 1
           /\ c.op = "add" => c.val \in Addendum /\ c.val \in Nat
<1>1. CASE c \in [op : {"load"}]
  BY <1>1
<1>2. CASE c \in [op : {"store"}, val : Value]
  BY <1>2, AtomicAssumption
<1>3. CASE c \in [op : {"add"}, val : Addendum]
  <2>1. c.op = "add" /\ c.val \in Addendum
    BY <1>3
  <2>2. c.val \in 0 .. Range - 1
    BY <2>1, AtomicAssumption
  <2>3. c.val \in Nat
    BY <2>2, AtomicAssumption
  <2> QED  BY <2>1, <2>3
<1> QED
  BY <1>1, <1>2, <1>3 DEF Call

LEMMA SumInRange ==
    ASSUME NEW a \in Nat, NEW b \in Nat
    PROVE  (a + b) % Range \in 0 .. Range - 1
  BY AtomicAssumption

LEMMA InitInv == Init => CallsInv
<1> SUFFICES ASSUME Init PROVE CallsInv
  OBVIOUS
<1>1. 0 \in 0 .. Range - 1 /\ operand \in 0 .. Range - 1
  BY AtomicAssumption DEF Init
<1> QED
  BY <1>1 DEF Init, CallsInv, TypeOK

LEMMA StepInv == CallsInv /\ [Next]_vars => CallsInv'
<1> SUFFICES ASSUME CallsInv, [Next]_vars PROVE CallsInv'
  OBVIOUS
<1>1. ASSUME NEW t \in Task, Begin(t) PROVE CallsInv'
  <2>1. PICK c \in Call : call' = [call EXCEPT ![t] = c]
    BY <1>1 DEF Begin
  <2> QED
    BY <1>1, <2>1 DEF CallsInv, TypeOK, Begin, Goto
<1>2. ASSUME NEW t \in Task, Load(t) PROVE CallsInv'
  BY <1>2 DEF CallsInv, TypeOK, Load, Goto
<1>3. ASSUME NEW t \in Task, Add(t) PROVE CallsInv'
  <2>1. operand' \in 0 .. Range - 1
    <3>1. call[t] \in Call /\ call[t].op = "add" /\ operand \in Nat
      BY <1>3 DEF CallsInv, TypeOK, Add, Goto
    <3> QED
      BY <1>3, <3>1, ValueInRange, SumInRange DEF Add
  <2> QED
    BY <1>3, <2>1 DEF CallsInv, TypeOK, Add, Goto
<1>4. ASSUME NEW t \in Task, StoreRead(t) PROVE CallsInv'
  BY <1>4 DEF CallsInv, TypeOK, StoreRead, Goto
<1>5. ASSUME NEW t \in Task, StoreSwap(t) PROVE CallsInv'
  <2>1. pc[t] = "swap" /\ call[t] \in Call /\ call[t].op = "store"
    BY <1>5 DEF CallsInv, StoreSwap, Goto
  <2>2. operand' \in 0 .. Range - 1
    BY <1>5, <2>1, ValueInRange DEF CallsInv, TypeOK, StoreSwap
  <2>3. 0 \in 0 .. Range - 1
    BY AtomicAssumption
  <2> QED
    BY <1>5, <2>1, <2>2, <2>3 DEF CallsInv, TypeOK, StoreSwap, Goto
<1>6. ASSUME NEW t \in Task, End(t) PROVE CallsInv'
  <2>1. 0 \in 0 .. Range - 1
    BY AtomicAssumption
  <2> QED
    BY <1>6, <2>1 DEF CallsInv, TypeOK, End, Goto
<1>7. CASE UNCHANGED vars
  BY <1>7 DEF CallsInv, TypeOK, vars
<1> QED
  BY <1>1, <1>2, <1>3, <1>4, <1>5, <1>6, <1>7 DEF Next, Step

\* The number and whatever a call has read or returns stay in their range: additions wrap,
\* and a store is only ever of a value that was passed to it.
THEOREM TypeOKHolds == Spec => []TypeOK
<1>1. CallsInv => TypeOK
  BY DEF CallsInv
<1> QED
  BY <1>1, InitInv, StepInv, PTL DEF Spec

---------------------------------------------------------------------------
LEMMA InitMaps == Init => Register!Init
  BY DEF Init, Register!Init, Register!NoCall, NoCall

\* A swap that succeeds is the store's effect; reading, and a swap that fails, are nothing.
LEMMA StepMaps == CallsInv /\ [Next]_vars => [Register!Next]_(Register!vars)
<1> DEFINE phase == [t \in Task |-> IF pc[t] = "swap" THEN "called" ELSE pc[t]]
<1> SUFFICES ASSUME CallsInv, [Next]_vars
             PROVE  [Register!Next]_(Register!vars)
  OBVIOUS
<1>1. ASSUME NEW t \in Task, Begin(t) PROVE Register!Begin(t)
  <2>1. phase[t] = "idle" /\ phase' = [phase EXCEPT ![t] = "called"]
    BY <1>1 DEF CallsInv, TypeOK, Begin, Goto
  <2> QED
    BY <1>1, <2>1 DEF Begin, Call, Register!Begin, Register!Call
<1>2. ASSUME NEW t \in Task, Load(t) PROVE Register!TakeEffect(t)
  <2>1. phase[t] = "called" /\ phase' = [phase EXCEPT ![t] = "done"]
    BY <1>2 DEF CallsInv, TypeOK, Load, Goto
  <2> QED
    BY <1>2, <2>1 DEF Load, Register!TakeEffect
<1>3. ASSUME NEW t \in Task, Add(t) PROVE Register!TakeEffect(t)
  <2>1. phase[t] = "called" /\ phase' = [phase EXCEPT ![t] = "done"]
    BY <1>3 DEF CallsInv, TypeOK, Add, Goto
  <2> QED
    BY <1>3, <2>1 DEF Add, Register!TakeEffect
<1>4. ASSUME NEW t \in Task, StoreRead(t) PROVE UNCHANGED Register!vars
  <2>1. phase' = phase
    BY <1>4 DEF CallsInv, TypeOK, StoreRead, Goto
  <2> QED
    BY <1>4, <2>1 DEF StoreRead, Register!vars
<1>5. ASSUME NEW t \in Task, StoreSwap(t), operand = expected[t] PROVE Register!TakeEffect(t)
  <2>1. phase[t] = "called" /\ phase' = [phase EXCEPT ![t] = "done"]
    BY <1>5 DEF CallsInv, TypeOK, StoreSwap, Goto
  <2>2. call[t].op = "store" /\ operand' = call[t].val /\ UNCHANGED <<call, ret>>
    BY <1>5 DEF CallsInv, StoreSwap, Goto
  <2> QED
    BY <2>1, <2>2 DEF Register!TakeEffect
<1>6. ASSUME NEW t \in Task, StoreSwap(t), operand # expected[t] PROVE UNCHANGED Register!vars
  <2>1. phase' = phase
    BY <1>6 DEF CallsInv, TypeOK, StoreSwap, Goto
  <2> QED
    BY <1>6, <2>1 DEF StoreSwap, Register!vars
<1>7. ASSUME NEW t \in Task, End(t) PROVE Register!End(t)
  <2>1. phase[t] = "done" /\ phase' = [phase EXCEPT ![t] = "idle"]
    BY <1>7 DEF CallsInv, TypeOK, End, Goto
  <2> QED
    BY <1>7, <2>1 DEF End, NoCall, Register!End, Register!NoCall
<1>8. CASE UNCHANGED vars
  BY <1>8 DEF vars, Register!vars
<1> QED
  BY <1>1, <1>2, <1>3, <1>4, <1>5, <1>6, <1>7, <1>8 DEF Next, Step, Register!Next

\* Every load, store and addition takes effect once, at one moment between its beginning and
\* its end, whatever the other tasks do between the two steps of a store.
THEOREM AtomicsImplementRegister == Spec => ImplementsRegister
<1> QED
  BY InitInv, StepInv, InitMaps, StepMaps, PTL DEF Spec, ImplementsRegister, Register!Spec
=============================================================================
