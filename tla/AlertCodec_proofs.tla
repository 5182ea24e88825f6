------------------------- MODULE AlertCodec_proofs -------------------------
(***************************************************************************)
(* That an alert survives storage, for bytes and numbers of any width.     *)
(***************************************************************************)
EXTENDS AlertCodec, TLAPS

\* Where field f starts in the section.
Start(f) ==
    IF f = scheduledTime THEN AIA_ALERT_TOKEN_CHARS
    ELSE IF f = duration THEN AIA_ALERT_TOKEN_CHARS + TimeBytes
    ELSE AIA_ALERT_TOKEN_CHARS + TimeBytes + DurationBytes

\* Byte n of field f comes before the one the loops are at.
Before(f, n) == f < loop.field \/ (f = loop.field /\ n < i)

\* The fields that must come back exactly.
Exact(f) == f = scheduledTime => TimeFits

PositionInv == bytePosition = Start(loop.field) + i

\* What AiaStoreAlert has written.
BufferInv ==
    \A f \in Field : \A n \in 0 .. Width(f) - 1 :
        (loop.call = "store" => Before(f, n)) => buffer[Start(f) + n] = Byte(alert[f], n)

\* What AiaLoadAlert has put together.
LoadedInv ==
    \A f \in Field : Exact(f) =>
        /\ loop.call = "store" => loaded[f] = {}
        /\ loop.call = "load"  => loaded[f] = {x \in alert[f] : Before(f, x[1])}
        /\ loop.call = "done"  => loaded[f] = alert[f]

\* No byte of the time gets beyond an unsigned.
UnsignedInv == \A x \in loaded[scheduledTime] : x[1] < UnsignedBytes

IInv == TypeOK /\ PositionInv /\ BufferInv /\ LoadedInv /\ UnsignedInv

---------------------------------------------------------------------------
LEMMA Widths ==
    /\ \A f \in Field : Width(f) \in Nat /\ Width(f) >= 1 /\ Start(f) \in Nat
    /\ \A f \in Field : f # scheduledTime => Width(f) <= UnsignedBytes
    /\ Field = {scheduledTime, duration, alertType}
    /\ \A f \in Field : f \in Nat /\ (f # alertType => f + 1 \in Field /\ Start(f + 1) = Start(f) + Width(f))
    /\ \A f \in Field : Start(f) + Width(f) <= AIA_SIZE_OF_ALERT_IN_BYTES
    /\ AIA_SIZE_OF_ALERT_IN_BYTES \in Nat
  BY WidthAssumption
  DEF Field, scheduledTime, duration, alertType, Width, Start, AIA_SIZE_OF_ALERT_IN_BYTES

\* No two bytes of the fields share a position.
LEMMA PositionsDiffer ==
    ASSUME NEW f \in Field, NEW g \in Field,
           NEW m \in 0 .. Width(f) - 1, NEW n \in 0 .. Width(g) - 1,
           Start(f) + m = Start(g) + n
    PROVE  f = g /\ m = n
  BY WidthAssumption DEF Field, scheduledTime, duration, alertType, Width, Start

\* The bits of a number, byte by byte.
LEMMA NumberBits ==
    ASSUME NEW a \in Alert, NEW f \in Field
    PROVE  /\ \A x \in a[f] : x = <<x[1], x[2]>> /\ x[1] \in 0 .. Width(f) - 1 /\ x[2] \in Bit
           /\ \A n : {<<n, k>> : k \in Byte(a[f], n)} = {x \in a[f] : x[1] = n}
<1>1. a[f] \in SUBSET ((0 .. Width(f) - 1) \X Bit)
  BY DEF Alert, Number
<1>2. \A x \in a[f] : x = <<x[1], x[2]>> /\ x[1] \in 0 .. Width(f) - 1 /\ x[2] \in Bit
  BY <1>1
<1>3. ASSUME NEW n
      PROVE  {<<n, k>> : k \in Byte(a[f], n)} = {x \in a[f] : x[1] = n}
  BY <1>2 DEF Byte
<1> QED
  BY <1>2, <1>3

LEMMA InitInv == Init => IInv
<1> SUFFICES ASSUME Init PROVE IInv
  OBVIOUS
<1>1. /\ loop = [call |-> "store", field |-> scheduledTime]
      /\ i = 0 /\ bytePosition = AIA_ALERT_TOKEN_CHARS
      /\ scheduledTime \in Field /\ scheduledTime = 1
      /\ \A f \in Field : f \in Nat /\ f >= 1
      /\ \A f \in Field : loaded[f] = {}
  BY DEF Init, Field, scheduledTime, Zero
<1>2. TypeOK
  <2>1. bytePosition \in 0 .. AIA_SIZE_OF_ALERT_IN_BYTES - 1
    BY <1>1, Widths, WidthAssumption DEF AIA_SIZE_OF_ALERT_IN_BYTES
  <2>2. i \in 0 .. Width(loop.field) - 1
    BY <1>1, Widths
  <2> QED  BY <1>1, <2>1, <2>2 DEF Init, TypeOK, Zero
<1>3. PositionInv
  BY <1>1, WidthAssumption DEF PositionInv, Start
<1>4. BufferInv
  BY <1>1, Widths DEF BufferInv, Before
<1>5. LoadedInv
  BY <1>1 DEF LoadedInv
<1>6. UnsignedInv
  BY <1>1 DEF UnsignedInv
<1> QED
  BY <1>2, <1>3, <1>4, <1>5, <1>6 DEF IInv

\* An iteration moves the counters past one byte, to the next byte of the same call
\* or out of the last loop of it.
LEMMA AdvanceStep ==
    ASSUME TypeOK, PositionInv, NEW then \in {"load", "done"}, Advance(then)
    PROVE  /\ loop' \in [call : {"store", "load", "done"}, field : Field]
           /\ i' \in 0 .. Width(loop'.field) - 1
           /\ bytePosition' \in 0 .. AIA_SIZE_OF_ALERT_IN_BYTES - 1
           /\ PositionInv'
           /\ \/ /\ loop'.call = loop.call
                 /\ \A f \in Field : \A n \in 0 .. Width(f) - 1 :
                        Before(f, n)' <=> Before(f, n) \/ (f = loop.field /\ n = i)
              \/ /\ loop' = [call |-> then, field |-> scheduledTime]
                 /\ i' = 0
                 /\ \A f \in Field : \A n \in 0 .. Width(f) - 1 :
                        Before(f, n) \/ (f = loop.field /\ n = i)
<1> DEFINE f0 == loop.field
<1>1. /\ f0 \in Field /\ loop.call \in {"store", "load", "done"}
      /\ loop = [call |-> loop.call, field |-> f0]
      /\ i \in Nat /\ i < Width(f0) /\ Width(f0) \in Nat
      /\ bytePosition \in Nat /\ bytePosition = Start(f0) + i
      /\ Start(f0) \in Nat
  <2>1. f0 \in Field /\ loop.call \in {"store", "load", "done"} /\ loop = [call |-> loop.call, field |-> f0]
    BY DEF TypeOK
  <2>2. Width(f0) \in Nat /\ Start(f0) \in Nat
    BY <2>1, Widths
  <2>3. i \in 0 .. Width(f0) - 1 /\ bytePosition = Start(f0) + i
    BY DEF TypeOK, PositionInv
  <2> QED  BY <2>1, <2>2, <2>3
<1>2. CASE i + 1 < Width(f0)
  <2>1. i' = i + 1 /\ bytePosition' = bytePosition + 1 /\ loop' = loop
    BY <1>1, <1>2 DEF Advance
  <2>2. i' \in 0 .. Width(f0) - 1 /\ PositionInv'
    BY <1>1, <1>2, <2>1 DEF PositionInv, Start
  <2>3. bytePosition' \in 0 .. AIA_SIZE_OF_ALERT_IN_BYTES - 1
    BY <1>1, <1>2, <2>1, Widths
  <2>4. \A f \in Field : \A n \in 0 .. Width(f) - 1 :
            Before(f, n)' <=> Before(f, n) \/ (f = f0 /\ n = i)
    BY <1>1, <2>1, Widths DEF Before
  <2> QED  BY <1>1, <2>1, <2>2, <2>3, <2>4
<1>3. CASE i + 1 = Width(f0) /\ f0 # alertType
  <2>1. /\ i' = 0 /\ bytePosition' = bytePosition + 1
        /\ loop' = [call |-> loop.call, field |-> f0 + 1]
    BY <1>1, <1>3 DEF Advance
  <2>2. f0 + 1 \in Field /\ Start(f0 + 1) = Start(f0) + Width(f0)
    BY <1>1, <1>3, Widths
  <2>3. /\ loop'.field = f0 + 1 /\ loop'.call = loop.call
        /\ 0 \in 0 .. Width(f0 + 1) - 1
    BY <2>1, <2>2, Widths
  <2>4. bytePosition' = Start(f0 + 1) + 0
    BY <1>1, <1>3, <2>1, <2>2
  <2>5. PositionInv'
    BY <2>1, <2>3, <2>4 DEF PositionInv, Start
  <2>6. bytePosition' \in 0 .. AIA_SIZE_OF_ALERT_IN_BYTES - 1
    BY <2>2, <2>4, Widths
  <2>7. \A f \in Field : \A n \in 0 .. Width(f) - 1 :
            Before(f, n)' <=> Before(f, n) \/ (f = f0 /\ n = i)
    BY <1>1, <1>3, <2>1, <2>2, <2>3, Widths DEF Before
  <2> QED  BY <1>1, <2>1, <2>2, <2>3, <2>5, <2>6, <2>7
<1>4. CASE i + 1 = Width(f0) /\ f0 = alertType
  <2>1. /\ i' = 0 /\ bytePosition' = AIA_ALERT_TOKEN_CHARS
        /\ loop' = [call |-> then, field |-> scheduledTime]
    BY <1>1, <1>4 DEF Advance
  <2>2. /\ scheduledTime \in Field /\ 0 \in 0 .. Width(scheduledTime) - 1
        /\ Start(scheduledTime) = AIA_ALERT_TOKEN_CHARS
        /\ AIA_ALERT_TOKEN_CHARS \in 0 .. AIA_SIZE_OF_ALERT_IN_BYTES - 1
    BY Widths, WidthAssumption DEF Start, AIA_SIZE_OF_ALERT_IN_BYTES
  <2>3. PositionInv'
    BY <2>1, <2>2, WidthAssumption DEF PositionInv, Start
  <2>4. \A f \in Field : \A n \in 0 .. Width(f) - 1 : Before(f, n) \/ (f = f0 /\ n = i)
    <3>1. \A f \in Field : f < f0 \/ f = f0
      BY <1>4 DEF Field, alertType
    <3> QED  BY <1>1, <1>4, <3>1, Widths DEF Before
  <2> QED  BY <2>1, <2>2, <2>3, <2>4
<1> QED
  BY <1>1, <1>2, <1>3, <1>4

LEMMA StoreByteStep ==
    ASSUME IInv, StoreByte
    PROVE  IInv'
<1> DEFINE f0 == loop.field
<1>1. /\ TypeOK /\ PositionInv /\ loop.call = "store" /\ Advance("load")
      /\ alert' = alert /\ loaded' = loaded
      /\ f0 \in Field /\ i \in 0 .. Width(f0) - 1
      /\ bytePosition = Start(f0) + i
      /\ bytePosition \in DOMAIN buffer
      /\ buffer' = [buffer EXCEPT ![bytePosition] = Byte(alert[f0], i)]
  BY DEF IInv, StoreByte, TypeOK, PositionInv
<1>2. /\ loop' \in [call : {"store", "load", "done"}, field : Field]
      /\ i' \in 0 .. Width(loop'.field) - 1
      /\ bytePosition' \in 0 .. AIA_SIZE_OF_ALERT_IN_BYTES - 1
      /\ PositionInv'
      /\ \/ /\ loop'.call = "store"
            /\ \A f \in Field : \A n \in 0 .. Width(f) - 1 :
                    Before(f, n)' <=> Before(f, n) \/ (f = f0 /\ n = i)
         \/ /\ loop' = [call |-> "load", field |-> scheduledTime]
            /\ i' = 0
            /\ \A f \in Field : \A n \in 0 .. Width(f) - 1 :
                    Before(f, n) \/ (f = f0 /\ n = i)
  BY <1>1, AdvanceStep
<1>3. TypeOK'
  <2>1. Byte(alert[f0], i) \in SUBSET Bit
    BY DEF Byte
  <2> QED  BY <1>1, <1>2, <2>1 DEF TypeOK, Width, Field, scheduledTime, duration, alertType
<1>4. BufferInv'
  <2> SUFFICES ASSUME NEW f \in Field, NEW n \in 0 .. Width(f) - 1,
                      loop'.call = "store" => Before(f, n)'
               PROVE  buffer'[Start(f) + n] = Byte(alert[f], n)
    BY <1>1 DEF BufferInv, Start, Width, Byte
  <2>1. CASE f = f0 /\ n = i
    BY <1>1, <2>1
  <2>2. CASE ~ (f = f0 /\ n = i)
    <3>1. Before(f, n)
      BY <1>2, <2>2
    <3>2. buffer[Start(f) + n] = Byte(alert[f], n)
      BY <3>1 DEF IInv, BufferInv
    <3>3. Start(f) + n # bytePosition
      BY <1>1, <2>2, PositionsDiffer
    <3> QED  BY <1>1, <3>2, <3>3 DEF TypeOK
  <2> QED  BY <2>1, <2>2
<1>5. LoadedInv'
  <2>1. \A f \in Field : Exact(f)' => loaded[f] = {}
    BY <1>1 DEF IInv, LoadedInv, Exact, TimeFits
  <2>2. ASSUME loop' = [call |-> "load", field |-> scheduledTime], i' = 0, NEW f \in Field
        PROVE  {x \in alert[f] : Before(f, x[1])'} = {}
    <3>1. \A x \in alert[f] : x[1] \in Nat
      <4>1. alert \in Alert
        BY <1>1 DEF TypeOK
      <4>2. \A x \in alert[f] : x[1] \in 0 .. Width(f) - 1
        BY <4>1, NumberBits
      <4> QED  BY <4>2
    <3>2. ~ (f < scheduledTime)
      BY DEF Field, scheduledTime
    <3> QED  BY <2>2, <3>1, <3>2 DEF Before
  <2>3. loop'.call = "store" \/ (loop' = [call |-> "load", field |-> scheduledTime] /\ i' = 0)
    BY <1>2
  <2> QED  BY <1>1, <2>1, <2>2, <2>3 DEF LoadedInv
<1>6. UnsignedInv'
  BY <1>1 DEF IInv, UnsignedInv
<1> QED
  BY <1>2, <1>3, <1>4, <1>5, <1>6 DEF IInv

\* What a shift brings to a field that must be exact: byte n of it.
LEMMA ShiftExact ==
    ASSUME NEW a \in Alert, NEW f \in Field, NEW n \in 0 .. Width(f) - 1,
           n >= UnsignedBytes => Byte(a[f], n) = {},
           NEW b \in Shifted(Byte(a[f], n), n)
    PROVE  b = {x \in a[f] : x[1] = n}
<1>1. {<<n, k>> : k \in Byte(a[f], n)} = {x \in a[f] : x[1] = n}
  BY NumberBits
<1>2. CASE n < UnsignedBytes
  BY <1>1, <1>2 DEF Shifted
<1>3. CASE ~ (n < UnsignedBytes)
  <2>1. Byte(a[f], n) = {}
    BY <1>3, Widths, WidthAssumption
  <2>2. b = {}
    BY <1>3, <2>1 DEF Shifted
  <2> QED  BY <1>1, <2>1, <2>2
<1> QED
  BY <1>2, <1>3

\* A shift of an unsigned yields an unsigned.
LEMMA ShiftBounded ==
    ASSUME NEW s, NEW n \in Nat, NEW b \in Shifted(s, n)
    PROVE  \A x \in b : x[1] < UnsignedBytes
<1>1. n % UnsignedBytes < UnsignedBytes
  BY WidthAssumption
<1> QED
  BY <1>1, WidthAssumption DEF Shifted

LEMMA LoadByteStep ==
    ASSUME IInv, LoadByte
    PROVE  IInv'
<1> DEFINE f0 == loop.field
<1>1. /\ TypeOK /\ PositionInv /\ loop.call = "load" /\ Advance("done")
      /\ alert' = alert /\ buffer' = buffer
      /\ f0 \in Field /\ i \in 0 .. Width(f0) - 1
      /\ bytePosition = Start(f0) + i
  BY DEF IInv, LoadByte, TypeOK, PositionInv
<1>2. /\ loop' \in [call : {"store", "load", "done"}, field : Field]
      /\ i' \in 0 .. Width(loop'.field) - 1
      /\ bytePosition' \in 0 .. AIA_SIZE_OF_ALERT_IN_BYTES - 1
      /\ PositionInv'
      /\ \/ /\ loop'.call = "load"
            /\ \A f \in Field : \A n \in 0 .. Width(f) - 1 :
                    Before(f, n)' <=> Before(f, n) \/ (f = f0 /\ n = i)
         \/ /\ loop'.call = "done"
            /\ \A f \in Field : \A n \in 0 .. Width(f) - 1 :
                    Before(f, n) \/ (f = f0 /\ n = i)
  BY <1>1, AdvanceStep
<1>3. buffer[bytePosition] = Byte(alert[f0], i)
  BY <1>1 DEF IInv, BufferInv
<1>4. PICK b \in Shifted(Byte(alert[f0], i), i) : loaded' = [loaded EXCEPT ![f0] = @ \cup b]
  BY <1>3 DEF LoadByte
<1>5. TypeOK'
  <2>1. b \in SUBSET (Nat \X Bit)
    <3>1. i \in Nat /\ i % UnsignedBytes \in Nat
      BY <1>1, Widths, WidthAssumption
    <3>2. Byte(alert[f0], i) \in SUBSET Bit
      BY DEF Byte
    <3> QED  BY <3>1, <3>2 DEF Shifted
  <2> QED  BY <1>1, <1>2, <1>4, <2>1 DEF TypeOK, Width
<1>6. BufferInv'
  BY <1>1, <1>2 DEF IInv, BufferInv, Start, Width, Byte
<1>7. ASSUME NEW f \in Field, Exact(f)
      PROVE  loaded'[f] = {x \in alert[f] : Before(f, x[1]) \/ (f = f0 /\ x[1] = i)}
  <2>1. loaded[f] = {x \in alert[f] : Before(f, x[1])}
    BY <1>1, <1>7 DEF IInv, LoadedInv
  <2>2. CASE f = f0
    <3>1. i >= UnsignedBytes => Byte(alert[f0], i) = {}
      <4>1. CASE f0 = scheduledTime
        BY <1>1, <1>7, <2>2, <4>1 DEF Exact, TimeFits, Width
      <4>2. CASE f0 # scheduledTime
        BY <1>1, <4>2, Widths, WidthAssumption
      <4> QED  BY <4>1, <4>2
    <3>2. b = {x \in alert[f0] : x[1] = i}
      BY <1>1, <3>1, ShiftExact DEF TypeOK
    <3>3. loaded'[f0] = loaded[f0] \cup b
      BY <1>1, <1>4 DEF TypeOK
    <3> QED  BY <2>1, <2>2, <3>2, <3>3
  <2>3. CASE f # f0
    BY <1>4, <2>1, <2>3 DEF TypeOK
  <2> QED  BY <2>2, <2>3
<1>8. LoadedInv'
  <2> SUFFICES ASSUME NEW f \in Field, Exact(f)
               PROVE  /\ loop'.call = "load" => loaded'[f] = {x \in alert[f] : Before(f, x[1])'}
                      /\ loop'.call = "done" => loaded'[f] = alert[f]
    BY <1>1, <1>2 DEF LoadedInv, Exact, TimeFits
  <2>1. \A x \in alert[f] : x[1] \in 0 .. Width(f) - 1
    BY <1>1, NumberBits DEF TypeOK
  <2>2. loaded'[f] = {x \in alert[f] : Before(f, x[1]) \/ (f = f0 /\ x[1] = i)}
    BY <1>7
  <2> QED  BY <1>2, <2>1, <2>2
<1>9. UnsignedInv'
  <2>1. \A x \in b : x[1] < UnsignedBytes
    BY <1>1, ShiftBounded, Widths
  <2>2. \A x \in loaded[scheduledTime] : x[1] < UnsignedBytes
    BY DEF IInv, UnsignedInv
  <2>3. loaded'[scheduledTime] \subseteq loaded[scheduledTime] \cup b
    BY <1>1, <1>4 DEF TypeOK
  <2> QED  BY <2>1, <2>2, <2>3 DEF UnsignedInv
<1> QED
  BY <1>2, <1>5, <1>6, <1>8, <1>9 DEF IInv

LEMMA UpdateStep ==
    ASSUME IInv, NEW a \in Alert, Update(a)
    PROVE  IInv'
<1>1. /\ alert' = a /\ buffer' = buffer
      /\ loop' = [call |-> "store", field |-> scheduledTime]
      /\ i' = 0 /\ bytePosition' = AIA_ALERT_TOKEN_CHARS
      /\ scheduledTime \in Field /\ scheduledTime = 1
      /\ \A f \in Field : f \in Nat /\ f >= 1
      /\ loaded' = Zero
      /\ \A f \in Field : loaded'[f] = {}
  BY DEF Update, Field, scheduledTime, Zero
<1>2. TypeOK'
  <2>1. bytePosition' \in 0 .. AIA_SIZE_OF_ALERT_IN_BYTES - 1
    BY <1>1, Widths, WidthAssumption DEF AIA_SIZE_OF_ALERT_IN_BYTES
  <2>2. i' \in 0 .. Width(loop'.field) - 1
    BY <1>1, Widths
  <2> QED  BY <1>1, <2>1, <2>2 DEF IInv, TypeOK, Zero, Width
<1>3. PositionInv'
  BY <1>1, WidthAssumption DEF PositionInv, Start
<1>4. BufferInv'
  BY <1>1, Widths DEF BufferInv, Before, Width
<1>5. LoadedInv'
  BY <1>1 DEF LoadedInv
<1>6. UnsignedInv'
  BY <1>1 DEF UnsignedInv
<1> QED
  BY <1>2, <1>3, <1>4, <1>5, <1>6 DEF IInv

LEMMA Invariance == Spec => []IInv
<1>1. IInv /\ [Next]_vars => IInv'
  <2>1. IInv /\ UNCHANGED vars => IInv'
    BY DEF IInv, TypeOK, PositionInv, BufferInv, LoadedInv, UnsignedInv, vars,
           Start, Width, Before, Exact, TimeFits, Byte
  <2> QED  BY <2>1, StoreByteStep, LoadByteStep, UpdateStep DEF Next
<1> QED
  BY <1>1, InitInv, PTL DEF Spec

---------------------------------------------------------------------------
\* Every variable keeps its type: no store and no load runs past the bytes of its field, and
\* a loaded field is made of numbered bits, whatever the widths.
THEOREM TypeCorrect == Spec => []TypeOK
<1>1. IInv => TypeOK
  BY DEF IInv
<1> QED
  BY <1>1, Invariance, PTL

\* An alert comes back as it was stored exactly if its time fits an unsigned, whatever the
\* undefined shifts do and whatever alert its section held before.
THEOREM RoundTripHolds == Spec => []RoundTrip
<1>1. IInv => RoundTrip
  <2> SUFFICES ASSUME IInv, loop.call = "done" PROVE loaded = alert <=> TimeFits
    BY DEF RoundTrip
  <2>1. ASSUME TimeFits PROVE loaded = alert
    <3>1. \A f \in Field : loaded[f] = alert[f]
      BY <2>1 DEF IInv, LoadedInv, Exact
    <3>2. /\ DOMAIN loaded = Field /\ DOMAIN alert = Field
          /\ loaded = [f \in Field |-> loaded[f]] /\ alert = [f \in Field |-> alert[f]]
      BY DEF IInv, TypeOK, Alert
    <3> QED  BY <3>1, <3>2
  <2>2. ASSUME loaded = alert PROVE TimeFits
    <3>1. \A x \in alert[scheduledTime] : x[1] < UnsignedBytes
      BY <2>2 DEF IInv, UnsignedInv
    <3>2. \A n \in Nat : n >= UnsignedBytes => Byte(alert[scheduledTime], n) = {}
      BY <3>1, WidthAssumption DEF Byte
    <3> QED  BY <3>2, WidthAssumption DEF TimeFits
  <2> QED  BY <2>1, <2>2
<1> QED
  BY <1>1, Invariance, PTL

\* A time that does not fit spoils no other field.
THEOREM OthersSurviveHolds == Spec => []OthersSurvive
<1>1. IInv => OthersSurvive
  BY DEF IInv, LoadedInv, Exact, OthersSurvive, Field, scheduledTime, duration, alertType
<1> QED
  BY <1>1, Invariance, PTL
===========================================================================
