---------------------------- MODULE AlertCodec ----------------------------
(***************************************************************************)
(* How AiaStoreAlert turns the three numbers of an alert into bytes and    *)
(* AiaLoadAlert turns them back, byte by byte.  A number is the set of its *)
(* one bits and a bit is a pair of a byte index and an index in that byte: *)
(* every shift in the code is by whole bytes.  AiaLoadAlert shifts an      *)
(* unsigned, which has fewer bytes than a scheduled time; a shift by more  *)
(* than that is undefined, and is here either of the two things shift      *)
(* instructions do: move the byte out, or use the shift count modulo the   *)
(* width of the register.                                                  *)
(***************************************************************************)
EXTENDS Naturals

CONSTANTS
    Bit,                    \* the bits of a byte
    TimeBytes,              \* sizeof( AiaTimepointSeconds_t )
    DurationBytes,          \* sizeof( AiaDurationMs_t )
    UnsignedBytes,          \* sizeof( unsigned )
    AIA_ALERT_TOKEN_CHARS   \* the fields follow the token

ASSUME WidthAssumption ==
    /\ TimeBytes \in Nat \ {0}
    /\ DurationBytes \in Nat \ {0}
    /\ UnsignedBytes \in Nat \ {0}
    /\ DurationBytes <= UnsignedBytes
    /\ AIA_ALERT_TOKEN_CHARS \in Nat

VARIABLES
    alert,          \* the fields given to AiaStoreAlert
    buffer,         \* the section of the alerts blob, bytes
    loaded,         \* the fields AiaLoadAlert has put together
    loop,           \* the loop that runs: its field, and "store", "load" or "done"
    i,              \* its counter
    bytePosition

vars == <<alert, buffer, loaded, loop, i, bytePosition>>

\* The fields, in the order both functions go through them.
Field == 1 .. 3
scheduledTime == 1
duration == 2
alertType == 3

Width(f) == IF f = scheduledTime THEN TimeBytes ELSE IF f = duration THEN DurationBytes ELSE 1

\* Numbers of w bytes, and the fields of an alert.
Number(w) == SUBSET ((0 .. w - 1) \X Bit)
Alert == {a \in [Field -> Number(TimeBytes + DurationBytes)] : \A f \in Field : a[f] \in Number(Width(f))}

AIA_SIZE_OF_ALERT_IN_BYTES == AIA_ALERT_TOKEN_CHARS + TimeBytes + DurationBytes + 1

\* Byte n of a number: shifted right by n bytes and cut to one.
Byte(v, n) == {k \in Bit : <<n, k>> \in v}

\* A wrong Shifted: the byte is not shifted to its place.
ShiftedNowhere(b, n) == {{<<0, k>> : k \in b}}

\* What (unsigned)b << ( n * 8 ) can be.
Shifted(b, n) ==
    IF n < UnsignedBytes THEN {{<<n, k>> : k \in b}}
                         ELSE {{}, {<<n % UnsignedBytes, k>> : k \in b}}

Zero == [f \in Field |-> {}]

---------------------------------------------------------------------------
Init == /\ alert \in Alert
        /\ buffer = [p \in 0 .. AIA_SIZE_OF_ALERT_IN_BYTES - 1 |-> {}]
        /\ loaded = Zero
        /\ loop = [call |-> "store", field |-> scheduledTime]
        /\ i = 0
        /\ bytePosition = AIA_ALERT_TOKEN_CHARS

\* A wrong Advance: the second call goes on where the first one ended.
AdvanceWithoutReset(then) ==
    /\ bytePosition' = bytePosition + 1
    /\ \/ i + 1 < Width(loop.field) /\ i' = i + 1 /\ UNCHANGED loop
       \/ /\ i + 1 = Width(loop.field)
          /\ i' = 0
          /\ loop' = IF loop.field = alertType THEN [call |-> then, field |-> scheduledTime]
                                               ELSE [loop EXCEPT !.field = @ + 1]

\* The counters after one iteration; the last one of call ends in then.
Advance(then) ==
    \/ /\ i + 1 < Width(loop.field)
       /\ i' = i + 1
       /\ bytePosition' = bytePosition + 1
       /\ UNCHANGED loop
    \/ /\ i + 1 = Width(loop.field)
       /\ i' = 0
       /\ \/ /\ loop.field # alertType
             /\ loop' = [loop EXCEPT !.field = @ + 1]
             /\ bytePosition' = bytePosition + 1
          \/ /\ loop.field = alertType
             /\ loop' = [call |-> then, field |-> scheduledTime]
             /\ bytePosition' = AIA_ALERT_TOKEN_CHARS

\* One iteration of a loop of AiaStoreAlert.
StoreByte ==
    /\ loop.call = "store"
    /\ buffer' = [buffer EXCEPT ![bytePosition] = Byte(alert[loop.field], i)]
    /\ Advance("load")
    /\ UNCHANGED <<alert, loaded>>

\* One iteration of a loop of AiaLoadAlert.
LoadByte ==
    /\ loop.call = "load"
    /\ \E b \in Shifted(buffer[bytePosition], i) :
        loaded' = [loaded EXCEPT ![loop.field] = @ \cup b]
    /\ Advance("done")
    /\ UNCHANGED <<alert, buffer>>

\* The alert is rescheduled: AiaStoreAlert writes other fields to its section.
Update(a) ==
    /\ loop.call = "done"
    /\ alert' = a
    /\ loaded' = Zero
    /\ loop' = [call |-> "store", field |-> scheduledTime]
    /\ i' = 0
    /\ bytePosition' = AIA_ALERT_TOKEN_CHARS
    /\ UNCHANGED buffer

Next == StoreByte \/ LoadByte \/ (\E a \in Alert : Update(a))

Spec == Init /\ [][Next]_vars

---------------------------------------------------------------------------
(* Properties. *)

TypeOK ==
    /\ alert \in Alert
    /\ buffer \in [0 .. AIA_SIZE_OF_ALERT_IN_BYTES - 1 -> SUBSET Bit]
    /\ loaded \in [Field -> SUBSET (Nat \X Bit)]
    /\ loop \in [call : {"store", "load", "done"}, field : Field]
    /\ i \in 0 .. Width(loop.field) - 1
    /\ bytePosition \in 0 .. AIA_SIZE_OF_ALERT_IN_BYTES - 1

\* The time fits an unsigned, as it does until 2036.
TimeFits == \A n \in 0 .. TimeBytes - 1 : n >= UnsignedBytes => Byte(alert[scheduledTime], n) = {}

\* What is loaded is what was stored, whatever the section held before, exactly if the time
\* fits an unsigned: then the shifts that are undefined shift zeroes, and otherwise none of
\* the things they may do brings the time back.
RoundTrip == loop.call = "done" => (loaded = alert <=> TimeFits)

\* A time that does not fit spoils no other field.
OthersSurvive ==
    loop.call = "done" => loaded[duration] = alert[duration] /\ loaded[alertType] = alert[alertType]
===========================================================================
