-------------------------- MODULE SampleApp_proofs --------------------------
(***************************************************************************)
(* That a registration gives back what it takes, however many managers     *)
(* were left behind before: the library, the connection and the manager;   *)
(* that the strings it is made with are whole, whatever they are; and that *)
(* the demo around it gives back what it acquires, in every build, the     *)
(* users of a resource before it, on every failure path.                   *)
(***************************************************************************)
EXTENDS SampleApp, SequenceTheorems, TLAPS

\* The calls of a request between which the library is initialised, those between which
\* there is a connection, and those before any callback.
WithLibrary == {"request", "connect", "header", "send", "failed", "length", "disconnect"}
WithConnection == {"header", "send", "failed", "length", "disconnect"}
Unanswered == {"parse", "init", "request", "connect", "header", "send", "failed", "length"}

\* What a request holds is told by where it is.
RequestInv ==
    /\ library = IF pc \in WithLibrary THEN 1 ELSE 0
    /\ connHandle <=> pc \in WithConnection
    /\ pc \in Unanswered => callbacks = {}
    /\ pc # "idle" => at = "sending"

\* The manager is there until a callback, and a request that fails makes none.
ManagerInv ==
    /\ registrationManager => managers >= 1
    /\ at \in {"register", "reading", "undo"} => registrationManager
    /\ pc \in Unanswered => registrationManager
    /\ pc = "disconnect" => (registrationManager <=> callbacks = {})
    /\ at = "sending" /\ pc = "idle" /\ result => (registrationManager <=> callbacks = {})
    /\ at = "sending" /\ pc = "idle" /\ ~ result => registrationManager
    /\ at = "idle" => (registrationManager <=> registered /\ callbacks = {})

RegistrationInv == TypeOK /\ RequestInv /\ ManagerInv

---------------------------------------------------------------------------
USE DEF WithLibrary, WithConnection, Unanswered

LEMMA RegistrationInit == Init => RegistrationInv
<1> SUFFICES ASSUME Init PROVE RegistrationInv
  OBVIOUS
<1>1. 0 \in 0 .. MaxManagers /\ 0 \in 0 .. 1
  BY RegistrationAssumption
<1>2. TypeOK
  BY <1>1, Zenon DEF Init, TypeOK, Https!Init, Https!TypeOK, Https!Outcome
<1>3. RequestInv
  BY DEF Init, RequestInv, Https!Init
<1>4. ManagerInv
  BY DEF Init, ManagerInv, Https!Init
<1> QED
  BY <1>2, <1>3, <1>4 DEF RegistrationInv

\* The steps of registerAia.
LEMMA RegisterAiaStep ==
    ASSUME RegistrationInv, CreateManager \/ Register \/ SendRequest \/ RegisterReturns \/ Undo
    PROVE  RegistrationInv'
<1>1. /\ at \in {"idle", "register", "reading", "sending", "undo"}
      /\ managers \in 0 .. MaxManagers /\ MaxManagers \in Nat
      /\ TypeOK /\ RequestInv /\ ManagerInv
  BY RegistrationAssumption DEF RegistrationInv, TypeOK
<1>2. CASE CreateManager
  <2>1. TypeOK'
    <3>1. managers' \in 0 .. MaxManagers
      BY <1>1, <1>2 DEF CreateManager
    <3> QED
      BY <1>1, <1>2, <3>1, Zenon DEF CreateManager, Goto, TypeOK, Https!TypeOK, https
  <2>2. RequestInv'
    BY <1>1, <1>2 DEF CreateManager, Goto, RequestInv, https
  <2>3. ManagerInv'
    BY <1>1, <1>2 DEF CreateManager, Goto, RequestInv, ManagerInv, https
  <2> QED  BY <2>1, <2>2, <2>3 DEF RegistrationInv
<1>3. CASE Register
  <2>1. TypeOK'
    <3>1. DOMAIN request' \subseteq Identity /\ \A x \in DOMAIN request' : request'[x] \in Buffer
      BY <1>1, <1>3, Zenon DEF Register, TypeOK
    <3> QED
      BY <1>1, <1>3, <3>1, Zenon DEF Register, Goto, TypeOK, Https!TypeOK, https
  <2>2. RequestInv'
    BY <1>1, <1>3 DEF Register, Goto, RequestInv, https
  <2>3. ManagerInv'
    BY <1>1, <1>3 DEF Register, Goto, RequestInv, ManagerInv, https
  <2> QED  BY <2>1, <2>2, <2>3 DEF RegistrationInv
<1>6. CASE SendRequest
  <2>1. TypeOK'
    BY <1>1, <1>6, Zenon DEF SendRequest, Goto, TypeOK, Https!TypeOK, Https!AiaSendHttpsRequest,
                      Https!Goto, Https!Outcome
  <2>2. RequestInv'
    BY <1>1, <1>6 DEF SendRequest, Goto, RequestInv, Https!AiaSendHttpsRequest, Https!Goto
  <2>3. ManagerInv'
    BY <1>1, <1>6 DEF SendRequest, Goto, RequestInv, ManagerInv, Https!AiaSendHttpsRequest,
                      Https!Goto
  <2> QED  BY <2>1, <2>2, <2>3 DEF RegistrationInv
<1>4. CASE RegisterReturns
  <2>1. TypeOK'
    BY <1>1, <1>4 DEF RegisterReturns, Goto, TypeOK, Https!TypeOK, https
  <2>2. RequestInv'
    BY <1>1, <1>4 DEF RegisterReturns, Goto, RequestInv, https
  <2>3. ManagerInv'
    BY <1>1, <1>4 DEF RegisterReturns, Goto, RequestInv, ManagerInv, https
  <2> QED  BY <2>1, <2>2, <2>3 DEF RegistrationInv
<1>5. CASE Undo
  <2>1. TypeOK'
    <3>1. managers' \in 0 .. MaxManagers
      BY <1>1, <1>5 DEF Undo, Goto, DestroyManager, ManagerInv
    <3> QED
      BY <1>1, <1>5, <3>1, Zenon DEF Undo, Goto, DestroyManager, TypeOK, Https!TypeOK, https
  <2>2. RequestInv'
    BY <1>1, <1>5 DEF Undo, Goto, RequestInv, https
  <2>3. ManagerInv'
    BY <1>1, <1>5 DEF Undo, Goto, DestroyManager, RequestInv, ManagerInv, https
  <2> QED  BY <2>1, <2>2, <2>3 DEF RegistrationInv
<1> QED
  BY <1>2, <1>3, <1>4, <1>5, <1>6

\* What a getter copies to a buffer of the length it has told, or of any greater one, is
\* the string and its final zero, and the rest of the buffer is left alone.
LEMMA CopiedString ==
    ASSUME NEW string \in Seq(Char), NEW buffer \in Buffer, LengthOf(string) <= Len(buffer)
    PROVE  /\ Copied(string, buffer) \in Buffer
           /\ Len(Copied(string, buffer)) = Len(buffer)
           /\ Holds(Copied(string, buffer), string)
           /\ \A n \in LengthOf(string) + 1 .. Len(buffer) :
                Copied(string, buffer)[n] = buffer[n]
<1> DEFINE c == Copied(string, buffer)
<1>1. /\ Len(string) \in Nat /\ Len(buffer) \in Nat
      /\ DOMAIN buffer = 1 .. Len(buffer) /\ DOMAIN string = 1 .. Len(string)
      /\ \A n \in 1 .. Len(buffer) : buffer[n] \in Char \cup {NUL}
      /\ \A n \in 1 .. Len(string) : string[n] \in Char
  BY DEF Buffer
<1>2. \A n \in 1 .. Len(buffer) :
        c[n] = IF n <= Len(string) THEN string[n]
               ELSE IF n = LengthOf(string) THEN NUL ELSE buffer[n]
  BY <1>1 DEF Copied
<1>3. c \in [1 .. Len(buffer) -> Char \cup {NUL}]
  <2>1. c = [n \in 1 .. Len(buffer) |->
                IF n <= Len(string) THEN string[n]
                ELSE IF n = LengthOf(string) THEN NUL ELSE buffer[n]]
    BY <1>1 DEF Copied
  <2>2. \A n \in 1 .. Len(buffer) : c[n] \in Char \cup {NUL}
    BY <1>1, <1>2
  <2> QED  BY <2>1, <2>2
<1>4. c \in Buffer /\ Len(c) = Len(buffer)
  BY <1>1, <1>3 DEF Buffer
<1>5. Holds(c, string)
  <2>1. Append(string, NUL) = [n \in 1 .. Len(string) + 1 |->
                                IF n <= Len(string) THEN string[n] ELSE NUL]
    <3>1. string \in Seq(Char \cup {NUL})
      BY <1>1
    <3>2. Append(string, NUL) \in Seq(Char \cup {NUL}) /\ Len(Append(string, NUL)) = Len(string) + 1
      BY <3>1
    <3>3. \A n \in 1 .. Len(string) + 1 :
            Append(string, NUL)[n] = IF n <= Len(string) THEN string[n] ELSE NUL
      BY <1>1, <3>1
    <3>4. Append(string, NUL) \in [1 .. Len(string) + 1 -> Char \cup {NUL}]
      <4>1. \A t \in Seq(Char \cup {NUL}) : t \in [1 .. Len(t) -> Char \cup {NUL}]
        OBVIOUS
      <4>2. Append(string, NUL) \in [1 .. Len(Append(string, NUL)) -> Char \cup {NUL}]
        BY <3>2, <4>1, Zenon
      <4> QED  BY <3>2, <4>2, Zenon
    <3> QED  BY <1>1, <3>3, <3>4
  <2>2. SubSeq(c, 1, LengthOf(string)) = [n \in 1 .. LengthOf(string) |-> c[n]]
    BY <1>1, <1>4 DEF LengthOf, Buffer
  <2>3. \A n \in 1 .. LengthOf(string) :
          c[n] = IF n <= Len(string) THEN string[n] ELSE NUL
    BY <1>1, <1>2 DEF LengthOf
  <2> QED
    BY <1>1, <1>4, <2>1, <2>2, <2>3 DEF Holds, LengthOf
<1>6. \A n \in LengthOf(string) + 1 .. Len(buffer) : c[n] = buffer[n]
  BY <1>1, <1>2 DEF LengthOf
<1> QED
  BY <1>4, <1>5, <1>6

\* A getter that is first asked for the length, and then for the string with a buffer that
\* has it or more, returns true both times and leaves the string in the buffer, whole and
\* ended; with a shorter buffer it returns false and leaves the buffer as it was.
THEOREM GetterReturnsWholeString ==
    ASSUME NEW string \in Seq(Char), NEW buffer \in Buffer, NEW anyLen \in Nat
    PROVE  LET length == Get(string, NULL, anyLen)
               got    == Get(string, buffer, Len(buffer))
           IN  /\ length.returns /\ length.len = Len(string) + 1
               /\ length.len <= Len(buffer) => got.returns /\ Holds(got.buffer, string)
               /\ length.len > Len(buffer) => ~ got.returns /\ got.buffer = buffer
<1>1. NULL # anyLen /\ NULL # buffer /\ NULL # Len(buffer) /\ Len(buffer) \in Nat
      /\ Len(string) \in Nat
  BY CharAssumption DEF Buffer
<1>2. GetSucceeds(string, NULL, anyLen)
  BY <1>1 DEF GetSucceeds
<1>3. GetSucceeds(string, buffer, Len(buffer)) <=> LengthOf(string) <= Len(buffer)
  BY <1>1 DEF GetSucceeds
<1>4. LengthOf(string) = Len(string) + 1
  BY DEF LengthOf
<1>5. LengthOf(string) <= Len(buffer) => Holds(Copied(string, buffer), string)
  BY CopiedString
<1> QED
  BY <1>1, <1>2, <1>3, <1>4, <1>5 DEF Get

\* Asking for a string.
LEMMA ReadIdentityStep ==
    ASSUME RegistrationInv, NEW x \in Identity, ReadIdentity(x)
    PROVE  RegistrationInv'
<1> DEFINE blank(size) == [n \in 1 .. size |-> Uninitialized]
<1>1. /\ TypeOK /\ RequestInv /\ ManagerInv
      /\ UNCHANGED <<registrationManager, managers, registered, https>>
  BY DEF RegistrationInv, ReadIdentity
<1>2. PICK size \in {Get(Configured[x], NULL, 0).len, FixedBuffer} :
        LET got == Get(Configured[x], blank(size), size)
        IN  \/ /\ got.returns
               /\ at = "reading"
               /\ request' = [y \in DOMAIN request \cup {x} |->
                                   IF y = x THEN got.buffer ELSE request[y]]
               /\ UNCHANGED at
            \/ ~ got.returns /\ Goto("reading", "undo") /\ UNCHANGED request
  BY Zenon DEF ReadIdentity
<1>3. Configured[x] \in Seq(Char) /\ Len(Configured[x]) \in Nat
  BY RegistrationAssumption
<1>4. Get(Configured[x], NULL, 0).len = Len(Configured[x]) + 1
  BY <1>3, CharAssumption DEF Get, GetSucceeds, LengthOf
<1>5. size \in Nat
  BY <1>2, <1>3, <1>4, RegistrationAssumption
<1>6. blank(size) \in Buffer /\ Len(blank(size)) = size
  BY <1>5, RegistrationAssumption DEF Buffer
<1>7. CASE /\ Get(Configured[x], blank(size), size).returns
           /\ at = "reading"
           /\ request' = [y \in DOMAIN request \cup {x} |->
                IF y = x THEN Get(Configured[x], blank(size), size).buffer ELSE request[y]]
           /\ UNCHANGED at
  <2>1. NULL # blank(size)
    BY <1>6, CharAssumption DEF Buffer
  <2>2. LengthOf(Configured[x]) <= size
    BY <1>7, <2>1 DEF Get, GetSucceeds
  <2>3. Get(Configured[x], blank(size), size).buffer = Copied(Configured[x], blank(size))
    BY <1>7, <2>1 DEF Get
  <2>4. Copied(Configured[x], blank(size)) \in Buffer
    BY <1>3, <1>6, <2>2, CopiedString
  <2>5. DOMAIN request' \subseteq Identity /\ \A y \in DOMAIN request' : request'[y] \in Buffer
    BY <1>1, <1>7, <2>3, <2>4 DEF TypeOK
  <2>6. TypeOK'
    BY <1>1, <1>7, <2>5, Zenon DEF TypeOK, Https!TypeOK, https
  <2>7. RequestInv' /\ ManagerInv'
    BY <1>1, <1>7 DEF RequestInv, ManagerInv, https
  <2> QED  BY <2>6, <2>7 DEF RegistrationInv
<1>8. CASE Goto("reading", "undo") /\ UNCHANGED request
  <2>1. TypeOK'
    BY <1>1, <1>8, Zenon DEF Goto, TypeOK, Https!TypeOK, https
  <2>2. RequestInv' /\ ManagerInv'
    BY <1>1, <1>8 DEF Goto, RequestInv, ManagerInv, https
  <2> QED  BY <2>1, <2>2 DEF RegistrationInv
<1> QED
  BY <1>2, <1>7, <1>8, Zenon

\* The steps of a request that make no callback.
LEMMA SendStep ==
    ASSUME RegistrationInv, Send
    PROVE  RegistrationInv'
<1>1. /\ TypeOK /\ RequestInv /\ ManagerInv
      /\ UNCHANGED <<at, registrationManager, managers, registered, request>>
  BY DEF RegistrationInv, Send
<1>2. CASE Https!ParseUrl
  <2>1. library' \in 0 .. 1
    BY <1>1, <1>2, SMT DEF TypeOK, RequestInv, Https!TypeOK, Https!ParseUrl, Https!Goto, Https!ReturnFalse
  <2>2. networkInfo' \in BOOLEAN /\ connHandle' \in BOOLEAN /\ result' \in BOOLEAN
    BY <1>1, <1>2, Zenon DEF TypeOK, Https!TypeOK, Https!ParseUrl, Https!Goto, Https!ReturnFalse
  <2>3. TypeOK'
    BY <1>1, <1>2, <2>1, <2>2, Zenon DEF TypeOK, Https!TypeOK, Https!ParseUrl, Https!Goto, Https!ReturnFalse
  <2>4. RequestInv' /\ ManagerInv'
    BY <1>1, <1>2 DEF RequestInv, ManagerInv, Https!ParseUrl, Https!Goto, Https!ReturnFalse
  <2> QED  BY <2>3, <2>4 DEF RegistrationInv
<1>3. CASE Https!InitLibrary
  <2>1. library' \in 0 .. 1
    BY <1>1, <1>3, SMT DEF TypeOK, RequestInv, Https!TypeOK, Https!InitLibrary, Https!Goto, Https!ReturnFalse
  <2>2. networkInfo' \in BOOLEAN /\ connHandle' \in BOOLEAN /\ result' \in BOOLEAN
    BY <1>1, <1>3, Zenon DEF TypeOK, Https!TypeOK, Https!InitLibrary, Https!Goto, Https!ReturnFalse
  <2>3. TypeOK'
    BY <1>1, <1>3, <2>1, <2>2, Zenon DEF TypeOK, Https!TypeOK, Https!InitLibrary, Https!Goto, Https!ReturnFalse
  <2>4. RequestInv' /\ ManagerInv'
    BY <1>1, <1>3 DEF RequestInv, ManagerInv, Https!InitLibrary, Https!Goto, Https!ReturnFalse
  <2> QED  BY <2>3, <2>4 DEF RegistrationInv
<1>4. CASE Https!InitializeRequest
  <2>1. library' \in 0 .. 1
    BY <1>1, <1>4, SMT DEF TypeOK, RequestInv, Https!TypeOK, Https!InitializeRequest, Https!Goto, Https!ReturnFalse
  <2>2. networkInfo' \in BOOLEAN /\ connHandle' \in BOOLEAN /\ result' \in BOOLEAN
    BY <1>1, <1>4, Zenon DEF TypeOK, Https!TypeOK, Https!InitializeRequest, Https!Goto, Https!ReturnFalse
  <2>3. TypeOK'
    BY <1>1, <1>4, <2>1, <2>2, Zenon DEF TypeOK, Https!TypeOK, Https!InitializeRequest, Https!Goto, Https!ReturnFalse
  <2>4. RequestInv' /\ ManagerInv'
    BY <1>1, <1>4 DEF RequestInv, ManagerInv, Https!InitializeRequest, Https!Goto, Https!ReturnFalse
  <2> QED  BY <2>3, <2>4 DEF RegistrationInv
<1>5. CASE Https!Connect
  <2>1. library' \in 0 .. 1
    BY <1>1, <1>5, SMT DEF TypeOK, RequestInv, Https!TypeOK, Https!Connect, Https!Goto, Https!ReturnFalse
  <2>2. networkInfo' \in BOOLEAN /\ connHandle' \in BOOLEAN /\ result' \in BOOLEAN
    BY <1>1, <1>5, Zenon DEF TypeOK, Https!TypeOK, Https!Connect, Https!Goto, Https!ReturnFalse
  <2>3. TypeOK'
    BY <1>1, <1>5, <2>1, <2>2, Zenon DEF TypeOK, Https!TypeOK, Https!Connect, Https!Goto, Https!ReturnFalse
  <2>4. RequestInv' /\ ManagerInv'
    BY <1>1, <1>5 DEF RequestInv, ManagerInv, Https!Connect, Https!Goto, Https!ReturnFalse
  <2> QED  BY <2>3, <2>4 DEF RegistrationInv
<1>6. CASE Https!AddHeader
  <2>1. library' \in 0 .. 1
    BY <1>1, <1>6, SMT DEF TypeOK, RequestInv, Https!TypeOK, Https!AddHeader, Https!Goto, Https!ReturnFalse
  <2>2. networkInfo' \in BOOLEAN /\ connHandle' \in BOOLEAN /\ result' \in BOOLEAN
    BY <1>1, <1>6, Zenon DEF TypeOK, Https!TypeOK, Https!AddHeader, Https!Goto, Https!ReturnFalse
  <2>3. TypeOK'
    BY <1>1, <1>6, <2>1, <2>2, Zenon DEF TypeOK, Https!TypeOK, Https!AddHeader, Https!Goto, Https!ReturnFalse
  <2>4. RequestInv' /\ ManagerInv'
    BY <1>1, <1>6 DEF RequestInv, ManagerInv, Https!AddHeader, Https!Goto, Https!ReturnFalse
  <2> QED  BY <2>3, <2>4 DEF RegistrationInv
<1>7. CASE Https!SendSync
  <2>1. library' \in 0 .. 1
    BY <1>1, <1>7, Zenon DEF TypeOK, Https!TypeOK, Https!SendSync
  <2>2. networkInfo' \in BOOLEAN /\ connHandle' \in BOOLEAN /\ result' \in BOOLEAN
    BY <1>1, <1>7, Zenon DEF TypeOK, Https!TypeOK, Https!SendSync, Https!Goto
  <2>3. TypeOK'
    BY <1>1, <1>7, <2>1, <2>2, Zenon DEF TypeOK, Https!TypeOK, Https!SendSync, Https!Goto, Https!Outcome
  <2>4. RequestInv' /\ ManagerInv'
    BY <1>1, <1>7 DEF RequestInv, ManagerInv, Https!SendSync, Https!Goto
  <2> QED  BY <2>3, <2>4 DEF RegistrationInv
<1>8. CASE Https!DisconnectAndCleanup
  <2>1. library' \in 0 .. 1
    BY <1>1, <1>8, SMT DEF TypeOK, RequestInv, Https!TypeOK, Https!DisconnectAndCleanup, Https!Goto
  <2>2. networkInfo' \in BOOLEAN /\ connHandle' \in BOOLEAN /\ result' \in BOOLEAN
    BY <1>1, <1>8, Zenon DEF TypeOK, Https!TypeOK, Https!DisconnectAndCleanup, Https!Goto
  <2>3. TypeOK'
    BY <1>1, <1>8, <2>1, <2>2, Zenon DEF TypeOK, Https!TypeOK, Https!DisconnectAndCleanup, Https!Goto
  <2>4. RequestInv' /\ ManagerInv'
    BY <1>1, <1>8 DEF RequestInv, ManagerInv, Https!DisconnectAndCleanup, Https!Goto
  <2> QED  BY <2>3, <2>4 DEF RegistrationInv
<1> QED
  BY <1>2, <1>3, <1>4, <1>5, <1>6, <1>7, <1>8 DEF Send

\* A callback finds the manager and destroys it.
LEMMA OnAnswerStep ==
    ASSUME RegistrationInv, OnAnswer
    PROVE  RegistrationInv'
<1>1. /\ TypeOK /\ RequestInv /\ ManagerInv
      /\ pc \in {"failed", "length"} /\ pc' = "disconnect"
      /\ UNCHANGED <<at, registered, request, networkInfo, library, connHandle, sent, result>>
      /\ callbacks' \in {{}, {"failureCallback"}, {"responseCallback"}}
  BY DEF RegistrationInv, RequestInv, OnAnswer, Https!Goto, Https!FailureCallback, Https!ReadContentLength
<1>2. callbacks = {} /\ registrationManager /\ managers \in 1 .. MaxManagers
  BY <1>1, RegistrationAssumption DEF TypeOK, RequestInv, ManagerInv
<1>3. /\ registrationManager' <=> callbacks' = {}
      /\ registrationManager' \in BOOLEAN
      /\ managers' \in 0 .. MaxManagers
      /\ registrationManager' => managers' >= 1
  <2>1. CASE callbacks' = callbacks
    BY <1>2, <2>1, RegistrationAssumption DEF OnAnswer
  <2>2. CASE callbacks' # callbacks
    <3>1. registrationManager' = FALSE /\ managers' = managers - 1
      BY <2>2 DEF OnAnswer, DestroyManager
    <3>2. managers' \in 0 .. MaxManagers
      BY <1>2, <3>1, RegistrationAssumption
    <3> QED  BY <1>2, <2>2, <3>1, <3>2, Zenon
  <2> QED  BY <2>1, <2>2
<1>4. TypeOK'
  BY <1>1, <1>3 DEF TypeOK, Https!TypeOK
<1>5. RequestInv' /\ ManagerInv'
  BY <1>1, <1>3 DEF RequestInv, ManagerInv
<1> QED
  BY <1>4, <1>5 DEF RegistrationInv

LEMMA RegistrationInvariance == Spec => []RegistrationInv
<1>1. RegistrationInv /\ [Next]_vars => RegistrationInv'
  <2>1. RegistrationInv /\ StoreNetworkInfo => RegistrationInv'
    <3> SUFFICES ASSUME RegistrationInv, StoreNetworkInfo PROVE RegistrationInv'
      OBVIOUS
    <3>1. /\ UNCHANGED <<at, registrationManager, managers, registered, request>>
          /\ UNCHANGED <<pc, library, connHandle, sent, callbacks, result>>
          /\ networkInfo \in BOOLEAN => networkInfo' \in BOOLEAN
      BY DEF StoreNetworkInfo, Https!AiaHttpStoreNetworkInfo
    <3>2. TypeOK'
      BY <3>1 DEF RegistrationInv, TypeOK, Https!TypeOK
    <3>3. RequestInv' /\ ManagerInv'
      BY <3>1 DEF RegistrationInv, RequestInv, ManagerInv
    <3> QED  BY <3>2, <3>3 DEF RegistrationInv
  <2>2. RegistrationInv /\ UNCHANGED vars => RegistrationInv'
    BY DEF RegistrationInv, TypeOK, RequestInv, ManagerInv, Https!TypeOK, vars, https
  <2> QED  BY <2>1, <2>2, RegisterAiaStep, ReadIdentityStep, SendStep, OnAnswerStep DEF Next
<1> QED
  BY <1>1, RegistrationInit, PTL DEF Spec

---------------------------------------------------------------------------

\* Whichever call of whichever request fails, the library and the connection are given
\* back by the time AiaSendHttpsRequest returns.
THEOREM GivesBackHolds == Spec => []GivesBack
<1>1. RegistrationInv => GivesBack
  BY DEF RegistrationInv, RequestInv, GivesBack, Https!GivesBack
<1> QED
  BY <1>1, RegistrationInvariance, PTL

\* Neither a callback nor registerAia ever destroys a manager that is not there.
THEOREM DestroyFindsManagerHolds == Spec => []DestroyFindsManager
<1>1. RegistrationInv => DestroyFindsManager
  BY DEF RegistrationInv, ManagerInv, DestroyFindsManager
<1> QED
  BY <1>1, RegistrationInvariance, PTL

\* A manager is left exactly by a registration that returned true without a callback.
THEOREM LeavesManagerIfUnansweredHolds == Spec => []LeavesManagerIfUnanswered
<1>1. RegistrationInv => LeavesManagerIfUnanswered
  BY DEF RegistrationInv, ManagerInv, LeavesManagerIfUnanswered
<1> QED
  BY <1>1, RegistrationInvariance, PTL

HIDE DEF WithLibrary, WithConnection, Unanswered

---------------------------------------------------------------------------
(* The sequences of resources. *)

\* What outlives the sample app, and the seed, which cannot be given back.
Base == {"libraries", "mqttConnection"}
Kept == Base \cup {"seed"}

\* What there is after the first n steps of AiaSampleApp_Create.
Acquired(n) == Base \cup {CreateSteps[i] : i \in 1 .. n}

Buffers ==
    {"threading", "random", "crypto", "seed", "sampleApp", "rawMicrophoneBuffer",
     "microphoneBuffer", "microphoneBufferReader", "microphoneBufferWriter"}
Recorder == {"portAudio", "recorder", "recorderMutex", "paStream"}

\* What there is before each step of AiaSampleApp_Create.
Before ==
    [threading              |-> Base,
     random                 |-> Base \cup {"threading"},
     crypto                 |-> Base \cup {"threading", "random"},
     seed                   |-> Base \cup {"threading", "random", "crypto"},
     sampleApp              |-> Base \cup {"threading", "random", "crypto", "seed"},
     rawMicrophoneBuffer    |-> Base \cup {"threading", "random", "crypto", "seed", "sampleApp"},
     microphoneBuffer       |-> Base \cup (Buffers \ {"microphoneBuffer",
                                    "microphoneBufferReader", "microphoneBufferWriter"}),
     microphoneBufferReader |-> Base \cup (Buffers \ {"microphoneBufferReader",
                                    "microphoneBufferWriter"}),
     microphoneBufferWriter |-> Base \cup (Buffers \ {"microphoneBufferWriter"}),
     portAudio              |-> Base \cup Buffers,
     recorder               |-> Base \cup Buffers \cup {"portAudio"},
     recorderMutex          |-> Base \cup Buffers \cup {"portAudio", "recorder"},
     paStream               |-> Base \cup Buffers \cup {"portAudio", "recorder", "recorderMutex"},
     opusDecoder            |-> Base \cup Buffers \cup Recorder,
     portAudioSpeaker       |-> Base \cup Buffers \cup Recorder \cup {"opusDecoder"},
     offlineAlertPlaybackTimer |->
         Base \cup Buffers \cup Audio(Recorder \cup {"opusDecoder", "portAudioSpeaker"}),
     aia_eg                 |->
         Base \cup Buffers \cup Audio(Recorder \cup {"opusDecoder", "portAudioSpeaker"})
              \cup IF "SPEAKER" \in enabled THEN {"offlineAlertPlaybackTimer"} ELSE {}]

\* The calls p give back all of H, once, the users of a resource before it.
Frees(p, H) ==
    /\ p \in Seq(Resource)
    /\ \A n \in DOMAIN p : p[n] \in H \cup {"aia_eg"}
    /\ \A m, n \in DOMAIN p : p[m] = p[n] => m = n
    /\ \A n \in DOMAIN p : \A r \in H : p[n] \in Needs(r) => \E m \in 1 .. n - 1 : p[m] = r
    /\ \A r \in H \ Kept : \E n \in DOMAIN p : p[n] = r

Same(s, t) ==
    /\ s \in Seq(Resource) /\ t \in Seq(Resource)
    /\ Len(s) = Len(t)
    /\ \A i \in 1 .. Len(t) : s[i] = t[i]

LEMMA SameIsEqual ==
    ASSUME NEW s, NEW t, Same(s, t)
    PROVE  s = t
  BY SeqEqual DEF Same

\* The definition of Needs, resource by resource.
LEMMA NeedsOf ==
    /\ \A r \in {"libraries", "threading", "seed", "sampleApp", "portAudio", "opusDecoder",
                 "aia_eg"} : Needs(r) = {}
    /\ Needs("mqttConnection") = {"libraries"}
    /\ Needs("random") = {"threading"}
    /\ Needs("crypto") = {"threading"}
    /\ Needs("rawMicrophoneBuffer") = {"sampleApp"}
    /\ Needs("microphoneBuffer") = {"rawMicrophoneBuffer"}
    /\ Needs("microphoneBufferReader") = {"microphoneBuffer"}
    /\ Needs("microphoneBufferWriter") = {"microphoneBuffer"}
    /\ Needs("paStream") = {"portAudio"}
    /\ Needs("recorderMutex") = {"recorder"}
    /\ Needs("recorder") = {"microphoneBufferWriter"}
    /\ Needs("portAudioSpeaker") = {"sampleApp", "aiaClient"}
    /\ Needs("offlineAlertPlaybackTimer") =
           {"sampleApp", "aiaClient"} \cup Audio({"portAudioSpeaker"})
    /\ Needs("aiaClient") = {"mqttConnection", "crypto", "random", "sampleApp",
                             "microphoneBufferReader", "aia_eg"}
                            \cup Audio({"opusDecoder", "portAudioSpeaker"})
                            \cup Speaker({"offlineAlertPlaybackTimer"})
  BY Zenon DEF Needs

\* A step that leaves the build alone leaves alone what depends on it.
LEMMA SameBuild ==
    ASSUME UNCHANGED enabled
    PROVE  /\ CreateSteps' = CreateSteps
           /\ \A n : Acquired(n)' = Acquired(n)
           /\ \A r \in Resource : Needs(r)' = Needs(r)
           /\ \A p : \A H \in SUBSET Resource : Frees(p, H)' <=> Frees(p, H)
<1>1. CreateSteps' = CreateSteps
  BY DEF CreateSteps, If
<1>2. \A n : Acquired(n)' = Acquired(n)
  BY <1>1 DEF Acquired
<1>3. \A r \in Resource : Needs(r)' = Needs(r)
  BY Zenon DEF Needs, Audio, Speaker
<1>4. \A p : \A H \in SUBSET Resource : Frees(p, H)' <=> Frees(p, H)
  BY <1>3 DEF Frees
<1> QED
  BY <1>1, <1>2, <1>3, <1>4

\* AiaSampleApp_Create in each build: what there is before a step, and which is the last.
LEMMA CreateOrder ==
    ASSUME enabled \subseteq {"AUDIO", "SPEAKER"}
    PROVE  /\ CreateSteps \in Seq(Resource)
           /\ Len(CreateSteps) \in Nat \ {0}
           /\ \A i \in 1 .. Len(CreateSteps) :
                /\ CreateSteps[i] \in DOMAIN Before
                /\ Acquired(i - 1) = Before[CreateSteps[i]]
                /\ CreateSteps[i] = "aia_eg" <=> i = Len(CreateSteps)
<1>1. CASE enabled = {}
  <2> DEFINE steps == <<"threading", "random", "crypto", "seed", "sampleApp",
                            "rawMicrophoneBuffer", "microphoneBuffer",
                            "microphoneBufferReader", "microphoneBufferWriter", "aia_eg">>
  <2>1. Same(CreateSteps, steps)
    BY <1>1 DEF Same, CreateSteps, If, RecorderSteps, Resource
  <2>2. CreateSteps = steps /\ Len(CreateSteps) = 10
    BY <2>1, SameIsEqual
  <2>3. \A i \in 1 .. Len(CreateSteps) :
          /\ CreateSteps[i] \in DOMAIN Before
          /\ CreateSteps[i] = "aia_eg" <=> i = Len(CreateSteps)
    BY <2>2 DEF Before
  <2>4. \A i \in 1 .. Len(CreateSteps) : Acquired(i - 1) = Before[CreateSteps[i]]
    BY <1>1, <2>2 DEF Acquired, Before, Buffers, Recorder, Base, Audio
  <2> QED  BY <2>1, <2>2, <2>3, <2>4 DEF Same
<1>2. CASE enabled = {"AUDIO"}
  <2> DEFINE steps == <<"threading", "random", "crypto", "seed", "sampleApp",
                            "rawMicrophoneBuffer", "microphoneBuffer",
                            "microphoneBufferReader", "microphoneBufferWriter", "portAudio",
                            "recorder", "recorderMutex", "paStream", "opusDecoder",
                            "portAudioSpeaker", "aia_eg">>
  <2>1. Same(CreateSteps, steps)
    BY <1>2 DEF Same, CreateSteps, If, RecorderSteps, Resource
  <2>2. CreateSteps = steps /\ Len(CreateSteps) = 16
    BY <2>1, SameIsEqual
  <2>3. \A i \in 1 .. Len(CreateSteps) :
          /\ CreateSteps[i] \in DOMAIN Before
          /\ CreateSteps[i] = "aia_eg" <=> i = Len(CreateSteps)
    BY <2>2 DEF Before
  <2>4. \A i \in 1 .. Len(CreateSteps) : Acquired(i - 1) = Before[CreateSteps[i]]
    BY <1>2, <2>2 DEF Acquired, Before, Buffers, Recorder, Base, Audio
  <2> QED  BY <2>1, <2>2, <2>3, <2>4 DEF Same
<1>3. CASE enabled = {"SPEAKER"}
  <2> DEFINE steps == <<"threading", "random", "crypto", "seed", "sampleApp",
                            "rawMicrophoneBuffer", "microphoneBuffer",
                            "microphoneBufferReader", "microphoneBufferWriter",
                            "offlineAlertPlaybackTimer", "aia_eg">>
  <2>1. Same(CreateSteps, steps)
    BY <1>3 DEF Same, CreateSteps, If, RecorderSteps, Resource
  <2>2. CreateSteps = steps /\ Len(CreateSteps) = 11
    BY <2>1, SameIsEqual
  <2>3. \A i \in 1 .. Len(CreateSteps) :
          /\ CreateSteps[i] \in DOMAIN Before
          /\ CreateSteps[i] = "aia_eg" <=> i = Len(CreateSteps)
    BY <2>2 DEF Before
  <2>4. \A i \in 1 .. Len(CreateSteps) : Acquired(i - 1) = Before[CreateSteps[i]]
    BY <1>3, <2>2 DEF Acquired, Before, Buffers, Recorder, Base, Audio
  <2> QED  BY <2>1, <2>2, <2>3, <2>4 DEF Same
<1>4. CASE enabled = {"AUDIO", "SPEAKER"}
  <2> DEFINE steps == <<"threading", "random", "crypto", "seed", "sampleApp",
                            "rawMicrophoneBuffer", "microphoneBuffer",
                            "microphoneBufferReader", "microphoneBufferWriter", "portAudio",
                            "recorder", "recorderMutex", "paStream", "opusDecoder",
                            "portAudioSpeaker", "offlineAlertPlaybackTimer", "aia_eg">>
  <2>1. Same(CreateSteps, steps)
    BY <1>4 DEF Same, CreateSteps, If, RecorderSteps, Resource
  <2>2. CreateSteps = steps /\ Len(CreateSteps) = 17
    BY <2>1, SameIsEqual
  <2>3. \A i \in 1 .. Len(CreateSteps) :
          /\ CreateSteps[i] \in DOMAIN Before
          /\ CreateSteps[i] = "aia_eg" <=> i = Len(CreateSteps)
    BY <2>2 DEF Before
  <2>4. \A i \in 1 .. Len(CreateSteps) : Acquired(i - 1) = Before[CreateSteps[i]]
    BY <1>4, <2>2 DEF Acquired, Before, Buffers, Recorder, Base, Audio
  <2> QED  BY <2>1, <2>2, <2>3, <2>4 DEF Same
<1> QED
  BY <1>1, <1>2, <1>3, <1>4

\* Each step of AiaSampleApp_Create finds what it uses, but for the client.
LEMMA UsesAreThere ==
    \A step \in DOMAIN Before : Needs(step) \subseteq Before[step] \cup {"aiaClient"}
  BY NeedsOf DEF Before, Buffers, Recorder, Base, Audio

\* Each failure path, written out by hand in the code, gives back in order all that the
\* steps before have acquired, but for the seed.
LEMMA CleanupFrees ==
    ASSUME NEW step \in DOMAIN Before, step \notin {"threading", "random", "aia_eg"}
    PROVE  Frees(CleanupAfter(step), Before[step])
<1> DEFINE crypto    == <<"crypto", "random", "threading">>
           sampleApp == <<"sampleApp">> \o crypto
           buffers   == <<"microphoneBufferWriter", "microphoneBufferReader",
                          "microphoneBuffer", "rawMicrophoneBuffer">> \o sampleApp
           audio     == <<"opusDecoder">> \o RecorderDestroySteps
<1>1. /\ CleanupAfter("crypto") = Tail(crypto)
      /\ CleanupAfter("seed") = crypto
      /\ CleanupAfter("sampleApp") = crypto
      /\ CleanupAfter("rawMicrophoneBuffer") = sampleApp
      /\ CleanupAfter("microphoneBuffer") = <<"rawMicrophoneBuffer">> \o sampleApp
      /\ CleanupAfter("microphoneBufferReader") = Tail(Tail(buffers))
      /\ CleanupAfter("microphoneBufferWriter") = Tail(buffers)
      /\ CleanupAfter("portAudio") = <<>> \o buffers
      /\ CleanupAfter("recorder") = <<"portAudio">> \o buffers
      /\ CleanupAfter("recorderMutex") = <<"recorder", "portAudio">> \o buffers
      /\ CleanupAfter("paStream") = <<"recorderMutex", "recorder", "portAudio">> \o buffers
      /\ CleanupAfter("opusDecoder") = RecorderDestroySteps \o buffers
      /\ CleanupAfter("portAudioSpeaker") = audio \o buffers
      /\ CleanupAfter("offlineAlertPlaybackTimer") = If("AUDIO", <<"portAudioSpeaker">> \o audio) \o buffers
  BY Zenon DEF CleanupAfter, RecorderCleanupAfter
<1>2. Frees(CleanupAfter("crypto"), Before["crypto"])
  <2> DEFINE path == <<"random", "threading">>
  <2>1. Same(Tail(crypto), path)
    BY DEF Same, Resource, RecorderDestroySteps
  <2>2. Frees(path, Before["crypto"])
    BY NeedsOf DEF Frees, Before, Buffers, Recorder, Base, Kept, Resource
  <2> QED  BY <1>1, <2>1, <2>2, SameIsEqual
<1>3. Frees(CleanupAfter("seed"), Before["seed"])
  <2> DEFINE path == <<"crypto", "random", "threading">>
  <2>1. Same(crypto, path)
    BY DEF Same, Resource, RecorderDestroySteps
  <2>2. Frees(path, Before["seed"])
    BY NeedsOf DEF Frees, Before, Buffers, Recorder, Base, Kept, Resource
  <2> QED  BY <1>1, <2>1, <2>2, SameIsEqual
<1>4. Frees(CleanupAfter("sampleApp"), Before["sampleApp"])
  <2> DEFINE path == <<"crypto", "random", "threading">>
  <2>1. Same(crypto, path)
    BY DEF Same, Resource, RecorderDestroySteps
  <2>2. Frees(path, Before["sampleApp"])
    BY NeedsOf DEF Frees, Before, Buffers, Recorder, Base, Kept, Resource
  <2> QED  BY <1>1, <2>1, <2>2, SameIsEqual
<1>5. Frees(CleanupAfter("rawMicrophoneBuffer"), Before["rawMicrophoneBuffer"])
  <2> DEFINE path == <<"sampleApp", "crypto", "random", "threading">>
  <2>1. Same(sampleApp, path)
    BY DEF Same, Resource, RecorderDestroySteps
  <2>2. Frees(path, Before["rawMicrophoneBuffer"])
    BY NeedsOf DEF Frees, Before, Buffers, Recorder, Base, Kept, Resource
  <2> QED  BY <1>1, <2>1, <2>2, SameIsEqual
<1>6. Frees(CleanupAfter("microphoneBuffer"), Before["microphoneBuffer"])
  <2> DEFINE path == <<"rawMicrophoneBuffer", "sampleApp", "crypto", "random", "threading">>
  <2>1. Same(<<"rawMicrophoneBuffer">> \o sampleApp, path)
    BY DEF Same, Resource, RecorderDestroySteps
  <2>2. Frees(path, Before["microphoneBuffer"])
    BY NeedsOf DEF Frees, Before, Buffers, Recorder, Base, Kept, Resource
  <2> QED  BY <1>1, <2>1, <2>2, SameIsEqual
<1>7. Frees(CleanupAfter("microphoneBufferReader"), Before["microphoneBufferReader"])
  <2> DEFINE path == <<"microphoneBuffer", "rawMicrophoneBuffer", "sampleApp", "crypto",
                    "random", "threading">>
  <2>1. Same(Tail(Tail(buffers)), path)
    BY DEF Same, Resource, RecorderDestroySteps
  <2>2. Frees(path, Before["microphoneBufferReader"])
    BY NeedsOf DEF Frees, Before, Buffers, Recorder, Base, Kept, Resource
  <2> QED  BY <1>1, <2>1, <2>2, SameIsEqual
<1>8. Frees(CleanupAfter("microphoneBufferWriter"), Before["microphoneBufferWriter"])
  <2> DEFINE path == <<"microphoneBufferReader", "microphoneBuffer", "rawMicrophoneBuffer",
                    "sampleApp", "crypto", "random", "threading">>
  <2>1. Same(Tail(buffers), path)
    BY DEF Same, Resource, RecorderDestroySteps
  <2>2. Frees(path, Before["microphoneBufferWriter"])
    BY NeedsOf DEF Frees, Before, Buffers, Recorder, Base, Kept, Resource
  <2> QED  BY <1>1, <2>1, <2>2, SameIsEqual
<1>9. Frees(CleanupAfter("portAudio"), Before["portAudio"])
  <2> DEFINE path == <<"microphoneBufferWriter", "microphoneBufferReader", "microphoneBuffer",
                    "rawMicrophoneBuffer", "sampleApp", "crypto", "random", "threading">>
  <2>1. Same(<<>> \o buffers, path)
    BY DEF Same, Resource, RecorderDestroySteps
  <2>2. Frees(path, Before["portAudio"])
    BY NeedsOf DEF Frees, Before, Buffers, Recorder, Base, Kept, Resource
  <2> QED  BY <1>1, <2>1, <2>2, SameIsEqual
<1>10. Frees(CleanupAfter("recorder"), Before["recorder"])
  <2> DEFINE path == <<"portAudio", "microphoneBufferWriter", "microphoneBufferReader",
                    "microphoneBuffer", "rawMicrophoneBuffer", "sampleApp", "crypto",
                    "random", "threading">>
  <2>1. Same(<<"portAudio">> \o buffers, path)
    BY DEF Same, Resource, RecorderDestroySteps
  <2>2. Frees(path, Before["recorder"])
    BY NeedsOf DEF Frees, Before, Buffers, Recorder, Base, Kept, Resource
  <2> QED  BY <1>1, <2>1, <2>2, SameIsEqual
<1>11. Frees(CleanupAfter("recorderMutex"), Before["recorderMutex"])
  <2> DEFINE path == <<"recorder", "portAudio", "microphoneBufferWriter",
                    "microphoneBufferReader", "microphoneBuffer", "rawMicrophoneBuffer",
                    "sampleApp", "crypto", "random", "threading">>
  <2>1. Same(<<"recorder", "portAudio">> \o buffers, path)
    BY DEF Same, Resource, RecorderDestroySteps
  <2>2. Frees(path, Before["recorderMutex"])
    BY NeedsOf DEF Frees, Before, Buffers, Recorder, Base, Kept, Resource
  <2> QED  BY <1>1, <2>1, <2>2, SameIsEqual
<1>12. Frees(CleanupAfter("paStream"), Before["paStream"])
  <2> DEFINE path == <<"recorderMutex", "recorder", "portAudio", "microphoneBufferWriter",
                    "microphoneBufferReader", "microphoneBuffer", "rawMicrophoneBuffer",
                    "sampleApp", "crypto", "random", "threading">>
  <2>1. Same(<<"recorderMutex", "recorder", "portAudio">> \o buffers, path)
    BY DEF Same, Resource, RecorderDestroySteps
  <2>2. Frees(path, Before["paStream"])
    BY NeedsOf DEF Frees, Before, Buffers, Recorder, Base, Kept, Resource
  <2> QED  BY <1>1, <2>1, <2>2, SameIsEqual
<1>13. Frees(CleanupAfter("opusDecoder"), Before["opusDecoder"])
  <2> DEFINE path == <<"paStream", "portAudio", "recorderMutex", "recorder",
                    "microphoneBufferWriter", "microphoneBufferReader", "microphoneBuffer",
                    "rawMicrophoneBuffer", "sampleApp", "crypto", "random", "threading">>
  <2>1. Same(RecorderDestroySteps \o buffers, path)
    BY DEF Same, Resource, RecorderDestroySteps
  <2>2. Frees(path, Before["opusDecoder"])
    BY NeedsOf DEF Frees, Before, Buffers, Recorder, Base, Kept, Resource
  <2> QED  BY <1>1, <2>1, <2>2, SameIsEqual
<1>14. Frees(CleanupAfter("portAudioSpeaker"), Before["portAudioSpeaker"])
  <2> DEFINE path == <<"opusDecoder", "paStream", "portAudio", "recorderMutex", "recorder",
                    "microphoneBufferWriter", "microphoneBufferReader", "microphoneBuffer",
                    "rawMicrophoneBuffer", "sampleApp", "crypto", "random", "threading">>
  <2>1. Same(audio \o buffers, path)
    BY DEF Same, Resource, RecorderDestroySteps
  <2>2. Frees(path, Before["portAudioSpeaker"])
    BY NeedsOf DEF Frees, Before, Buffers, Recorder, Base, Kept, Resource
  <2> QED  BY <1>1, <2>1, <2>2, SameIsEqual
<1>15. Frees(CleanupAfter("offlineAlertPlaybackTimer"), Before["offlineAlertPlaybackTimer"])
  <2>1. CASE "AUDIO" \in enabled
    <3> DEFINE path == <<"portAudioSpeaker", "opusDecoder", "paStream", "portAudio",
                      "recorderMutex", "recorder", "microphoneBufferWriter",
                      "microphoneBufferReader", "microphoneBuffer", "rawMicrophoneBuffer",
                      "sampleApp", "crypto", "random", "threading">>
    <3>1. Same(If("AUDIO", <<"portAudioSpeaker">> \o audio) \o buffers, path)
      BY <2>1 DEF Same, Resource, RecorderDestroySteps, If
    <3>2. Frees(path, Before["offlineAlertPlaybackTimer"])
      BY <2>1, NeedsOf DEF Frees, Before, Buffers, Recorder, Base, Kept, Resource, Audio
    <3> QED  BY <1>1, <3>1, <3>2, SameIsEqual
  <2>2. CASE "AUDIO" \notin enabled
    <3> DEFINE path == <<"microphoneBufferWriter", "microphoneBufferReader", "microphoneBuffer",
                      "rawMicrophoneBuffer", "sampleApp", "crypto", "random", "threading">>
    <3>1. Same(If("AUDIO", <<"portAudioSpeaker">> \o audio) \o buffers, path)
      BY <2>2 DEF Same, Resource, RecorderDestroySteps, If
    <3>2. Frees(path, Before["offlineAlertPlaybackTimer"])
      BY <2>2, NeedsOf DEF Frees, Before, Buffers, Recorder, Base, Kept, Resource, Audio
    <3> QED  BY <1>1, <3>1, <3>2, SameIsEqual
  <2> QED  BY <2>1, <2>2
<1>16. step \in {"crypto", "seed", "sampleApp", "rawMicrophoneBuffer", "microphoneBuffer",
              "microphoneBufferReader", "microphoneBufferWriter", "portAudio", "recorder",
              "recorderMutex", "paStream", "opusDecoder", "portAudioSpeaker",
              "offlineAlertPlaybackTimer"}
  BY DEF Before
<1> QED
  BY <1>2, <1>3, <1>4, <1>5, <1>6, <1>7, <1>8, <1>9, <1>10, <1>11, <1>12, <1>13,
     <1>14, <1>15, <1>16, Zenon

\* AiaSampleApp_Destroy gives back in order all that AiaSampleApp_Create has acquired, whether
\* or not there was an event group, and whatever of it the run has left.
LEMMA DestroyFrees ==
    ASSUME enabled \subseteq {"AUDIO", "SPEAKER"},
           NEW H, H \cup {"aia_eg"} = Before["aia_eg"] \cup {"aia_eg"},
           held \subseteq H
    PROVE  Frees(DestroySteps, H)
<1>1. "aiaClient" \notin held /\ "aiaClient" \notin H
  BY DEF Before, Buffers, Recorder, Base, Audio
<1>2. CASE enabled = {}
  <2> DEFINE path == <<"microphoneBufferWriter", "microphoneBufferReader",
                           "microphoneBuffer", "rawMicrophoneBuffer", "sampleApp", "crypto",
                           "random", "threading", "aia_eg">>
  <2>1. Same(DestroySteps, path)
    BY <1>1, <1>2 DEF Same, DestroySteps, If, RecorderDestroySteps, Resource
  <2>2. Frees(path, H)
    BY <1>1, <1>2, NeedsOf DEF Frees, Before, Buffers, Recorder, Base, Kept, Resource, Audio
  <2> QED  BY <2>1, <2>2, SameIsEqual
<1>3. CASE enabled = {"AUDIO"}
  <2> DEFINE path == <<"portAudioSpeaker", "opusDecoder", "paStream", "portAudio",
                           "recorderMutex", "recorder", "microphoneBufferWriter",
                           "microphoneBufferReader", "microphoneBuffer",
                           "rawMicrophoneBuffer", "sampleApp", "crypto", "random",
                           "threading", "aia_eg">>
  <2>1. Same(DestroySteps, path)
    BY <1>1, <1>3 DEF Same, DestroySteps, If, RecorderDestroySteps, Resource
  <2>2. Frees(path, H)
    BY <1>1, <1>3, NeedsOf DEF Frees, Before, Buffers, Recorder, Base, Kept, Resource, Audio
  <2> QED  BY <2>1, <2>2, SameIsEqual
<1>4. CASE enabled = {"SPEAKER"}
  <2> DEFINE path == <<"offlineAlertPlaybackTimer", "microphoneBufferWriter",
                           "microphoneBufferReader", "microphoneBuffer",
                           "rawMicrophoneBuffer", "sampleApp", "crypto", "random",
                           "threading", "aia_eg">>
  <2>1. Same(DestroySteps, path)
    BY <1>1, <1>4 DEF Same, DestroySteps, If, RecorderDestroySteps, Resource
  <2>2. Frees(path, H)
    BY <1>1, <1>4, NeedsOf DEF Frees, Before, Buffers, Recorder, Base, Kept, Resource, Audio
  <2> QED  BY <2>1, <2>2, SameIsEqual
<1>5. CASE enabled = {"AUDIO", "SPEAKER"}
  <2> DEFINE path == <<"offlineAlertPlaybackTimer", "portAudioSpeaker", "opusDecoder",
                           "paStream", "portAudio", "recorderMutex", "recorder",
                           "microphoneBufferWriter", "microphoneBufferReader",
                           "microphoneBuffer", "rawMicrophoneBuffer", "sampleApp", "crypto",
                           "random", "threading", "aia_eg">>
  <2>1. Same(DestroySteps, path)
    BY <1>1, <1>5 DEF Same, DestroySteps, If, RecorderDestroySteps, Resource
  <2>2. Frees(path, H)
    BY <1>1, <1>5, NeedsOf DEF Frees, Before, Buffers, Recorder, Base, Kept, Resource, Audio
  <2> QED  BY <2>1, <2>2, SameIsEqual
<1> QED
  BY <1>2, <1>3, <1>4, <1>5

\* After its first call a path still gives back what is left, and nobody left uses what that
\* call has given back.
LEMMA FreesTail ==
    ASSUME NEW p, NEW H, Frees(p, H), p # <<>>
    PROVE  /\ Frees(Tail(p), H \ {Head(p)})
           /\ Head(p) \in H \cup {"aia_eg"}
           /\ \A r \in H : Head(p) \notin Needs(r)
<1>1. /\ p \in Seq(Resource) /\ Len(p) \in Nat \ {0} /\ DOMAIN p = 1 .. Len(p)
      /\ Head(p) = p[1] /\ Tail(p) \in Seq(Resource) /\ Len(Tail(p)) = Len(p) - 1
      /\ DOMAIN Tail(p) = 1 .. Len(p) - 1
      /\ \A n \in 1 .. Len(p) - 1 : Tail(p)[n] = p[n + 1]
  BY DEF Frees
<1>2. /\ \A n \in 1 .. Len(p) : p[n] \in H \cup {"aia_eg"}
      /\ \A m, n \in 1 .. Len(p) : p[m] = p[n] => m = n
      /\ \A n \in 1 .. Len(p) : \A r \in H : p[n] \in Needs(r) => \E m \in 1 .. n - 1 : p[m] = r
      /\ \A r \in H \ Kept : \E n \in 1 .. Len(p) : p[n] = r
  BY <1>1 DEF Frees
<1>3. Head(p) \in H \cup {"aia_eg"} /\ \A r \in H : Head(p) \notin Needs(r)
  BY <1>1, <1>2
<1>4. \A n \in 1 .. Len(p) - 1 : Tail(p)[n] \in (H \ {Head(p)}) \cup {"aia_eg"}
  BY <1>1, <1>2
<1>5. \A m, n \in 1 .. Len(p) - 1 : Tail(p)[m] = Tail(p)[n] => m = n
  <2> SUFFICES ASSUME NEW m \in 1 .. Len(p) - 1, NEW n \in 1 .. Len(p) - 1, p[m + 1] = p[n + 1]
               PROVE  m = n
    BY <1>1
  <2>1. m + 1 = n + 1
    BY <1>1, <1>2
  <2> QED  BY <2>1
<1>6. ASSUME NEW n \in 1 .. Len(p) - 1, NEW r \in H \ {Head(p)}, Tail(p)[n] \in Needs(r)
      PROVE  \E m \in 1 .. n - 1 : Tail(p)[m] = r
  <2>1. PICK m \in 1 .. n : p[m] = r
    BY <1>1, <1>2, <1>6
  <2>2. m - 1 \in 1 .. n - 1 /\ m - 1 \in 1 .. Len(p) - 1 /\ Tail(p)[m - 1] = p[m]
    BY <1>1, <1>6, <2>1
  <2> QED  BY <2>1, <2>2
<1>7. ASSUME NEW r \in (H \ {Head(p)}) \ Kept
      PROVE  \E n \in 1 .. Len(p) - 1 : Tail(p)[n] = r
  <2>1. PICK n \in 1 .. Len(p) : p[n] = r
    BY <1>2
  <2>2. n - 1 \in 1 .. Len(p) - 1 /\ Tail(p)[n - 1] = p[n]
    BY <1>1, <1>7, <2>1
  <2> QED  BY <2>1, <2>2
<1> QED
  BY <1>1, <1>3, <1>4, <1>5, <1>6, <1>7 DEF Frees

---------------------------------------------------------------------------
(* The inductive invariant of the demo. *)

\* H is what there would be, had the run destroyed nothing of it.
Left(h, H) == h \subseteq H /\ H \subseteq h \cup {"aia_eg"} \cup GivenBackInRun

\* What is held, and what is left to give back, at each stage.
HeldInv ==
    /\ stage = "initialize" => held = {}
    /\ stage = "connect" => held = {"libraries"}
    /\ stage = "create" => k <= Len(CreateSteps) /\ held = Acquired(k - 1)
    /\ stage \in {"store", "register", "registering", "client"} =>
           held \cup {"aia_eg"} = Acquired(Len(CreateSteps))
    /\ stage = "run" =>
           "aiaClient" \in held /\ Left(held \ {"aiaClient"}, Acquired(Len(CreateSteps)))
    /\ stage = "ran" => Left(held, Acquired(Len(CreateSteps)))
    /\ stage = "cleanup" => Frees(todo, held)
    /\ stage = "destroy" => \E H \in SUBSET Resource : Left(held, H) /\ Frees(todo, H)
    /\ stage \notin {"cleanup", "destroy"} => todo = <<>>
    /\ stage = "cleanupDemo" => held \subseteq {"libraries", "seed"}
    /\ stage = "returned" => held \subseteq IF status = "EXIT_SUCCESS" THEN {"seed"} ELSE Kept

\* The types of the demo's own variables, and when they have their first values.
ShapeInv ==
    /\ enabled \subseteq {"AUDIO", "SPEAKER"}
    /\ credentials \in BOOLEAN
    /\ stage \in {"initialize", "connect", "create", "cleanup", "store", "register",
                  "registering", "client", "run", "ran", "destroy", "cleanupDemo", "returned"}
    /\ k \in 1 .. Len(CreateSteps) + 1
    /\ stage \in {"initialize", "connect"} => k = 1
    /\ todo \in Seq(Resource)
    /\ held \subseteq Resource
    /\ configured \in BOOLEAN
    /\ status \in {"EXIT_SUCCESS", "EXIT_FAILURE"}
    /\ stage # "returned" => status = "EXIT_SUCCESS"

ResourceInv == ShapeInv /\ HeldInv /\ UsersGoFirst

\* The stages from the call of AiaHttpStoreNetworkInfo on.
Running == {"register", "registering", "client", "run", "ran", "destroy", "cleanupDemo"}

\* How far the sample app and its registration are.
RunInv ==
    /\ at # "idle" <=> stage = "registering"
    /\ stage \in Running \cup {"store"} => configured
    /\ stage \in Running => (networkInfo <=> credentials)
    /\ stage \in {"initialize", "connect", "create", "cleanup", "store"} => ~ networkInfo
    /\ stage \in {"initialize", "connect", "create", "cleanup", "store", "register"} =>
           ~ registrationManager
    /\ managers = IF registrationManager THEN 1 ELSE 0

\* The strings there are in the request are whole.
StringsInv ==
    /\ \A x \in DOMAIN request : Holds(request[x], Configured[x])
    /\ at = "sending" => DOMAIN request = Identity

AppInv == RegistrationInv /\ ResourceInv /\ RunInv /\ StringsInv

---------------------------------------------------------------------------
\* Every step of the demo is a step of the registration or leaves it alone.
LEMMA StepOfRegistration == AppNext => [Next]_vars
<1>1. StoreBeforeRun => Next
  BY DEF StoreBeforeRun, Next
<1>2. RegisterAia => Next
  <2> SUFFICES ASSUME RegisterAia PROVE Next
    OBVIOUS
  <2>1. \/ CreateManager \/ Register \/ SendRequest \/ Send \/ OnAnswer
        \/ RegisterReturns \/ Undo
        \/ \E x \in Identity : ReadIdentity(x)
    BY Zenon DEF RegisterAia
  <2> QED  BY <2>1, Zenon DEF Next
<1>3. \/ InitializeDemo \/ EstablishMqttConnection \/ Create \/ CreateFails \/ Release
      \/ CreateReturnsNull \/ InitAiaClient \/ GiveBackInRun \/ MakeTimerInRun \/ DestroyClient
      \/ Destroy \/ Disconnect \/ CleanupDemo
      => UNCHANGED vars
  BY DEF InitializeDemo, EstablishMqttConnection, Create, CreateFails, Release,
         CreateReturnsNull, InitAiaClient, GiveBackInRun, MakeTimerInRun, DestroyClient,
         Destroy, Disconnect, CleanupDemo,
         registration, vars
<1> QED
  BY <1>1, <1>2, <1>3 DEF AppNext

\* The demo composed with the registration is an implementation of it: whatever holds of the
\* registration holds in the demo.
THEOREM DemoImplementsRegistration == AppSpec => Spec
<1>1. AppInit => Init
  BY DEF AppInit
<1>2. [AppNext]_appVars => [Next]_vars
  <2>1. UNCHANGED appVars => UNCHANGED vars
    BY DEF appVars, registration, vars
  <2> QED  BY <2>1, StepOfRegistration
<1> QED
  BY <1>1, <1>2, PTL DEF AppSpec, Spec

LEMMA ResourceInit == AppInit => ResourceInv
<1> SUFFICES ASSUME AppInit PROVE ResourceInv
  OBVIOUS
<1>1. ShapeInv
  <2>1. 1 \in 1 .. Len(CreateSteps) + 1
    BY CreateOrder DEF AppInit
  <2>2. enabled \subseteq {"AUDIO", "SPEAKER"}
    BY Zenon DEF AppInit
  <2>3. configured \in BOOLEAN /\ credentials \in BOOLEAN
    BY Zenon DEF AppInit
  <2>4. todo \in Seq(Resource)
    BY DEF AppInit
  <2> QED  BY <2>1, <2>2, <2>3, <2>4 DEF AppInit, ShapeInv
<1>2. HeldInv /\ UsersGoFirst
  BY DEF AppInit, HeldInv, UsersGoFirst
<1> QED
  BY <1>1, <1>2 DEF ResourceInv

\* What the steps below know of the sequences.
LEMMA Sequences ==
    ASSUME ResourceInv
    PROVE  /\ Len(CreateSteps) \in Nat \ {0}
           /\ k \in Nat \ {0}
           /\ \A n \in Nat : n + 1 \in 1 .. Len(CreateSteps) =>
                  Acquired(n + 1) = Acquired(n) \cup {CreateSteps[n + 1]}
           /\ Acquired(0) = Base
           /\ Acquired(Len(CreateSteps)) = Before["aia_eg"] \cup {"aia_eg"}
           /\ CreateSteps[Len(CreateSteps)] = "aia_eg"
<1>1. Len(CreateSteps) \in Nat \ {0} /\ k \in Nat \ {0}
  BY CreateOrder DEF ResourceInv, ShapeInv
<1>2. ASSUME NEW n \in Nat PROVE Acquired(n + 1) = Acquired(n) \cup {CreateSteps[n + 1]}
  <2>1. 1 .. n + 1 = 1 .. n \cup {n + 1}
    OBVIOUS
  <2> QED  BY <2>1 DEF Acquired
<1>3. Acquired(0) = Base
  BY DEF Acquired
<1>4. LET n == Len(CreateSteps) - 1
      IN  n \in Nat /\ CreateSteps[n + 1] = "aia_eg" /\ Acquired(n) = Before["aia_eg"]
  BY <1>1, CreateOrder DEF ResourceInv, ShapeInv
<1>5. Acquired(Len(CreateSteps)) = Before["aia_eg"] \cup {"aia_eg"}
  BY <1>1, <1>2, <1>4
<1> QED
  BY <1>1, <1>2, <1>3, <1>4, <1>5

\* A step of AiaSampleApp_Create.
LEMMA CreateStep ==
    ASSUME ResourceInv, Create
    PROVE  ResourceInv'
<1>1. /\ ShapeInv /\ HeldInv /\ UsersGoFirst
      /\ stage = "create" /\ k' = k + 1
      /\ UNCHANGED <<enabled, credentials, todo, status>>
      /\ k \in 1 .. Len(CreateSteps) /\ held = Acquired(k - 1) /\ todo = <<>>
      /\ CreateSteps' = CreateSteps
      /\ Acquired(k) = held \cup {Step}
      /\ Step \in Resource
  <2>1. stage = "create" /\ UNCHANGED <<enabled, credentials, todo, status>> /\ k' = k + 1
    BY DEF Create, From
  <2>2. k \in 1 .. Len(CreateSteps) /\ held = Acquired(k - 1) /\ todo = <<>>
    BY <2>1, Sequences DEF ResourceInv, ShapeInv, HeldInv
  <2>3. Acquired(k) = held \cup {Step}
    <3>1. k - 1 \in Nat /\ (k - 1) + 1 = k
      BY <2>2
    <3> QED  BY <2>2, <3>1, Sequences DEF Step
  <2> QED
    BY <2>1, <2>2, <2>3, SameBuild, CreateOrder DEF ResourceInv, ShapeInv, Step
<1>2. /\ stage' = IF k = Len(CreateSteps) THEN "store" ELSE "create"
      /\ k # Len(CreateSteps) => held' = held \cup {Step}
      /\ held' \cup {"aia_eg"} = held \cup {Step} \cup {"aia_eg"}
      /\ held' \in {held, held \cup {Step}}
      /\ configured' \in {configured, TRUE}
  BY <1>1, CreateOrder DEF Create, From, Step, ShapeInv
<1>3. ShapeInv'
  <2>1. k' \in 1 .. Len(CreateSteps) + 1
    BY <1>1, Sequences
  <2> QED  BY <1>1, <1>2, <2>1 DEF ShapeInv
<1>4. HeldInv'
  <2>1. CASE k # Len(CreateSteps)
    <3>1. stage' = "create" /\ held' = Acquired(k) /\ k' - 1 = k /\ k' <= Len(CreateSteps)
      BY <1>1, <1>2, <2>1, Sequences
    <3>2. (held = Acquired(k - 1))'
      BY <1>1, <3>1, SameBuild
    <3> QED  BY <1>1, <3>1, <3>2 DEF HeldInv
  <2>2. CASE k = Len(CreateSteps)
    <3>1. stage' = "store" /\ held' \cup {"aia_eg"} = Acquired(Len(CreateSteps))
      BY <1>1, <1>2, <2>2, Sequences DEF Step
    <3>2. (held \cup {"aia_eg"} = Acquired(Len(CreateSteps)))'
      BY <1>1, <3>1, SameBuild
    <3> QED  BY <1>1, <3>1, <3>2 DEF HeldInv
  <2> QED  BY <2>1, <2>2
<1>5. UsersGoFirst'
  <2>1. Needs(Step) \subseteq held \cup {"aiaClient"}
    BY <1>1, CreateOrder, UsesAreThere DEF Step, ShapeInv
  <2>2. \A r \in held' : Needs(r) \subseteq held' \cup MayBeMissing'
    BY <1>1, <1>2, <2>1 DEF UsersGoFirst, MayBeMissing
  <2> QED  BY <1>1, <1>2, <2>2, SameBuild DEF UsersGoFirst, ShapeInv
<1> QED
  BY <1>3, <1>4, <1>5 DEF ResourceInv

\* A failure path begins, or AiaSampleApp_Destroy does.
LEMMA PathBegins ==
    ASSUME ResourceInv, CreateFails \/ Destroy
    PROVE  ResourceInv'
<1>1. /\ ShapeInv /\ HeldInv /\ UsersGoFirst
      /\ UNCHANGED <<enabled, credentials, k, held, configured, status>>
      /\ stage \in {"create", "ran"}
  BY DEF ResourceInv, CreateFails, Destroy, From
<1>2. /\ todo' \in Seq(Resource) /\ stage' \in {"cleanup", "destroy"}
      /\ stage' = "cleanup" => Frees(todo', held)
      /\ stage' = "destroy" => \E H \in SUBSET Resource : Left(held, H) /\ Frees(todo', H)
  <2>1. CASE CreateFails
    <3>1. k \in 1 .. Len(CreateSteps) /\ held = Acquired(k - 1)
      BY <1>1, <2>1, Sequences DEF CreateFails, From, HeldInv
    <3>2. held = Before[Step] /\ Step \in DOMAIN Before
      BY <1>1, <3>1, CreateOrder DEF Step, ShapeInv
    <3>3. Frees(todo', held) /\ stage' = "cleanup"
      BY <2>1, <3>2, CleanupFrees DEF CreateFails, From
    <3> QED  BY <3>3 DEF Frees
  <2>2. CASE Destroy
    <3> DEFINE H == Acquired(Len(CreateSteps))
    <3>1. Left(held, H) /\ H = Before["aia_eg"] \cup {"aia_eg"}
      BY <1>1, <2>2, Sequences DEF Destroy, From, HeldInv
    <3>2. H \in SUBSET Resource
      BY <3>1 DEF Before, Buffers, Recorder, Base, Audio, Resource
    <3>3. Frees(DestroySteps, H)
      BY <1>1, <3>1, DestroyFrees DEF ShapeInv, Left
    <3>4. Frees(todo', H) /\ stage' = "destroy"
      BY <2>2, <3>3 DEF Destroy, From
    <3> QED  BY <3>1, <3>2, <3>4 DEF Frees
  <2> QED  BY <2>1, <2>2
<1>3. ShapeInv'
  BY <1>1, <1>2, SameBuild DEF ShapeInv
<1>4. HeldInv'
  <2>1. \A H \in SUBSET Resource : Frees(todo, H)' <=> Frees(todo', H)
    BY <1>1, SameBuild
  <2>2. (stage = "cleanup" => Frees(todo, held))'
    BY <1>1, <1>2, SameBuild DEF ShapeInv
  <2>3. (stage = "destroy" => \E H \in SUBSET Resource : Left(held, H) /\ Frees(todo, H))'
    BY <1>1, <1>2, <2>1 DEF Left
  <2> QED  BY <1>2, <2>2, <2>3 DEF HeldInv
<1>5. UsersGoFirst'
  BY <1>1, <1>2, SameBuild DEF UsersGoFirst, MayBeMissing, ShapeInv
<1> QED
  BY <1>3, <1>4, <1>5 DEF ResourceInv

\* A call of a path.
LEMMA ReleaseStep ==
    ASSUME ResourceInv, Release
    PROVE  ResourceInv'
<1>1. /\ ShapeInv /\ HeldInv /\ UsersGoFirst
      /\ UNCHANGED <<enabled, credentials, stage, k, configured, status>>
      /\ stage \in {"cleanup", "destroy"} /\ todo # <<>>
      /\ held' = held \ {Head(todo)} /\ todo' = Tail(todo)
  BY DEF ResourceInv, Release
<1>2. PICK H \in SUBSET Resource :
        Left(held, H) /\ Frees(todo, H) /\ (stage = "cleanup" => H = held)
  <2>1. held \in SUBSET Resource /\ Left(held, held)
    BY <1>1 DEF ShapeInv, Left
  <2> QED  BY <1>1, <2>1 DEF HeldInv
<1>3. /\ Frees(Tail(todo), H \ {Head(todo)})
      /\ \A r \in H : Head(todo) \notin Needs(r)
  BY <1>1, <1>2, FreesTail
<1>4. H \ {Head(todo)} \in SUBSET Resource /\ Left(held', H \ {Head(todo)})
  BY <1>1, <1>2 DEF Left
<1>5. ShapeInv'
  BY <1>1, <1>3, SameBuild DEF ShapeInv, Frees
<1>6. HeldInv'
  <2> DEFINE G == H \ {Head(todo)}
  <2>1. Frees(todo', G)
    BY <1>1, <1>3
  <2>2. (stage = "cleanup" => Frees(todo, held))'
    BY <1>1, <1>2, <1>4, <2>1, SameBuild DEF ShapeInv
  <2>3. (\E F \in SUBSET Resource : Left(held, F) /\ Frees(todo, F))'
    <3>1. \A F \in SUBSET Resource : Frees(todo, F)' <=> Frees(todo', F)
      BY <1>1, SameBuild
    <3> QED  BY <1>1, <1>4, <2>1, <3>1 DEF Left
  <2> QED  BY <1>1, <2>2, <2>3 DEF HeldInv
<1>7. UsersGoFirst'
  <2>1. \A r \in held' : Needs(r) \subseteq held' \cup MayBeMissing'
    BY <1>1, <1>2, <1>3 DEF UsersGoFirst, MayBeMissing, Left
  <2> QED  BY <1>1, <2>1, SameBuild DEF UsersGoFirst, ShapeInv
<1> QED
  BY <1>5, <1>6, <1>7 DEF ResourceInv

\* The life of the client, and what the run destroys and makes meanwhile.
LEMMA ClientStep ==
    ASSUME ResourceInv, InitAiaClient \/ GiveBackInRun \/ MakeTimerInRun \/ DestroyClient
    PROVE  ResourceInv'
<1> DEFINE all == Acquired(Len(CreateSteps))
           timer == "offlineAlertPlaybackTimer"
<1>1. /\ ShapeInv /\ HeldInv /\ UsersGoFirst
      /\ UNCHANGED <<enabled, credentials, k, todo, configured, status>>
      /\ stage \in {"client", "run"} /\ stage' \in {"run", "ran"} /\ todo = <<>>
      /\ stage = "client" => held \cup {"aia_eg"} = all
      /\ stage = "run" => "aiaClient" \in held /\ Left(held \ {"aiaClient"}, all)
  BY DEF ResourceInv, InitAiaClient, GiveBackInRun, MakeTimerInRun, DestroyClient, From, HeldInv
<1>2. /\ all = Before["aia_eg"] \cup {"aia_eg"}
      /\ "aiaClient" \notin all
      /\ "SPEAKER" \in enabled => timer \in all
  BY Sequences DEF Before, Buffers, Recorder, Base, Audio
<1>3. \/ stage = "client" /\ stage' = "run" /\ held' = held \cup {"aiaClient"}
      \/ stage = "client" /\ stage' = "ran" /\ held' = held
      \/ /\ stage = "run" /\ stage' = "run"
         /\ \E r \in GivenBackInRun : held' = held \ {r}
      \/ /\ stage = "run" /\ stage' = "run" /\ "SPEAKER" \in enabled
         /\ held' = held \cup {timer}
      \/ stage = "run" /\ stage' = "ran" /\ held' = held \ {"aiaClient"}
  BY DEF InitAiaClient, GiveBackInRun, MakeTimerInRun, DestroyClient, From
<1>4. ShapeInv'
  <2>1. "aiaClient" \in Resource /\ timer \in Resource
    BY DEF Resource
  <2>2. held' \subseteq Resource
    BY <1>1, <1>3, <2>1 DEF ShapeInv
  <2> QED  BY <1>1, <2>2, SameBuild DEF ShapeInv
<1>5. HeldInv'
  <2>1. /\ stage' = "run" => "aiaClient" \in held' /\ Left(held' \ {"aiaClient"}, all)
        /\ stage' = "ran" => Left(held', all)
    BY <1>1, <1>2, <1>3 DEF Left, GivenBackInRun
  <2>2. all' = all
    BY <1>1, SameBuild
  <2> QED  BY <1>1, <2>1, <2>2 DEF HeldInv, Left
<1>6. UsersGoFirst'
  <2>1. stage = "client" => Needs("aiaClient") \subseteq held \cup {"aia_eg", timer}
    BY <1>1, <1>2, NeedsOf DEF Before, Buffers, Recorder, Base, Audio, Speaker
  <2>2. \A r \in Resource : "paStream" \notin Needs(r)
    BY NeedsOf DEF Resource, Audio, Speaker
  <2>3. stage = "run" /\ "SPEAKER" \in enabled => Needs(timer) \subseteq held
    BY <1>1, <1>2, NeedsOf DEF Before, Buffers, Recorder, Base, Audio, Left, GivenBackInRun
  <2>4. \A r \in held' : Needs(r) \subseteq held' \cup MayBeMissing'
    BY <1>1, <1>3, <2>1, <2>2, <2>3
       DEF UsersGoFirst, MayBeMissing, ShapeInv, GivenBackInRun
  <2> QED  BY <1>1, <1>4, <2>4, SameBuild DEF UsersGoFirst, ShapeInv
<1> QED
  BY <1>4, <1>5, <1>6 DEF ResourceInv

\* What RunAiaDemo itself acquires and gives back.
LEMMA RunAiaDemoStep ==
    ASSUME ResourceInv,
           InitializeDemo \/ EstablishMqttConnection \/ CreateReturnsNull \/ Disconnect
              \/ CleanupDemo
    PROVE  ResourceInv'
<1>1. /\ ShapeInv /\ HeldInv /\ UsersGoFirst
      /\ UNCHANGED <<enabled, credentials, k, todo, configured>> /\ todo = <<>>
      /\ CreateSteps' = CreateSteps
      /\ Len(CreateSteps) \in Nat \ {0} /\ Acquired(0) = Base
  <2>1. ShapeInv /\ HeldInv /\ UsersGoFirst /\ UNCHANGED <<enabled, credentials, k, todo, configured>>
    BY DEF ResourceInv, InitializeDemo, EstablishMqttConnection, CreateReturnsNull, Disconnect,
           CleanupDemo
  <2>2. todo = <<>>
    BY <2>1 DEF InitializeDemo, EstablishMqttConnection, CreateReturnsNull, Disconnect,
           CleanupDemo, From, HeldInv
  <2> QED  BY <2>1, <2>2, Sequences, SameBuild
<1>2. CASE InitializeDemo
  <2>1. stage = "initialize" /\ held = {} /\ k = 1 /\ status = "EXIT_SUCCESS"
    BY <1>1, <1>2 DEF InitializeDemo, From, HeldInv, ShapeInv
  <2>2. \/ stage' = "connect" /\ held' = {"libraries"} /\ status' = "EXIT_SUCCESS"
        \/ stage' = "returned" /\ held' = {} /\ status' = "EXIT_FAILURE"
    BY <1>2, <2>1 DEF InitializeDemo, From
  <2>3. ShapeInv' /\ HeldInv'
    BY <1>1, <2>1, <2>2 DEF ShapeInv, HeldInv, Resource
  <2>4. UsersGoFirst'
    <3>1. \A r \in held' : Needs(r) = {}
      BY <2>2, NeedsOf
    <3> QED  BY <1>1, <2>3, <3>1, SameBuild DEF UsersGoFirst, ShapeInv
  <2> QED  BY <2>3, <2>4 DEF ResourceInv
<1>3. CASE EstablishMqttConnection
  <2>1. /\ stage = "connect" /\ stage' = "create" /\ held' = Base /\ k = 1
        /\ UNCHANGED status /\ status = "EXIT_SUCCESS"
    BY <1>1, <1>3 DEF EstablishMqttConnection, From, HeldInv, ShapeInv, Base
  <2>2. ShapeInv'
    BY <1>1, <2>1 DEF ShapeInv, Resource, Base
  <2>3. HeldInv'
    <3>1. k' - 1 = 0 /\ k' <= Len(CreateSteps)
      BY <1>1, <2>1
    <3>2. (held = Acquired(k - 1))'
      BY <1>1, <2>1, <3>1, SameBuild
    <3> QED  BY <1>1, <2>1, <3>1, <3>2 DEF HeldInv
  <2>4. UsersGoFirst'
    <3>1. \A r \in held' : Needs(r) \subseteq held'
      BY <2>1, NeedsOf DEF Base
    <3> QED  BY <1>1, <2>2, <3>1, SameBuild DEF UsersGoFirst, ShapeInv
  <2> QED  BY <2>2, <2>3, <2>4 DEF ResourceInv
<1>4. CASE CreateReturnsNull \/ Disconnect \/ CleanupDemo
  <2>1. stage \in {"cleanup", "destroy"} => held \subseteq Kept
    <3>1. \A H : Frees(todo, H) => H \subseteq Kept
      BY <1>1 DEF Frees
    <3> QED  BY <1>1, <3>1 DEF HeldInv, Left
  <2>2. \/ /\ stage' = "returned" /\ UNCHANGED held /\ status' = "EXIT_FAILURE"
           /\ held \subseteq Kept
        \/ /\ stage' = "cleanupDemo" /\ held' \subseteq {"libraries", "seed"}
           /\ status' = "EXIT_SUCCESS"
        \/ stage' = "returned" /\ held' \subseteq {"seed"} /\ status' = "EXIT_SUCCESS"
    BY <1>1, <1>4, <2>1 DEF CreateReturnsNull, Disconnect, CleanupDemo, From, HeldInv, ShapeInv,
           Kept, Base
  <2>3. held' \subseteq held /\ held' \subseteq Kept
    BY <1>4, <2>2 DEF CreateReturnsNull, Disconnect, CleanupDemo, Kept, Base
  <2>4. ShapeInv'
    BY <1>1, <2>2, <2>3 DEF ShapeInv
  <2>5. HeldInv'
    BY <1>1, <2>2 DEF HeldInv
  <2>6. UsersGoFirst'
    <3>1. \A r \in held' : Needs(r) \subseteq held' \cup MayBeMissing'
      <4>1. held' \subseteq {"libraries", "seed"} \/ held' = held
        BY <2>2
      <4>2. MayBeMissing \subseteq MayBeMissing'
        BY <2>2 DEF MayBeMissing
      <4> QED  BY <1>1, <4>1, <4>2, NeedsOf DEF UsersGoFirst
    <3> QED  BY <1>1, <2>4, <3>1, SameBuild DEF UsersGoFirst, ShapeInv
  <2> QED  BY <2>4, <2>5, <2>6 DEF ResourceInv
<1> QED
  BY <1>2, <1>3, <1>4

\* The registration acquires nothing of the demo's.
LEMMA RegistrationLeavesResources ==
    ASSUME ResourceInv, StoreBeforeRun \/ RegisterAia
    PROVE  ResourceInv'
<1>1. /\ ShapeInv /\ HeldInv /\ UsersGoFirst
      /\ UNCHANGED <<enabled, credentials, k, todo, held, configured, status>>
      /\ stage \in {"store", "register", "registering"}
      /\ stage' \in {"register", "registering", "client", "ran"}
  BY DEF ResourceInv, StoreBeforeRun, RegisterAia, From, app
<1>2. ShapeInv'
  BY <1>1, SameBuild DEF ShapeInv
<1>3. HeldInv'
  <2>1. (held \cup {"aia_eg"} = Acquired(Len(CreateSteps)))'
    BY <1>1, SameBuild DEF HeldInv
  <2>2. "aia_eg" \in Acquired(Len(CreateSteps))
    BY Sequences
  <2>3. (Left(held, Acquired(Len(CreateSteps))))'
    BY <1>1, <2>1, <2>2, SameBuild DEF Left
  <2> QED  BY <1>1, <2>1, <2>3 DEF HeldInv
<1>4. UsersGoFirst'
  BY <1>1, SameBuild DEF UsersGoFirst, MayBeMissing, ShapeInv
<1> QED
  BY <1>2, <1>3, <1>4 DEF ResourceInv

\* No step of the demo spoils what is held, or the order in which it is given back.
LEMMA ResourceInvariance == AppSpec => []ResourceInv
<1>1. ResourceInv /\ [AppNext]_appVars => ResourceInv'
  <2> SUFFICES ASSUME ResourceInv, [AppNext]_appVars PROVE ResourceInv'
    OBVIOUS
  <2>1. CASE UNCHANGED appVars
    <3>1. UNCHANGED <<enabled, credentials, stage, k, todo, held, configured, status>>
      BY <2>1 DEF appVars, app
    <3>2. ShapeInv'
      BY <3>1, SameBuild DEF ResourceInv, ShapeInv
    <3>3. HeldInv'
      <4>1. /\ Frees(todo, held)' <=> Frees(todo, held)
            /\ (\E H \in SUBSET Resource : Left(held, H) /\ Frees(todo, H))'
               <=> \E H \in SUBSET Resource : Left(held, H) /\ Frees(todo, H)
        BY <3>1, SameBuild DEF ResourceInv, ShapeInv, Left
      <4>2. Acquired(k - 1)' = Acquired(k - 1)
        BY <3>1, SameBuild
      <4>3. Acquired(Len(CreateSteps))' = Acquired(Len(CreateSteps))
        BY <3>1, SameBuild
      <4> QED  BY <3>1, <4>1, <4>2, <4>3, SameBuild DEF ResourceInv, HeldInv, Left
    <3>4. UsersGoFirst'
      BY <3>1, SameBuild DEF ResourceInv, UsersGoFirst, MayBeMissing, ShapeInv
    <3> QED  BY <3>2, <3>3, <3>4 DEF ResourceInv
  <2> QED
    BY <2>1, CreateStep, PathBegins, ReleaseStep, ClientStep, RunAiaDemoStep,
       RegistrationLeavesResources DEF AppNext
<1> QED
  BY <1>1, ResourceInit, PTL DEF AppSpec

---------------------------------------------------------------------------
(* The registration inside the demo. *)

LEMMA RegistrationInDemo == AppSpec => []RegistrationInv
  BY DemoImplementsRegistration, RegistrationInvariance, PTL

LEMMA RunInit == AppInit => RunInv /\ StringsInv
<1> SUFFICES ASSUME AppInit PROVE RunInv /\ StringsInv
  OBVIOUS
<1>1. RunInv
  BY DEF AppInit, RunInv, Running, Init, Https!Init
<1>2. StringsInv
  BY DEF AppInit, StringsInv, Init
<1> QED
  BY <1>1, <1>2

\* What a getter leaves in a buffer of any length, if it returns true, is its string.
LEMMA StringIsWhole ==
    ASSUME StringsInv, NEW x \in Identity, ReadIdentity(x), TypeOK
    PROVE  StringsInv'
<1> DEFINE blank(size) == [n \in 1 .. size |-> Uninitialized]
<1>1. PICK size \in {Get(Configured[x], NULL, 0).len, FixedBuffer} :
        LET got == Get(Configured[x], blank(size), size)
        IN  \/ /\ got.returns
               /\ at = "reading"
               /\ request' = [y \in DOMAIN request \cup {x} |->
                                   IF y = x THEN got.buffer ELSE request[y]]
               /\ UNCHANGED at
            \/ ~ got.returns /\ Goto("reading", "undo") /\ UNCHANGED request
  BY Zenon DEF ReadIdentity
<1>2. /\ Configured[x] \in Seq(Char) /\ 0 \in Nat /\ FixedBuffer \in Nat
      /\ Len(Configured[x]) \in Nat
  BY RegistrationAssumption
<1>3. size \in Nat
  <2>1. Get(Configured[x], NULL, 0).len = Len(Configured[x]) + 1
    BY <1>2, CharAssumption DEF Get, GetSucceeds, LengthOf
  <2> QED  BY <1>1, <1>2, <2>1
<1>4. blank(size) \in Buffer /\ Len(blank(size)) = size
  BY <1>3, RegistrationAssumption DEF Buffer
<1>5. LET got == Get(Configured[x], blank(size), Len(blank(size)))
      IN  got.returns => Holds(got.buffer, Configured[x])
  <2>1. Get(Configured[x], NULL, 0).len \in Nat
    BY <1>2, GetterReturnsWholeString, <1>4
  <2> QED  BY <1>2, <1>4, <2>1, GetterReturnsWholeString
<1>6. CASE /\ Get(Configured[x], blank(size), size).returns
           /\ at = "reading"
           /\ request' = [y \in DOMAIN request \cup {x} |->
                IF y = x THEN Get(Configured[x], blank(size), size).buffer ELSE request[y]]
           /\ UNCHANGED at
  <2>1. \A y \in DOMAIN request' : Holds(request'[y], Configured[y])
    BY <1>4, <1>5, <1>6 DEF StringsInv
  <2> QED  BY <1>6, <2>1 DEF StringsInv
<1>7. CASE Goto("reading", "undo") /\ UNCHANGED request
  BY <1>7 DEF Goto, StringsInv
<1> QED
  BY <1>1, <1>6, <1>7, Zenon

\* A step of registerAia, of the request or of a callback.
LEMMA RegistrationStep ==
    ASSUME RegistrationInv, ResourceInv, RunInv, StringsInv, StoreBeforeRun \/ RegisterAia
    PROVE  RunInv' /\ StringsInv'
<1>1. /\ TypeOK /\ RequestInv /\ ManagerInv
      /\ UNCHANGED <<enabled, credentials, k, todo, held, configured, status>>
      /\ stage \in {"store", "register", "registering"}
      /\ configured
      /\ stage # "store" => (networkInfo <=> credentials)
      /\ stage = "store" => ~ networkInfo
  BY DEF RegistrationInv, StoreBeforeRun, RegisterAia, From, app, RunInv, Running
<1>2. CASE StoreBeforeRun
  <2>1. /\ stage = "store" /\ stage' = "register" /\ networkInfo' = (credentials \/ networkInfo)
        /\ UNCHANGED <<at, registrationManager, managers, request>>
    BY <1>2 DEF StoreBeforeRun, From, StoreNetworkInfo
  <2> QED  BY <1>1, <2>1 DEF RunInv, StringsInv, Running
<1>3. CASE stage = "register" /\ CreateManager /\ RegisterAia
  <2>1. registrationManager = FALSE /\ managers = 0
    BY <1>1, <1>3 DEF RunInv, TypeOK
  <2>2. /\ at = "idle" /\ UNCHANGED <<request, networkInfo>>
        /\ \/ at' = "register" /\ registrationManager' = TRUE /\ managers' = managers + 1
           \/ at' = "idle" /\ registrationManager' = FALSE /\ managers' = managers
    BY <1>3, Zenon DEF CreateManager, Goto, https
  <2>3. \/ stage' = "registering" /\ at' # "idle"
        \/ stage' = "ran" /\ at' = "idle"
    BY <1>3, Zenon DEF RegisterAia, From
  <2>4. managers' = IF registrationManager' THEN 1 ELSE 0
    <3>1. \/ registrationManager' = TRUE /\ managers' = 1
          \/ registrationManager' = FALSE /\ managers' = 0
      BY <2>1, <2>2
    <3> QED  BY <3>1, Zenon
  <2> QED  BY <1>1, <1>3, <2>2, <2>3, <2>4 DEF RunInv, StringsInv, Running
<1>4. CASE /\ stage = "registering" /\ stage' = "registering"
           /\ Register \/ SendRequest \/ Send \/ \E x \in Identity : ReadIdentity(x)
  <2>1. /\ UNCHANGED <<registrationManager, managers>>
        /\ at # "idle" /\ at' # "idle"
    BY <1>4 DEF Register, SendRequest, Send, ReadIdentity, Goto, RunInv
  <2>2. UNCHANGED networkInfo
    BY <1>4 DEF Register, SendRequest, Send, ReadIdentity, https, Https!AiaSendHttpsRequest,
       Https!ParseUrl, Https!InitLibrary, Https!InitializeRequest, Https!Connect,
       Https!AddHeader, Https!SendSync, Https!DisconnectAndCleanup
  <2>3. RunInv'
    BY <1>1, <1>4, <2>1, <2>2 DEF RunInv, Running
  <2>4. StringsInv'
    <3>1. CASE Register
      BY <3>1 DEF Register, Goto, StringsInv
    <3>2. CASE SendRequest
      BY <3>2 DEF SendRequest, Goto, StringsInv
    <3>3. CASE Send
      BY <3>3 DEF Send, StringsInv
    <3>4. CASE \E x \in Identity : ReadIdentity(x)
      BY <1>1, <3>4, StringIsWhole
    <3> QED  BY <1>4, <3>1, <3>2, <3>3, <3>4
  <2> QED  BY <2>3, <2>4
<1>5. CASE stage = "registering" /\ stage' = "registering" /\ OnAnswer
  <2>1. pc \in {"failed", "length"}
    BY <1>5, Zenon DEF OnAnswer, Https!FailureCallback, Https!ReadContentLength, Https!Goto
  <2>2. registrationManager /\ managers = 1
    BY <1>1, <2>1 DEF ManagerInv, RunInv, Unanswered
  <2>3. /\ UNCHANGED <<at, request, networkInfo>>
        /\ \/ registrationManager' = FALSE /\ managers' = managers - 1
           \/ UNCHANGED <<registrationManager, managers>>
    BY <1>5, Zenon DEF OnAnswer, DestroyManager, Https!FailureCallback, Https!ReadContentLength
  <2>4. managers' = IF registrationManager' THEN 1 ELSE 0
    <3>1. 1 - 1 = 0
      OBVIOUS
    <3> QED  BY <2>2, <2>3, <3>1, Zenon
  <2> QED  BY <1>1, <1>5, <2>3, <2>4 DEF RunInv, StringsInv, Running
<1>6. CASE /\ stage = "registering" /\ RegisterReturns
           /\ \/ stage' = "client" /\ at' = "idle"
              \/ stage' = "registering" /\ at' # "idle"
  <2>1. /\ UNCHANGED <<registrationManager, managers, request, networkInfo>>
        /\ at' # "sending"
    BY <1>6 DEF RegisterReturns, Goto, https
  <2> QED  BY <1>1, <1>6, <2>1 DEF RunInv, StringsInv, Running
<1>7. CASE stage = "registering" /\ stage' = "ran" /\ Undo
  <2>1. /\ UNCHANGED <<request, networkInfo>> /\ at' = "idle"
        /\ ~ registrationManager' /\ managers' = 0
    BY <1>1, <1>7 DEF Undo, Goto, DestroyManager, https, ManagerInv, RunInv
  <2> QED  BY <1>1, <1>7, <2>1 DEF RunInv, StringsInv, Running
<1>8. RegisterAia =>
        \/ stage = "register" /\ CreateManager
        \/ /\ stage = "registering" /\ stage' = "registering"
           /\ \/ Register \/ SendRequest \/ Send \/ \E x \in Identity : ReadIdentity(x)
              \/ OnAnswer
        \/ /\ stage = "registering" /\ RegisterReturns
           /\ \/ stage' = "client" /\ at' = "idle"
              \/ stage' = "registering" /\ at' # "idle"
        \/ stage = "registering" /\ stage' = "ran" /\ Undo
  BY Zenon DEF RegisterAia, From
<1> QED
  BY <1>2, <1>3, <1>4, <1>5, <1>6, <1>7, <1>8

\* The other steps of the demo.
LEMMA DemoStep ==
    ASSUME ResourceInv, RunInv, StringsInv, AppNext, ~ StoreBeforeRun, ~ RegisterAia
    PROVE  RunInv' /\ StringsInv'
<1>1. UNCHANGED <<at, registrationManager, managers, request, networkInfo>>
  BY DEF AppNext, InitializeDemo, EstablishMqttConnection, Create, CreateFails, Release,
         CreateReturnsNull, InitAiaClient, GiveBackInRun, MakeTimerInRun, DestroyClient,
         Destroy, Disconnect, CleanupDemo,
         registration, https
<1>2. stage # "registering" /\ stage' # "registering"
  BY DEF AppNext, InitializeDemo, EstablishMqttConnection, Create, CreateFails, Release, From,
         CreateReturnsNull, InitAiaClient, GiveBackInRun, MakeTimerInRun, DestroyClient,
         Destroy, Disconnect, CleanupDemo
<1>3. /\ stage' \in Running => stage \in Running /\ UNCHANGED configured
      /\ stage' = "store" => configured'
      /\ UNCHANGED credentials
      /\ stage' \in {"initialize", "connect", "create", "cleanup", "store"} =>
             stage \in {"initialize", "connect", "create", "cleanup", "store"}
      /\ stage' \in {"initialize", "connect", "create", "cleanup", "store", "register"} =>
             stage \in {"initialize", "connect", "create", "cleanup", "store", "register"}
  BY DEF AppNext, InitializeDemo, EstablishMqttConnection, Create, CreateFails, Release, From,
         CreateReturnsNull, InitAiaClient, GiveBackInRun, MakeTimerInRun, DestroyClient,
         Destroy, Disconnect, CleanupDemo,
         Running
<1> QED
  BY <1>1, <1>2, <1>3 DEF RunInv, StringsInv

LEMMA AppInvariance == AppSpec => []AppInv
<1>1. /\ RegistrationInv /\ ResourceInv /\ RunInv /\ StringsInv
      /\ [AppNext]_appVars
      => RunInv' /\ StringsInv'
  <2>1. RunInv /\ StringsInv /\ UNCHANGED appVars => RunInv' /\ StringsInv'
    BY DEF appVars, app, registration, https, RunInv, StringsInv
  <2> QED  BY <2>1, RegistrationStep, DemoStep
<1>2. AppSpec => [](RunInv /\ StringsInv)
  BY <1>1, RunInit, RegistrationInDemo, ResourceInvariance, PTL DEF AppSpec
<1>3. RegistrationInv /\ ResourceInv /\ RunInv /\ StringsInv => AppInv
  BY DEF AppInv
<1> QED
  BY <1>2, <1>3, RegistrationInDemo, ResourceInvariance, PTL

---------------------------------------------------------------------------
\* The variables of the demo and of its registration keep their types; in particular k never
\* passes the last step, and the managers stay within their bound.
THEOREM AppTypeCorrect == AppSpec => []AppTypeOK
<1>1. AppInv => AppTypeOK
  BY DEF AppInv, RegistrationInv, ResourceInv, ShapeInv, AppTypeOK
<1> QED
  BY <1>1, AppInvariance, PTL

\* In every build, on every failure path and in every run: nothing is given back while
\* something that uses it is left, but for what MayBeMissing names: the alert timer the run has
\* lost, and the client, which AiaSampleApp_Run destroys before the alert timer and the speaker
\* that call it.
THEOREM UsersGoFirstHolds == AppSpec => []UsersGoFirst
  BY ResourceInvariance, PTL DEF ResourceInv

\* In every build: no failure path of AiaSampleApp_Create gives back what is not there, or
\* twice; and AiaSampleApp_Destroy gives back nothing twice itself, and nothing that is not
\* there but the alert timer and the stream a run has destroyed before, and the event group.
THEOREM ReleasesWhatIsHeldHolds == AppSpec => []ReleasesWhatIsHeld
<1>1. ResourceInv => ReleasesWhatIsHeld
  <2> SUFFICES ASSUME ResourceInv, stage \in {"cleanup", "destroy"} PROVE ReleasesWhatIsHeld
    BY DEF ResourceInv, HeldInv, ShapeInv, ReleasesWhatIsHeld
  <2>1. PICK H \in SUBSET Resource :
          Left(held, H) /\ Frees(todo, H) /\ (stage = "cleanup" => H = held)
    <3>1. held \in SUBSET Resource /\ Left(held, held)
      BY DEF ResourceInv, ShapeInv, Left
    <3> QED  BY <3>1 DEF ResourceInv, HeldInv
  <2> QED  BY <2>1 DEF Frees, Left, ReleasesWhatIsHeld
<1> QED
  BY <1>1, ResourceInvariance, PTL

\* In every build, whatever fails: what the demo leaves behind is the seed, a manager that was
\* registered without a callback, and, when no app could be created, what there was before.
THEOREM NoLeakHolds == AppSpec => []NoLeak
<1>1. AppInv => NoLeak
  <2> SUFFICES ASSUME AppInv, stage = "returned"
               PROVE  /\ held \subseteq {"seed"} \cup (IF status = "EXIT_SUCCESS" THEN {} ELSE Base)
                      /\ managers = IF registered /\ callbacks = {} THEN 1 ELSE 0
    BY DEF NoLeak, Base
  <2>1. held \subseteq {"seed"} \cup (IF status = "EXIT_SUCCESS" THEN {} ELSE Base)
    BY DEF AppInv, ResourceInv, HeldInv, Kept
  <2>2. at = "idle" /\ managers = IF registrationManager THEN 1 ELSE 0
    BY DEF AppInv, RunInv
  <2>3. registrationManager <=> registered /\ callbacks = {}
    BY <2>2 DEF AppInv, RegistrationInv, ManagerInv
  <2> QED  BY <2>1, <2>2, <2>3
<1> QED
  BY <1>1, AppInvariance, PTL

\* Whatever the strings are: the request of the registration goes out with each of them whole
\* and ended, and the strings were set before any is asked for.  It has the network's
\* credentials exactly if the demo was started with some.
THEOREM RequestIsCompleteHolds == AppSpec => []RequestIsComplete
<1>1. AppInv => RequestIsComplete
  <2>1. AppInv => /\ at \in {"reading", "sending"} => configured
                  /\ at = "sending" => (networkInfo <=> credentials)
    BY DEF AppInv, RunInv, Running
  <2>2. AppInv /\ at = "sending" => \A x \in Identity : Holds(request[x], Configured[x])
    BY DEF AppInv, StringsInv
  <2> QED  BY <2>1, <2>2 DEF RequestIsComplete
<1> QED
  BY <1>1, AppInvariance, PTL
=============================================================================
