-------------------------- MODULE AiaClock_proofs --------------------------
(***************************************************************************)
(* Mutual exclusion and the two bounds on a reading, for any number of     *)
(* tasks, any clock resolution and any phase between the two clocks.       *)
(***************************************************************************)
EXTENDS AiaClock, TLAPS

\* A task in its critical section has the lock, and is alone with it.
LockInv ==
    /\ \A t \in Thread : InCriticalSection(t) => g_spinLock = TRUE
    /\ MutualExclusion

\* The shared pair, and the flag, against what the server last set.
PairInv ==
    /\ server # NotSet => /\ g_serverSynchronized
                          /\ g_lastSynchronization = server.at
                          /\ server.at \in Nat
                          /\ (\A t \in Thread : pc[t] # "setStore") =>
                                g_lastRetrievedTimeSinceNTPEpoch = server.seconds
    /\ g_serverSynchronized => server # NotSet \/ \E t \in Thread : pc[t] = "setStamp"
    /\ \A t \in Thread : pc[t] = "setStamp" => g_serverSynchronized
    /\ \A t \in Thread : pc[t] = "setStore" => server.seconds = arg[t] /\ server # NotSet

\* The clocks were read at the moments the code says, the system clock first.
Retrieved(t) ==
    \E n \in called[t] .. now :
        /\ g_lastSynchronization = Mono(n)
        /\ g_lastRetrievedTimeSinceNTPEpoch \in Wall(called[t]) .. Wall(n)

\* How far a Get has come, in terms of those moments.
Reading(t) ==
    /\ called[t] <= now
    /\ pc[t] = "getStamp" =>
        /\ server = NotSet
        /\ g_lastRetrievedTimeSinceNTPEpoch \in Wall(called[t]) .. Wall(now)
    /\ pc[t] = "getRead" /\ server = NotSet => Retrieved(t)

ReadingInv == \A t \in Thread : Reading(t)

IInv == TypeOK /\ LockInv /\ PairInv /\ ReadingInv /\ SynchronizedReading /\ UnsynchronizedReading

---------------------------------------------------------------------------
(* Division. *)

LEMMA DivBounds ==
    ASSUME NEW n \in Nat, NEW k \in Nat \ {0}
    PROVE  n \div k \in Nat /\ (n \div k) * k <= n /\ n < (n \div k) * k + k
  BY SMTT(30)

\* The two clocks count seconds that begin at different moments, so over the same
\* time one can count at most one more than the other.
LEMMA ClocksDrift ==
    ASSUME NEW m \in Nat, NEW n \in Nat, m <= n
    PROVE  /\ Mono(m) \in Nat /\ Mono(n) \in Nat /\ Wall(m) \in Nat /\ Wall(n) \in Nat
           /\ Mono(m) <= Mono(n)
           /\ Wall(m) <= Wall(n)
           /\ Mono(n) - Mono(m) <= Wall(n) - Wall(m) + 1
<1> DEFINE k == TicksPerSecond
           a == m \div k
           b == n \div k
           c == (m + WallPhase) \div k
           d == (n + WallPhase) \div k
<1>1. k \in Nat \ {0} /\ WallPhase \in Nat /\ WallPhase < k /\ WallEpoch \in Nat
  BY TicksAssumption
<1>2. /\ a \in Nat /\ a * k <= m /\ m < a * k + k
      /\ b \in Nat /\ b * k <= n /\ n < b * k + k
      /\ c \in Nat /\ c * k <= m + WallPhase /\ m + WallPhase < c * k + k
      /\ d \in Nat /\ d * k <= n + WallPhase /\ n + WallPhase < d * k + k
  <2>1. m + WallPhase \in Nat /\ n + WallPhase \in Nat
    BY <1>1
  <2> HIDE DEF k
  <2> QED  BY <1>1, <2>1, DivBounds
<1> HIDE DEF k, a, b, c, d
<1>3. a <= b
  <2>1. a * k < (b + 1) * k
    BY <1>1, <1>2
  <2> QED  BY <2>1, <1>1, <1>2
<1>4. c <= d
  <2>1. c * k < (d + 1) * k
    BY <1>1, <1>2
  <2> QED  BY <2>1, <1>1, <1>2
<1>5. b - a <= d - c + 1
  <2>1. (b - a) * k < ((d - c) + 2) * k
    BY <1>1, <1>2
  <2>2. b - a < (d - c) + 2
    BY <2>1, <1>1, <1>2
  <2> QED  BY <2>2, <1>2
<1> QED
  BY <1>1, <1>2, <1>3, <1>4, <1>5 DEF Mono, Wall, a, b, c, d, k
LEMMA ClocksNat == \A n \in Nat : Mono(n) \in Nat /\ Wall(n) \in Nat
  BY ClocksDrift

---------------------------------------------------------------------------
(* The invariant. *)

\* While one task is in its critical section, the others wait or are elsewhere.
LEMMA OthersWait ==
    ASSUME LockInv, TypeOK, NEW t \in Thread, InCriticalSection(t), NEW u \in Thread, u # t
    PROVE  pc[u] \in {"idle", "getSpin", "setSpin"}
  BY DEF LockInv, MutualExclusion, InCriticalSection

\* A task that waits reads nothing.
LEMMA WaitingReads ==
    ASSUME NEW u \in Thread, Reading(u), pc'[u] \in {"idle", "getSpin", "setSpin"},
           called'[u] = called[u], now' = now
    PROVE  Reading(u)'
  BY DEF Reading

LEMMA ReadingKept ==
    ASSUME NEW u \in Thread, Reading(u), pc'[u] = pc[u], called'[u] = called[u],
           now' = now, UNCHANGED globals, server' = server
    PROVE  Reading(u)'
  BY DEF Reading, Retrieved, globals

LEMMA InitInv == Init => IInv
<1> SUFFICES ASSUME Init PROVE IInv
  OBVIOUS
<1>1. \A t \in Thread : pc[t] = "idle" /\ called[t] = 0
  BY DEF Init
<1>2. TypeOK
  <2>1. NotSet \in [seconds : Nat, at : Nat \cup {-1}]
    BY DEF NotSet
  <2>2. [t \in Thread |-> "idle"] \in [Thread -> {"idle"} \cup Get \cup Set]
    OBVIOUS
  <2>3. [t \in Thread |-> 0] \in [Thread -> Nat] /\ [t \in Thread |-> 0] \in [Thread -> Int]
    OBVIOUS
  <2> QED  BY <2>1, <2>2, <2>3 DEF Init, TypeOK
<1>3. LockInv /\ ReadingInv
  BY <1>1 DEF Init, LockInv, MutualExclusion, InCriticalSection, ReadingInv, Reading
<1>4. PairInv
  BY <1>1 DEF Init, PairInv
<1>5. SynchronizedReading /\ UnsynchronizedReading
  BY <1>1 DEF SynchronizedReading, UnsynchronizedReading
<1> QED
  BY <1>2, <1>3, <1>4, <1>5 DEF IInv

\* Moving on inside a critical section, or outside of one, keeps the lock invariant.
LEMMA LockKept ==
    ASSUME LockInv, pc \in [Thread -> {"idle"} \cup Get \cup Set], NEW t \in Thread,
           NEW from, NEW to, Goto(t, from, to), g_spinLock' = g_spinLock,
           from \in {"idle", "getSpin", "setSpin"} <=> to \in {"idle", "getSpin", "setSpin"}
    PROVE  LockInv'
  BY DEF LockInv, MutualExclusion, InCriticalSection, Goto

LEMMA LockTaken ==
    ASSUME LockInv, pc \in [Thread -> {"idle"} \cup Get \cup Set], NEW t \in Thread,
           NEW from, NEW to, Goto(t, from, to), TakeLock
    PROVE  LockInv'
  BY DEF LockInv, MutualExclusion, InCriticalSection, Goto, TakeLock

LEMMA LockCleared ==
    ASSUME LockInv, pc \in [Thread -> {"idle"} \cup Get \cup Set], NEW t \in Thread,
           NEW from, Goto(t, from, "idle"), InCriticalSection(t), g_spinLock' = FALSE
    PROVE  LockInv'
  BY DEF LockInv, MutualExclusion, InCriticalSection, Goto

LEMMA CallGetStep ==
    ASSUME IInv, NEW t \in Thread, CallGet(t)
    PROVE  IInv'
<1>1. TypeOK'
  BY DEF IInv, TypeOK, CallGet, Goto, Get, Set, globals, TakeLock, NotSet
<1>2. LockInv'
  BY LockKept DEF IInv, TypeOK, CallGet, Goto, globals
<1>3. PairInv'
  BY ClocksDrift DEF IInv, TypeOK, LockInv, MutualExclusion, InCriticalSection, PairInv, CallGet, Goto, globals
<1>4. ReadingInv'
  <2> SUFFICES ASSUME NEW u \in Thread PROVE Reading(u)'
    BY DEF ReadingInv
  <2>1. Reading(u) /\ now' = now /\ UNCHANGED globals /\ server' = server
    BY DEF IInv, ReadingInv, CallGet, globals
  <2>2. CASE u = t
    BY <2>1, <2>2 DEF IInv, TypeOK, CallGet, Goto, Reading
  <2>3. CASE u # t
    BY <2>1, <2>3, ReadingKept DEF IInv, TypeOK, CallGet, Goto
  <2> QED  BY <2>2, <2>3
<1>5. SynchronizedReading'
  BY ClocksDrift DEF IInv, TypeOK, LockInv, MutualExclusion, InCriticalSection, PairInv, ReadingInv, SynchronizedReading, CallGet, Goto, globals
<1>6. UnsynchronizedReading'
  BY ClocksDrift DEF IInv, TypeOK, LockInv, MutualExclusion, InCriticalSection, PairInv, ReadingInv, UnsynchronizedReading, CallGet, Goto, globals
<1> QED
  BY <1>1, <1>2, <1>3, <1>4, <1>5, <1>6 DEF IInv

LEMMA GetLockStep ==
    ASSUME IInv, NEW t \in Thread, GetLock(t)
    PROVE  IInv'
<1>1. TypeOK'
  BY DEF IInv, TypeOK, GetLock, Goto, Get, Set, globals, TakeLock, NotSet
<1>2. LockInv'
  BY LockTaken DEF IInv, TypeOK, GetLock, Goto, globals
<1>3. PairInv'
  BY ClocksDrift DEF IInv, TypeOK, LockInv, MutualExclusion, InCriticalSection, PairInv, GetLock, Goto, globals
<1>4. ReadingInv'
  <2> SUFFICES ASSUME NEW u \in Thread PROVE Reading(u)'
    BY DEF ReadingInv
  <2>1. Reading(u) /\ now' = now /\ UNCHANGED globals /\ server' = server
    BY DEF IInv, ReadingInv, GetLock, globals
  <2>2. CASE u = t
    BY <2>1, <2>2 DEF IInv, TypeOK, GetLock, Goto, Reading
  <2>3. CASE u # t
    BY <2>1, <2>3, ReadingKept DEF IInv, TypeOK, GetLock, Goto
  <2> QED  BY <2>2, <2>3
<1>5. SynchronizedReading'
  BY ClocksDrift DEF IInv, TypeOK, LockInv, MutualExclusion, InCriticalSection, PairInv, ReadingInv, SynchronizedReading, GetLock, Goto, globals
<1>6. UnsynchronizedReading'
  BY ClocksDrift DEF IInv, TypeOK, LockInv, MutualExclusion, InCriticalSection, PairInv, ReadingInv, UnsynchronizedReading, GetLock, Goto, globals
<1> QED
  BY <1>1, <1>2, <1>3, <1>4, <1>5, <1>6 DEF IInv

LEMMA GetRetrieveStep ==
    ASSUME IInv, NEW t \in Thread, GetRetrieve(t)
    PROVE  IInv'
<1>1. TypeOK'
  BY ClocksNat DEF IInv, TypeOK, GetRetrieve, Goto, Get, Set, globals, TakeLock, NotSet
<1>2. LockInv'
  BY LockKept DEF IInv, TypeOK, GetRetrieve, Goto, globals
<1>3. PairInv'
  BY ClocksDrift DEF IInv, TypeOK, LockInv, MutualExclusion, InCriticalSection, PairInv, GetRetrieve, Goto, globals
<1>4. ReadingInv'
  <2> SUFFICES ASSUME NEW u \in Thread PROVE Reading(u)'
    BY DEF ReadingInv
  <2>1. Reading(u) /\ now' = now
    BY DEF IInv, ReadingInv, GetRetrieve
  <2>2. CASE u # t
    <3>1. pc[u] \in {"idle", "getSpin", "setSpin"}
      BY <2>2, OthersWait DEF IInv, GetRetrieve, Goto, InCriticalSection
    <3>2. pc'[u] = pc[u] /\ called'[u] = called[u]
      BY <2>2 DEF IInv, TypeOK, GetRetrieve, Goto
    <3> QED  BY <2>1, <3>1, <3>2, WaitingReads
  <2>3. CASE u = t
    <3>1. CASE g_serverSynchronized
      <4>1. server # NotSet
        BY <3>1 DEF IInv, LockInv, MutualExclusion, InCriticalSection, PairInv, GetRetrieve, Goto
      <4> QED  BY <2>1, <2>3, <3>1, <4>1 DEF IInv, TypeOK, GetRetrieve, Goto, Reading
    <3>2. CASE ~ g_serverSynchronized
      <4>1. server = NotSet
        BY <3>2 DEF IInv, PairInv
      <4>2. Wall(now) \in Wall(called[t]) .. Wall(now)
        BY <2>1, <2>3, ClocksDrift DEF IInv, TypeOK, Reading
      <4> QED  BY <2>1, <2>3, <3>2, <4>1, <4>2 DEF IInv, TypeOK, GetRetrieve, Goto, Reading
    <3> QED  BY <3>1, <3>2
  <2> QED  BY <2>2, <2>3
<1>5. SynchronizedReading'
  BY ClocksDrift DEF IInv, TypeOK, LockInv, MutualExclusion, InCriticalSection, PairInv, ReadingInv, SynchronizedReading, GetRetrieve, Goto, globals
<1>6. UnsynchronizedReading'
  BY ClocksDrift DEF IInv, TypeOK, LockInv, MutualExclusion, InCriticalSection, PairInv, ReadingInv, UnsynchronizedReading, GetRetrieve, Goto, globals
<1> QED
  BY <1>1, <1>2, <1>3, <1>4, <1>5, <1>6 DEF IInv

LEMMA GetStampStep ==
    ASSUME IInv, NEW t \in Thread, GetStamp(t)
    PROVE  IInv'
<1>1. TypeOK'
  BY ClocksNat DEF IInv, TypeOK, GetStamp, Goto, Get, Set, globals, TakeLock, NotSet
<1>2. LockInv'
  BY LockKept DEF IInv, TypeOK, GetStamp, Goto, globals
<1>3. PairInv'
  <2>1. server = NotSet
    BY DEF IInv, ReadingInv, Reading, GetStamp, Goto
  <2>2. \A u \in Thread : pc[u] # "setStamp" /\ pc'[u] \notin {"setStamp", "setStore"}
    BY OthersWait DEF IInv, TypeOK, GetStamp, Goto, InCriticalSection
  <2>3. ~ g_serverSynchronized
    BY <2>1, <2>2 DEF IInv, PairInv
  <2>4. server' = NotSet /\ ~ g_serverSynchronized'
    BY <2>1, <2>3 DEF GetStamp
  <2> QED  BY <2>2, <2>4 DEF PairInv, NotSet
<1>4. ReadingInv'
  <2> SUFFICES ASSUME NEW u \in Thread PROVE Reading(u)'
    BY DEF ReadingInv
  <2>1. Reading(u) /\ now' = now
    BY DEF IInv, ReadingInv, GetStamp
  <2>2. CASE u # t
    <3>1. pc[u] \in {"idle", "getSpin", "setSpin"}
      BY <2>2, OthersWait DEF IInv, GetStamp, Goto, InCriticalSection
    <3>2. pc'[u] = pc[u] /\ called'[u] = called[u]
      BY <2>2 DEF IInv, TypeOK, GetStamp, Goto
    <3> QED  BY <2>1, <3>1, <3>2, WaitingReads
  <2>3. CASE u = t
    <3>1. /\ pc'[t] = "getRead" /\ called'[t] = called[t]
          /\ g_lastSynchronization' = Mono(now)
          /\ g_lastRetrievedTimeSinceNTPEpoch' \in Wall(called[t]) .. Wall(now)
      BY <2>1, <2>3 DEF IInv, TypeOK, GetStamp, Goto, Reading
    <3>2. now \in called[t] .. now
      BY <2>1, <2>3 DEF IInv, TypeOK, Reading
    <3> QED  BY <2>1, <2>3, <3>1, <3>2 DEF Reading, Retrieved
  <2> QED  BY <2>2, <2>3
<1>5. SynchronizedReading'
  BY ClocksDrift DEF IInv, TypeOK, LockInv, MutualExclusion, InCriticalSection, PairInv, ReadingInv, SynchronizedReading, GetStamp, Goto, globals
<1>6. UnsynchronizedReading'
  BY ClocksDrift DEF IInv, TypeOK, LockInv, MutualExclusion, InCriticalSection, PairInv, ReadingInv, UnsynchronizedReading, GetStamp, Goto, globals
<1> QED
  BY <1>1, <1>2, <1>3, <1>4, <1>5, <1>6 DEF IInv

LEMMA GetReadStep ==
    ASSUME IInv, NEW t \in Thread, GetRead(t)
    PROVE  IInv'
<1>1. TypeOK'
  BY ClocksNat DEF IInv, TypeOK, GetRead, Goto, Get, Set, globals, TakeLock, NotSet
<1>2. LockInv'
  BY LockKept DEF IInv, TypeOK, GetRead, Goto, globals
<1>3. PairInv'
  BY ClocksDrift DEF IInv, TypeOK, LockInv, MutualExclusion, InCriticalSection, PairInv, GetRead, Goto, globals
<1>4. ReadingInv'
  <2> SUFFICES ASSUME NEW u \in Thread PROVE Reading(u)'
    BY DEF ReadingInv
  <2>1. Reading(u) /\ now' = now
    BY DEF IInv, ReadingInv, GetRead
  <2>2. CASE u # t
    <3>1. pc[u] \in {"idle", "getSpin", "setSpin"}
      BY <2>2, OthersWait DEF IInv, GetRead, Goto, InCriticalSection
    <3>2. pc'[u] = pc[u] /\ called'[u] = called[u]
      BY <2>2 DEF IInv, TypeOK, GetRead, Goto
    <3> QED  BY <2>1, <3>1, <3>2, WaitingReads
  <2>3. CASE u = t
    BY <2>1, <2>3 DEF IInv, TypeOK, GetRead, Goto, Reading
  <2> QED  BY <2>2, <2>3
<1>5. SynchronizedReading'
  <2> SUFFICES ASSUME NEW u \in Thread, pc'[u] = "getClear", server # NotSet
               PROVE  ret'[u] - server.seconds + server.at \in Mono(called[u]) .. Mono(now)
    BY DEF SynchronizedReading, GetRead
  <2>1. u = t
    BY OthersWait DEF IInv, TypeOK, GetRead, Goto, InCriticalSection
  <2>2. \A v \in Thread : pc[v] # "setStore"
    BY OthersWait DEF IInv, TypeOK, GetRead, Goto, InCriticalSection
  <2>3. /\ g_lastSynchronization = server.at
        /\ g_lastRetrievedTimeSinceNTPEpoch = server.seconds
    BY <2>2 DEF IInv, PairInv
  <2>4. ret'[t] = server.seconds + (Mono(now) - server.at)
    BY <2>3 DEF IInv, TypeOK, GetRead
  <2>5. called[t] \in Nat /\ now \in Nat /\ called[t] <= now
    BY DEF IInv, TypeOK, ReadingInv, Reading
  <2>6. Mono(called[t]) \in Nat /\ Mono(now) \in Nat /\ Mono(called[t]) <= Mono(now)
    BY <2>5, ClocksDrift
  <2>7. server.seconds \in Int /\ server.at \in Int
    BY DEF IInv, TypeOK
  <2> QED  BY <2>1, <2>4, <2>6, <2>7
<1>6. UnsynchronizedReading'
  <2> SUFFICES ASSUME NEW u \in Thread, pc'[u] = "getClear", server = NotSet
               PROVE  ret'[u] \in Wall(called[u]) .. Wall(now) + 1
    BY DEF UnsynchronizedReading, GetRead
  <2>1. u = t
    BY OthersWait DEF IInv, TypeOK, GetRead, Goto, InCriticalSection
  <2>2. PICK n \in called[t] .. now :
          /\ g_lastSynchronization = Mono(n)
          /\ g_lastRetrievedTimeSinceNTPEpoch \in Wall(called[t]) .. Wall(n)
    BY DEF IInv, ReadingInv, Reading, Retrieved, GetRead, Goto
  <2>3. called[t] \in Nat /\ now \in Nat /\ n \in Nat /\ called[t] <= n /\ n <= now
    BY DEF IInv, TypeOK
  <2>4. ret'[t] = g_lastRetrievedTimeSinceNTPEpoch + (Mono(now) - Mono(n))
    BY <2>2 DEF IInv, TypeOK, GetRead
  <2>5. /\ Mono(n) \in Nat /\ Mono(now) \in Nat /\ Wall(n) \in Nat /\ Wall(now) \in Nat
        /\ Mono(n) <= Mono(now)
        /\ Mono(now) - Mono(n) <= Wall(now) - Wall(n) + 1
        /\ Wall(called[t]) \in Nat
    BY <2>3, ClocksDrift
  <2> HIDE DEF Retrieved
  <2>6. /\ g_lastRetrievedTimeSinceNTPEpoch \in Int
        /\ Wall(called[t]) <= g_lastRetrievedTimeSinceNTPEpoch
        /\ g_lastRetrievedTimeSinceNTPEpoch <= Wall(n)
    BY <2>2, <2>5
  <2> QED  BY <2>1, <2>4, <2>5, <2>6
<1> QED
  BY <1>1, <1>2, <1>3, <1>4, <1>5, <1>6 DEF IInv

LEMMA GetClearStep ==
    ASSUME IInv, NEW t \in Thread, GetClear(t)
    PROVE  IInv'
<1>1. TypeOK'
  <2>1. ret' \in [Thread -> Int] /\ called' \in [Thread -> Nat]
    BY DEF IInv, TypeOK, GetClear
  <2>2. pc' \in [Thread -> {"idle"} \cup Get \cup Set]
    BY DEF IInv, TypeOK, GetClear, Goto
  <2> QED  BY <2>1, <2>2 DEF IInv, TypeOK, GetClear, globals
<1>2. LockInv'
  BY LockCleared DEF IInv, TypeOK, GetClear, Goto, InCriticalSection, globals
<1>3. PairInv'
  BY ClocksDrift DEF IInv, TypeOK, LockInv, MutualExclusion, InCriticalSection, PairInv, GetClear, Goto, globals
<1>4. ReadingInv'
  <2> SUFFICES ASSUME NEW u \in Thread PROVE Reading(u)'
    BY DEF ReadingInv
  <2>1. Reading(u) /\ now' = now
    BY DEF IInv, ReadingInv, GetClear
  <2>2. CASE u # t
    <3>1. pc[u] \in {"idle", "getSpin", "setSpin"}
      BY <2>2, OthersWait DEF IInv, GetClear, Goto, InCriticalSection
    <3>2. pc'[u] = pc[u] /\ called'[u] = called[u]
      BY <2>2 DEF IInv, TypeOK, GetClear, Goto
    <3> QED  BY <2>1, <3>1, <3>2, WaitingReads
  <2>3. CASE u = t
    BY <2>1, <2>3 DEF IInv, TypeOK, GetClear, Goto, Reading
  <2> QED  BY <2>2, <2>3
<1>5. SynchronizedReading'
  BY ClocksDrift DEF IInv, TypeOK, LockInv, MutualExclusion, InCriticalSection, PairInv, ReadingInv, SynchronizedReading, GetClear, Goto, globals
<1>6. UnsynchronizedReading'
  BY ClocksDrift DEF IInv, TypeOK, LockInv, MutualExclusion, InCriticalSection, PairInv, ReadingInv, UnsynchronizedReading, GetClear, Goto, globals
<1> QED
  BY <1>1, <1>2, <1>3, <1>4, <1>5, <1>6 DEF IInv

LEMMA SetLockStep ==
    ASSUME IInv, NEW t \in Thread, SetLock(t)
    PROVE  IInv'
<1>1. TypeOK'
  BY DEF IInv, TypeOK, SetLock, Goto, Get, Set, globals, TakeLock, NotSet
<1>2. LockInv'
  BY LockTaken DEF IInv, TypeOK, SetLock, Goto, globals
<1>3. PairInv'
  BY ClocksDrift DEF IInv, TypeOK, LockInv, MutualExclusion, InCriticalSection, PairInv, SetLock, Goto, globals
<1>4. ReadingInv'
  <2> SUFFICES ASSUME NEW u \in Thread PROVE Reading(u)'
    BY DEF ReadingInv
  <2>1. Reading(u) /\ now' = now /\ UNCHANGED globals /\ server' = server
    BY DEF IInv, ReadingInv, SetLock, globals
  <2>2. CASE u = t
    BY <2>1, <2>2 DEF IInv, TypeOK, SetLock, Goto, Reading
  <2>3. CASE u # t
    BY <2>1, <2>3, ReadingKept DEF IInv, TypeOK, SetLock, Goto
  <2> QED  BY <2>2, <2>3
<1>5. SynchronizedReading'
  BY ClocksDrift DEF IInv, TypeOK, LockInv, MutualExclusion, InCriticalSection, PairInv, ReadingInv, SynchronizedReading, SetLock, Goto, globals
<1>6. UnsynchronizedReading'
  BY ClocksDrift DEF IInv, TypeOK, LockInv, MutualExclusion, InCriticalSection, PairInv, ReadingInv, UnsynchronizedReading, SetLock, Goto, globals
<1> QED
  BY <1>1, <1>2, <1>3, <1>4, <1>5, <1>6 DEF IInv

LEMMA SetFlagStep ==
    ASSUME IInv, NEW t \in Thread, SetFlag(t)
    PROVE  IInv'
<1>1. TypeOK'
  BY DEF IInv, TypeOK, SetFlag, Goto, Get, Set, globals, TakeLock, NotSet
<1>2. LockInv'
  BY LockKept DEF IInv, TypeOK, SetFlag, Goto, globals
<1>3. PairInv'
  BY ClocksDrift DEF IInv, TypeOK, LockInv, MutualExclusion, InCriticalSection, PairInv, SetFlag, Goto, globals
<1>4. ReadingInv'
  <2> SUFFICES ASSUME NEW u \in Thread PROVE Reading(u)'
    BY DEF ReadingInv
  <2>1. Reading(u) /\ now' = now
    BY DEF IInv, ReadingInv, SetFlag
  <2>2. CASE u # t
    <3>1. pc[u] \in {"idle", "getSpin", "setSpin"}
      BY <2>2, OthersWait DEF IInv, SetFlag, Goto, InCriticalSection
    <3>2. pc'[u] = pc[u] /\ called'[u] = called[u]
      BY <2>2 DEF IInv, TypeOK, SetFlag, Goto
    <3> QED  BY <2>1, <3>1, <3>2, WaitingReads
  <2>3. CASE u = t
    BY <2>1, <2>3 DEF IInv, TypeOK, SetFlag, Goto, Reading
  <2> QED  BY <2>2, <2>3
<1>5. SynchronizedReading'
  BY ClocksDrift DEF IInv, TypeOK, LockInv, MutualExclusion, InCriticalSection, PairInv, ReadingInv, SynchronizedReading, SetFlag, Goto, globals
<1>6. UnsynchronizedReading'
  BY ClocksDrift DEF IInv, TypeOK, LockInv, MutualExclusion, InCriticalSection, PairInv, ReadingInv, UnsynchronizedReading, SetFlag, Goto, globals
<1> QED
  BY <1>1, <1>2, <1>3, <1>4, <1>5, <1>6 DEF IInv

LEMMA SetStampStep ==
    ASSUME IInv, NEW t \in Thread, SetStamp(t)
    PROVE  IInv'
<1>1. TypeOK'
  BY ClocksNat DEF IInv, TypeOK, SetStamp, Goto, Get, Set, globals, TakeLock, NotSet
<1>2. LockInv'
  BY LockKept DEF IInv, TypeOK, SetStamp, Goto, globals
<1>3. PairInv'
  <2>1. \A u \in Thread : pc'[u] = "setStore" <=> u = t
    BY OthersWait DEF IInv, TypeOK, SetStamp, Goto, InCriticalSection
  <2>2. Mono(now) \in Nat
    BY ClocksNat DEF IInv, TypeOK
  <2>3. server' # NotSet /\ server'.at = Mono(now) /\ server'.seconds = arg[t]
    BY <2>2 DEF SetStamp, NotSet
  <2>4. g_serverSynchronized
    BY DEF IInv, PairInv, SetStamp, Goto
  <2> QED  BY <2>1, <2>2, <2>3, <2>4 DEF PairInv, SetStamp
<1>4. ReadingInv'
  <2> SUFFICES ASSUME NEW u \in Thread PROVE Reading(u)'
    BY DEF ReadingInv
  <2>1. Reading(u) /\ now' = now
    BY DEF IInv, ReadingInv, SetStamp
  <2>2. CASE u # t
    <3>1. pc[u] \in {"idle", "getSpin", "setSpin"}
      BY <2>2, OthersWait DEF IInv, SetStamp, Goto, InCriticalSection
    <3>2. pc'[u] = pc[u] /\ called'[u] = called[u]
      BY <2>2 DEF IInv, TypeOK, SetStamp, Goto
    <3> QED  BY <2>1, <3>1, <3>2, WaitingReads
  <2>3. CASE u = t
    BY <2>1, <2>3 DEF IInv, TypeOK, SetStamp, Goto, Reading
  <2> QED  BY <2>2, <2>3
<1>5. SynchronizedReading'
  BY ClocksDrift DEF IInv, TypeOK, LockInv, MutualExclusion, InCriticalSection, PairInv, ReadingInv, SynchronizedReading, SetStamp, Goto, globals
<1>6. UnsynchronizedReading'
  BY ClocksDrift DEF IInv, TypeOK, LockInv, MutualExclusion, InCriticalSection, PairInv, ReadingInv, UnsynchronizedReading, SetStamp, Goto, globals
<1> QED
  BY <1>1, <1>2, <1>3, <1>4, <1>5, <1>6 DEF IInv

LEMMA SetStoreStep ==
    ASSUME IInv, NEW t \in Thread, SetStore(t)
    PROVE  IInv'
<1>1. TypeOK'
  BY ClocksNat DEF IInv, TypeOK, SetStore, Goto, Get, Set, globals, TakeLock, NotSet
<1>2. LockInv'
  BY LockKept DEF IInv, TypeOK, SetStore, Goto, globals
<1>3. PairInv'
  BY ClocksDrift DEF IInv, TypeOK, LockInv, MutualExclusion, InCriticalSection, PairInv, SetStore, Goto, globals
<1>4. ReadingInv'
  <2> SUFFICES ASSUME NEW u \in Thread PROVE Reading(u)'
    BY DEF ReadingInv
  <2>1. Reading(u) /\ now' = now
    BY DEF IInv, ReadingInv, SetStore
  <2>2. CASE u # t
    <3>1. pc[u] \in {"idle", "getSpin", "setSpin"}
      BY <2>2, OthersWait DEF IInv, SetStore, Goto, InCriticalSection
    <3>2. pc'[u] = pc[u] /\ called'[u] = called[u]
      BY <2>2 DEF IInv, TypeOK, SetStore, Goto
    <3> QED  BY <2>1, <3>1, <3>2, WaitingReads
  <2>3. CASE u = t
    BY <2>1, <2>3 DEF IInv, TypeOK, SetStore, Goto, Reading
  <2> QED  BY <2>2, <2>3
<1>5. SynchronizedReading'
  BY ClocksDrift DEF IInv, TypeOK, LockInv, MutualExclusion, InCriticalSection, PairInv, ReadingInv, SynchronizedReading, SetStore, Goto, globals
<1>6. UnsynchronizedReading'
  BY ClocksDrift DEF IInv, TypeOK, LockInv, MutualExclusion, InCriticalSection, PairInv, ReadingInv, UnsynchronizedReading, SetStore, Goto, globals
<1> QED
  BY <1>1, <1>2, <1>3, <1>4, <1>5, <1>6 DEF IInv

LEMMA SetClearStep ==
    ASSUME IInv, NEW t \in Thread, SetClear(t)
    PROVE  IInv'
<1>1. TypeOK'
  BY DEF IInv, TypeOK, SetClear, Goto, Get, Set, globals, TakeLock, NotSet
<1>2. LockInv'
  BY LockCleared DEF IInv, TypeOK, SetClear, Goto, InCriticalSection, globals
<1>3. PairInv'
  BY ClocksDrift DEF IInv, TypeOK, LockInv, MutualExclusion, InCriticalSection, PairInv, SetClear, Goto, globals
<1>4. ReadingInv'
  <2> SUFFICES ASSUME NEW u \in Thread PROVE Reading(u)'
    BY DEF ReadingInv
  <2>1. Reading(u) /\ now' = now
    BY DEF IInv, ReadingInv, SetClear
  <2>2. CASE u # t
    <3>1. pc[u] \in {"idle", "getSpin", "setSpin"}
      BY <2>2, OthersWait DEF IInv, SetClear, Goto, InCriticalSection
    <3>2. pc'[u] = pc[u] /\ called'[u] = called[u]
      BY <2>2 DEF IInv, TypeOK, SetClear, Goto
    <3> QED  BY <2>1, <3>1, <3>2, WaitingReads
  <2>3. CASE u = t
    BY <2>1, <2>3 DEF IInv, TypeOK, SetClear, Goto, Reading
  <2> QED  BY <2>2, <2>3
<1>5. SynchronizedReading'
  BY ClocksDrift DEF IInv, TypeOK, LockInv, MutualExclusion, InCriticalSection, PairInv, ReadingInv, SynchronizedReading, SetClear, Goto, globals
<1>6. UnsynchronizedReading'
  BY ClocksDrift DEF IInv, TypeOK, LockInv, MutualExclusion, InCriticalSection, PairInv, ReadingInv, UnsynchronizedReading, SetClear, Goto, globals
<1> QED
  BY <1>1, <1>2, <1>3, <1>4, <1>5, <1>6 DEF IInv

LEMMA CallSetStep ==
    ASSUME IInv, NEW t \in Thread, NEW s \in ServerTime, CallSet(t, s)
    PROVE  IInv'
<1>1. TypeOK'
  BY TicksAssumption DEF IInv, TypeOK, CallSet, Goto, Get, Set, globals, TakeLock, NotSet
<1>2. LockInv'
  BY LockKept DEF IInv, TypeOK, CallSet, Goto, globals
<1>3. PairInv'
  BY ClocksDrift DEF IInv, TypeOK, LockInv, MutualExclusion, InCriticalSection, PairInv, CallSet, Goto, globals
<1>4. ReadingInv'
  <2> SUFFICES ASSUME NEW u \in Thread PROVE Reading(u)'
    BY DEF ReadingInv
  <2>1. Reading(u) /\ now' = now /\ UNCHANGED globals /\ server' = server
    BY DEF IInv, ReadingInv, CallSet, globals
  <2>2. CASE u = t
    BY <2>1, <2>2 DEF IInv, TypeOK, CallSet, Goto, Reading
  <2>3. CASE u # t
    BY <2>1, <2>3, ReadingKept DEF IInv, TypeOK, CallSet, Goto
  <2> QED  BY <2>2, <2>3
<1>5. SynchronizedReading'
  BY ClocksDrift DEF IInv, TypeOK, LockInv, MutualExclusion, InCriticalSection, PairInv, ReadingInv, SynchronizedReading, CallSet, Goto, globals
<1>6. UnsynchronizedReading'
  BY ClocksDrift DEF IInv, TypeOK, LockInv, MutualExclusion, InCriticalSection, PairInv, ReadingInv, UnsynchronizedReading, CallSet, Goto, globals
<1> QED
  BY <1>1, <1>2, <1>3, <1>4, <1>5, <1>6 DEF IInv

LEMMA TickStep ==
    ASSUME IInv, Tick
    PROVE  IInv'
<1>1. now \in Nat /\ now' = now + 1 /\ now' \in Nat
  BY DEF IInv, TypeOK, Tick
<1>2. /\ Mono(now) \in Nat /\ Mono(now') \in Nat /\ Mono(now) <= Mono(now')
      /\ Wall(now) \in Nat /\ Wall(now') \in Nat /\ Wall(now) <= Wall(now')
  BY SMTT(30), <1>1, ClocksDrift
<1>3. TypeOK' /\ LockInv' /\ PairInv'
  BY <1>1 DEF IInv, TypeOK, LockInv, MutualExclusion, InCriticalSection, PairInv, Tick, globals
<1>4. ReadingInv'
  <2> SUFFICES ASSUME NEW u \in Thread PROVE Reading(u)'
    BY DEF ReadingInv
  <2>1. Reading(u) /\ called[u] \in Nat
    BY DEF IInv, TypeOK, ReadingInv
  <2>2. called[u] <= now'
    BY <1>1, <2>1 DEF Reading
  <2>3. Wall(called[u]) \in Nat
    BY <2>1, ClocksNat
  <2>4. pc[u] = "getStamp" =>
           g_lastRetrievedTimeSinceNTPEpoch \in Wall(called[u]) .. Wall(now')
    BY <1>2, <2>1, <2>3 DEF Reading
  <2>5. Retrieved(u) => Retrieved(u)'
    <3> SUFFICES ASSUME NEW n \in called[u] .. now,
                        g_lastSynchronization = Mono(n),
                        g_lastRetrievedTimeSinceNTPEpoch \in Wall(called[u]) .. Wall(n)
                 PROVE  Retrieved(u)'
      BY DEF Retrieved
    <3>1. n \in called[u] .. now'
      BY <1>1, <2>1
    <3> QED  BY <3>1 DEF Retrieved, Tick, globals
  <2> QED  BY <2>1, <2>2, <2>4, <2>5 DEF Reading, Tick, globals
<1>5. SynchronizedReading'
  <2> SUFFICES ASSUME NEW u \in Thread, pc[u] = "getClear", server # NotSet
               PROVE  ret[u] - server.seconds + server.at \in Mono(called[u]) .. Mono(now')
    BY DEF SynchronizedReading, Tick
  <2>1. ret[u] - server.seconds + server.at \in Mono(called[u]) .. Mono(now)
    BY DEF IInv, SynchronizedReading
  <2>2. Mono(called[u]) \in Nat
    BY ClocksNat DEF IInv, TypeOK
  <2> QED  BY <1>2, <2>1, <2>2
<1>6. UnsynchronizedReading'
  <2> SUFFICES ASSUME NEW u \in Thread, pc[u] = "getClear", server = NotSet
               PROVE  ret[u] \in Wall(called[u]) .. Wall(now') + 1
    BY DEF UnsynchronizedReading, Tick
  <2>1. ret[u] \in Wall(called[u]) .. Wall(now) + 1
    BY DEF IInv, UnsynchronizedReading
  <2>2. Wall(called[u]) \in Nat
    BY ClocksNat DEF IInv, TypeOK
  <2> QED  BY <1>2, <2>1, <2>2
<1> QED
  BY <1>3, <1>4, <1>5, <1>6 DEF IInv

LEMMA StutterStep == IInv /\ UNCHANGED vars => IInv'
  BY DEF IInv, vars, globals, TypeOK, LockInv, MutualExclusion, InCriticalSection, PairInv,
         ReadingInv, Reading, Retrieved, SynchronizedReading, UnsynchronizedReading

LEMMA Invariance == Spec => []IInv
<1>1. IInv /\ [Next]_vars => IInv'
  <2> SUFFICES ASSUME IInv, [Next]_vars PROVE IInv'
    OBVIOUS
  <2>1. CASE UNCHANGED vars
    BY <2>1, StutterStep
  <2>2. CASE Tick
    BY <2>2, TickStep
  <2>3. ASSUME NEW t \in Thread, CallGet(t) \/ Lock(t) \/ Proceed(t) PROVE IInv'
    BY <2>3, CallGetStep, GetLockStep, SetLockStep, GetRetrieveStep, GetStampStep, GetReadStep,
       GetClearStep, SetFlagStep, SetStampStep, SetStoreStep, SetClearStep DEF Lock, Proceed
  <2>4. ASSUME NEW t \in Thread, NEW s \in ServerTime, CallSet(t, s) PROVE IInv'
    BY <2>4, CallSetStep
  <2> QED
    BY <2>1, <2>2, <2>3, <2>4 DEF Next
<1> QED
  BY <1>1, InitInv, PTL DEF Spec

---------------------------------------------------------------------------
(* A lock that is taken has somebody to clear it. *)

HolderInv == g_spinLock = TRUE => \E t \in Thread : InCriticalSection(t)

LEMMA HolderKept ==
    ASSUME TypeOK, HolderInv, [Next]_vars
    PROVE  HolderInv'
<1> USE DEF TypeOK, Goto, TakeLock, InCriticalSection, Get, Set
<1>1. ASSUME NEW t \in Thread, Lock(t)
      PROVE  HolderInv'
  <2>1. pc'[t] \in {"getTest", "setFlag"}
    BY <1>1 DEF Lock, GetLock, SetLock
  <2> QED  BY <2>1 DEF HolderInv
<1>2. ASSUME NEW t \in Thread, GetClear(t) \/ SetClear(t)
      PROVE  HolderInv'
  <2>1. g_spinLock' = FALSE
    BY <1>2 DEF GetClear, SetClear
  <2> QED  BY <2>1 DEF HolderInv
<1>3. ASSUME g_spinLock' = g_spinLock,
             \A u \in Thread : InCriticalSection(u) => InCriticalSection(u)'
      PROVE  HolderInv'
  BY <1>3 DEF HolderInv
<1>4. ASSUME NEW t \in Thread, Proceed(t), ~ GetClear(t), ~ SetClear(t)
      PROVE  HolderInv'
  <2>1. g_spinLock' = g_spinLock
    BY <1>4 DEF Proceed, GetRetrieve, GetStamp, GetRead, SetFlag, SetStamp, SetStore, globals
  <2>2. pc'[t] \in {"getRead", "getStamp", "getClear", "setStamp", "setStore", "setClear"}
    BY <1>4 DEF Proceed, GetRetrieve, GetStamp, GetRead, SetFlag, SetStamp, SetStore
  <2>3. \A u \in Thread : u # t => pc'[u] = pc[u]
    BY <1>4 DEF Proceed, GetRetrieve, GetStamp, GetRead, SetFlag, SetStamp, SetStore
  <2> QED  BY <2>1, <2>2, <2>3, <1>3
<1>5. ASSUME NEW t \in Thread, CallGet(t) \/ \E s \in ServerTime : CallSet(t, s)
      PROVE  HolderInv'
  <2>1. g_spinLock' = g_spinLock /\ pc[t] = "idle" /\ \A u \in Thread : u # t => pc'[u] = pc[u]
    BY <1>5 DEF CallGet, CallSet, globals
  <2> QED  BY <2>1, <1>3
<1>6. CASE Tick \/ UNCHANGED vars
  BY <1>3, <1>6 DEF Tick, vars, globals
<1> QED
  BY <1>1, <1>2, <1>4, <1>5, <1>6 DEF Next

---------------------------------------------------------------------------
(* The theorems. *)

\* Every variable keeps its type, however many tasks read and set the clock.
THEOREM TypeCorrect == Spec => []TypeOK
<1>1. IInv => TypeOK
  BY DEF IInv
<1> QED
  BY <1>1, Invariance, PTL

\* Two tasks are never between taking and clearing the spin lock, however many call
\* AiaClock_GetTimeSinceNTPEpoch and AiaClock_SetTimeSinceNTPEpoch.
THEOREM MutualExclusionHolds == Spec => []MutualExclusion
<1>1. IInv => MutualExclusion
  BY DEF IInv, LockInv
<1> QED
  BY <1>1, Invariance, PTL

\* Neither function returns with the lock taken: whoever spins for it waits for a task that is
\* inside, and whose way to the clearing of the lock waits for nothing but the processor.
THEOREM LockHasHolder == Spec => []HolderInv
<1>1. Init => HolderInv
  BY DEF Init, HolderInv
<1> QED
  BY <1>1, HolderKept, TypeCorrect, PTL DEF Spec

\* Once AiaClock_SetTimeSinceNTPEpoch has set the clock, every reading is the time of
\* one setting plus the seconds since it.
THEOREM SynchronizedReadingHolds == Spec => []SynchronizedReading
<1>1. IInv => SynchronizedReading
  BY DEF IInv
<1> QED
  BY <1>1, Invariance, PTL

\* Before that, a reading is at most a second ahead of the system clock, whatever the
\* resolution of the clocks and the phase between them.
THEOREM UnsynchronizedReadingHolds == Spec => []UnsynchronizedReading
<1>1. IInv => UnsynchronizedReading
  BY DEF IInv
<1> QED
  BY <1>1, Invariance, PTL
=============================================================================
