------------------------------ MODULE AiaClock ------------------------------
(***************************************************************************)
(* The clock port, ports/Clock/src/aia_clock_config.c: a time of day that  *)
(* runs on the monotonic clock from the last moment it was set.  Until the *)
(* server sets it, each reading starts over from the system's own clock.   *)
(* The pair (last retrieved time, when it was retrieved) is guarded by a   *)
(* spin lock, and every statement between two accesses to shared state, or *)
(* two readings of a hardware clock, is a step: time may pass, and other   *)
(* tasks run, in between.                                                  *)
(*                                                                         *)
(* External: the scheduler of FreeRTOS.  There is one processor, which a   *)
(* task in a call, spinning or not, leaves only to tasks of its priority   *)
(* or a higher one.                                                        *)
(***************************************************************************)
EXTENDS Integers

CONSTANTS
    Thread,             \* the tasks that call the two functions
    TicksPerSecond,     \* resolution of the hardware clocks
    WallPhase,          \* ticks by which system seconds begin before monotonic ones
    WallEpoch,          \* system time at boot, seconds since the NTP epoch
    ServerTime,         \* times the server may send
    Priority,           \* of each task
    MaxTicks            \* bound of a run

ASSUME TicksAssumption ==
    /\ TicksPerSecond \in Nat \ {0}
    /\ WallPhase \in 0 .. TicksPerSecond - 1
    /\ WallEpoch \in Nat
    /\ ServerTime \subseteq Nat
    /\ Priority \in [Thread -> Nat]
    /\ MaxTicks \in Nat

VARIABLES
    now,                    \* ticks since boot
    g_spinLock,
    g_serverSynchronized,
    g_lastRetrievedTimeSinceNTPEpoch,
    g_lastSynchronization,
    pc,                     \* the statement each task is at
    arg,                    \* the time it was given, in a Set
    ret,                    \* the time it is to return, in a Get
    called,                 \* history: when it called Get
    server                  \* history: the time the clock was last set to, and when

vars == <<now, g_spinLock, g_serverSynchronized, g_lastRetrievedTimeSinceNTPEpoch,
          g_lastSynchronization, pc, arg, ret, called, server>>

globals == <<g_serverSynchronized, g_lastRetrievedTimeSinceNTPEpoch, g_lastSynchronization>>

\* AiaClock( GetTimeMs )() / AIA_MS_PER_SECOND, and time( NULL ) on the NTP scale.
Mono(n) == n \div TicksPerSecond
\* A wrong Wall: the offset between the epochs with the wrong sign.
WallWrongSign(n) == (n + WallPhase) \div TicksPerSecond - WallEpoch

Wall(n) == WallEpoch + (n + WallPhase) \div TicksPerSecond

Get == {"getSpin", "getTest", "getStamp", "getRead", "getClear"}
Set == {"setSpin", "setFlag", "setStamp", "setStore", "setClear"}

NotSet == [seconds |-> 0, at |-> -1]

Init == /\ now = 0
        /\ g_spinLock = FALSE
        /\ g_serverSynchronized = FALSE
        /\ g_lastRetrievedTimeSinceNTPEpoch = 0
        /\ g_lastSynchronization = 0
        /\ pc = [t \in Thread |-> "idle"]
        /\ arg = [t \in Thread |-> 0]
        /\ ret = [t \in Thread |-> 0]
        /\ called = [t \in Thread |-> 0]
        /\ server = NotSet

Goto(t, from, to) == pc[t] = from /\ pc' = [pc EXCEPT ![t] = to]

\* A wrong TakeLock: it does not wait for the lock to be free.
TakeLockBlindly == g_spinLock' = TRUE

\* A compare-and-swap that succeeds; one that fails changes nothing.
TakeLock == g_spinLock = FALSE /\ g_spinLock' = TRUE

---------------------------------------------------------------------------
(* AiaClock_GetTimeSinceNTPEpoch. *)

CallGet(t) ==
    /\ Goto(t, "idle", "getSpin")
    /\ called' = [called EXCEPT ![t] = now]
    /\ UNCHANGED <<now, g_spinLock, globals, arg, ret, server>>

GetLock(t) ==
    /\ Goto(t, "getSpin", "getTest")
    /\ TakeLock
    /\ UNCHANGED <<now, globals, arg, ret, called, server>>

\* The test, and the system time if it says so.
GetRetrieve(t) ==
    /\ \/ /\ g_serverSynchronized
          /\ Goto(t, "getTest", "getRead")
          /\ UNCHANGED g_lastRetrievedTimeSinceNTPEpoch
       \/ /\ ~ g_serverSynchronized
          /\ Goto(t, "getTest", "getStamp")
          /\ g_lastRetrievedTimeSinceNTPEpoch' = Wall(now)
    /\ UNCHANGED <<now, g_spinLock, g_serverSynchronized, g_lastSynchronization,
                   arg, ret, called, server>>

\* A wrong GetStamp: the retrieved time keeps an older stamp.
GetStampForgotten(t) ==
    /\ Goto(t, "getStamp", "getRead")
    /\ UNCHANGED <<now, g_spinLock, globals, arg, ret, called, server>>

GetStamp(t) ==
    /\ Goto(t, "getStamp", "getRead")
    /\ g_lastSynchronization' = Mono(now)
    /\ UNCHANGED <<now, g_spinLock, g_serverSynchronized, g_lastRetrievedTimeSinceNTPEpoch,
                   arg, ret, called, server>>

GetRead(t) ==
    /\ Goto(t, "getRead", "getClear")
    /\ ret' = [ret EXCEPT ![t] =
                g_lastRetrievedTimeSinceNTPEpoch + (Mono(now) - g_lastSynchronization)]
    /\ UNCHANGED <<now, g_spinLock, globals, arg, called, server>>

\* A wrong GetClear: a reading keeps the lock.
GetClearKeepsLock(t) ==
    /\ Goto(t, "getClear", "idle")
    /\ ret' = [ret EXCEPT ![t] = 0]
    /\ called' = [called EXCEPT ![t] = 0]
    /\ UNCHANGED <<now, g_spinLock, globals, arg, server>>

GetClear(t) ==
    /\ Goto(t, "getClear", "idle")
    /\ g_spinLock' = FALSE
    /\ ret' = [ret EXCEPT ![t] = 0]
    /\ called' = [called EXCEPT ![t] = 0]
    /\ UNCHANGED <<now, globals, arg, server>>

---------------------------------------------------------------------------
(* AiaClock_SetTimeSinceNTPEpoch. *)

CallSet(t, secondsSinceNTPEpoch) ==
    /\ Goto(t, "idle", "setSpin")
    /\ arg' = [arg EXCEPT ![t] = secondsSinceNTPEpoch]
    /\ UNCHANGED <<now, g_spinLock, globals, ret, called, server>>

SetLock(t) ==
    /\ Goto(t, "setSpin", "setFlag")
    /\ TakeLock
    /\ UNCHANGED <<now, globals, arg, ret, called, server>>

\* A wrong SetFlag: the next reading takes the system's time again.
SetFlagForgotten(t) ==
    /\ Goto(t, "setFlag", "setStamp")
    /\ UNCHANGED <<now, g_spinLock, globals, arg, ret, called, server>>

SetFlag(t) ==
    /\ Goto(t, "setFlag", "setStamp")
    /\ g_serverSynchronized' = TRUE
    /\ UNCHANGED <<now, g_spinLock, g_lastRetrievedTimeSinceNTPEpoch, g_lastSynchronization,
                   arg, ret, called, server>>

SetStamp(t) ==
    /\ Goto(t, "setStamp", "setStore")
    /\ g_lastSynchronization' = Mono(now)
    /\ server' = [seconds |-> arg[t], at |-> Mono(now)]
    /\ UNCHANGED <<now, g_spinLock, g_serverSynchronized, g_lastRetrievedTimeSinceNTPEpoch,
                   arg, ret, called>>

SetStore(t) ==
    /\ Goto(t, "setStore", "setClear")
    /\ g_lastRetrievedTimeSinceNTPEpoch' = arg[t]
    /\ UNCHANGED <<now, g_spinLock, g_serverSynchronized, g_lastSynchronization,
                   arg, ret, called, server>>

SetClear(t) ==
    /\ Goto(t, "setClear", "idle")
    /\ g_spinLock' = FALSE
    /\ arg' = [arg EXCEPT ![t] = 0]
    /\ UNCHANGED <<now, globals, ret, called, server>>

---------------------------------------------------------------------------
Tick == /\ now < MaxTicks
        /\ now' = now + 1
        /\ UNCHANGED <<g_spinLock, globals, pc, arg, ret, called, server>>

\* The steps of a task inside a call.
Lock(t) == GetLock(t) \/ SetLock(t)
Proceed(t) ==
    \/ GetRetrieve(t) \/ GetStamp(t) \/ GetRead(t) \/ GetClear(t)
    \/ SetFlag(t) \/ SetStamp(t) \/ SetStore(t) \/ SetClear(t)

\* No task of a higher priority is in a call.
Scheduled(t) == \A u \in Thread : Priority[u] > Priority[t] => pc[u] = "idle"

Next ==
    \/ \E t \in Thread :
        /\ Scheduled(t)
        /\ \/ CallGet(t) \/ Lock(t) \/ Proceed(t)
           \/ \E s \in ServerTime : CallSet(t, s)
    \/ Tick

Spec == Init /\ [][Next]_vars

\* Tasks of equal priority share the processor, and one of a higher priority blocks long
\* enough between its calls for the others to get on with theirs; one that spins finds the
\* lock free sooner or later if it keeps being freed.
FairSpec ==
    Spec /\ \A t \in Thread :
            SF_vars(Scheduled(t) /\ Proceed(t)) /\ SF_vars(Scheduled(t) /\ Lock(t))

---------------------------------------------------------------------------
(* Properties. *)

TypeOK ==
    /\ now \in Nat
    /\ g_spinLock \in BOOLEAN
    /\ g_serverSynchronized \in BOOLEAN
    /\ g_lastRetrievedTimeSinceNTPEpoch \in Nat
    /\ g_lastSynchronization \in Nat
    /\ pc \in [Thread -> {"idle"} \cup Get \cup Set]
    /\ arg \in [Thread -> Nat]
    /\ ret \in [Thread -> Int]
    /\ called \in [Thread -> Nat]
    /\ server \in [seconds : Nat, at : Nat \cup {-1}]

InCriticalSection(t) == pc[t] \notin {"idle", "getSpin", "setSpin"}

\* Two tasks are never between taking and clearing the spin lock.
MutualExclusion ==
    \A t, u \in Thread : InCriticalSection(t) /\ InCriticalSection(u) => t = u

\* Once the server has set the clock, a reading is the time it sent plus the seconds
\* since, of the moment of the reading: never half of one setting and half of another.
SynchronizedReading ==
    \A t \in Thread : pc[t] = "getClear" /\ server # NotSet =>
        ret[t] - server.seconds + server.at \in Mono(called[t]) .. Mono(now)

\* Before that, although three clock readings with preemptions in between go into it,
\* a reading is at most one second ahead of the system clock, and not behind what the
\* system clock was at the call.
UnsynchronizedReading ==
    \A t \in Thread : pc[t] = "getClear" /\ server = NotSet =>
        ret[t] \in Wall(called[t]) .. Wall(now) + 1

\* Every call returns, unless a task spins for a lock that one of a lower priority holds,
\* which then never runs again.
Inversion ==
    \E t, u \in Thread :
        /\ pc[t] \in {"getSpin", "setSpin"}
        /\ InCriticalSection(u)
        /\ Priority[u] < Priority[t]
CallsReturn == \A t \in Thread : pc[t] # "idle" ~> pc[t] = "idle" \/ Inversion
=============================================================================
