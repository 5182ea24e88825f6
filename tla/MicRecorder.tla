----------------------------- MODULE MicRecorder -----------------------------
(***************************************************************************)
(* The microphone recorder,                                                *)
(* demos/aia/utils/aiaportaudiomicrophone/source/aia_portaudio_microphone.c: *)
(* a task starts and stops the capture, and a periodic timer moves what    *)
(* PortAudio has recorded to the buffer of the AIA client.  A mutex guards *)
(* the stream, and so a locked section is a step; the timer and its flag   *)
(* are not guarded.                                                        *)
(*                                                                         *)
(* External: PortAudio; and the timer, whose Destroy lets no further       *)
(* callback begin and returns once none runs.                              *)
(***************************************************************************)
EXTENDS Naturals

CONSTANTS
    Caller,         \* the tasks that call the recorder
    Alternating,    \* whether it is started only when it is not, and stopped only when it is
    NOBODY,
    MaxFrames       \* bound: the frames PortAudio keeps until they are read

ASSUME CallerAssumption ==
    /\ NOBODY \notin Caller \cup {"timer"}
    /\ "timer" \notin Caller
    /\ Alternating \in BOOLEAN
    /\ MaxFrames \in Nat

VARIABLES
    recorder,                       \* whether it is allocated
    mutex,                          \* who holds it
    paStream,                       \* "stopped", "active" or "closed"
    available,                      \* the frames it has recorded and nobody has read
    captureMicrophoneTimer,         \* how many timers were created and not destroyed
    armed,                          \* whether the last one is armed
    captureMicrophoneTimerExisted,
    pc,                             \* the statement each caller is at
    capture,                        \* the statement the timer's callback is at
    numFramesAvailableToRead,       \* what it has asked the stream for
    isMicrophoneActive              \* the caller's own note: it has started the recorder

vars == <<recorder, mutex, paStream, available, captureMicrophoneTimer, armed,
          captureMicrophoneTimerExisted, pc, capture, numFramesAvailableToRead,
          isMicrophoneActive>>
stream == <<paStream, available>>
callback == <<capture, numFramesAvailableToRead>>
timer == <<captureMicrophoneTimer, armed, captureMicrophoneTimerExisted>>

Init == /\ recorder = TRUE
        /\ mutex = NOBODY
        /\ paStream = "stopped"
        /\ available = 0
        /\ captureMicrophoneTimer = 0
        /\ armed = FALSE
        /\ captureMicrophoneTimerExisted = FALSE
        /\ pc = [c \in Caller |-> "idle"]
        /\ capture = "idle"
        /\ numFramesAvailableToRead = 0
        /\ isMicrophoneActive = FALSE

Goto(c, from, to) == pc[c] = from /\ pc' = [pc EXCEPT ![c] = to]

Lock(who) == mutex = NOBODY /\ mutex' = who
Unlock == mutex' = NOBODY

\* AiaTimer( Destroy ) begins: no callback begins any more.  Of a timer that is not there it is
\* undefined in general; here it leaves none, as it would any other.
StopTicking ==
    /\ captureMicrophoneTimer' = 0
    /\ armed' = FALSE

\* AiaMutex( Lock ), and the locked section that follows.
LockFor(c, from, to) ==
    /\ Goto(c, from, to)
    /\ Lock(c)
    /\ UNCHANGED <<recorder, stream, timer, callback, isMicrophoneActive>>

---------------------------------------------------------------------------
(* AiaPortAudioMicrophoneRecorder_StartStreamingMicrophoneData. *)

\* The caller takes note whatever the call returns.  Bounded: one timer may be lost.
StartCreate(c) ==
    /\ recorder
    /\ Alternating => ~ isMicrophoneActive
    /\ captureMicrophoneTimer <= 1
    /\ isMicrophoneActive' = TRUE
    /\ \/ /\ Goto(c, "idle", "startLock")
          /\ captureMicrophoneTimer' = captureMicrophoneTimer + 1
          /\ armed' = FALSE
          /\ captureMicrophoneTimerExisted' = TRUE
       \/ pc[c] = "idle" /\ UNCHANGED <<pc, timer>>
    /\ UNCHANGED <<recorder, mutex, stream, callback>>

StartStream(c) ==
    /\ \/ paStream = "stopped" /\ paStream' = "active" /\ Goto(c, "startStream", "arm")
       \/ Goto(c, "startStream", "undo") /\ UNCHANGED paStream
    /\ Unlock
    /\ UNCHANGED <<recorder, available, timer, callback, isMicrophoneActive>>

Arm(c) ==
    /\ \/ Goto(c, "arm", "idle") /\ armed' = TRUE
       \/ Goto(c, "arm", "closeLock") /\ UNCHANGED armed
    /\ UNCHANGED <<recorder, mutex, stream, captureMicrophoneTimer,
                   captureMicrophoneTimerExisted, callback, isMicrophoneActive>>

CloseStream(c) ==
    /\ Goto(c, "closeStream", "undo")
    /\ paStream' = "closed"
    /\ Unlock
    /\ UNCHANGED <<recorder, available, timer, callback, isMicrophoneActive>>

\* A start that failed destroys its timer, which was never armed.
StartUndo(c) ==
    /\ Goto(c, "undo", "idle")
    /\ StopTicking
    /\ captureMicrophoneTimerExisted' = FALSE
    /\ UNCHANGED <<recorder, mutex, stream, callback, isMicrophoneActive>>

Start(c) ==
    \/ LockFor(c, "startLock", "startStream") \/ StartStream(c) \/ Arm(c)
    \/ LockFor(c, "closeLock", "closeStream") \/ CloseStream(c) \/ StartUndo(c)

---------------------------------------------------------------------------
(* AiaPortAudioMicrophoneRecorder_StopStreamingMicrophoneData. *)

\* Unlike a destroy it does not look at captureMicrophoneTimerExisted: after a start that
\* failed, which the caller does not notice, it destroys a timer that is not there any more.
CallStop(c) ==
    /\ recorder
    /\ Alternating => isMicrophoneActive
    /\ isMicrophoneActive' = FALSE
    /\ Goto(c, "idle", "stopTimer")
    /\ StopTicking
    /\ UNCHANGED <<recorder, mutex, stream, captureMicrophoneTimerExisted, callback>>

\* A wrong StopTimer: it does not wait for the callback.
StopTimerAtOnce(c) ==
    /\ Goto(c, "stopTimer", "stopLock")
    /\ captureMicrophoneTimerExisted' = FALSE
    /\ UNCHANGED <<recorder, mutex, stream, captureMicrophoneTimer, armed, callback,
                   isMicrophoneActive>>

\* AiaTimer( Destroy ) returns.
StopTimer(c) ==
    /\ Goto(c, "stopTimer", "stopLock")
    /\ capture = "idle"
    /\ captureMicrophoneTimerExisted' = FALSE
    /\ UNCHANGED <<recorder, mutex, stream, captureMicrophoneTimer, armed, callback,
                   isMicrophoneActive>>

StopStream(c) ==
    /\ Goto(c, "stopStream", "idle")
    /\ \/ UNCHANGED stream
       \/ paStream = "active" /\ paStream' = "stopped" /\ available' = 0
    /\ Unlock
    /\ UNCHANGED <<recorder, timer, callback, isMicrophoneActive>>

Stop(c) == StopTimer(c) \/ LockFor(c, "stopLock", "stopStream") \/ StopStream(c)

---------------------------------------------------------------------------
(* AiaPortAudioMicrophoneRecorder_Destroy, once no other call runs. *)

\* A wrong CallDestroy: the timer is never destroyed.
CallDestroyKeepsTimer(c) ==
    /\ recorder
    /\ \A d \in Caller : pc[d] = "idle"
    /\ Goto(c, "idle", "destroyTimer")
    /\ UNCHANGED <<recorder, mutex, stream, timer, callback, isMicrophoneActive>>

CallDestroy(c) ==
    /\ recorder
    /\ \A d \in Caller : pc[d] = "idle"
    /\ Goto(c, "idle", "destroyTimer")
    /\ IF captureMicrophoneTimerExisted THEN StopTicking
                                        ELSE UNCHANGED <<captureMicrophoneTimer, armed>>
    /\ UNCHANGED <<recorder, mutex, stream, captureMicrophoneTimerExisted, callback,
                   isMicrophoneActive>>

DestroyTimer(c) ==
    /\ Goto(c, "destroyTimer", "destroyLock")
    /\ captureMicrophoneTimerExisted => capture = "idle"
    /\ captureMicrophoneTimerExisted' = FALSE
    /\ UNCHANGED <<recorder, mutex, stream, captureMicrophoneTimer, armed, callback,
                   isMicrophoneActive>>

DestroyStream(c) ==
    /\ Goto(c, "destroyStream", "free")
    /\ paStream' = "closed"
    /\ Unlock
    /\ UNCHANGED <<recorder, available, timer, callback, isMicrophoneActive>>

Free(c) ==
    /\ Goto(c, "free", "idle")
    /\ recorder' = FALSE
    /\ UNCHANGED <<mutex, stream, timer, callback, isMicrophoneActive>>

Destroy(c) ==
    \/ DestroyTimer(c) \/ LockFor(c, "destroyLock", "destroyStream")
    \/ DestroyStream(c) \/ Free(c)

---------------------------------------------------------------------------
(* AiaPortAudioMicrophoneRecorder_MicrophoneCaptureTask, called by the timer. *)

BeginCapture ==
    /\ armed
    /\ capture = "idle"
    /\ capture' = "lock"
    /\ UNCHANGED <<recorder, mutex, stream, timer, pc, numFramesAvailableToRead,
                   isMicrophoneActive>>

CaptureLock ==
    /\ capture = "lock"
    /\ Lock("timer")
    /\ capture' = "count"
    /\ UNCHANGED <<recorder, stream, timer, pc, numFramesAvailableToRead, isMicrophoneActive>>

\* A wrong CaptureCount: an early return keeps the mutex.
CaptureCountKeepsMutex ==
    /\ capture = "count"
    /\ capture' = IF available = 0 \/ paStream # "active" THEN "idle" ELSE "read"
    /\ numFramesAvailableToRead' = available
    /\ UNCHANGED <<recorder, mutex, stream, timer, pc, isMicrophoneActive>>

\* Pa_GetStreamReadAvailable and Pa_IsStreamActive: the callback ends if there is nothing
\* to read, the stream is not active, or PortAudio says that it failed.
CaptureCount ==
    /\ capture = "count"
    /\ \/ /\ capture' = "idle"
          /\ Unlock
          /\ UNCHANGED numFramesAvailableToRead
       \/ /\ available > 0
          /\ paStream = "active"
          /\ capture' = "read"
          /\ numFramesAvailableToRead' = available
          /\ UNCHANGED mutex
    /\ UNCHANGED <<recorder, stream, timer, pc, isMicrophoneActive>>

\* A wrong CaptureRead: it takes a frame more than there is.
CaptureReadOneMore ==
    /\ capture = "read"
    /\ available >= numFramesAvailableToRead
    /\ available' = available - numFramesAvailableToRead - 1
    /\ capture' \in {"idle", "write"}
    /\ numFramesAvailableToRead' = IF capture' = "idle" THEN 0 ELSE numFramesAvailableToRead
    /\ Unlock
    /\ UNCHANGED <<recorder, paStream, timer, pc, isMicrophoneActive>>

\* Pa_ReadStream, which an error other than an overflow makes the last call.
CaptureRead ==
    /\ capture = "read"
    /\ available >= numFramesAvailableToRead
    /\ available' = available - numFramesAvailableToRead
    /\ capture' \in {"idle", "write"}
    /\ numFramesAvailableToRead' = IF capture' = "idle" THEN 0 ELSE numFramesAvailableToRead
    /\ Unlock
    /\ UNCHANGED <<recorder, paStream, timer, pc, isMicrophoneActive>>

\* AiaDataStreamWriter_Write, outside the mutex; a failure is logged.
CaptureWrite ==
    /\ capture = "write"
    /\ capture' = "idle"
    /\ numFramesAvailableToRead' = 0
    /\ UNCHANGED <<recorder, mutex, stream, timer, pc, isMicrophoneActive>>

Capture == CaptureLock \/ CaptureCount \/ CaptureRead \/ CaptureWrite

\* PortAudio records a frame.
Record ==
    /\ paStream = "active"
    /\ available < MaxFrames
    /\ available' = available + 1
    /\ UNCHANGED <<recorder, mutex, paStream, timer, pc, callback, isMicrophoneActive>>

---------------------------------------------------------------------------
InCall(c) == Start(c) \/ Stop(c) \/ Destroy(c)

Next ==
    \/ \E c \in Caller : StartCreate(c) \/ CallStop(c) \/ CallDestroy(c) \/ InCall(c)
    \/ BeginCapture \/ Capture \/ Record

Spec == Init /\ [][Next]_vars

\* A task gets on with its call, and a callback that began with its own.
FairSpec == Spec /\ WF_vars(Capture) /\ \A c \in Caller : WF_vars(InCall(c))

---------------------------------------------------------------------------
(* Properties. *)

TypeOK ==
    /\ recorder \in BOOLEAN
    /\ mutex \in Caller \cup {"timer", NOBODY}
    /\ paStream \in {"stopped", "active", "closed"}
    /\ captureMicrophoneTimer \in 0 .. 2
    /\ armed \in BOOLEAN
    /\ captureMicrophoneTimerExisted \in BOOLEAN
    /\ pc \in [Caller -> {"idle", "startLock", "startStream", "arm", "closeLock", "closeStream",
                          "undo", "stopTimer", "stopLock", "stopStream", "destroyTimer",
                          "destroyLock", "destroyStream", "free"}]
    /\ available \in 0 .. MaxFrames
    /\ capture \in {"idle", "lock", "count", "read", "write"}
    /\ numFramesAvailableToRead \in 0 .. MaxFrames
    /\ isMicrophoneActive \in BOOLEAN

\* The callback runs on a recorder that is allocated and an open stream, and writes nothing
\* any more once a stop or a destroy waited for it.
CaptureHasRecorder ==
    capture # "idle" =>
        /\ recorder
        /\ paStream # "closed"
        /\ \A c \in Caller : pc[c] \notin {"startLock", "startStream", "arm", "stopLock",
                                           "stopStream", "destroyLock", "destroyStream", "free"}

\* Pa_ReadStream, called with the mutex held, never waits for frames to come: the stream is
\* not stopped, and nobody else reads it, between the count and the read.
ReadsWhatIsThere == capture = "read" => numFramesAvailableToRead <= available

\* No timer is lost: a new one is created only when there is none, so that destroying it
\* leaves none behind that ticks on a freed recorder.  Between calls the flag tells whether
\* there is one, also after a start that failed halfway: AiaPortAudioMicrophoneRecorder_Destroy
\* destroys a timer exactly if there is one.  A stop is not held to that: see CallStop.
OneTimer ==
    /\ captureMicrophoneTimer <= 1
    /\ ~ recorder => captureMicrophoneTimer = 0
    /\ (\A c \in Caller : pc[c] = "idle") =>
           (captureMicrophoneTimerExisted <=> captureMicrophoneTimer = 1)

\* A call returns: nobody waits for the callback while the callback waits for the mutex.
CallsReturn == \A c \in Caller : pc[c] # "idle" ~> pc[c] = "idle"

\* "Methods of this object are thread-safe": what one of them arms is a timer it created.
ArmsItsTimer == \A c \in Caller : pc[c] = "arm" => captureMicrophoneTimer = 1
=============================================================================
