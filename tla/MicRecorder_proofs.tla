------------------------- MODULE MicRecorder_proofs -------------------------
(***************************************************************************)
(* Proofs about module MicRecorder.                                        *)
(*                                                                         *)
(* For any number of tasks, whatever they call: the mutex guards the       *)
(* stream (MutexInv), so that a count of frames is still right when they   *)
(* are read.                                                               *)
(*                                                                         *)
(* The timer is not guarded.  What is said of it holds for the one task    *)
(* that the demo uses the recorder from, which starts the capture when it  *)
(* has not, and stops it when it has; for two such tasks it does not: run  *)
(* microphone_threads.  What holds it up is that there is a timer only     *)
(* between the start of the capture and the beginning of its stop, and     *)
(* that the flag says so, which a destroy relies on: TimerInv, CaptureInv. *)
(***************************************************************************)
EXTENDS MicRecorder, TLAPS

\* Callers that hold the mutex, inside a section that waits for nothing.
LockedBy(c) == pc[c] \in {"startStream", "closeStream", "stopStream", "destroyStream"}

MutexInv ==
    /\ \A c \in Caller : LockedBy(c) <=> mutex = c
    /\ capture \in {"count", "read"} <=> mutex = "timer"

\* Inside a start, from the creation of the timer on.
Starting == {"startLock", "startStream", "arm", "closeLock", "closeStream", "undo"}

TimerInv ==
    /\ captureMicrophoneTimer \in 0 .. 1
    /\ captureMicrophoneTimer = 1 =>
        /\ recorder
        /\ isMicrophoneActive
        /\ captureMicrophoneTimerExisted
        /\ \A c \in Caller : pc[c] \in {"idle"} \cup Starting
    /\ \A c \in Caller : /\ pc[c] \in Starting => captureMicrophoneTimer = 1
                         /\ pc[c] # "idle" => recorder
                         /\ pc[c] = "arm" => paStream # "closed"
                         /\ pc[c] \notin {"stopTimer", "destroyTimer"} =>
                                (captureMicrophoneTimerExisted => captureMicrophoneTimer = 1)

CaptureInv ==
    /\ armed => /\ captureMicrophoneTimer = 1
                /\ paStream # "closed"
                /\ \A c \in Caller : pc[c] = "idle"
    /\ capture # "idle" =>
        /\ recorder
        /\ paStream # "closed"
        /\ \A c \in Caller :
            /\ pc[c] \in {"idle", "stopTimer", "destroyTimer"}
            /\ pc[c] = "idle" => armed
            /\ pc[c] = "destroyTimer" => captureMicrophoneTimerExisted

IInv == TypeOK /\ TimerInv /\ CaptureInv

\* One task, which alternates.
OneCaller(c) == Caller = {c} /\ Alternating

---------------------------------------------------------------------------
(* For any number of tasks. *)

LEMMA InitTypes == Init => TypeOK
<1> SUFFICES ASSUME Init PROVE TypeOK
  OBVIOUS
<1>1. captureMicrophoneTimer \in 0 .. 2
  BY DEF Init
<1>2. available \in 0 .. MaxFrames /\ numFramesAvailableToRead \in 0 .. MaxFrames
  BY CallerAssumption DEF Init
<1> QED
  BY <1>1, <1>2 DEF Init, TypeOK

LEMMA CallKeeps ==
    ASSUME TypeOK, MutexInv, ReadsWhatIsThere, NEW c \in Caller,
           StartCreate(c) \/ CallStop(c) \/ CallDestroy(c) \/ InCall(c)
    PROVE  (TypeOK /\ MutexInv /\ ReadsWhatIsThere)'
<1> USE CallerAssumption
    DEF TypeOK, MutexInv, LockedBy, ReadsWhatIsThere, stream, timer, callback, Goto
<1>1. CASE StartCreate(c)
  <2>1. captureMicrophoneTimer' \in 0 .. 2
    BY <1>1 DEF StartCreate
  <2> QED  BY <1>1, <2>1 DEF StartCreate
<1>2. CASE CallStop(c)
  <2>1. captureMicrophoneTimer' \in 0 .. 2
    BY <1>2 DEF CallStop, StopTicking
  <2> QED  BY <1>2, <2>1 DEF CallStop, StopTicking
<1>3. CASE CallDestroy(c)
  <2>1. captureMicrophoneTimer' \in 0 .. 2
    BY <1>3 DEF CallDestroy, StopTicking
  <2> QED  BY <1>3, <2>1 DEF CallDestroy, StopTicking
<1>4. CASE StartUndo(c)
  <2>1. captureMicrophoneTimer' \in 0 .. 2
    BY <1>4 DEF StartUndo, StopTicking
  <2> QED  BY <1>4, <2>1 DEF StartUndo, StopTicking
<1>5. ASSUME NEW from \in {"startLock", "closeLock", "stopLock", "destroyLock"},
             NEW to \in {"startStream", "closeStream", "stopStream", "destroyStream"},
             LockFor(c, from, to)
      PROVE  (TypeOK /\ MutexInv /\ ReadsWhatIsThere)'
  BY <1>5 DEF LockFor, Lock
<1>6. CASE StartStream(c) \/ CloseStream(c)
  BY <1>6 DEF StartStream, CloseStream, Unlock
<1>7. CASE StopStream(c) \/ DestroyStream(c)
  BY <1>7 DEF StopStream, DestroyStream, Unlock
<1>8. CASE Arm(c)
  <2>1. TypeOK'
    BY <1>8 DEF Arm
  <2>2. MutexInv' /\ ReadsWhatIsThere'
    BY <1>8 DEF Arm
  <2> QED  BY <2>1, <2>2
<1>9. CASE StopTimer(c) \/ DestroyTimer(c) \/ Free(c)
  <2>1. TypeOK'
    BY <1>9 DEF StopTimer, DestroyTimer, Free
  <2>2. MutexInv' /\ ReadsWhatIsThere'
    BY <1>9 DEF StopTimer, DestroyTimer, Free
  <2> QED  BY <2>1, <2>2
<1> QED
  BY <1>1, <1>2, <1>3, <1>4, <1>5, <1>6, <1>7, <1>8, <1>9 DEF InCall, Start, Stop, Destroy

LEMMA TimerKeeps ==
    ASSUME TypeOK, MutexInv, ReadsWhatIsThere, BeginCapture \/ Capture \/ Record
    PROVE  (TypeOK /\ MutexInv /\ ReadsWhatIsThere)'
<1> USE CallerAssumption
    DEF TypeOK, MutexInv, LockedBy, ReadsWhatIsThere, stream, timer, callback
<1>1. CASE BeginCapture \/ CaptureWrite
  BY <1>1 DEF BeginCapture, CaptureWrite
<1>2. CASE CaptureLock
  BY <1>2 DEF CaptureLock, Lock
<1>3. CASE CaptureCount
  BY <1>3 DEF CaptureCount, Unlock
<1>4. CASE CaptureRead
  BY <1>4 DEF CaptureRead, Unlock
<1>5. CASE Record
  BY <1>5 DEF Record
<1> QED
  BY <1>1, <1>2, <1>3, <1>4, <1>5 DEF Capture

LEMMA MutexInvariance == Spec => [](TypeOK /\ MutexInv /\ ReadsWhatIsThere)
<1>1. Init => MutexInv /\ ReadsWhatIsThere
  BY CallerAssumption DEF Init, MutexInv, LockedBy, ReadsWhatIsThere
<1>2. TypeOK /\ MutexInv /\ ReadsWhatIsThere /\ [Next]_vars
      => (TypeOK /\ MutexInv /\ ReadsWhatIsThere)'
  <2> SUFFICES ASSUME TypeOK, MutexInv, ReadsWhatIsThere, [Next]_vars
               PROVE  (TypeOK /\ MutexInv /\ ReadsWhatIsThere)'
    OBVIOUS
  <2>1. CASE UNCHANGED vars
    BY <2>1 DEF TypeOK, MutexInv, LockedBy, ReadsWhatIsThere, vars
  <2> QED
    BY <2>1, CallKeeps, TimerKeeps DEF Next
<1> QED
  BY <1>1, <1>2, InitTypes, PTL DEF Spec

---------------------------------------------------------------------------
(* For one task. *)

LEMMA InitInv == Init => IInv
<1> SUFFICES ASSUME Init PROVE IInv
  OBVIOUS
<1>1. TimerInv
  BY DEF Init, TimerInv, Starting
<1>2. CaptureInv
  BY DEF Init, CaptureInv
<1> QED
  BY <1>1, <1>2, InitTypes DEF IInv

LEMMA StartStep ==
    ASSUME NEW c, OneCaller(c), IInv, StartCreate(c) \/ Start(c)
    PROVE  IInv'
<1> USE CallerAssumption
    DEF OneCaller, IInv, TypeOK, TimerInv, CaptureInv, Starting, stream,
        timer, callback
<1>1. CASE StartCreate(c)
  <2>1. TimerInv'
    BY <1>1 DEF StartCreate, Goto
  <2>2. captureMicrophoneTimer' \in 0 .. 2
    BY <2>1
  <2>3. TypeOK'
    BY <1>1, <2>2 DEF StartCreate, Goto
  <2>4. CaptureInv'
    BY <1>1 DEF StartCreate, Goto
  <2> QED  BY <2>1, <2>3, <2>4
<1>2. CASE LockFor(c, "startLock", "startStream") \/ LockFor(c, "closeLock", "closeStream")
  BY <1>2 DEF LockFor, Lock, Goto
<1>3. CASE StartStream(c)
  BY <1>3 DEF StartStream, Unlock, Goto
<1>4. CASE Arm(c)
  <2>1. TypeOK'
    BY <1>4 DEF Arm, Goto
  <2>2. TimerInv'
    BY <1>4 DEF Arm, Goto
  <2>3. CaptureInv'
    BY <1>4 DEF Arm, Goto
  <2> QED  BY <2>1, <2>2, <2>3
<1>5. CASE CloseStream(c)
  BY <1>5 DEF CloseStream, Unlock, Goto
<1>6. CASE StartUndo(c)
  <2>1. TimerInv'
    BY <1>6 DEF StartUndo, StopTicking, Goto
  <2>2. captureMicrophoneTimer' \in 0 .. 2
    BY <2>1
  <2>3. TypeOK'
    BY <1>6, <2>2 DEF StartUndo, StopTicking, Goto
  <2>4. CaptureInv'
    BY <1>6 DEF StartUndo, StopTicking, Goto
  <2> QED  BY <2>1, <2>3, <2>4
<1> QED
  BY <1>1, <1>2, <1>3, <1>4, <1>5, <1>6 DEF Start

LEMMA StopStep ==
    ASSUME NEW c, OneCaller(c), IInv, CallStop(c) \/ Stop(c)
    PROVE  IInv'
<1> USE CallerAssumption
    DEF OneCaller, IInv, TypeOK, TimerInv, CaptureInv, Starting, stream,
        timer, callback
<1>1. CASE CallStop(c)
  <2>1. TimerInv'
    BY <1>1 DEF CallStop, StopTicking, Goto
  <2>2. captureMicrophoneTimer' \in 0 .. 2
    BY <2>1
  <2>3. TypeOK'
    BY <1>1, <2>2 DEF CallStop, StopTicking, Goto
  <2>4. CaptureInv'
    BY <1>1 DEF CallStop, StopTicking, Goto
  <2> QED  BY <2>1, <2>3, <2>4
<1>2. CASE StopTimer(c)
  BY <1>2 DEF StopTimer, Goto
<1>3. CASE LockFor(c, "stopLock", "stopStream")
  BY <1>3 DEF LockFor, Lock, Goto
<1>4. CASE StopStream(c)
  BY <1>4 DEF StopStream, Unlock, Goto
<1> QED
  BY <1>1, <1>2, <1>3, <1>4 DEF Stop

LEMMA DestroyStep ==
    ASSUME NEW c, OneCaller(c), IInv, CallDestroy(c) \/ Destroy(c)
    PROVE  IInv'
<1> USE CallerAssumption
    DEF OneCaller, IInv, TypeOK, TimerInv, CaptureInv, Starting, stream,
        timer, callback
<1>1. CASE CallDestroy(c)
  <2>1. TimerInv'
    BY <1>1 DEF CallDestroy, StopTicking, Goto
  <2>2. captureMicrophoneTimer' \in 0 .. 2
    BY <2>1
  <2>3. TypeOK'
    BY <1>1, <2>2 DEF CallDestroy, StopTicking, Goto
  <2>4. CaptureInv'
    BY <1>1 DEF CallDestroy, StopTicking, Goto
  <2> QED  BY <2>1, <2>3, <2>4
<1>2. CASE DestroyTimer(c)
  BY <1>2 DEF DestroyTimer, Goto
<1>3. CASE LockFor(c, "destroyLock", "destroyStream")
  BY <1>3 DEF LockFor, Lock, Goto
<1>4. CASE DestroyStream(c)
  BY <1>4 DEF DestroyStream, Unlock, Goto
<1>5. CASE Free(c)
  BY <1>5 DEF Free, Goto
<1> QED
  BY <1>1, <1>2, <1>3, <1>4, <1>5 DEF Destroy

LEMMA CaptureStep ==
    ASSUME NEW c, OneCaller(c), IInv, BeginCapture \/ Capture \/ Record
    PROVE  IInv'
<1> USE CallerAssumption
    DEF OneCaller, IInv, TypeOK, TimerInv, CaptureInv, Starting, stream,
        timer, callback
<1>1. CASE BeginCapture
  BY <1>1 DEF BeginCapture
<1>2. CASE CaptureLock
  BY <1>2 DEF CaptureLock, Lock
<1>3. CASE CaptureCount
  BY <1>3 DEF CaptureCount, Unlock
<1>4. CASE CaptureRead
  BY <1>4 DEF CaptureRead, Unlock
<1>5. CASE CaptureWrite
  BY <1>5 DEF CaptureWrite
<1>6. CASE Record
  BY <1>6 DEF Record
<1> QED
  BY <1>1, <1>2, <1>3, <1>4, <1>5, <1>6 DEF Capture

LEMMA Invariance ==
    ASSUME NEW CONSTANT c, OneCaller(c)
    PROVE  Spec => []IInv
<1>1. IInv /\ [Next]_vars => IInv'
  <2> SUFFICES ASSUME IInv, [Next]_vars PROVE IInv'
    OBVIOUS
  <2>1. CASE UNCHANGED vars
    BY <2>1 DEF IInv, TypeOK, TimerInv, CaptureInv, vars
  <2>2. CASE \E d \in Caller : StartCreate(d) \/ CallStop(d) \/ CallDestroy(d) \/ InCall(d)
    BY <2>2, StartStep, StopStep, DestroyStep DEF OneCaller, InCall
  <2>3. CASE BeginCapture \/ Capture \/ Record
    BY <2>3, CaptureStep
  <2> QED
    BY <2>1, <2>2, <2>3 DEF Next
<1> QED
  BY <1>1, InitInv, PTL DEF Spec

---------------------------------------------------------------------------
(* The theorems. *)

\* Every variable keeps its type, however many tasks call the recorder at a time.
THEOREM TypeCorrect == Spec => []TypeOK
  BY MutexInvariance, PTL

\* The mutex is held by exactly who is inside a locked section: no early return of the callback
\* and no failure path of a start keeps it, and nobody gives back what another one holds.  What
\* a holder does next waits for nothing, so that no call waits for the callback while the
\* callback waits for that call.
THEOREM MutexHeldInSections == Spec => []MutexInv
  BY MutexInvariance, PTL

\* Pa_ReadStream is never asked for more frames than there are, so that it does not wait with
\* the mutex held, whatever any number of tasks start, stop and destroy in between.
THEOREM ReadsWhatIsThereHolds == Spec => []ReadsWhatIsThere
  BY MutexInvariance, PTL

\* The callback of the timer, AiaPortAudioMicrophoneRecorder_MicrophoneCaptureTask, runs on a
\* recorder that is allocated and a stream that is open, and not after a stop or a destroy
\* waited for it, however often the capture is started and stopped and whichever call of
\* PortAudio or of the timer fails.
THEOREM CaptureHasRecorderHolds ==
    ASSUME NEW CONSTANT c, OneCaller(c)
    PROVE  Spec => []CaptureHasRecorder
<1>1. IInv => CaptureHasRecorder
  BY DEF IInv, CaptureInv, CaptureHasRecorder
<1> QED
  BY <1>1, Invariance, PTL

\* No timer is created over another one, none outlives the recorder, and between calls the flag
\* tells whether there is one.
THEOREM OneTimerHolds ==
    ASSUME NEW CONSTANT c, OneCaller(c)
    PROVE  Spec => []OneTimer
<1>1. IInv => OneTimer
  BY DEF IInv, TimerInv, OneTimer, TypeOK, OneCaller
<1> QED
  BY <1>1, Invariance, PTL

\* What AiaPortAudioMicrophoneRecorder_StartStreamingMicrophoneData arms is the timer it has
\* created.  The header promises it to any tasks; it takes a single one.
THEOREM ArmsItsTimerHolds ==
    ASSUME NEW CONSTANT c, OneCaller(c)
    PROVE  Spec => []ArmsItsTimer
<1>1. IInv => ArmsItsTimer
  BY DEF IInv, TimerInv, ArmsItsTimer, Starting
<1> QED
  BY <1>1, Invariance, PTL
=============================================================================
