---------------------------- MODULE OfflineAlert ----------------------------
(***************************************************************************)
(* What plays on the speaker, in demos/aia/aia_sample_app.c: the tone of   *)
(* an alert while the device is offline, and the client's own frames.  The *)
(* AIA client starts and stops the tone, a periodic timer pushes a frame   *)
(* of it at a time and removes the alert once its duration is over, and    *)
(* the speaker, after it has refused frames, says when it takes them       *)
(* again: three tasks that share the slot of the alert, a timer and two    *)
(* flags.                                                                  *)
(*                                                                         *)
(* The slots are blocks of the heap, so that one may be lost or used after *)
(* it is freed.  offlineAlertPlaybackStartTime is written and never read,  *)
(* and is left out.  Sound is enabled: without it no frame is pushed.      *)
(*                                                                         *)
(* External: the client, of which the code sees which alert it means to    *)
(* play, which ones it stores, and whether it pushes frames; the timer,    *)
(* whose Destroy, called by another task, returns once the callback does   *)
(* not run any more; the speaker, which refuses frames when it is full and *)
(* calls back when it no longer is.                                        *)
(***************************************************************************)
EXTENDS Integers, FiniteSets

CONSTANTS
    Alert,              \* AiaAlertSlot_t, as the client stores them
    UnknownType,        \* those whose type is not an alarm, a reminder or a timer
    ScheduledTime,      \* of each alert, in seconds
    Duration,           \* of each alert, in milliseconds
    MsPerSecond,        \* AIA_MS_PER_SECOND
    Range32,            \* how many values a uint32_t has
    Slot,               \* blocks of the heap
    NULL,
    MaxTime             \* bound of a run

ASSUME AlertAssumption ==
    /\ UnknownType \subseteq Alert
    /\ ScheduledTime \in [Alert -> Nat]
    /\ Duration \in [Alert -> Nat]
    /\ MsPerSecond \in Nat \ {0}
    /\ Range32 \in Nat \ {0}
    /\ NULL \notin Slot \cup Alert
    /\ MaxTime \in Nat

VARIABLES
    now,                        \* AiaClock_GetTimeSinceNTPEpoch
    offlineAlertPlaybackTimer,
    offlineAlertInProgress,     \* a slot or NULL
    slot,                       \* what each block holds, NULL if it is free
    isSpeakerReady,
    shouldDeleteOfflineAlert,
    tick,                       \* the statement the timer's callback is at
    offlineAlert,               \* the slot it works on
    starting,                   \* what onStartOfflineAlertTone is about to do to the timer
    aiaClient,                  \* whether there is one
    destroying,                 \* whether AiaSampleApp_Destroy has begun
    playing,                    \* the alert the client means to play, or NULL
    stored,                     \* the alerts it stores
    frames,                     \* its own frames: whether and why it has stopped to push them
    speaker,                    \* whether the speaker takes frames
    notifying,                  \* whether its callback is about to tell the client so
    overlap,                    \* history: what the starts since the last stop came across
    overwritten                 \* history: the blocks whose only pointer a start overwrote

alert == <<offlineAlertInProgress, slot>>
callback == <<tick, offlineAlert>>
client == <<starting, aiaClient, playing, stored>>
sound == <<frames, speaker, notifying>>
history == <<overlap, overwritten>>

vars == <<now, offlineAlertPlaybackTimer, alert, isSpeakerReady, shouldDeleteOfflineAlert,
          callback, client, destroying, sound, history>>

Init == /\ now = 0
        /\ offlineAlertPlaybackTimer = "created"
        /\ offlineAlertInProgress = NULL
        /\ slot = [s \in Slot |-> NULL]
        /\ isSpeakerReady = TRUE
        /\ shouldDeleteOfflineAlert = FALSE
        /\ tick = "idle"
        /\ offlineAlert = NULL
        /\ starting = "no"
        /\ aiaClient = TRUE
        /\ destroying = FALSE
        /\ playing = NULL
        /\ stored = Alert
        /\ frames = "flowing"
        /\ speaker = "ready"
        /\ notifying = FALSE
        /\ overlap = {}
        /\ overwritten = {}

\* if( offlineAlertInProgress ) { AiaFree( offlineAlertInProgress ); ... = NULL; }
FreeInProgress ==
    /\ offlineAlertInProgress' = NULL
    /\ slot' = [s \in Slot |-> IF s = offlineAlertInProgress THEN NULL ELSE slot[s]]

---------------------------------------------------------------------------
(* onStartOfflineAlertTone and onStopOfflineAlertTone, called by the client. *)

\* The client plays a stored alert that is due.  It does not see when the callback ends, and
\* may start an alert while another one plays: the header has such a start do nothing.
MayStart(a) ==
    /\ aiaClient
    /\ starting = "no"
    /\ a \in stored
    /\ ScheduledTime[a] <= now

\* A slot for it, or NULL if there is no memory; the next step arms the timer.  Nobody looks
\* at what the pointer was, or whether the callback runs.
OnStartOfflineAlertTone(a) ==
    /\ MayStart(a)
    /\ \/ \E s \in Slot :
            /\ slot[s] = NULL
            /\ slot' = [slot EXCEPT ![s] = a]
            /\ offlineAlertInProgress' = s
            /\ starting' = "arm"
            /\ playing' = a
       \/ /\ offlineAlertInProgress' = NULL
          /\ UNCHANGED <<slot, starting, playing>>
    /\ overlap' = overlap \cup (IF playing # NULL THEN {"alert"} ELSE {})
                          \cup (IF tick # "idle" THEN {"callback"} ELSE {})
    /\ overwritten' = overwritten \cup ({offlineAlertInProgress} \ {NULL})
    /\ UNCHANGED <<now, offlineAlertPlaybackTimer, isSpeakerReady,
                   shouldDeleteOfflineAlert, callback, aiaClient, stored, destroying,
                   sound>>

\* A wrong ArmSucceeds: the timer is not armed.
ArmForgotten ==
    /\ starting = "arm"
    /\ starting' = "no"
    /\ UNCHANGED <<now, offlineAlertPlaybackTimer, alert, isSpeakerReady,
                   shouldDeleteOfflineAlert, callback, aiaClient, playing, stored,
                   destroying, sound, history>>

ArmSucceeds ==
    /\ starting = "arm"
    /\ starting' = "no"
    /\ offlineAlertPlaybackTimer' = "armed"
    /\ UNCHANGED <<now, alert, isSpeakerReady, shouldDeleteOfflineAlert, callback,
                   aiaClient, playing, stored, destroying, sound, history>>

\* The alert goes first, ...
ArmFails ==
    /\ starting = "arm"
    /\ starting' = "undo"
    /\ FreeInProgress
    /\ UNCHANGED <<now, offlineAlertPlaybackTimer, isSpeakerReady,
                   shouldDeleteOfflineAlert, callback, aiaClient, playing, stored,
                   destroying, sound, history>>

\* ... then the timer, and the start returns false.
UndoStart ==
    /\ starting = "undo"
    /\ tick = "idle"
    /\ starting' = "no"
    /\ offlineAlertPlaybackTimer' = "destroyed"
    /\ playing' = NULL
    /\ UNCHANGED <<now, alert, isSpeakerReady, shouldDeleteOfflineAlert, callback,
                   aiaClient, stored, destroying, sound, history>>

\* A wrong OnStopOfflineAlertTone: the alert goes and the timer stays armed.
OnStopKeepsTimer ==
    /\ aiaClient
    /\ starting = "no"
    /\ tick = "idle"
    /\ FreeInProgress
    /\ shouldDeleteOfflineAlert' = FALSE
    /\ playing' = NULL
    /\ UNCHANGED <<now, offlineAlertPlaybackTimer, isSpeakerReady, callback, starting,
                   aiaClient, stored, destroying, sound, history>>

\* The timer is destroyed and created again, which may fail and leave the rest undone.
OnStopOfflineAlertTone ==
    /\ aiaClient
    /\ starting = "no"
    /\ tick = "idle"
    /\ \/ /\ offlineAlertPlaybackTimer' = "destroyed"
          /\ UNCHANGED <<offlineAlertInProgress, slot, shouldDeleteOfflineAlert, playing,
                         overlap>>
       \/ /\ offlineAlertPlaybackTimer' = "created"
          /\ FreeInProgress
          /\ shouldDeleteOfflineAlert' = FALSE
          /\ playing' = NULL
          /\ overlap' = {}
    /\ UNCHANGED <<now, isSpeakerReady, callback, starting, aiaClient, stored, destroying,
                   sound, overwritten>>

---------------------------------------------------------------------------
(* onPlayOfflineAlertTone, called by the timer. *)

\* A wrong BeginTick: it takes the alert for its slot.
BeginTickDereferences ==
    /\ offlineAlertPlaybackTimer = "armed"
    /\ tick = "idle"
    /\ isSpeakerReady
    /\ offlineAlert' = slot[offlineAlertInProgress]
    /\ tick' = "check"
    /\ UNCHANGED <<now, offlineAlertPlaybackTimer, alert, isSpeakerReady,
                   shouldDeleteOfflineAlert, client, destroying, sound, history>>

\* A callback that finds the speaker not ready returns and has done nothing.
BeginTick ==
    /\ offlineAlertPlaybackTimer = "armed"
    /\ tick = "idle"
    /\ isSpeakerReady
    /\ offlineAlert' = offlineAlertInProgress
    /\ tick' = "check"
    /\ UNCHANGED <<now, offlineAlertPlaybackTimer, alert, isSpeakerReady,
                   shouldDeleteOfflineAlert, client, destroying, sound, history>>

\* The alert in the slot the callback works on, if it still is one.
Readable == offlineAlert # NULL /\ slot[offlineAlert] # NULL
InSlot == slot[offlineAlert]

\* The seconds are a uint32_t, and so is their product with AIA_MS_PER_SECOND.
Exceeds(a, time) ==
    /\ time >= ScheduledTime[a]
    /\ (((time - ScheduledTime[a]) % Range32) * MsPerSecond) % Range32 > Duration[a]

CheckDuration ==
    /\ tick = "check"
    /\ Readable
    /\ shouldDeleteOfflineAlert' = (shouldDeleteOfflineAlert \/ Exceeds(InSlot, now))
    /\ tick' = "test"
    /\ UNCHANGED <<now, offlineAlertPlaybackTimer, alert, isSpeakerReady, offlineAlert,
                   client, destroying, sound, history>>

\* The flag, read again: AiaSampleApp_Destroy may have cleared it.
TestFlag ==
    /\ tick = "test"
    /\ tick' = IF shouldDeleteOfflineAlert THEN "delete" ELSE "push"
    /\ UNCHANGED <<now, offlineAlertPlaybackTimer, alert, isSpeakerReady,
                   shouldDeleteOfflineAlert, offlineAlert, client, destroying, sound,
                   history>>

\* AiaClient_DeleteAlert, whose failure is logged.  The client need not play on.
DeleteAlert ==
    /\ tick = "delete"
    /\ Readable
    /\ \/ UNCHANGED stored
       \/ aiaClient /\ stored' = stored \ {InSlot}
    /\ playing' = IF playing = InSlot THEN NULL ELSE playing
    /\ tick' = "disarm"
    /\ UNCHANGED <<now, offlineAlertPlaybackTimer, alert, isSpeakerReady,
                   shouldDeleteOfflineAlert, offlineAlert, starting, aiaClient,
                   destroying, sound, history>>

\* Destroy and Create, whose failure is logged.
Disarm ==
    /\ tick = "disarm"
    /\ offlineAlertPlaybackTimer' \in {"created", "destroyed"}
    /\ tick' = "free"
    /\ UNCHANGED <<now, alert, isSpeakerReady, shouldDeleteOfflineAlert, offlineAlert,
                   client, destroying, sound, history>>

\* A wrong FreeDeleted: the flag stays set for the next alert.
FreeDeletedKeepsFlag ==
    /\ tick = "free"
    /\ FreeInProgress
    /\ tick' = "idle"
    /\ offlineAlert' = NULL
    /\ UNCHANGED <<now, offlineAlertPlaybackTimer, isSpeakerReady,
                   shouldDeleteOfflineAlert, client, destroying, sound, history>>

\* A wrong FreeDeleted: the alert stays in progress.
FreeDeletedKeepsAlert ==
    /\ tick = "free"
    /\ shouldDeleteOfflineAlert' = FALSE
    /\ tick' = "idle"
    /\ offlineAlert' = NULL
    /\ UNCHANGED <<now, offlineAlertPlaybackTimer, alert, isSpeakerReady, client,
                   destroying, sound, history>>

FreeDeleted ==
    /\ tick = "free"
    /\ FreeInProgress
    /\ shouldDeleteOfflineAlert' = FALSE
    /\ tick' = "idle"
    /\ offlineAlert' = NULL
    /\ UNCHANGED <<now, offlineAlertPlaybackTimer, isSpeakerReady, client, destroying,
                   sound, history>>

\* The frames of a period, one call of AiaPortAudioSpeaker_PlaySpeakerData each, of which
\* the first or a later one is refused by a full speaker.
PushFrames ==
    /\ tick = "push"
    /\ Readable
    /\ InSlot \notin UnknownType
    /\ \/ /\ speaker = "ready"
          /\ tick' = "idle"
          /\ offlineAlert' = NULL
          /\ UNCHANGED speaker
       \/ /\ speaker' = "full"
          /\ tick' = "clear"
          /\ UNCHANGED offlineAlert
    /\ UNCHANGED <<now, offlineAlertPlaybackTimer, alert, isSpeakerReady,
                   shouldDeleteOfflineAlert, client, destroying, frames, notifying,
                   history>>

\* The speaker may have called back since it refused the frame.
ClearReady ==
    /\ tick = "clear"
    /\ isSpeakerReady' = FALSE
    /\ tick' = "idle"
    /\ offlineAlert' = NULL
    /\ UNCHANGED <<now, offlineAlertPlaybackTimer, alert, shouldDeleteOfflineAlert, client,
                   destroying, sound, history>>

\* A wrong DropUnknown: the pointer is cleared before the block is freed.
DropUnknownLeaks ==
    /\ tick = "push"
    /\ Readable
    /\ InSlot \in UnknownType
    /\ offlineAlertInProgress' = NULL
    /\ tick' = "idle"
    /\ offlineAlert' = NULL
    /\ UNCHANGED <<now, offlineAlertPlaybackTimer, slot, isSpeakerReady,
                   shouldDeleteOfflineAlert, client, destroying, sound, history>>

\* An unknown type: the alert goes, the timer stays armed.
DropUnknown ==
    /\ tick = "push"
    /\ Readable
    /\ InSlot \in UnknownType
    /\ FreeInProgress
    /\ tick' = "idle"
    /\ offlineAlert' = NULL
    /\ UNCHANGED <<now, offlineAlertPlaybackTimer, isSpeakerReady,
                   shouldDeleteOfflineAlert, client, destroying, sound, history>>

---------------------------------------------------------------------------
(* The speaker, and the client's own frames. *)

\* The speaker takes frames again and calls onPortAudioSpeakerReadyAgain, ...
OnPortAudioSpeakerReadyAgain ==
    /\ speaker = "full"
    /\ ~ notifying
    /\ speaker' = "ready"
    /\ isSpeakerReady' = TRUE
    /\ notifying' = TRUE
    /\ UNCHANGED <<now, offlineAlertPlaybackTimer, alert, shouldDeleteOfflineAlert, callback,
                   client, destroying, frames, history>>

\* A wrong TellClient: it only does so while no alert is in progress.
TellClientUnlessAlert ==
    /\ notifying
    /\ notifying' = FALSE
    /\ frames' = IF aiaClient /\ offlineAlertInProgress = NULL THEN "flowing" ELSE frames
    /\ UNCHANGED <<now, offlineAlertPlaybackTimer, alert, isSpeakerReady,
                   shouldDeleteOfflineAlert, callback, client, destroying, speaker,
                   history>>

\* ... which goes on to AiaClient_OnSpeakerReady.
TellClient ==
    /\ notifying
    /\ notifying' = FALSE
    /\ frames' = IF aiaClient THEN "flowing" ELSE frames
    /\ UNCHANGED <<now, offlineAlertPlaybackTimer, alert, isSpeakerReady,
                   shouldDeleteOfflineAlert, callback, client, destroying, speaker,
                   history>>

\* A frame that cannot be decoded is answered like one that the speaker refuses.
OnSpeakerFramePushedForPlayback ==
    /\ aiaClient
    /\ frames = "flowing"
    /\ \/ frames' = "undecodable" /\ UNCHANGED speaker
       \/ speaker = "ready" /\ UNCHANGED <<frames, speaker>>
       \/ frames' = "refused" /\ speaker' = "full"
    /\ UNCHANGED <<now, offlineAlertPlaybackTimer, alert, isSpeakerReady,
                   shouldDeleteOfflineAlert, callback, client, destroying, notifying,
                   history>>

\* The end of AiaSampleApp_Run: the timer goes on without a client.
DestroyClient ==
    /\ aiaClient
    /\ starting = "no"
    /\ aiaClient' = FALSE
    /\ UNCHANGED <<now, offlineAlertPlaybackTimer, alert, isSpeakerReady,
                   shouldDeleteOfflineAlert, callback, starting, playing, stored,
                   destroying, sound, history>>

\* AiaSampleApp_Destroy clears the flags first, while the callback may run, ...
DestroySampleApp ==
    /\ ~ aiaClient
    /\ ~ destroying
    /\ destroying' = TRUE
    /\ isSpeakerReady' = FALSE
    /\ shouldDeleteOfflineAlert' = FALSE
    /\ UNCHANGED <<now, offlineAlertPlaybackTimer, alert, callback, client, sound, history>>

\* ... then it destroys the timer and frees the alert.
DestroyTimer ==
    /\ destroying
    /\ tick = "idle"
    /\ offlineAlertPlaybackTimer # "gone"
    /\ offlineAlertPlaybackTimer' = "gone"
    /\ FreeInProgress
    /\ UNCHANGED <<now, isSpeakerReady, shouldDeleteOfflineAlert, callback, client,
                   destroying, sound, history>>

\* The speaker is destroyed after the timer, when its callback does not run any more.
DestroySpeaker ==
    /\ offlineAlertPlaybackTimer = "gone"
    /\ ~ notifying
    /\ speaker # "gone"
    /\ speaker' = "gone"
    /\ UNCHANGED <<now, offlineAlertPlaybackTimer, alert, isSpeakerReady,
                   shouldDeleteOfflineAlert, callback, client, destroying, frames, notifying,
                   history>>

PassTime ==
    /\ now < MaxTime
    /\ now' = now + 1
    /\ UNCHANGED <<offlineAlertPlaybackTimer, alert, isSpeakerReady,
                   shouldDeleteOfflineAlert, callback, client, destroying, sound, history>>

---------------------------------------------------------------------------
Client ==
    \/ \E a \in Alert : OnStartOfflineAlertTone(a)
    \/ ArmSucceeds \/ ArmFails \/ UndoStart \/ OnStopOfflineAlertTone

TimerTask ==
    \/ BeginTick \/ CheckDuration \/ TestFlag \/ DeleteAlert \/ Disarm \/ FreeDeleted
    \/ PushFrames \/ ClearReady \/ DropUnknown

Speaker == OnPortAudioSpeakerReadyAgain \/ TellClient

Destroy == DestroyClient \/ DestroySampleApp \/ DestroyTimer \/ DestroySpeaker

Next == \/ Client \/ OnSpeakerFramePushedForPlayback
        \/ TimerTask \/ Speaker \/ Destroy \/ PassTime

Spec == Init /\ [][Next]_vars

\* The timer goes off as long as it is armed, and the speaker, once it has played what it
\* has, takes frames again.
FairSpec == Spec /\ WF_vars(TimerTask) /\ WF_vars(Speaker)

---------------------------------------------------------------------------
(* Properties. *)

TypeOK ==
    /\ now \in Nat
    /\ offlineAlertPlaybackTimer \in {"created", "armed", "destroyed", "gone"}
    /\ offlineAlertInProgress \in Slot \cup {NULL}
    /\ slot \in [Slot -> Alert \cup {NULL}]
    /\ isSpeakerReady \in BOOLEAN
    /\ shouldDeleteOfflineAlert \in BOOLEAN
    /\ tick \in {"idle", "check", "test", "delete", "disarm", "free", "push", "clear"}
    /\ offlineAlert \in Slot \cup {NULL}
    /\ starting \in {"no", "arm", "undo"}
    /\ aiaClient \in BOOLEAN
    /\ destroying \in BOOLEAN
    /\ playing \in Alert \cup {NULL}
    /\ stored \subseteq Alert
    /\ frames \in {"flowing", "refused", "undecodable"}
    /\ speaker \in {"ready", "full", "gone"}
    /\ notifying \in BOOLEAN
    /\ overlap \subseteq {"alert", "callback"}
    /\ overwritten \subseteq Slot

\* Whatever becomes of the timer, the client and the speaker, the callback of the timer has
\* an alert, not freed, whenever it looks at one: unless a start came across an alert that
\* played or a callback that ran, and no stop has made up for it, or the callback has dropped
\* an alert of an unknown type before, which leaves the timer armed and the pointer NULL.
Looks == tick \in {"check", "test", "delete", "push"}
LooksAtAlert == Looks => Readable \/ overlap # {} \/ playing \in UnknownType

\* The callback has an alert to play, whenever it looks at one, if the client starts none
\* while another plays.  A start that comes across the callback that deletes the one before
\* has its block freed by it, arms the timer, and leaves the next callback nothing.
TickHasAlert == Looks => Readable \/ "alert" \in overlap \/ playing \in UnknownType

\* Whatever the client starts and stops, and whatever fails: the blocks that are not in
\* progress and not free are those whose pointer a start has overwritten.  A start while an
\* alert plays, which the header has do nothing, loses one; nothing else does.
LosesOverwrittenOnly ==
    {s \in Slot : slot[s] # NULL /\ s # offlineAlertInProgress} = overwritten

\* The moment an alert's duration is over, by unbounded arithmetic.
Over(a) == now * MsPerSecond > ScheduledTime[a] * MsPerSecond + Duration[a]

InProgress(a) == offlineAlertInProgress # NULL /\ slot[offlineAlertInProgress] = a

\* Only an alert whose duration is over is deleted, whatever the client starts and stops while
\* the callback looks at it, and never the alert after it.
DeletesExpiredOnly == [][\A a \in Alert : a \in stored /\ a \notin stored' => Over(a)]_vars

\* An alert whose start was reported to the client as a success is the one in progress, with
\* the timer armed, until the client stops it or its duration is over: unless its type is
\* unknown, or a start came across an alert that played or a callback that ran.
StartedAlertPlays ==
    /\ playing \notin UnknownType \cup {NULL}
    /\ starting = "no"
    /\ offlineAlertPlaybackTimer \notin {"destroyed", "gone"}
    /\ overlap = {}
    => offlineAlertPlaybackTimer = "armed" /\ InProgress(playing)

\* The flag says whether the speaker is ready to accept new frames: it is not left cleared
\* when the speaker takes them.  A speaker that calls back between the frame it refuses and
\* the clearing of the flag is not seen again.
FlagFollowsSpeaker == ~ isSpeakerReady /\ ~ destroying => speaker = "full"

\* An alert whose duration is over is not in progress for ever, even if the speaker is
\* full at the time: unless there is no timer any more, the flag was left cleared, the
\* milliseconds have wrapped, or the callback reads through NULL (see LooksAtAlert).
Overdue == \E a \in Alert : InProgress(a) /\ Over(a)
Stuck == ~ isSpeakerReady /\ speaker # "full"
Wrapped == \E a \in Alert : InProgress(a) /\ Over(a) /\ ~ Exceeds(a, now)
ReadsNull == Looks /\ ~ Readable
ExpiredAlertEnds ==
    Overdue /\ offlineAlertPlaybackTimer = "armed"
        ~> \/ ~ Overdue
           \/ offlineAlertPlaybackTimer = "destroyed"
           \/ Stuck \/ Wrapped \/ ReadsNull

\* The client, whose frame the speaker has refused, does not wait for ever for the word that
\* it may push the next one, whatever becomes of the alerts and of the flag.
RefusedFramesResume == frames = "refused" ~> frames = "flowing" \/ ~ aiaClient
=============================================================================
