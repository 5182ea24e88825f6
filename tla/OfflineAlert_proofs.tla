------------------------- MODULE OfflineAlert_proofs -------------------------
(***************************************************************************)
(* Proofs about module OfflineAlert, for any number of alerts and slots,   *)
(* any times and durations and any width of the milliseconds.              *)
(*                                                                         *)
(* The argument, for any client.  Of the blocks, those whose pointer a     *)
(* start overwrote stay behind and no other (SlotInv).  A slot keeps its   *)
(* alert while the callback looks at it, and the flag is set and cleared   *)
(* within one callback (DeleteInv).  As long as no start comes across an   *)
(* alert that plays or a callback that runs, nobody else touches the slot  *)
(* while the callback runs (TickInv), the slot in progress holds the alert *)
(* the client means to play until the callback has deleted it (PlayInv),   *)
(* and a start finds neither an armed timer nor a callback (StartInv).     *)
(***************************************************************************)
EXTENDS OfflineAlert, TLAPS

SlotInv ==
    /\ LosesOverwrittenOnly
    /\ offlineAlertInProgress # NULL =>
           slot[offlineAlertInProgress] # NULL /\ offlineAlertInProgress \notin overwritten

TickInv ==
    /\ tick # "idle" => offlineAlert = offlineAlertInProgress
    /\ tick \notin {"idle", "check"} => offlineAlertInProgress # NULL
    /\ tick \in {"disarm", "free"} => playing = NULL
    /\ tick = "free" => offlineAlertPlaybackTimer # "armed"

PlayInv ==
    /\ offlineAlertInProgress # NULL /\ tick \notin {"disarm", "free"} =>
           slot[offlineAlertInProgress] = playing
    /\ offlineAlertPlaybackTimer = "armed" \/ tick = "check" =>
           offlineAlertInProgress # NULL \/ playing \in UnknownType
    /\ offlineAlertPlaybackTimer = "armed" => playing # NULL \/ tick = "disarm"
    /\ offlineAlertPlaybackTimer = "created" => playing = NULL \/ starting # "no"

StartInv ==
    /\ starting # "no" => tick = "idle" /\ offlineAlertPlaybackTimer # "armed"
    /\ starting = "arm" => offlineAlertInProgress # NULL
    /\ starting = "undo" => offlineAlertInProgress = NULL

\* What holds as long as no start came across an alert that played or a callback that ran.
ApartInv == TickInv /\ PlayInv /\ StartInv

ClientInv ==
    /\ starting # "no" => aiaClient
    /\ destroying => ~ aiaClient

AlertInv == SlotInv /\ ClientInv /\ (overlap = {} => ApartInv)

\* Inside the callback, where it looks at its slot before it may delete the alert.
Looking == {"check", "test", "delete"}

DeleteInv ==
    /\ shouldDeleteOfflineAlert => tick \in {"test", "delete", "disarm", "free"}
    /\ (tick = "test" /\ shouldDeleteOfflineAlert) \/ tick = "delete" =>
           (Readable => Over(InSlot))
    /\ tick \in Looking => offlineAlert = NULL \/ Readable \/ starting = "undo"
    /\ offlineAlertInProgress # NULL => slot[offlineAlertInProgress] # NULL

---------------------------------------------------------------------------
(* Types. *)

LEMMA PushFramesTypes ==
    ASSUME TypeOK, PushFrames
    PROVE  TypeOK'
<1>1. /\ isSpeakerReady' \in BOOLEAN /\ shouldDeleteOfflineAlert' \in BOOLEAN
      /\ aiaClient' \in BOOLEAN /\ destroying' \in BOOLEAN
      /\ notifying' \in BOOLEAN
  BY Zenon DEF TypeOK, PushFrames, alert, callback, client, sound, history
<1>2. /\ now' \in Nat
      /\ offlineAlertPlaybackTimer' \in {"created", "armed", "destroyed", "gone"}
      /\ offlineAlertInProgress' \in Slot \cup {NULL}
      /\ slot' \in [Slot -> Alert \cup {NULL}]
      /\ tick' \in {"idle", "check", "test", "delete", "disarm", "free", "push", "clear"}
      /\ offlineAlert' \in Slot \cup {NULL}
      /\ playing' \in Alert \cup {NULL}
      /\ stored' \subseteq Alert
  BY DEF TypeOK, PushFrames, alert, callback, client, sound, history
<1>3. /\ frames' \in {"flowing", "refused", "undecodable"}
      /\ speaker' \in {"ready", "full", "gone"}
      /\ starting' \in {"no", "arm", "undo"}
      /\ overlap' \subseteq {"alert", "callback"}
      /\ overwritten' \subseteq Slot
  BY DEF TypeOK, PushFrames, alert, callback, client, sound, history
<1> QED
  BY <1>1, <1>2, <1>3 DEF TypeOK

LEMMA TellClientTypes ==
    ASSUME TypeOK, TellClient
    PROVE  TypeOK'
<1>1. /\ isSpeakerReady' \in BOOLEAN /\ shouldDeleteOfflineAlert' \in BOOLEAN
      /\ aiaClient' \in BOOLEAN /\ destroying' \in BOOLEAN
      /\ notifying' \in BOOLEAN
  BY Zenon DEF TypeOK, TellClient, alert, callback, client, sound, history
<1>2. /\ now' \in Nat
      /\ offlineAlertPlaybackTimer' \in {"created", "armed", "destroyed", "gone"}
      /\ offlineAlertInProgress' \in Slot \cup {NULL}
      /\ slot' \in [Slot -> Alert \cup {NULL}]
      /\ tick' \in {"idle", "check", "test", "delete", "disarm", "free", "push", "clear"}
      /\ offlineAlert' \in Slot \cup {NULL}
      /\ playing' \in Alert \cup {NULL}
      /\ stored' \subseteq Alert
  BY DEF TypeOK, TellClient, alert, callback, client, sound, history
<1>3. /\ frames' \in {"flowing", "refused", "undecodable"}
      /\ speaker' \in {"ready", "full", "gone"}
      /\ starting' \in {"no", "arm", "undo"}
      /\ overlap' \subseteq {"alert", "callback"}
      /\ overwritten' \subseteq Slot
  BY DEF TypeOK, TellClient, alert, callback, client, sound, history
<1> QED
  BY <1>1, <1>2, <1>3 DEF TypeOK

LEMMA DestroyClientTypes ==
    ASSUME TypeOK, DestroyClient
    PROVE  TypeOK'
<1>1. /\ isSpeakerReady' \in BOOLEAN /\ shouldDeleteOfflineAlert' \in BOOLEAN
      /\ aiaClient' \in BOOLEAN /\ destroying' \in BOOLEAN
      /\ notifying' \in BOOLEAN
  BY Zenon DEF TypeOK, DestroyClient, alert, callback, client, sound, history
<1>2. /\ now' \in Nat
      /\ offlineAlertPlaybackTimer' \in {"created", "armed", "destroyed", "gone"}
      /\ offlineAlertInProgress' \in Slot \cup {NULL}
      /\ slot' \in [Slot -> Alert \cup {NULL}]
      /\ tick' \in {"idle", "check", "test", "delete", "disarm", "free", "push", "clear"}
      /\ offlineAlert' \in Slot \cup {NULL}
      /\ playing' \in Alert \cup {NULL}
      /\ stored' \subseteq Alert
  BY DEF TypeOK, DestroyClient, alert, callback, client, sound, history
<1>3. /\ frames' \in {"flowing", "refused", "undecodable"}
      /\ speaker' \in {"ready", "full", "gone"}
      /\ starting' \in {"no", "arm", "undo"}
      /\ overlap' \subseteq {"alert", "callback"}
      /\ overwritten' \subseteq Slot
  BY DEF TypeOK, DestroyClient, alert, callback, client, sound, history
<1> QED
  BY <1>1, <1>2, <1>3 DEF TypeOK

LEMMA DestroySampleAppTypes ==
    ASSUME TypeOK, DestroySampleApp
    PROVE  TypeOK'
<1>1. /\ isSpeakerReady' \in BOOLEAN /\ shouldDeleteOfflineAlert' \in BOOLEAN
      /\ aiaClient' \in BOOLEAN /\ destroying' \in BOOLEAN
      /\ notifying' \in BOOLEAN
  BY Zenon DEF TypeOK, DestroySampleApp, alert, callback, client, sound, history
<1>2. /\ now' \in Nat
      /\ offlineAlertPlaybackTimer' \in {"created", "armed", "destroyed", "gone"}
      /\ offlineAlertInProgress' \in Slot \cup {NULL}
      /\ slot' \in [Slot -> Alert \cup {NULL}]
      /\ tick' \in {"idle", "check", "test", "delete", "disarm", "free", "push", "clear"}
      /\ offlineAlert' \in Slot \cup {NULL}
      /\ playing' \in Alert \cup {NULL}
      /\ stored' \subseteq Alert
  BY DEF TypeOK, DestroySampleApp, alert, callback, client, sound, history
<1>3. /\ frames' \in {"flowing", "refused", "undecodable"}
      /\ speaker' \in {"ready", "full", "gone"}
      /\ starting' \in {"no", "arm", "undo"}
      /\ overlap' \subseteq {"alert", "callback"}
      /\ overwritten' \subseteq Slot
  BY DEF TypeOK, DestroySampleApp, alert, callback, client, sound, history
<1> QED
  BY <1>1, <1>2, <1>3 DEF TypeOK

LEMMA StartTypes ==
    ASSUME TypeOK, NEW a \in Alert, OnStartOfflineAlertTone(a)
    PROVE  TypeOK'
<1> USE AlertAssumption DEF TypeOK, alert, callback, client, sound, history
<1>1. /\ slot' \in [Slot -> Alert \cup {NULL}]
      /\ offlineAlertInProgress' \in Slot \cup {NULL}
      /\ starting' \in {"no", "arm", "undo"}
      /\ playing' \in Alert \cup {NULL}
  BY DEF OnStartOfflineAlertTone
<1>2. overlap' \subseteq {"alert", "callback"} /\ overwritten' \subseteq Slot
  BY DEF OnStartOfflineAlertTone
<1>3. /\ isSpeakerReady' \in BOOLEAN /\ shouldDeleteOfflineAlert' \in BOOLEAN
      /\ aiaClient' \in BOOLEAN /\ destroying' \in BOOLEAN /\ notifying' \in BOOLEAN
  BY DEF OnStartOfflineAlertTone
<1> QED
  BY <1>1, <1>2, <1>3 DEF OnStartOfflineAlertTone

LEMMA ArmSucceedsTypes ==
    ASSUME TypeOK, ArmSucceeds
    PROVE  TypeOK'
<1>1. /\ isSpeakerReady' \in BOOLEAN /\ shouldDeleteOfflineAlert' \in BOOLEAN
      /\ aiaClient' \in BOOLEAN /\ destroying' \in BOOLEAN
      /\ notifying' \in BOOLEAN
  BY DEF TypeOK, ArmSucceeds, alert, callback, client, sound, history
<1>2. /\ now' \in Nat
      /\ offlineAlertPlaybackTimer' \in {"created", "armed", "destroyed", "gone"}
      /\ offlineAlertInProgress' \in Slot \cup {NULL}
      /\ slot' \in [Slot -> Alert \cup {NULL}]
      /\ tick' \in {"idle", "check", "test", "delete", "disarm", "free", "push", "clear"}
  BY DEF TypeOK, ArmSucceeds, alert, callback, client, sound, history
<1>3. /\ offlineAlert' \in Slot \cup {NULL}
      /\ playing' \in Alert \cup {NULL}
      /\ stored' \subseteq Alert
      /\ frames' \in {"flowing", "refused", "undecodable"}
      /\ speaker' \in {"ready", "full", "gone"}
      /\ starting' \in {"no", "arm", "undo"}
      /\ overlap' \subseteq {"alert", "callback"}
      /\ overwritten' \subseteq Slot
  BY DEF TypeOK, ArmSucceeds, alert, callback, client, sound, history
<1> QED
  BY <1>1, <1>2, <1>3 DEF TypeOK

LEMMA ArmFailsTypes ==
    ASSUME TypeOK, ArmFails
    PROVE  TypeOK'
<1>1. /\ isSpeakerReady' \in BOOLEAN /\ shouldDeleteOfflineAlert' \in BOOLEAN
      /\ aiaClient' \in BOOLEAN /\ destroying' \in BOOLEAN
      /\ notifying' \in BOOLEAN
  BY DEF TypeOK, ArmFails, FreeInProgress, alert, callback, client, sound, history
<1>2. /\ now' \in Nat
      /\ offlineAlertPlaybackTimer' \in {"created", "armed", "destroyed", "gone"}
      /\ offlineAlertInProgress' \in Slot \cup {NULL}
      /\ slot' \in [Slot -> Alert \cup {NULL}]
      /\ tick' \in {"idle", "check", "test", "delete", "disarm", "free", "push", "clear"}
  BY DEF TypeOK, ArmFails, FreeInProgress, alert, callback, client, sound, history
<1>3. /\ offlineAlert' \in Slot \cup {NULL}
      /\ playing' \in Alert \cup {NULL}
      /\ stored' \subseteq Alert
      /\ frames' \in {"flowing", "refused", "undecodable"}
      /\ speaker' \in {"ready", "full", "gone"}
      /\ starting' \in {"no", "arm", "undo"}
      /\ overlap' \subseteq {"alert", "callback"}
      /\ overwritten' \subseteq Slot
  BY DEF TypeOK, ArmFails, FreeInProgress, alert, callback, client, sound, history
<1> QED
  BY <1>1, <1>2, <1>3 DEF TypeOK

LEMMA UndoStartTypes ==
    ASSUME TypeOK, UndoStart
    PROVE  TypeOK'
<1>1. /\ isSpeakerReady' \in BOOLEAN /\ shouldDeleteOfflineAlert' \in BOOLEAN
      /\ aiaClient' \in BOOLEAN /\ destroying' \in BOOLEAN
      /\ notifying' \in BOOLEAN
  BY DEF TypeOK, UndoStart, alert, callback, client, sound, history
<1>2. /\ now' \in Nat
      /\ offlineAlertPlaybackTimer' \in {"created", "armed", "destroyed", "gone"}
      /\ offlineAlertInProgress' \in Slot \cup {NULL}
      /\ slot' \in [Slot -> Alert \cup {NULL}]
      /\ tick' \in {"idle", "check", "test", "delete", "disarm", "free", "push", "clear"}
  BY DEF TypeOK, UndoStart, alert, callback, client, sound, history
<1>3. /\ offlineAlert' \in Slot \cup {NULL}
      /\ playing' \in Alert \cup {NULL}
      /\ stored' \subseteq Alert
      /\ frames' \in {"flowing", "refused", "undecodable"}
      /\ speaker' \in {"ready", "full", "gone"}
      /\ starting' \in {"no", "arm", "undo"}
      /\ overlap' \subseteq {"alert", "callback"}
      /\ overwritten' \subseteq Slot
  BY DEF TypeOK, UndoStart, alert, callback, client, sound, history
<1> QED
  BY <1>1, <1>2, <1>3 DEF TypeOK

LEMMA TypesKept ==
    ASSUME TypeOK, [Next]_vars
    PROVE  TypeOK'
<1> USE AlertAssumption DEF TypeOK, alert, callback, client, sound, history
<1>1. CASE Client
  <2>1. ASSUME NEW a \in Alert, OnStartOfflineAlertTone(a) PROVE TypeOK'
    BY <2>1, StartTypes
  <2>2. CASE ArmSucceeds
    BY <2>2, ArmSucceedsTypes
  <2>3. CASE ArmFails
    BY <2>3, ArmFailsTypes
  <2>4. CASE UndoStart
    BY <2>4, UndoStartTypes
  <2>5. CASE OnStopOfflineAlertTone
    BY <2>5 DEF OnStopOfflineAlertTone, FreeInProgress
  <2> QED  BY <1>1, <2>1, <2>2, <2>3, <2>4, <2>5 DEF Client
<1>2. CASE TimerTask
  <2>1. CASE BeginTick
    BY <2>1 DEF BeginTick
  <2>2. CASE CheckDuration
    BY <2>2 DEF CheckDuration, Readable, InSlot
  <2>3. CASE TestFlag
    BY <2>3 DEF TestFlag
  <2>4. CASE DeleteAlert
    BY <2>4 DEF DeleteAlert, Readable, InSlot
  <2>5. CASE Disarm
    BY <2>5 DEF Disarm
  <2>6. CASE FreeDeleted
    <3>1. /\ isSpeakerReady' \in BOOLEAN /\ shouldDeleteOfflineAlert' \in BOOLEAN
          /\ aiaClient' \in BOOLEAN /\ destroying' \in BOOLEAN
          /\ notifying' \in BOOLEAN
      BY <2>6 DEF FreeDeleted, FreeInProgress
    <3> QED  BY <2>6, <3>1 DEF FreeDeleted, FreeInProgress
  <2>7. CASE PushFrames
    BY <2>7, PushFramesTypes
  <2>8. CASE ClearReady
    <3>1. /\ isSpeakerReady' \in BOOLEAN /\ shouldDeleteOfflineAlert' \in BOOLEAN
          /\ aiaClient' \in BOOLEAN /\ destroying' \in BOOLEAN
          /\ notifying' \in BOOLEAN
      BY <2>8 DEF ClearReady
    <3> QED  BY <2>8, <3>1 DEF ClearReady
  <2>9. CASE DropUnknown
    BY <2>9 DEF DropUnknown, Readable, InSlot, FreeInProgress
  <2> QED
    BY <1>2, <2>1, <2>2, <2>3, <2>4, <2>5, <2>6, <2>7, <2>8, <2>9 DEF TimerTask
<1>3. CASE Speaker \/ OnSpeakerFramePushedForPlayback
  <2>1. CASE OnPortAudioSpeakerReadyAgain
    BY <2>1 DEF OnPortAudioSpeakerReadyAgain
  <2>2. CASE TellClient
    BY <2>2, TellClientTypes
  <2>3. CASE OnSpeakerFramePushedForPlayback
    BY <2>3 DEF OnSpeakerFramePushedForPlayback
  <2> QED  BY <1>3, <2>1, <2>2, <2>3 DEF Speaker
<1>4. CASE Destroy
  <2>1. CASE DestroyClient
    BY <2>1, DestroyClientTypes
  <2>2. CASE DestroySampleApp
    BY <2>2, DestroySampleAppTypes
  <2>3. CASE DestroyTimer
    BY <2>3 DEF DestroyTimer, FreeInProgress
  <2>4. CASE DestroySpeaker
    BY <2>4 DEF DestroySpeaker
  <2> QED  BY <1>4, <2>1, <2>2, <2>3, <2>4 DEF Destroy
<1>5. CASE PassTime
  BY <1>5 DEF PassTime
<1>6. CASE UNCHANGED vars
  BY <1>6 DEF vars
<1> QED
  BY <1>1, <1>2, <1>3, <1>4, <1>5, <1>6 DEF Next

\* Whatever the client does, and however many alerts and slots there are, every variable keeps
\* its type.
THEOREM TypeCorrect == Spec => []TypeOK
<1>1. Init => TypeOK
  <2> SUFFICES ASSUME Init PROVE TypeOK
    OBVIOUS
  <2> QED  BY AlertAssumption DEF Init, TypeOK
<1> QED
  BY <1>1, TypesKept, PTL DEF Spec

---------------------------------------------------------------------------
(* The alert that is deleted. *)

LEMMA ModLe ==
    ASSUME NEW x \in Nat, NEW r \in Nat \ {0}
    PROVE  x % r \in Nat /\ x % r <= x
<1>1. CASE x < r
  <2>1. x % r = x
    BY <1>1
  <2> QED
    BY <2>1
<1>2. CASE x >= r
  <2>1. x % r \in 0 .. (r - 1)
    OBVIOUS
  <2> QED
    BY <1>2, <2>1
<1> QED
  BY <1>1, <1>2

LEMMA TimesMonotone ==
    ASSUME NEW x \in Nat, NEW y \in Nat, NEW m \in Nat, x <= y
    PROVE  x * m \in Nat /\ x * m <= y * m
<1>1. (y - x) \in Nat /\ (y - x) * m \in Nat /\ x * m \in Nat /\ y * m \in Nat
  OBVIOUS
<1>2. y * m = x * m + (y - x) * m
  OBVIOUS
<1> QED
  BY <1>1, <1>2

\* The products of onPlayOfflineAlertTone wrap, so that they are never too large.
LEMMA ExceedsIsOver ==
    ASSUME NEW a \in Alert, NEW time \in Nat, Exceeds(a, time)
    PROVE  time * MsPerSecond > ScheduledTime[a] * MsPerSecond + Duration[a]
<1> DEFINE sched == ScheduledTime[a]
           x == time - sched
           s == x % Range32
           p == s * MsPerSecond
<1>1. /\ time \in Nat /\ sched \in Nat /\ Duration[a] \in Nat
      /\ MsPerSecond \in Nat /\ Range32 \in Nat \ {0}
  BY AlertAssumption
<1>2. time >= sched /\ p % Range32 > Duration[a]
  BY DEF Exceeds
<1>3. x \in Nat
  BY <1>1, <1>2
<1>4. s \in Nat /\ s <= x
  BY <1>1, <1>3, ModLe
<1>5. p \in Nat /\ p <= x * MsPerSecond /\ x * MsPerSecond \in Nat
  <2> HIDE DEF s, x
  <2> QED
    BY <1>1, <1>3, <1>4, TimesMonotone
<1>6. p % Range32 \in Nat /\ p % Range32 <= p
  <2> HIDE DEF p
  <2> QED
    BY <1>1, <1>5, ModLe
<1>7. time * MsPerSecond = sched * MsPerSecond + x * MsPerSecond
  <2> HIDE DEF sched
  <2> QED
    BY <1>1
<1>8. time * MsPerSecond \in Nat /\ sched * MsPerSecond \in Nat
  BY <1>1
<1> HIDE DEF p, s, x, sched
<1>9. time * MsPerSecond > sched * MsPerSecond + Duration[a]
  BY <1>1, <1>2, <1>5, <1>6, <1>7, <1>8
<1> QED
  BY <1>9 DEF sched

LEMMA DeleteStep ==
    ASSUME TypeOK, DeleteInv, [Next]_vars
    PROVE  DeleteInv'
<1> USE AlertAssumption
    DEF TypeOK, DeleteInv, Readable, InSlot, Looking, alert, callback, client, sound, history
<1>1. CASE Client
  <2>1. ASSUME NEW a \in Alert, OnStartOfflineAlertTone(a) PROVE DeleteInv'
    BY <2>1 DEF OnStartOfflineAlertTone, MayStart, Over
  <2>2. CASE ArmSucceeds
    BY <2>2 DEF ArmSucceeds, Over
  <2>3. CASE ArmFails
    BY <2>3 DEF ArmFails, FreeInProgress, Over
  <2>4. CASE UndoStart
    BY <2>4 DEF UndoStart
  <2>5. CASE OnStopOfflineAlertTone
    BY <2>5 DEF OnStopOfflineAlertTone, FreeInProgress
  <2> QED  BY <1>1, <2>1, <2>2, <2>3, <2>4, <2>5 DEF Client
<1>2. CASE CheckDuration
  <2>1. InSlot \in Alert /\ now \in Nat
    BY <1>2 DEF CheckDuration
  <2>2. shouldDeleteOfflineAlert' => Exceeds(InSlot, now)
    BY <1>2 DEF CheckDuration
  <2>3. shouldDeleteOfflineAlert' => Over(InSlot)
    BY <2>1, <2>2, ExceedsIsOver DEF Over
  <2>4. /\ tick' = "test"
        /\ UNCHANGED <<slot, offlineAlert, now, starting, offlineAlertInProgress>>
    BY <1>2 DEF CheckDuration
  <2>5. Readable' => Over(InSlot)' \/ ~ shouldDeleteOfflineAlert'
    BY <2>3, <2>4 DEF Over
  <2>6. Readable'
    BY <1>2, <2>4 DEF CheckDuration
  <2> QED  BY <2>4, <2>5, <2>6
<1>3. CASE TimerTask /\ ~ CheckDuration
  <2>1. CASE BeginTick \/ TestFlag \/ DeleteAlert \/ Disarm
    BY <2>1 DEF BeginTick, TestFlag, DeleteAlert, Disarm, Over
  <2>2. CASE FreeDeleted \/ DropUnknown
    BY <2>2 DEF FreeDeleted, DropUnknown, FreeInProgress
  <2>3. CASE PushFrames \/ ClearReady
    BY <2>3 DEF PushFrames, ClearReady
  <2> QED  BY <1>3, <2>1, <2>2, <2>3 DEF TimerTask
<1>4. CASE Speaker \/ OnSpeakerFramePushedForPlayback
  BY <1>4 DEF Speaker, OnPortAudioSpeakerReadyAgain, TellClient, OnSpeakerFramePushedForPlayback,
              Over
<1>5. CASE Destroy
  BY <1>5 DEF Destroy, DestroyClient, DestroySampleApp, DestroyTimer, DestroySpeaker,
              FreeInProgress, Over
<1>6. CASE PassTime
  BY <1>6 DEF PassTime, Over
<1>7. CASE UNCHANGED vars
  BY <1>7 DEF vars, Over
<1> QED
  BY <1>1, <1>2, <1>3, <1>4, <1>5, <1>6, <1>7 DEF Next

\* For all times and durations, any width of the milliseconds, which only ever wrap to smaller
\* ones, and any client: the flag that deletes an alert is set for the alert that is deleted.
THEOREM DeletesExpiredOnlyHolds == Spec => DeletesExpiredOnly
<1> DEFINE Step == \A a \in Alert : a \in stored /\ a \notin stored' => Over(a)
<1>1. Init => DeleteInv
  BY DEF Init, DeleteInv, Looking
<1>2. TypeOK /\ DeleteInv /\ [Next]_vars => DeleteInv'
  BY DeleteStep
<1>3. TypeOK /\ DeleteInv /\ [Next]_vars => [Step]_vars
  <2> SUFFICES ASSUME DeleteInv, Next PROVE Step
    OBVIOUS
  <2>1. CASE DeleteAlert
    BY <2>1 DEF DeleteAlert, InSlot, Readable, DeleteInv
  <2>2. CASE ~ DeleteAlert
    <3>1. stored' = stored
      BY <2>2 DEF Next, Client, TimerTask, Speaker, Destroy, client, OnStartOfflineAlertTone,
                  ArmSucceeds, ArmFails, UndoStart, OnStopOfflineAlertTone, BeginTick,
                  CheckDuration, TestFlag, Disarm, FreeDeleted, PushFrames, ClearReady,
                  DropUnknown, OnPortAudioSpeakerReadyAgain, TellClient,
                  OnSpeakerFramePushedForPlayback, DestroyClient, DestroySampleApp,
                  DestroyTimer, DestroySpeaker, PassTime
    <3> QED
      BY <3>1
  <2> QED
    BY <2>1, <2>2
<1> QED
  BY <1>1, <1>2, <1>3, TypeCorrect, PTL DEF Spec, DeletesExpiredOnly

---------------------------------------------------------------------------
(* What a step preserves of the blocks and of the alert in progress. *)

LEMMA StartStep ==
    ASSUME TypeOK, AlertInv, NEW a \in Alert, OnStartOfflineAlertTone(a)
    PROVE  AlertInv'
<1> USE AlertAssumption
    DEF TypeOK, AlertInv, alert, callback, client, sound, history
<1>1. SlotInv'
  BY DEF SlotInv, LosesOverwrittenOnly, OnStartOfflineAlertTone, MayStart
<1>2. ClientInv'
  BY DEF ClientInv, OnStartOfflineAlertTone, MayStart
<1> SUFFICES ASSUME overlap' = {} PROVE ApartInv'
  BY <1>1, <1>2
<1> USE DEF ApartInv, SlotInv, TickInv, PlayInv, StartInv
<1>3. TickInv'
  BY DEF OnStartOfflineAlertTone, MayStart
<1>4. PlayInv'
  BY DEF OnStartOfflineAlertTone, MayStart
<1>5. StartInv'
  BY DEF OnStartOfflineAlertTone, MayStart
<1> QED
  BY <1>3, <1>4, <1>5

LEMMA ArmSucceedsStep ==
    ASSUME TypeOK, AlertInv, ArmSucceeds
    PROVE  AlertInv'
<1> USE AlertAssumption
    DEF TypeOK, AlertInv, alert, callback, client, sound, history
<1>1. SlotInv'
  BY DEF SlotInv, LosesOverwrittenOnly, ArmSucceeds
<1>2. ClientInv'
  BY DEF ClientInv, ArmSucceeds
<1> SUFFICES ASSUME overlap' = {} PROVE ApartInv'
  BY <1>1, <1>2
<1> USE DEF ApartInv, SlotInv, TickInv, PlayInv, StartInv
<1>3. TickInv'
  BY DEF ArmSucceeds
<1>4. PlayInv'
  BY DEF ArmSucceeds
<1>5. StartInv'
  BY DEF ArmSucceeds
<1> QED
  BY <1>3, <1>4, <1>5

LEMMA ArmFailsStep ==
    ASSUME TypeOK, AlertInv, ArmFails
    PROVE  AlertInv'
<1> USE AlertAssumption
    DEF TypeOK, AlertInv, alert, callback, client, sound, history
<1>1. SlotInv'
  BY DEF SlotInv, LosesOverwrittenOnly, ArmFails, FreeInProgress
<1>2. ClientInv'
  BY DEF ClientInv, ArmFails, FreeInProgress
<1> SUFFICES ASSUME overlap' = {} PROVE ApartInv'
  BY <1>1, <1>2
<1> USE DEF ApartInv, SlotInv, TickInv, PlayInv, StartInv
<1>3. TickInv'
  BY DEF ArmFails, FreeInProgress
<1>4. PlayInv'
  BY DEF ArmFails, FreeInProgress
<1>5. StartInv'
  BY DEF ArmFails, FreeInProgress
<1> QED
  BY <1>3, <1>4, <1>5

LEMMA UndoStartStep ==
    ASSUME TypeOK, AlertInv, UndoStart
    PROVE  AlertInv'
<1> USE AlertAssumption
    DEF TypeOK, AlertInv, alert, callback, client, sound, history
<1>1. SlotInv'
  BY DEF SlotInv, LosesOverwrittenOnly, UndoStart
<1>2. ClientInv'
  BY DEF ClientInv, UndoStart
<1> SUFFICES ASSUME overlap' = {} PROVE ApartInv'
  BY <1>1, <1>2
<1> USE DEF ApartInv, SlotInv, TickInv, PlayInv, StartInv
<1>3. TickInv'
  BY DEF UndoStart
<1>4. PlayInv'
  BY DEF UndoStart
<1>5. StartInv'
  BY DEF UndoStart
<1> QED
  BY <1>3, <1>4, <1>5

LEMMA StopStep ==
    ASSUME TypeOK, AlertInv, OnStopOfflineAlertTone
    PROVE  AlertInv'
<1> USE AlertAssumption
    DEF TypeOK, AlertInv, alert, callback, client, sound, history
<1>1. SlotInv'
  BY DEF SlotInv, LosesOverwrittenOnly, OnStopOfflineAlertTone, FreeInProgress
<1>2. ClientInv'
  BY DEF ClientInv, OnStopOfflineAlertTone, FreeInProgress
<1> SUFFICES ASSUME overlap' = {} PROVE ApartInv'
  BY <1>1, <1>2
<1> USE DEF ApartInv, SlotInv, TickInv, PlayInv, StartInv
<1>3. TickInv'
  BY DEF OnStopOfflineAlertTone, FreeInProgress
<1>4. PlayInv'
  BY DEF OnStopOfflineAlertTone, FreeInProgress
<1>5. StartInv'
  BY DEF OnStopOfflineAlertTone, FreeInProgress
<1> QED
  BY <1>3, <1>4, <1>5

LEMMA BeginTickStep ==
    ASSUME TypeOK, AlertInv, BeginTick
    PROVE  AlertInv'
<1> USE AlertAssumption
    DEF TypeOK, AlertInv, alert, callback, client, sound, history
<1>1. SlotInv'
  BY DEF SlotInv, LosesOverwrittenOnly, BeginTick
<1>2. ClientInv'
  BY DEF ClientInv, BeginTick
<1> SUFFICES ASSUME overlap' = {} PROVE ApartInv'
  BY <1>1, <1>2
<1> USE DEF ApartInv, SlotInv, TickInv, PlayInv, StartInv
<1>3. TickInv'
  BY DEF BeginTick
<1>4. PlayInv'
  BY DEF BeginTick
<1>5. StartInv'
  BY DEF BeginTick
<1> QED
  BY <1>3, <1>4, <1>5

LEMMA CheckDurationStep ==
    ASSUME TypeOK, AlertInv, CheckDuration
    PROVE  AlertInv'
<1> USE AlertAssumption
    DEF TypeOK, AlertInv, alert, callback, client, sound, history
<1>1. SlotInv'
  BY DEF SlotInv, LosesOverwrittenOnly, CheckDuration, Readable, InSlot
<1>2. ClientInv'
  BY DEF ClientInv, CheckDuration, Readable, InSlot
<1> SUFFICES ASSUME overlap' = {} PROVE ApartInv'
  BY <1>1, <1>2
<1> USE DEF ApartInv, SlotInv, TickInv, PlayInv, StartInv
<1>3. TickInv'
  BY DEF CheckDuration, Readable, InSlot
<1>4. PlayInv'
  BY DEF CheckDuration, Readable, InSlot
<1>5. StartInv'
  BY DEF CheckDuration, Readable, InSlot
<1> QED
  BY <1>3, <1>4, <1>5

LEMMA TestFlagStep ==
    ASSUME TypeOK, AlertInv, TestFlag
    PROVE  AlertInv'
<1> USE AlertAssumption
    DEF TypeOK, AlertInv, alert, callback, client, sound, history
<1>1. SlotInv'
  BY DEF SlotInv, LosesOverwrittenOnly, TestFlag
<1>2. ClientInv'
  BY DEF ClientInv, TestFlag
<1> SUFFICES ASSUME overlap' = {} PROVE ApartInv'
  BY <1>1, <1>2
<1> USE DEF ApartInv, SlotInv, TickInv, PlayInv, StartInv
<1>3. TickInv'
  BY DEF TestFlag
<1>4. PlayInv'
  BY DEF TestFlag
<1>5. StartInv'
  BY DEF TestFlag
<1> QED
  BY <1>3, <1>4, <1>5

LEMMA DeleteAlertStep ==
    ASSUME TypeOK, AlertInv, DeleteAlert
    PROVE  AlertInv'
<1> USE AlertAssumption
    DEF TypeOK, AlertInv, alert, callback, client, sound, history
<1>1. SlotInv'
  BY DEF SlotInv, LosesOverwrittenOnly, DeleteAlert, Readable, InSlot
<1>2. ClientInv'
  BY DEF ClientInv, DeleteAlert, Readable, InSlot
<1> SUFFICES ASSUME overlap' = {} PROVE ApartInv'
  BY <1>1, <1>2
<1> USE DEF ApartInv, SlotInv, TickInv, PlayInv, StartInv
<1>3. TickInv'
  BY DEF DeleteAlert, Readable, InSlot
<1>4. PlayInv'
  BY DEF DeleteAlert, Readable, InSlot
<1>5. StartInv'
  BY DEF DeleteAlert, Readable, InSlot
<1> QED
  BY <1>3, <1>4, <1>5

LEMMA DisarmStep ==
    ASSUME TypeOK, AlertInv, Disarm
    PROVE  AlertInv'
<1> USE AlertAssumption
    DEF TypeOK, AlertInv, alert, callback, client, sound, history
<1>1. SlotInv'
  BY DEF SlotInv, LosesOverwrittenOnly, Disarm
<1>2. ClientInv'
  BY DEF ClientInv, Disarm
<1> SUFFICES ASSUME overlap' = {} PROVE ApartInv'
  BY <1>1, <1>2
<1> USE DEF ApartInv, SlotInv, TickInv, PlayInv, StartInv
<1>3. TickInv'
  BY DEF Disarm
<1>4. PlayInv'
  BY DEF Disarm
<1>5. StartInv'
  BY DEF Disarm
<1> QED
  BY <1>3, <1>4, <1>5

LEMMA FreeDeletedStep ==
    ASSUME TypeOK, AlertInv, FreeDeleted
    PROVE  AlertInv'
<1> USE AlertAssumption
    DEF TypeOK, AlertInv, alert, callback, client, sound, history
<1>1. SlotInv'
  BY DEF SlotInv, LosesOverwrittenOnly, FreeDeleted, FreeInProgress
<1>2. ClientInv'
  BY DEF ClientInv, FreeDeleted, FreeInProgress
<1> SUFFICES ASSUME overlap' = {} PROVE ApartInv'
  BY <1>1, <1>2
<1> USE DEF ApartInv, SlotInv, TickInv, PlayInv, StartInv
<1>3. TickInv'
  BY DEF FreeDeleted, FreeInProgress
<1>4. PlayInv'
  BY DEF FreeDeleted, FreeInProgress
<1>5. StartInv'
  BY DEF FreeDeleted, FreeInProgress
<1> QED
  BY <1>3, <1>4, <1>5

LEMMA PushFramesStep ==
    ASSUME TypeOK, AlertInv, PushFrames \/ ClearReady
    PROVE  AlertInv'
<1> USE AlertAssumption
    DEF TypeOK, AlertInv, alert, callback, client, sound, history
<1>1. SlotInv'
  BY DEF SlotInv, LosesOverwrittenOnly, PushFrames, ClearReady, Readable, InSlot
<1>2. ClientInv'
  BY DEF ClientInv, PushFrames, ClearReady, Readable, InSlot
<1> SUFFICES ASSUME overlap' = {} PROVE ApartInv'
  BY <1>1, <1>2
<1> USE DEF ApartInv, SlotInv, TickInv, PlayInv, StartInv
<1>3. TickInv'
  BY DEF PushFrames, ClearReady, Readable, InSlot
<1>4. PlayInv'
  BY DEF PushFrames, ClearReady, Readable, InSlot
<1>5. StartInv'
  BY DEF PushFrames, ClearReady, Readable, InSlot
<1> QED
  BY <1>3, <1>4, <1>5

LEMMA DropUnknownStep ==
    ASSUME TypeOK, AlertInv, DropUnknown
    PROVE  AlertInv'
<1> USE AlertAssumption
    DEF TypeOK, AlertInv, alert, callback, client, sound, history
<1>1. SlotInv'
  BY DEF SlotInv, LosesOverwrittenOnly, DropUnknown, Readable, InSlot, FreeInProgress
<1>2. ClientInv'
  BY DEF ClientInv, DropUnknown, Readable, InSlot, FreeInProgress
<1> SUFFICES ASSUME overlap' = {} PROVE ApartInv'
  BY <1>1, <1>2
<1> USE DEF ApartInv, SlotInv, TickInv, PlayInv, StartInv
<1>3. TickInv'
  BY DEF DropUnknown, Readable, InSlot, FreeInProgress
<1>4. PlayInv'
  BY DEF DropUnknown, Readable, InSlot, FreeInProgress
<1>5. StartInv'
  BY DEF DropUnknown, Readable, InSlot, FreeInProgress
<1> QED
  BY <1>3, <1>4, <1>5

LEMMA SpeakerStep ==
    ASSUME TypeOK, AlertInv, Speaker \/ OnSpeakerFramePushedForPlayback \/ DestroySpeaker
    PROVE  AlertInv'
<1> USE AlertAssumption
    DEF TypeOK, AlertInv, alert, callback, client, sound, history
<1>1. SlotInv'
  BY DEF SlotInv, LosesOverwrittenOnly, Speaker, OnPortAudioSpeakerReadyAgain, TellClient, OnSpeakerFramePushedForPlayback, DestroySpeaker
<1>2. ClientInv'
  BY DEF ClientInv, Speaker, OnPortAudioSpeakerReadyAgain, TellClient, OnSpeakerFramePushedForPlayback, DestroySpeaker
<1> SUFFICES ASSUME overlap' = {} PROVE ApartInv'
  BY <1>1, <1>2
<1> USE DEF ApartInv, SlotInv, TickInv, PlayInv, StartInv
<1>3. TickInv'
  BY DEF Speaker, OnPortAudioSpeakerReadyAgain, TellClient, OnSpeakerFramePushedForPlayback, DestroySpeaker
<1>4. PlayInv'
  BY DEF Speaker, OnPortAudioSpeakerReadyAgain, TellClient, OnSpeakerFramePushedForPlayback, DestroySpeaker
<1>5. StartInv'
  BY DEF Speaker, OnPortAudioSpeakerReadyAgain, TellClient, OnSpeakerFramePushedForPlayback, DestroySpeaker
<1> QED
  BY <1>3, <1>4, <1>5

LEMMA DestroyStep ==
    ASSUME TypeOK, AlertInv, DestroyClient \/ DestroySampleApp
    PROVE  AlertInv'
<1> USE AlertAssumption
    DEF TypeOK, AlertInv, alert, callback, client, sound, history
<1>1. SlotInv'
  BY DEF SlotInv, LosesOverwrittenOnly, DestroyClient, DestroySampleApp
<1>2. ClientInv'
  BY DEF ClientInv, DestroyClient, DestroySampleApp
<1> SUFFICES ASSUME overlap' = {} PROVE ApartInv'
  BY <1>1, <1>2
<1> USE DEF ApartInv, SlotInv, TickInv, PlayInv, StartInv
<1>3. TickInv'
  BY DEF DestroyClient, DestroySampleApp
<1>4. PlayInv'
  BY DEF DestroyClient, DestroySampleApp
<1>5. StartInv'
  BY DEF DestroyClient, DestroySampleApp
<1> QED
  BY <1>3, <1>4, <1>5

LEMMA DestroyTimerStep ==
    ASSUME TypeOK, AlertInv, DestroyTimer
    PROVE  AlertInv'
<1> USE AlertAssumption
    DEF TypeOK, AlertInv, alert, callback, client, sound, history
<1>1. SlotInv'
  BY DEF SlotInv, LosesOverwrittenOnly, DestroyTimer, FreeInProgress
<1>2. ClientInv'
  BY DEF ClientInv, DestroyTimer, FreeInProgress
<1> SUFFICES ASSUME overlap' = {} PROVE ApartInv'
  BY <1>1, <1>2
<1> USE DEF ApartInv, SlotInv, TickInv, PlayInv, StartInv
<1>3. TickInv'
  BY DEF DestroyTimer, FreeInProgress
<1>4. PlayInv'
  BY DEF DestroyTimer, FreeInProgress
<1>5. StartInv'
  BY DEF DestroyTimer, FreeInProgress, ClientInv
<1> QED
  BY <1>3, <1>4, <1>5

LEMMA PassTimeStep ==
    ASSUME TypeOK, AlertInv, PassTime
    PROVE  AlertInv'
<1> USE AlertAssumption
    DEF TypeOK, AlertInv, alert, callback, client, sound, history
<1>1. SlotInv'
  BY DEF SlotInv, LosesOverwrittenOnly, PassTime
<1>2. ClientInv'
  BY DEF ClientInv, PassTime
<1> SUFFICES ASSUME overlap' = {} PROVE ApartInv'
  BY <1>1, <1>2
<1> USE DEF ApartInv, SlotInv, TickInv, PlayInv, StartInv
<1>3. TickInv'
  BY DEF PassTime
<1>4. PlayInv'
  BY DEF PassTime
<1>5. StartInv'
  BY DEF PassTime
<1> QED
  BY <1>3, <1>4, <1>5

LEMMA StutterStep ==
    ASSUME AlertInv, UNCHANGED vars
    PROVE  AlertInv'
  BY DEF vars, alert, callback, client, sound, history, AlertInv, ClientInv, ApartInv, SlotInv,
         LosesOverwrittenOnly, TickInv, PlayInv, StartInv

LEMMA NextStep ==
    ASSUME TypeOK, AlertInv, [Next]_vars
    PROVE  AlertInv'
<1>1. CASE Client
  BY <1>1, StartStep, ArmSucceedsStep, ArmFailsStep, UndoStartStep, StopStep DEF Client
<1>2. CASE TimerTask
  BY <1>2, BeginTickStep, CheckDurationStep, TestFlagStep, DeleteAlertStep, DisarmStep,
     FreeDeletedStep, PushFramesStep, DropUnknownStep DEF TimerTask
<1>3. CASE Speaker \/ OnSpeakerFramePushedForPlayback
  BY <1>3, SpeakerStep
<1>4. CASE Destroy
  BY <1>4, SpeakerStep, DestroyStep, DestroyTimerStep DEF Destroy
<1>5. CASE PassTime
  BY <1>5, PassTimeStep
<1>6. CASE UNCHANGED vars
  BY <1>6, StutterStep
<1> QED
  BY <1>1, <1>2, <1>3, <1>4, <1>5, <1>6 DEF Next

LEMMA Invariance == Spec => [](TypeOK /\ AlertInv)
<1>1. Init => AlertInv
  BY AlertAssumption DEF Init, AlertInv, ClientInv, ApartInv, SlotInv, LosesOverwrittenOnly,
                         TickInv, PlayInv, StartInv
<1>2. TypeOK /\ AlertInv /\ [Next]_vars => AlertInv'
  BY NextStep
<1> QED
  BY <1>1, <1>2, TypeCorrect, PTL DEF Spec

---------------------------------------------------------------------------
(* Theorems. *)

\* However many alerts, slots and seconds, and whatever the client does: the timer's callback,
\* whose slot other tasks free, looks at an alert that is not freed, unless a start came across
\* an alert or a callback, or it has dropped an alert of an unknown type before.
THEOREM LooksAtAlertHolds == Spec => []LooksAtAlert
<1>1. TypeOK /\ AlertInv => LooksAtAlert
  BY DEF TypeOK, AlertInv, ApartInv, SlotInv, TickInv, PlayInv, LooksAtAlert, Looks, Readable
<1> QED
  BY <1>1, Invariance, PTL

\* However many alerts and slots, and whatever the client does: whichever of the tasks lets go of
\* an alert, its block is freed, except by a start that overwrites the pointer to it.
THEOREM LosesOverwrittenOnlyHolds == Spec => []LosesOverwrittenOnly
<1>1. AlertInv => LosesOverwrittenOnly
  BY DEF AlertInv, SlotInv
<1> QED
  BY <1>1, Invariance, PTL

\* However many alerts, slots and seconds: an alert whose start succeeded stays in progress with
\* its timer armed until the client stops it or its duration is over, unless a start came across
\* an alert that played or a callback that ran.
THEOREM StartedAlertPlaysHolds == Spec => []StartedAlertPlays
<1>1. TypeOK /\ AlertInv => StartedAlertPlays
  BY AlertAssumption DEF TypeOK, AlertInv, ApartInv, SlotInv, TickInv, PlayInv,
                         StartedAlertPlays, InProgress
<1> QED
  BY <1>1, Invariance, PTL
=============================================================================
