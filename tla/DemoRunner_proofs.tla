-------------------------- MODULE DemoRunner_proofs --------------------------
(***************************************************************************)
(* What the demo task may count on, with sound and without, however the    *)
(* callbacks overlap with its statements.  The invariant (IInv) ties the   *)
(* statement the task is at to its case, to what the client has told it    *)
(* and to the microphone; the types (RangeInv, ValueInv) rest on it.  That *)
(* the demo takes finitely many steps (DemoAdvances) needs RangeInv only.  *)
(***************************************************************************)
EXTENDS DemoRunner, TLAPS

ConnectPlace == {"waitConnected", "readConnected", "setConnected"}
CapabilityPlace == {"waitPublished", "readPublished", "setPublished", "testPublished",
                    "waitAccepted", "readAccepted", "setAccepted"}
FinishPlace == {"finish", "waitOffline", "destroy", "returned",
                "destroyed"}

\* Where the demo task is, and in which case.
PlaceInv ==
    /\ pc \in Place
    /\ i \in Nat /\ i >= 1
    /\ pc \in {"register", "init"} \cup ConnectPlace => i = 1
    /\ pc \in CapabilityPlace => i = 2
    /\ pc = "waitDisconnected" => i > 2 /\ (audioEnabled => i = 6)
    /\ pc \in {"waitTalk", "testTalk", "waitTalking"} => audioEnabled /\ i = 4
    /\ pc \in {"waitStop", "testStop", "waitResponse", "closeMicrophone"} => audioEnabled /\ i = 5
    /\ pc = "call" => i <= Len(cmd)

FlagInv == /\ value \in BOOLEAN /\ toRunDemo \in BOOLEAN
           /\ isAiaClientConnected \in BOOLEAN /\ aiaClient \in BOOLEAN
           /\ isMicrophoneOpen \in BOOLEAN /\ isMicrophoneActive \in BOOLEAN

\* The only statements that set toRunDemo are in the first two cases.
RunInv ==
    /\ capState = "ACCEPTED" => capabilities = "ACCEPTED"
    /\ pc = "setAccepted" /\ value = TRUE => capabilities = "ACCEPTED"
    /\ i > 2 /\ (toRunDemo = TRUE \/ pc = "call") => capabilities = "ACCEPTED"
    /\ capabilities # "unpublished" => i > 2 \/ pc \in CapabilityPlace
    /\ stoppedAt \in Nat
    /\ stoppedAt > 2 => i > 2 /\ toRunDemo = FALSE

\* A bit or a callback says how the connection has changed, and it changes only once.
LinkInv ==
    /\ link \in {"offline", "connecting", "online", "leaving"}
    /\ pc # "destroyed" => (isAiaClientConnected = TRUE <=> link \in {"online", "leaving"})
    /\ pc \in {"register", "init"} \/ (i = 1 /\ pc \in {"loop", "call"}) =>
            link = "offline" /\ aia_eg = {} /\ callback = "none"
    /\ aiaClient = TRUE <=> pc \notin {"register", "init", "returned", "destroyed"}
    /\ "CONNECTED" \in aia_eg \/ callback = "setConnected" => link # "connecting"
    /\ link = "connecting" => pc = "waitConnected" \/ "waitConnected" \in expired
    /\ link # "offline" => "DISCONNECTED" \notin aia_eg
                           /\ callback \notin {"stopDemo", "setDisconnected"}
    /\ pc = "destroy" /\ link # "offline" =>
            "waitConnected" \in expired \/ "waitOffline" \in expired

\* The microphone streams from HOLD_TO_TALK_START to HOLD_TO_TALK_STOP.
MicrophoneInv ==
    /\ pc \in {"waitTalk", "testTalk"} => isMicrophoneOpen = TRUE
    /\ isMicrophoneActive = TRUE =>
        /\ audioEnabled /\ isMicrophoneOpen = TRUE
        /\ \/ i = 4 /\ pc = "waitTalking"
           \/ i = 5 /\ pc \in {"loop", "call"} \cup FinishPlace

IInv == FlagInv /\ PlaceInv /\ RunInv /\ LinkInv /\ MicrophoneInv

LEMMA Commands ==
    /\ cmd[1] = "CONNECT"
    /\ cmd[2] = "CAPABILITY"
    /\ cmd[3] = "SYNC_ST"
    /\ audioEnabled => /\ Len(cmd) = 6
                       /\ cmd[4] = "HOLD_TO_TALK_START"
                       /\ cmd[5] = "HOLD_TO_TALK_STOP"
                       /\ cmd[6] = "DISCONNECT"
    /\ ~ audioEnabled => Len(cmd) = 5 /\ cmd[4] = "SYNC_TIME" /\ cmd[5] = "DISCONNECT"
<1>1. CASE audioEnabled
  BY <1>1 DEF cmd
<1>2. CASE ~ audioEnabled
  BY <1>2 DEF cmd
<1> QED  BY <1>1, <1>2

\* Which case a command is.
LEMMA CommandAt ==
    ASSUME PlaceInv, pc = "call"
    PROVE  /\ AtCase("CONNECT") <=> i = 1
           /\ AtCase("CAPABILITY") <=> i = 2
           /\ AtCase("HOLD_TO_TALK_START") <=> audioEnabled /\ i = 4
           /\ AtCase("HOLD_TO_TALK_STOP") <=> audioEnabled /\ i = 5
           /\ AtCase("DISCONNECT") => i > 2 /\ (audioEnabled => i = 6)
           /\ AtCase("SYNC_ST") \/ AtCase("SYNC_TIME") => i > 2 /\ i # 5 /\ (audioEnabled => i = 3)
<1>1. i \in Nat /\ 1 <= i /\ i <= Len(cmd)
  BY DEF PlaceInv
<1>2. CASE audioEnabled
  <2>0. Len(cmd) = 6
    BY <1>2, Commands
  <2>1. i = 1 \/ i = 2 \/ i = 3 \/ i = 4 \/ i = 5 \/ i = 6
    BY <1>1, <2>0
  <2> QED  BY <1>2, <2>1, Commands DEF AtCase
<1>3. CASE ~ audioEnabled
  <2>0. Len(cmd) = 5
    BY <1>3, Commands
  <2>1. i = 1 \/ i = 2 \/ i = 3 \/ i = 4 \/ i = 5
    BY <1>1, <2>0
  <2> QED  BY <1>3, <2>1, Commands DEF AtCase
<1> QED  BY <1>2, <1>3

LEMMA InitInv == Init => IInv
<1> SUFFICES ASSUME Init PROVE IInv
  OBVIOUS
<1>1. PlaceInv
  BY DEF Init, PlaceInv, Place, ConnectPlace, CapabilityPlace
<1>2. RunInv
  BY DEF Init, RunInv, CapabilityPlace
<1>3. LinkInv
  BY DEF Init, LinkInv, ConnectPlace
<1>4. MicrophoneInv
  BY DEF Init, MicrophoneInv
<1>5. FlagInv
  BY DEF Init, FlagInv
<1> QED
  BY <1>1, <1>2, <1>3, <1>4, <1>5 DEF IInv

LEMMA RegisterStep == IInv /\ Register /\ UNCHANGED audioEnabled => IInv'
<1> SUFFICES ASSUME IInv, Register, audioEnabled' = audioEnabled, cmd' = cmd PROVE IInv'
  BY DEF cmd
<1> USE DEF Register, Goto, client
<1>1. PlaceInv'
  BY DEF IInv, PlaceInv, Place, ConnectPlace, CapabilityPlace
<1>2. RunInv'
  BY DEF IInv, FlagInv, PlaceInv, RunInv, ConnectPlace, CapabilityPlace
<1>3. LinkInv'
  BY DEF IInv, FlagInv, PlaceInv, LinkInv, ConnectPlace, CapabilityPlace
<1>4. MicrophoneInv'
  BY DEF IInv, FlagInv, PlaceInv, MicrophoneInv, ConnectPlace, CapabilityPlace, FinishPlace
<1>5. FlagInv'
  BY DEF IInv, FlagInv
<1> QED
  BY <1>1, <1>2, <1>3, <1>4, <1>5 DEF IInv

LEMMA InitAiaClientStep == IInv /\ InitAiaClient /\ UNCHANGED audioEnabled => IInv'
<1> SUFFICES ASSUME IInv, InitAiaClient, audioEnabled' = audioEnabled, cmd' = cmd PROVE IInv'
  BY DEF cmd
<1> USE DEF InitAiaClient, Goto
<1>1. PlaceInv'
  BY DEF IInv, PlaceInv, Place, ConnectPlace, CapabilityPlace
<1>2. RunInv'
  BY DEF IInv, FlagInv, PlaceInv, RunInv, ConnectPlace, CapabilityPlace
<1>3. LinkInv'
  BY DEF IInv, FlagInv, PlaceInv, LinkInv, ConnectPlace, CapabilityPlace
<1>4. MicrophoneInv'
  BY DEF IInv, FlagInv, PlaceInv, MicrophoneInv, ConnectPlace, CapabilityPlace, FinishPlace
<1>5. FlagInv'
  BY DEF IInv, FlagInv
<1> QED
  BY <1>1, <1>2, <1>3, <1>4, <1>5 DEF IInv

LEMMA LoopStep == IInv /\ Loop /\ UNCHANGED audioEnabled => IInv'
<1> SUFFICES ASSUME IInv, Loop, audioEnabled' = audioEnabled, cmd' = cmd PROVE IInv'
  BY DEF cmd
<1> USE DEF Loop, Goto, app, client
<1>1. PlaceInv'
  BY DEF IInv, PlaceInv, Place, ConnectPlace, CapabilityPlace
<1>2. RunInv'
  BY DEF IInv, FlagInv, PlaceInv, RunInv, ConnectPlace, CapabilityPlace
<1>3. LinkInv'
  BY DEF IInv, FlagInv, PlaceInv, LinkInv, ConnectPlace, CapabilityPlace
<1>4. MicrophoneInv'
  BY DEF IInv, FlagInv, PlaceInv, MicrophoneInv, ConnectPlace, CapabilityPlace, FinishPlace
<1>5. FlagInv'
  BY DEF IInv, FlagInv
<1> QED
  BY <1>1, <1>2, <1>3, <1>4, <1>5 DEF IInv

LEMMA ConnectStep == IInv /\ Connect /\ UNCHANGED audioEnabled => IInv'
<1> SUFFICES ASSUME IInv, Connect, audioEnabled' = audioEnabled, cmd' = cmd PROVE IInv'
  BY DEF cmd
<1> USE DEF Connect, Goto, EndCase, Wait, WaitAndEndCase, Abort, Read, WriteToRunDemo,
            AskToDisconnect, app, client
<1>1. CASE pc = "call"
  <2>1. PlaceInv'
    BY <1>1, CommandAt, Commands DEF IInv, PlaceInv, Place, ConnectPlace, CapabilityPlace
  <2>2. RunInv'
    BY <1>1, CommandAt DEF IInv, FlagInv, PlaceInv, RunInv, ConnectPlace, CapabilityPlace
  <2>3. LinkInv'
    BY <1>1, CommandAt DEF IInv, FlagInv, PlaceInv, LinkInv, ConnectPlace, CapabilityPlace
  <2>4. MicrophoneInv'
    <3>1. i = 1
      BY <1>1, CommandAt DEF IInv
    <3>2. isMicrophoneActive = FALSE
      BY <3>1 DEF IInv, FlagInv, MicrophoneInv
    <3>3. isMicrophoneActive' = FALSE
      BY <1>1, <3>2 DEF AtCase
    <3>4. pc' \notin {"waitTalk", "testTalk"}
      BY <1>1, <3>1, CommandAt DEF IInv
    <3> QED  BY <3>3, <3>4 DEF MicrophoneInv
  <2>5. FlagInv'
    BY <1>1 DEF IInv, FlagInv
  <2> QED
    BY <2>1, <2>2, <2>3, <2>4, <2>5 DEF IInv
<1>2. CASE pc = "waitConnected"
  <2>1. PlaceInv'
    BY <1>2 DEF IInv, PlaceInv, Place, ConnectPlace, CapabilityPlace, AtCase
  <2>2. RunInv'
    BY <1>2 DEF IInv, FlagInv, PlaceInv, RunInv, ConnectPlace, CapabilityPlace, AtCase
  <2>3. LinkInv'
    BY <1>2 DEF IInv, FlagInv, PlaceInv, LinkInv, ConnectPlace, CapabilityPlace, AtCase
  <2>4. MicrophoneInv'
    BY <1>2 DEF IInv, FlagInv, PlaceInv, MicrophoneInv, ConnectPlace, CapabilityPlace,
                FinishPlace, AtCase
  <2>5. FlagInv'
    BY <1>2 DEF IInv, FlagInv, AtCase
  <2> QED
    BY <2>1, <2>2, <2>3, <2>4, <2>5 DEF IInv
<1>3. CASE pc = "readConnected"
  <2>1. PlaceInv'
    BY <1>3 DEF IInv, PlaceInv, Place, ConnectPlace, CapabilityPlace, AtCase
  <2>2. RunInv'
    BY <1>3 DEF IInv, FlagInv, PlaceInv, RunInv, ConnectPlace, CapabilityPlace, AtCase
  <2>3. LinkInv'
    BY <1>3 DEF IInv, FlagInv, PlaceInv, LinkInv, ConnectPlace, CapabilityPlace, AtCase
  <2>4. MicrophoneInv'
    BY <1>3 DEF IInv, FlagInv, PlaceInv, MicrophoneInv, ConnectPlace, CapabilityPlace,
                FinishPlace, AtCase
  <2>5. FlagInv'
    BY <1>3 DEF IInv, FlagInv, AtCase
  <2> QED
    BY <2>1, <2>2, <2>3, <2>4, <2>5 DEF IInv
<1>4. CASE pc = "setConnected"
  <2>1. PlaceInv'
    BY <1>4 DEF IInv, PlaceInv, Place, ConnectPlace, CapabilityPlace, AtCase
  <2>2. RunInv'
    BY <1>4 DEF IInv, FlagInv, PlaceInv, RunInv, ConnectPlace, CapabilityPlace, AtCase
  <2>3. LinkInv'
    BY <1>4 DEF IInv, FlagInv, PlaceInv, LinkInv, ConnectPlace, CapabilityPlace, AtCase
  <2>4. MicrophoneInv'
    BY <1>4 DEF IInv, FlagInv, PlaceInv, MicrophoneInv, ConnectPlace, CapabilityPlace,
                FinishPlace, AtCase
  <2>5. FlagInv'
    BY <1>4 DEF IInv, FlagInv, AtCase
  <2> QED
    BY <2>1, <2>2, <2>3, <2>4, <2>5 DEF IInv
<1> QED
  BY <1>1, <1>2, <1>3, <1>4 DEF AtCase

LEMMA DisconnectStep == IInv /\ Disconnect /\ UNCHANGED audioEnabled => IInv'
<1> SUFFICES ASSUME IInv, Disconnect, audioEnabled' = audioEnabled, cmd' = cmd PROVE IInv'
  BY DEF cmd
<1> USE DEF Disconnect, Goto, EndCase, Wait, WaitAndEndCase, Abort, Read, WriteToRunDemo,
            AskToDisconnect, app, client
<1>1. CASE pc = "call"
  <2>1. PlaceInv'
    BY <1>1, CommandAt, Commands DEF IInv, PlaceInv, Place, ConnectPlace, CapabilityPlace
  <2>2. RunInv'
    BY <1>1, CommandAt DEF IInv, FlagInv, PlaceInv, RunInv, ConnectPlace, CapabilityPlace
  <2>3. LinkInv'
    BY <1>1, CommandAt DEF IInv, FlagInv, PlaceInv, LinkInv, ConnectPlace, CapabilityPlace
  <2>4. MicrophoneInv'
    BY <1>1, CommandAt DEF IInv, FlagInv, PlaceInv, MicrophoneInv, ConnectPlace, CapabilityPlace,
                FinishPlace
  <2>5. FlagInv'
    BY <1>1 DEF IInv, FlagInv
  <2> QED
    BY <2>1, <2>2, <2>3, <2>4, <2>5 DEF IInv
<1>2. CASE pc = "waitDisconnected"
  <2>1. PlaceInv'
    BY <1>2 DEF IInv, PlaceInv, Place, ConnectPlace, CapabilityPlace, AtCase
  <2>2. RunInv'
    BY <1>2 DEF IInv, FlagInv, PlaceInv, RunInv, ConnectPlace, CapabilityPlace, AtCase
  <2>3. LinkInv'
    BY <1>2 DEF IInv, FlagInv, PlaceInv, LinkInv, ConnectPlace, CapabilityPlace, AtCase
  <2>4. MicrophoneInv'
    BY <1>2 DEF IInv, FlagInv, PlaceInv, MicrophoneInv, ConnectPlace, CapabilityPlace,
                FinishPlace, AtCase
  <2>5. FlagInv'
    BY <1>2 DEF IInv, FlagInv, AtCase
  <2> QED
    BY <2>1, <2>2, <2>3, <2>4, <2>5 DEF IInv
<1> QED
  BY <1>1, <1>2 DEF AtCase

LEMMA PublishCapabilitiesStep == IInv /\ PublishCapabilities /\ UNCHANGED audioEnabled => IInv'
<1> SUFFICES ASSUME IInv, PublishCapabilities, audioEnabled' = audioEnabled, cmd' = cmd PROVE IInv'
  BY DEF cmd
<1> USE DEF PublishCapabilities, Goto, EndCase, Wait, WaitAndEndCase, Abort, Read, WriteToRunDemo,
            AskToDisconnect, app, client
<1>1. CASE pc = "call"
  <2>1. PlaceInv'
    BY <1>1, CommandAt, Commands DEF IInv, PlaceInv, Place, ConnectPlace, CapabilityPlace
  <2>2. RunInv'
    BY <1>1, CommandAt DEF IInv, FlagInv, PlaceInv, RunInv, ConnectPlace, CapabilityPlace
  <2>3. LinkInv'
    <3>1. /\ UNCHANGED <<isAiaClientConnected, aia_eg, aiaClient, link, callback, expired>>
          /\ pc' \in {"loop", "waitPublished"} /\ i' >= i /\ i = 2
      BY <1>1, CommandAt DEF IInv, PlaceInv, AtCase
    <3> QED  BY <1>1, <3>1 DEF IInv, PlaceInv, LinkInv
  <2>4. MicrophoneInv'
    <3>1. i = 2
      BY <1>1, CommandAt DEF IInv
    <3>2. isMicrophoneActive = FALSE
      BY <3>1 DEF IInv, FlagInv, MicrophoneInv
    <3>3. isMicrophoneActive' = FALSE
      BY <1>1, <3>2 DEF AtCase
    <3>4. pc' \notin {"waitTalk", "testTalk"}
      BY <1>1, <3>1, CommandAt DEF IInv
    <3> QED  BY <3>3, <3>4 DEF MicrophoneInv
  <2>5. FlagInv'
    BY <1>1 DEF IInv, FlagInv
  <2> QED
    BY <2>1, <2>2, <2>3, <2>4, <2>5 DEF IInv
<1>2. CASE pc = "waitPublished"
  <2>1. PlaceInv'
    BY <1>2 DEF IInv, PlaceInv, Place, ConnectPlace, CapabilityPlace, AtCase
  <2>2. RunInv'
    BY <1>2 DEF IInv, FlagInv, PlaceInv, RunInv, ConnectPlace, CapabilityPlace, AtCase
  <2>3. LinkInv'
    BY <1>2 DEF IInv, FlagInv, PlaceInv, LinkInv, ConnectPlace, CapabilityPlace, AtCase
  <2>4. MicrophoneInv'
    BY <1>2 DEF IInv, FlagInv, PlaceInv, MicrophoneInv, ConnectPlace, CapabilityPlace,
                FinishPlace, AtCase
  <2>5. FlagInv'
    BY <1>2 DEF IInv, FlagInv, AtCase
  <2> QED
    BY <2>1, <2>2, <2>3, <2>4, <2>5 DEF IInv
<1>3. CASE pc = "readPublished"
  <2>1. PlaceInv'
    BY <1>3 DEF IInv, PlaceInv, Place, ConnectPlace, CapabilityPlace, AtCase
  <2>2. RunInv'
    BY <1>3 DEF IInv, FlagInv, PlaceInv, RunInv, ConnectPlace, CapabilityPlace, AtCase
  <2>3. LinkInv'
    BY <1>3 DEF IInv, FlagInv, PlaceInv, LinkInv, ConnectPlace, CapabilityPlace, AtCase
  <2>4. MicrophoneInv'
    BY <1>3 DEF IInv, FlagInv, PlaceInv, MicrophoneInv, ConnectPlace, CapabilityPlace,
                FinishPlace, AtCase
  <2>5. FlagInv'
    BY <1>3 DEF IInv, FlagInv, AtCase
  <2> QED
    BY <2>1, <2>2, <2>3, <2>4, <2>5 DEF IInv
<1>4. CASE pc = "setPublished"
  <2>1. PlaceInv'
    BY <1>4 DEF IInv, PlaceInv, Place, ConnectPlace, CapabilityPlace, AtCase
  <2>2. RunInv'
    BY <1>4 DEF IInv, FlagInv, PlaceInv, RunInv, ConnectPlace, CapabilityPlace, AtCase
  <2>3. LinkInv'
    BY <1>4 DEF IInv, FlagInv, PlaceInv, LinkInv, ConnectPlace, CapabilityPlace, AtCase
  <2>4. MicrophoneInv'
    BY <1>4 DEF IInv, FlagInv, PlaceInv, MicrophoneInv, ConnectPlace, CapabilityPlace,
                FinishPlace, AtCase
  <2>5. FlagInv'
    BY <1>4 DEF IInv, FlagInv, AtCase
  <2> QED
    BY <2>1, <2>2, <2>3, <2>4, <2>5 DEF IInv
<1>5. CASE pc = "testPublished"
  <2>1. PlaceInv'
    BY <1>5 DEF IInv, PlaceInv, Place, ConnectPlace, CapabilityPlace, AtCase
  <2>2. RunInv'
    BY <1>5 DEF IInv, FlagInv, PlaceInv, RunInv, ConnectPlace, CapabilityPlace, AtCase
  <2>3. LinkInv'
    BY <1>5 DEF IInv, FlagInv, PlaceInv, LinkInv, ConnectPlace, CapabilityPlace, AtCase
  <2>4. MicrophoneInv'
    BY <1>5 DEF IInv, FlagInv, PlaceInv, MicrophoneInv, ConnectPlace, CapabilityPlace,
                FinishPlace, AtCase
  <2>5. FlagInv'
    BY <1>5 DEF IInv, FlagInv, AtCase
  <2> QED
    BY <2>1, <2>2, <2>3, <2>4, <2>5 DEF IInv
<1>6. CASE pc = "waitAccepted"
  <2>1. PlaceInv'
    BY <1>6 DEF IInv, PlaceInv, Place, ConnectPlace, CapabilityPlace, AtCase
  <2>2. RunInv'
    BY <1>6 DEF IInv, FlagInv, PlaceInv, RunInv, ConnectPlace, CapabilityPlace, AtCase
  <2>3. LinkInv'
    BY <1>6 DEF IInv, FlagInv, PlaceInv, LinkInv, ConnectPlace, CapabilityPlace, AtCase
  <2>4. MicrophoneInv'
    BY <1>6 DEF IInv, FlagInv, PlaceInv, MicrophoneInv, ConnectPlace, CapabilityPlace,
                FinishPlace, AtCase
  <2>5. FlagInv'
    BY <1>6 DEF IInv, FlagInv, AtCase
  <2> QED
    BY <2>1, <2>2, <2>3, <2>4, <2>5 DEF IInv
<1>7. CASE pc = "readAccepted"
  <2>1. PlaceInv'
    BY <1>7 DEF IInv, PlaceInv, Place, ConnectPlace, CapabilityPlace, AtCase
  <2>2. RunInv'
    BY <1>7 DEF IInv, FlagInv, PlaceInv, RunInv, ConnectPlace, CapabilityPlace, AtCase
  <2>3. LinkInv'
    BY <1>7 DEF IInv, FlagInv, PlaceInv, LinkInv, ConnectPlace, CapabilityPlace, AtCase
  <2>4. MicrophoneInv'
    BY <1>7 DEF IInv, FlagInv, PlaceInv, MicrophoneInv, ConnectPlace, CapabilityPlace,
                FinishPlace, AtCase
  <2>5. FlagInv'
    BY <1>7 DEF IInv, FlagInv, AtCase
  <2> QED
    BY <2>1, <2>2, <2>3, <2>4, <2>5 DEF IInv
<1>8. CASE pc = "setAccepted"
  <2>1. PlaceInv'
    BY <1>8 DEF IInv, PlaceInv, Place, ConnectPlace, CapabilityPlace, AtCase
  <2>2. RunInv'
    BY <1>8 DEF IInv, FlagInv, PlaceInv, RunInv, ConnectPlace, CapabilityPlace, AtCase
  <2>3. LinkInv'
    BY <1>8 DEF IInv, FlagInv, PlaceInv, LinkInv, ConnectPlace, CapabilityPlace, AtCase
  <2>4. MicrophoneInv'
    BY <1>8 DEF IInv, FlagInv, PlaceInv, MicrophoneInv, ConnectPlace, CapabilityPlace,
                FinishPlace, AtCase
  <2>5. FlagInv'
    BY <1>8 DEF IInv, FlagInv, AtCase
  <2> QED
    BY <2>1, <2>2, <2>3, <2>4, <2>5 DEF IInv
<1> QED
  BY <1>1, <1>2, <1>3, <1>4, <1>5, <1>6, <1>7, <1>8 DEF AtCase

LEMMA SynchronizeStep == IInv /\ Synchronize /\ UNCHANGED audioEnabled => IInv'
<1> SUFFICES ASSUME IInv, Synchronize, audioEnabled' = audioEnabled, cmd' = cmd PROVE IInv'
  BY DEF cmd
<1> USE DEF Synchronize, Goto, EndCase, Wait, WaitAndEndCase, Abort, Read, WriteToRunDemo,
            AskToDisconnect, SetBit, ClientIsFree, app, client
<1>1. PlaceInv'
  BY CommandAt, Commands DEF IInv, PlaceInv, Place, ConnectPlace, CapabilityPlace
<1>2. RunInv'
  BY CommandAt DEF IInv, FlagInv, PlaceInv, RunInv, ConnectPlace, CapabilityPlace
<1>3. LinkInv'
  BY CommandAt DEF IInv, FlagInv, PlaceInv, LinkInv, ConnectPlace, CapabilityPlace
<1>4. MicrophoneInv'
  BY CommandAt DEF IInv, FlagInv, PlaceInv, MicrophoneInv, ConnectPlace, CapabilityPlace, FinishPlace
<1>5. FlagInv'
  BY DEF IInv, FlagInv
<1> QED
  BY <1>1, <1>2, <1>3, <1>4, <1>5 DEF IInv

LEMMA HoldToTalkStartStep == IInv /\ HoldToTalkStart /\ UNCHANGED audioEnabled => IInv'
<1> SUFFICES ASSUME IInv, HoldToTalkStart, audioEnabled' = audioEnabled, cmd' = cmd PROVE IInv'
  BY DEF cmd
<1> USE DEF HoldToTalkStart, Goto, EndCase, Wait, WaitAndEndCase, Abort, Read, WriteToRunDemo,
            AskToDisconnect, app, client
<1>1. CASE pc = "call"
  <2>1. PlaceInv'
    BY <1>1, CommandAt, Commands DEF IInv, PlaceInv, Place, ConnectPlace, CapabilityPlace
  <2>2. RunInv'
    BY <1>1, CommandAt DEF IInv, FlagInv, PlaceInv, RunInv, ConnectPlace, CapabilityPlace
  <2>3. LinkInv'
    BY <1>1, CommandAt DEF IInv, FlagInv, PlaceInv, LinkInv, ConnectPlace, CapabilityPlace
  <2>4. MicrophoneInv'
    BY <1>1, CommandAt DEF IInv, FlagInv, PlaceInv, MicrophoneInv, ConnectPlace, CapabilityPlace,
                FinishPlace
  <2>5. FlagInv'
    BY <1>1 DEF IInv, FlagInv
  <2> QED
    BY <2>1, <2>2, <2>3, <2>4, <2>5 DEF IInv
<1>2. CASE pc = "waitTalk"
  <2>1. PlaceInv'
    BY <1>2 DEF IInv, PlaceInv, Place, ConnectPlace, CapabilityPlace, AtCase
  <2>2. RunInv'
    BY <1>2 DEF IInv, FlagInv, PlaceInv, RunInv, ConnectPlace, CapabilityPlace, AtCase
  <2>3. LinkInv'
    BY <1>2 DEF IInv, FlagInv, PlaceInv, LinkInv, ConnectPlace, CapabilityPlace, AtCase
  <2>4. MicrophoneInv'
    BY <1>2 DEF IInv, FlagInv, PlaceInv, MicrophoneInv, ConnectPlace, CapabilityPlace,
                FinishPlace, AtCase
  <2>5. FlagInv'
    BY <1>2 DEF IInv, FlagInv, AtCase
  <2> QED
    BY <2>1, <2>2, <2>3, <2>4, <2>5 DEF IInv
<1>3. CASE pc = "testTalk"
  <2>1. PlaceInv'
    BY <1>3 DEF IInv, PlaceInv, Place, ConnectPlace, CapabilityPlace, AtCase
  <2>2. RunInv'
    BY <1>3 DEF IInv, FlagInv, PlaceInv, RunInv, ConnectPlace, CapabilityPlace, AtCase
  <2>3. LinkInv'
    <3>1. /\ UNCHANGED <<isAiaClientConnected, aia_eg, aiaClient, link, callback, expired>>
          /\ pc' \in {"loop", "waitTalking"} /\ i' >= i /\ i = 4
      BY <1>3 DEF IInv, PlaceInv, AtCase
    <3> QED  BY <1>3, <3>1 DEF IInv, PlaceInv, LinkInv
  <2>4. MicrophoneInv'
    <3>1. i = 4 /\ audioEnabled /\ isMicrophoneActive = FALSE
      BY <1>3 DEF IInv, FlagInv, PlaceInv, MicrophoneInv, FinishPlace
    <3>2. CASE pc' = "waitTalking"
      <4>1. isMicrophoneOpen' = TRUE /\ i' = 4
        BY <1>3, <3>1, <3>2 DEF IInv, PlaceInv, MicrophoneInv, AtCase
      <4> QED  BY <3>1, <3>2, <4>1 DEF MicrophoneInv
    <3>3. CASE pc' # "waitTalking"
      <4>1. isMicrophoneActive' = FALSE
        BY <1>3, <3>1, <3>3 DEF AtCase
      <4>2. pc' = "loop"
        BY <1>3, <3>3 DEF AtCase
      <4> QED  BY <4>1, <4>2 DEF MicrophoneInv
    <3> QED  BY <3>2, <3>3
  <2>5. FlagInv'
    BY <1>3 DEF IInv, FlagInv, AtCase
  <2> QED
    BY <2>1, <2>2, <2>3, <2>4, <2>5 DEF IInv
<1>4. CASE pc = "waitTalking"
  <2>1. PlaceInv'
    BY <1>4 DEF IInv, PlaceInv, Place, ConnectPlace, CapabilityPlace, AtCase
  <2>2. RunInv'
    BY <1>4 DEF IInv, FlagInv, PlaceInv, RunInv, ConnectPlace, CapabilityPlace, AtCase
  <2>3. LinkInv'
    BY <1>4 DEF IInv, FlagInv, PlaceInv, LinkInv, ConnectPlace, CapabilityPlace, AtCase
  <2>4. MicrophoneInv'
    BY <1>4 DEF IInv, FlagInv, PlaceInv, MicrophoneInv, ConnectPlace, CapabilityPlace,
                FinishPlace, AtCase
  <2>5. FlagInv'
    BY <1>4 DEF IInv, FlagInv, AtCase
  <2> QED
    BY <2>1, <2>2, <2>3, <2>4, <2>5 DEF IInv
<1> QED
  BY <1>1, <1>2, <1>3, <1>4 DEF AtCase

LEMMA HoldToTalkStopStep == IInv /\ HoldToTalkStop /\ UNCHANGED audioEnabled => IInv'
<1> SUFFICES ASSUME IInv, HoldToTalkStop, audioEnabled' = audioEnabled, cmd' = cmd PROVE IInv'
  BY DEF cmd
<1> USE DEF HoldToTalkStop, Goto, EndCase, Wait, WaitAndEndCase, Abort, Read, WriteToRunDemo,
            AskToDisconnect, app, client
<1>1. CASE pc = "call"
  <2>1. PlaceInv'
    BY <1>1, CommandAt, Commands DEF IInv, PlaceInv, Place, ConnectPlace, CapabilityPlace
  <2>2. RunInv'
    BY <1>1, CommandAt DEF IInv, FlagInv, PlaceInv, RunInv, ConnectPlace, CapabilityPlace
  <2>3. LinkInv'
    BY <1>1, CommandAt DEF IInv, FlagInv, PlaceInv, LinkInv, ConnectPlace, CapabilityPlace
  <2>4. MicrophoneInv'
    BY <1>1, CommandAt DEF IInv, FlagInv, PlaceInv, MicrophoneInv, ConnectPlace, CapabilityPlace,
                FinishPlace
  <2>5. FlagInv'
    BY <1>1 DEF IInv, FlagInv
  <2> QED
    BY <2>1, <2>2, <2>3, <2>4, <2>5 DEF IInv
<1>2. CASE pc = "waitStop"
  <2>1. PlaceInv'
    BY <1>2 DEF IInv, PlaceInv, Place, ConnectPlace, CapabilityPlace, AtCase
  <2>2. RunInv'
    BY <1>2 DEF IInv, FlagInv, PlaceInv, RunInv, ConnectPlace, CapabilityPlace, AtCase
  <2>3. LinkInv'
    BY <1>2 DEF IInv, FlagInv, PlaceInv, LinkInv, ConnectPlace, CapabilityPlace, AtCase
  <2>4. MicrophoneInv'
    BY <1>2 DEF IInv, FlagInv, PlaceInv, MicrophoneInv, ConnectPlace, CapabilityPlace,
                FinishPlace, AtCase
  <2>5. FlagInv'
    BY <1>2 DEF IInv, FlagInv, AtCase
  <2> QED
    BY <2>1, <2>2, <2>3, <2>4, <2>5 DEF IInv
<1>3. CASE pc = "testStop"
  <2>1. PlaceInv'
    BY <1>3 DEF IInv, PlaceInv, Place, ConnectPlace, CapabilityPlace, AtCase
  <2>2. RunInv'
    BY <1>3 DEF IInv, FlagInv, PlaceInv, RunInv, ConnectPlace, CapabilityPlace, AtCase
  <2>3. LinkInv'
    BY <1>3 DEF IInv, FlagInv, PlaceInv, LinkInv, ConnectPlace, CapabilityPlace, AtCase
  <2>4. MicrophoneInv'
    BY <1>3 DEF IInv, FlagInv, PlaceInv, MicrophoneInv, ConnectPlace, CapabilityPlace,
                FinishPlace, AtCase
  <2>5. FlagInv'
    BY <1>3 DEF IInv, FlagInv, AtCase
  <2> QED
    BY <2>1, <2>2, <2>3, <2>4, <2>5 DEF IInv
<1>4. CASE pc = "waitResponse"
  <2>1. PlaceInv'
    BY <1>4 DEF IInv, PlaceInv, Place, ConnectPlace, CapabilityPlace, AtCase
  <2>2. RunInv'
    BY <1>4 DEF IInv, FlagInv, PlaceInv, RunInv, ConnectPlace, CapabilityPlace, AtCase
  <2>3. LinkInv'
    BY <1>4 DEF IInv, FlagInv, PlaceInv, LinkInv, ConnectPlace, CapabilityPlace, AtCase
  <2>4. MicrophoneInv'
    BY <1>4 DEF IInv, FlagInv, PlaceInv, MicrophoneInv, ConnectPlace, CapabilityPlace,
                FinishPlace, AtCase
  <2>5. FlagInv'
    BY <1>4 DEF IInv, FlagInv, AtCase
  <2> QED
    BY <2>1, <2>2, <2>3, <2>4, <2>5 DEF IInv
<1>5. CASE pc = "closeMicrophone"
  <2>1. PlaceInv'
    BY <1>5 DEF IInv, PlaceInv, Place, ConnectPlace, CapabilityPlace, AtCase
  <2>2. RunInv'
    BY <1>5 DEF IInv, FlagInv, PlaceInv, RunInv, ConnectPlace, CapabilityPlace, AtCase
  <2>3. LinkInv'
    BY <1>5 DEF IInv, FlagInv, PlaceInv, LinkInv, ConnectPlace, CapabilityPlace, AtCase
  <2>4. MicrophoneInv'
    BY <1>5 DEF IInv, FlagInv, PlaceInv, MicrophoneInv, ConnectPlace, CapabilityPlace,
                FinishPlace, AtCase
  <2>5. FlagInv'
    BY <1>5 DEF IInv, FlagInv, AtCase
  <2> QED
    BY <2>1, <2>2, <2>3, <2>4, <2>5 DEF IInv
<1> QED
  BY <1>1, <1>2, <1>3, <1>4, <1>5 DEF AtCase

LEMMA FinishStep == IInv /\ Finish /\ UNCHANGED audioEnabled => IInv'
<1> SUFFICES ASSUME IInv, Finish, audioEnabled' = audioEnabled, cmd' = cmd PROVE IInv'
  BY DEF cmd
<1> USE DEF Finish, Goto, EndCase, Wait, WaitAndEndCase, Abort, Read, WriteToRunDemo,
            AskToDisconnect, app, client
<1>1. CASE pc = "finish"
  <2>1. PlaceInv'
    BY <1>1 DEF IInv, PlaceInv, Place, ConnectPlace, CapabilityPlace, AtCase
  <2>2. RunInv'
    BY <1>1 DEF IInv, FlagInv, PlaceInv, RunInv, ConnectPlace, CapabilityPlace, AtCase
  <2>3. LinkInv'
    <3>1. CASE pc' = "waitOffline"
      BY <1>1, <3>1 DEF IInv, FlagInv, PlaceInv, LinkInv
    <3>2. CASE pc' = "destroy"
      <4>1. ~ isAiaClientConnected
        BY <1>1, <3>2
      <4>2. link \notin {"online", "leaving"} /\ (link = "connecting" => "waitConnected" \in expired)
        BY <1>1, <4>1 DEF IInv, LinkInv
      <4>3. link # "offline" => link = "connecting"
        BY <4>2 DEF IInv, LinkInv
      <4>4. UNCHANGED <<isAiaClientConnected, aia_eg, aiaClient, link, callback, expired, i>>
        BY <1>1, <3>2
      <4> QED  BY <1>1, <3>2, <4>2, <4>3, <4>4 DEF IInv, LinkInv
    <3> QED  BY <1>1, <3>1, <3>2
  <2>4. MicrophoneInv'
    BY <1>1 DEF IInv, FlagInv, PlaceInv, MicrophoneInv, ConnectPlace, CapabilityPlace,
                FinishPlace, AtCase
  <2>5. FlagInv'
    BY <1>1 DEF IInv, FlagInv, AtCase
  <2> QED
    BY <2>1, <2>2, <2>3, <2>4, <2>5 DEF IInv
<1>2. CASE pc = "waitOffline"
  <2>1. PlaceInv'
    BY <1>2 DEF IInv, PlaceInv, Place, ConnectPlace, CapabilityPlace, AtCase
  <2>2. RunInv'
    BY <1>2 DEF IInv, FlagInv, PlaceInv, RunInv, ConnectPlace, CapabilityPlace, AtCase
  <2>3. LinkInv'
    BY <1>2 DEF IInv, FlagInv, PlaceInv, LinkInv, ConnectPlace, CapabilityPlace, AtCase
  <2>4. MicrophoneInv'
    BY <1>2 DEF IInv, FlagInv, PlaceInv, MicrophoneInv, ConnectPlace, CapabilityPlace,
                FinishPlace, AtCase
  <2>5. FlagInv'
    BY <1>2 DEF IInv, FlagInv, AtCase
  <2> QED
    BY <2>1, <2>2, <2>3, <2>4, <2>5 DEF IInv
<1> QED
  BY <1>1, <1>2 DEF AtCase

LEMMA DestroyClientStep == IInv /\ DestroyClient /\ UNCHANGED audioEnabled => IInv'
<1> SUFFICES ASSUME IInv, DestroyClient, audioEnabled' = audioEnabled, cmd' = cmd PROVE IInv'
  BY DEF cmd
<1> USE DEF DestroyClient, Goto
<1>1. PlaceInv'
  BY DEF IInv, PlaceInv, Place, ConnectPlace, CapabilityPlace
<1>2. RunInv'
  BY DEF IInv, FlagInv, PlaceInv, RunInv, ConnectPlace, CapabilityPlace
<1>3. LinkInv'
  BY DEF IInv, FlagInv, PlaceInv, LinkInv, ConnectPlace, CapabilityPlace
<1>4. MicrophoneInv'
  BY DEF IInv, FlagInv, PlaceInv, MicrophoneInv, ConnectPlace, CapabilityPlace, FinishPlace
<1>5. FlagInv'
  BY DEF IInv, FlagInv
<1> QED
  BY <1>1, <1>2, <1>3, <1>4, <1>5 DEF IInv

LEMMA DestroySampleAppStep == IInv /\ DestroySampleApp /\ UNCHANGED audioEnabled => IInv'
<1> SUFFICES ASSUME IInv, DestroySampleApp, audioEnabled' = audioEnabled, cmd' = cmd PROVE IInv'
  BY DEF cmd
<1> USE DEF DestroySampleApp, Goto, client
<1>1. PlaceInv'
  BY DEF IInv, PlaceInv, Place, ConnectPlace, CapabilityPlace
<1>2. RunInv'
  BY DEF IInv, FlagInv, PlaceInv, RunInv, ConnectPlace, CapabilityPlace
<1>3. LinkInv'
  BY DEF IInv, FlagInv, PlaceInv, LinkInv, ConnectPlace, CapabilityPlace
<1>4. MicrophoneInv'
  BY DEF IInv, FlagInv, PlaceInv, MicrophoneInv, ConnectPlace, CapabilityPlace, FinishPlace
<1>5. FlagInv'
  BY DEF IInv, FlagInv
<1> QED
  BY <1>1, <1>2, <1>3, <1>4, <1>5 DEF IInv

LEMMA OnConnectionSuccessfulStep == IInv /\ OnConnectionSuccessful /\ UNCHANGED audioEnabled => IInv'
<1> SUFFICES ASSUME IInv, OnConnectionSuccessful, audioEnabled' = audioEnabled, cmd' = cmd PROVE IInv'
  BY DEF cmd
<1> USE DEF OnConnectionSuccessful, ClientIsFree
<1>1. PlaceInv'
  BY DEF IInv, PlaceInv, Place, ConnectPlace, CapabilityPlace
<1>2. RunInv'
  BY DEF IInv, FlagInv, PlaceInv, RunInv, ConnectPlace, CapabilityPlace
<1>3. LinkInv'
  BY DEF IInv, FlagInv, PlaceInv, LinkInv, ConnectPlace, CapabilityPlace
<1>4. MicrophoneInv'
  BY DEF IInv, FlagInv, PlaceInv, MicrophoneInv, ConnectPlace, CapabilityPlace, FinishPlace
<1>5. FlagInv'
  BY DEF IInv, FlagInv
<1> QED
  BY <1>1, <1>2, <1>3, <1>4, <1>5 DEF IInv

LEMMA OnConnectionRejectedStep == IInv /\ OnConnectionRejected /\ UNCHANGED audioEnabled => IInv'
<1> SUFFICES ASSUME IInv, OnConnectionRejected, audioEnabled' = audioEnabled, cmd' = cmd PROVE IInv'
  BY DEF cmd
<1> USE DEF OnConnectionRejected, ClientIsFree, app
<1>1. PlaceInv'
  BY DEF IInv, PlaceInv, Place, ConnectPlace, CapabilityPlace
<1>2. RunInv'
  BY DEF IInv, FlagInv, PlaceInv, RunInv, ConnectPlace, CapabilityPlace
<1>3. LinkInv'
  BY DEF IInv, FlagInv, PlaceInv, LinkInv, ConnectPlace, CapabilityPlace
<1>4. MicrophoneInv'
  BY DEF IInv, FlagInv, PlaceInv, MicrophoneInv, ConnectPlace, CapabilityPlace, FinishPlace
<1>5. FlagInv'
  BY DEF IInv, FlagInv
<1> QED
  BY <1>1, <1>2, <1>3, <1>4, <1>5 DEF IInv

LEMMA OnDisconnectedStep == IInv /\ OnDisconnected /\ UNCHANGED audioEnabled => IInv'
<1> SUFFICES ASSUME IInv, OnDisconnected, audioEnabled' = audioEnabled, cmd' = cmd PROVE IInv'
  BY DEF cmd
<1> USE DEF OnDisconnected, ClientIsFree
<1>1. PlaceInv'
  BY DEF IInv, PlaceInv, Place, ConnectPlace, CapabilityPlace
<1>2. RunInv'
  BY DEF IInv, FlagInv, PlaceInv, RunInv, ConnectPlace, CapabilityPlace
<1>3. LinkInv'
  BY DEF IInv, FlagInv, PlaceInv, LinkInv, ConnectPlace, CapabilityPlace
<1>4. MicrophoneInv'
  BY DEF IInv, FlagInv, PlaceInv, MicrophoneInv, ConnectPlace, CapabilityPlace, FinishPlace
<1>5. FlagInv'
  BY DEF IInv, FlagInv
<1> QED
  BY <1>1, <1>2, <1>3, <1>4, <1>5 DEF IInv

LEMMA StopDemoStep == IInv /\ StopDemo /\ UNCHANGED audioEnabled => IInv'
<1> SUFFICES ASSUME IInv, StopDemo, audioEnabled' = audioEnabled, cmd' = cmd PROVE IInv'
  BY DEF cmd
<1> USE DEF StopDemo
<1>1. PlaceInv'
  BY DEF IInv, PlaceInv, Place, ConnectPlace, CapabilityPlace
<1>2. RunInv'
  BY DEF IInv, FlagInv, PlaceInv, RunInv, ConnectPlace, CapabilityPlace
<1>3. LinkInv'
  BY DEF IInv, FlagInv, PlaceInv, LinkInv, ConnectPlace, CapabilityPlace
<1>4. MicrophoneInv'
  BY DEF IInv, FlagInv, PlaceInv, MicrophoneInv, ConnectPlace, CapabilityPlace, FinishPlace
<1>5. FlagInv'
  BY DEF IInv, FlagInv
<1> QED
  BY <1>1, <1>2, <1>3, <1>4, <1>5 DEF IInv

LEMMA SetEventStep == IInv /\ SetEvent /\ UNCHANGED audioEnabled => IInv'
<1> SUFFICES ASSUME IInv, SetEvent, audioEnabled' = audioEnabled, cmd' = cmd PROVE IInv'
  BY DEF cmd
<1> USE DEF SetEvent, SetBit, app
<1>1. PlaceInv'
  BY DEF IInv, PlaceInv, Place, ConnectPlace, CapabilityPlace
<1>2. RunInv'
  BY DEF IInv, FlagInv, PlaceInv, RunInv, ConnectPlace, CapabilityPlace
<1>3. LinkInv'
  BY DEF IInv, FlagInv, PlaceInv, LinkInv, ConnectPlace, CapabilityPlace
<1>4. MicrophoneInv'
  BY DEF IInv, FlagInv, PlaceInv, MicrophoneInv, ConnectPlace, CapabilityPlace, FinishPlace
<1>5. FlagInv'
  BY DEF IInv, FlagInv
<1> QED
  BY <1>1, <1>2, <1>3, <1>4, <1>5 DEF IInv

LEMMA OnCapabilitiesStateChangedStep ==
    ASSUME IInv, NEW state \in CapabilityState, OnCapabilitiesStateChanged(state),
           UNCHANGED audioEnabled
    PROVE  IInv'
<1>0. cmd' = cmd
  BY DEF cmd
<1> USE DEF OnCapabilitiesStateChanged, ClientIsFree
<1>1. PlaceInv'
  BY <1>0 DEF IInv, PlaceInv
<1>2. RunInv'
  BY DEF IInv, FlagInv, PlaceInv, RunInv
<1>3. LinkInv'
  <2>1. i > 2 \/ pc \in CapabilityPlace
    BY DEF IInv, RunInv
  <2>2. ~ (pc \in {"register", "init"} \/ (i = 1 /\ pc \in {"loop", "call"}))
    BY <2>1 DEF IInv, PlaceInv, CapabilityPlace
  <2> QED  BY <2>2 DEF IInv, LinkInv
<1>4. MicrophoneInv'
  BY DEF IInv, MicrophoneInv
<1>5. FlagInv'
  BY DEF IInv, FlagInv
<1> QED
  BY <1>1, <1>2, <1>3, <1>4, <1>5 DEF IInv

LEMMA StutterStep == IInv /\ UNCHANGED vars => IInv'
<1> SUFFICES ASSUME IInv, UNCHANGED vars PROVE IInv'
  OBVIOUS
<1>1. UNCHANGED <<audioEnabled, pc, i, value, toRunDemo, isAiaClientConnected, capState,
                 isMicrophoneOpen, isMicrophoneActive, aia_eg, registrationManager,
                 aiaClient, link, capabilities, callback, expired, stoppedAt>>
  BY DEF vars, app, client
<1>2. cmd' = cmd
  BY <1>1 DEF cmd
<1> QED
  BY <1>1, <1>2 DEF IInv, FlagInv, PlaceInv, RunInv, LinkInv, MicrophoneInv

LEMMA Step == IInv /\ [Next]_vars => IInv'
<1> SUFFICES ASSUME IInv, [Next]_vars PROVE IInv'
  OBVIOUS
<1>1. CASE DemoTask
  BY <1>1, RegisterStep, InitAiaClientStep, LoopStep, ConnectStep, DisconnectStep,
     PublishCapabilitiesStep, SynchronizeStep, HoldToTalkStartStep, HoldToTalkStopStep,
     FinishStep, DestroyClientStep, DestroySampleAppStep DEF DemoTask
<1>2. CASE Server
  BY <1>2, OnConnectionSuccessfulStep, OnConnectionRejectedStep, OnDisconnectedStep,
     OnCapabilitiesStateChangedStep DEF Server
<1>3. CASE ClientTask
  BY <1>3, StopDemoStep, SetEventStep DEF ClientTask
<1>4. CASE UNCHANGED vars
  BY <1>4, StutterStep
<1> QED
  BY <1>1, <1>2, <1>3, <1>4 DEF Next

LEMMA Invariance == Spec => []IInv
  BY InitInv, Step, PTL DEF Spec

---------------------------------------------------------------------------
(* Types. *)

\* The list of cases is left only from its end.
RangeInv ==
    /\ i \in 1 .. Len(cmd) + 1
    /\ pc \notin {"loop"} \cup FinishPlace => i \in 1 .. Len(cmd)
    /\ stoppedAt \in 0 .. Len(cmd) + 1

ValueInv ==
    /\ audioEnabled \in BOOLEAN
    /\ registrationManager \in BOOLEAN
    /\ capState \in CapabilityState
    /\ aia_eg \subseteq {"CONNECTED", "DISCONNECTED", "CAP_CHANGED"}
    /\ capabilities \in CapabilityState \cup {"unpublished", "publishing"}
    /\ callback \in {"none", "stopDemo", "setConnected", "setDisconnected", "setCapChanged"}
    /\ expired \subseteq Place

LEMMA CasesAreNumbered == Len(cmd) \in 5 .. 6
  BY Commands

LEMMA InitTypes == Init => RangeInv /\ ValueInv
<1> SUFFICES ASSUME Init PROVE RangeInv /\ ValueInv
  OBVIOUS
<1>1. RangeInv
  BY CasesAreNumbered DEF Init, RangeInv
<1>2. ValueInv
  BY DEF Init, ValueInv, CapabilityState
<1> QED
  BY <1>1, <1>2

\* No step but the first of a case and the end of one moves within the list.
LEMMA RangeKept ==
    ASSUME IInv, RangeInv, [Next]_vars
    PROVE  RangeInv'
<1>1. cmd' = cmd
  BY DEF Next, DemoTask, Server, ClientTask, cmd, vars
<1>2. i \in Nat /\ Len(cmd) \in 5 .. 6
  BY CasesAreNumbered DEF RangeInv
<1> HIDE DEF cmd
<1> USE <1>1, <1>2 DEF RangeInv, FinishPlace, Goto, EndCase, Abort, Wait, WaitAndEndCase, Read,
        WriteToRunDemo, AskToDisconnect
<1>3. CASE DemoTask
  <2>1. CASE Register \/ InitAiaClient \/ Loop
    BY <2>1 DEF Register, InitAiaClient, Loop
  <2>2. CASE Connect
    BY <2>2 DEF Connect, AtCase
  <2>3. CASE Disconnect \/ Synchronize
    BY <2>3 DEF Disconnect, Synchronize, AtCase
  <2>4. CASE PublishCapabilities
    BY <2>4 DEF PublishCapabilities, AtCase
  <2>5. CASE HoldToTalkStart
    BY <2>5 DEF HoldToTalkStart, AtCase
  <2>6. CASE HoldToTalkStop
    BY <2>6 DEF HoldToTalkStop, AtCase
  <2>7. CASE Finish \/ DestroyClient \/ DestroySampleApp
    BY <2>7 DEF Finish, DestroyClient, DestroySampleApp
  <2> QED
    BY <1>3, <2>1, <2>2, <2>3, <2>4, <2>5, <2>6, <2>7 DEF DemoTask
<1>4. CASE Server
  BY <1>4 DEF Server, OnConnectionSuccessful, OnConnectionRejected, OnDisconnected,
              OnCapabilitiesStateChanged
<1>5. CASE ClientTask
  BY <1>5 DEF ClientTask, StopDemo, SetEvent, SetBit
<1>6. CASE UNCHANGED vars
  BY <1>6 DEF vars
<1> QED
  BY <1>3, <1>4, <1>5, <1>6 DEF Next

LEMMA ValuesKept ==
    ASSUME IInv, ValueInv, [Next]_vars
    PROVE  ValueInv'
<1> USE DEF Goto, EndCase, Abort, Wait, WaitAndEndCase, Read, WriteToRunDemo, AskToDisconnect,
        app, client
<1>1. CASE DemoTask
  <2>1. audioEnabled' = audioEnabled /\ (registrationManager' = registrationManager \/ Register)
    BY <1>1, Zenon
       DEF DemoTask, Register, InitAiaClient, Loop, Connect, Disconnect, PublishCapabilities,
           Synchronize, HoldToTalkStart, HoldToTalkStop, Finish, DestroyClient, DestroySampleApp
  <2>2. /\ capState' \in {capState, "NONE"}
        /\ capabilities' \in {capabilities, "publishing"}
        /\ callback' = callback
    BY <1>1
       DEF DemoTask, Register, InitAiaClient, Loop, Connect, Disconnect, PublishCapabilities,
           Synchronize, HoldToTalkStart, HoldToTalkStop, Finish, DestroyClient, DestroySampleApp
  <2>3. /\ aia_eg' \subseteq aia_eg
        /\ expired' \in {expired, expired \cup {pc}}
    BY <1>1
       DEF DemoTask, Register, InitAiaClient, Loop, Connect, Disconnect, PublishCapabilities,
           Synchronize, HoldToTalkStart, HoldToTalkStop, Finish, DestroyClient, DestroySampleApp
  <2>4. registrationManager' \in BOOLEAN
    BY <2>1, Zenon DEF ValueInv, Register
  <2>5. pc \in Place
    BY DEF IInv, PlaceInv
  <2> QED
    BY <2>1, <2>2, <2>3, <2>4, <2>5 DEF ValueInv, CapabilityState
<1>2. CASE Server \/ ClientTask
  <2>1. audioEnabled' = audioEnabled /\ registrationManager' = registrationManager
    BY <1>2, Zenon
       DEF Server, OnConnectionSuccessful, OnConnectionRejected, OnDisconnected,
           OnCapabilitiesStateChanged, ClientTask, StopDemo, SetEvent, SetBit
  <2>2. /\ capState' \in CapabilityState \cup {capState}
        /\ capabilities' \in CapabilityState \cup {capabilities}
    BY <1>2
       DEF Server, OnConnectionSuccessful, OnConnectionRejected, OnDisconnected,
           OnCapabilitiesStateChanged, ClientTask, StopDemo, SetEvent, SetBit
  <2>3. callback' \in {callback, "none", "setConnected", "setDisconnected", "stopDemo",
                       "setCapChanged"}
    BY <1>2
       DEF Server, OnConnectionSuccessful, OnConnectionRejected, OnDisconnected,
           OnCapabilitiesStateChanged, ClientTask, StopDemo, SetEvent, SetBit
  <2>4. /\ aia_eg' \subseteq aia_eg \cup {"CONNECTED", "DISCONNECTED", "CAP_CHANGED"}
        /\ expired' = expired
    BY <1>2
       DEF Server, OnConnectionSuccessful, OnConnectionRejected, OnDisconnected,
           OnCapabilitiesStateChanged, ClientTask, StopDemo, SetEvent, SetBit
  <2> QED
    BY <2>1, <2>2, <2>3, <2>4 DEF ValueInv
<1>3. CASE UNCHANGED vars
  BY <1>3 DEF vars, ValueInv
<1> QED
  BY <1>1, <1>2, <1>3 DEF Next

---------------------------------------------------------------------------
(* The demo gets on, which is why it ends. *)

\* The places in the order in which a case, and the demo, pass them.
Number ==
    [register |-> 0, init |-> 1, loop |-> 2, call |-> 3, waitConnected |-> 4,
     readConnected |-> 5, setConnected |-> 6, waitDisconnected |-> 7, waitPublished |-> 8,
     readPublished |-> 9, setPublished |-> 10, testPublished |-> 11, waitAccepted |-> 12,
     readAccepted |-> 13, setAccepted |-> 14, waitTalk |-> 15, testTalk |-> 16,
     waitTalking |-> 17, waitStop |-> 18, testStop |-> 19, waitResponse |-> 20,
     closeMicrophone |-> 21, finish |-> 22, waitOffline |-> 23, destroy |-> 24, returned |-> 25,
     destroyed |-> 26]

LEMMA Numbers ==
    /\ Number["register"] = 0 /\ Number["init"] = 1 /\ Number["loop"] = 2
    /\ Number["call"] = 3 /\ Number["waitConnected"] = 4 /\ Number["readConnected"] = 5
    /\ Number["setConnected"] = 6 /\ Number["waitDisconnected"] = 7 /\ Number["waitPublished"] = 8
    /\ Number["readPublished"] = 9 /\ Number["setPublished"] = 10 /\ Number["testPublished"] = 11
    /\ Number["waitAccepted"] = 12 /\ Number["readAccepted"] = 13 /\ Number["setAccepted"] = 14
    /\ Number["waitTalk"] = 15 /\ Number["testTalk"] = 16 /\ Number["waitTalking"] = 17
    /\ Number["waitStop"] = 18 /\ Number["testStop"] = 19 /\ Number["waitResponse"] = 20
    /\ Number["closeMicrophone"] = 21 /\ Number["finish"] = 22 /\ Number["waitOffline"] = 23
    /\ Number["destroy"] = 24 /\ Number["returned"] = 25 /\ Number["destroyed"] = 26
  BY DEF Number

\* A step of the demo's task ends a case or moves on within one.
Advancing == i' > i \/ (i' = i /\ Number[pc'] > Number[pc])

LEMMA DemoTaskAdvances ==
    ASSUME RangeInv, DemoTask
    PROVE  Advancing
<1>1. i \in Nat
  BY CasesAreNumbered DEF RangeInv
<1> HIDE DEF cmd
<1> USE <1>1, Numbers DEF Advancing, Goto, EndCase, Abort, Wait, WaitAndEndCase, Read,
        WriteToRunDemo, AskToDisconnect, AtCase
<1>2. CASE Register
  BY <1>2 DEF Register
<1>3. CASE InitAiaClient
  BY <1>3 DEF InitAiaClient
<1>4. CASE Loop
  <2>1. pc = "loop" /\ pc' \in {"call", "finish"}
    BY <1>4 DEF Loop
  <2>2. i' = i
    BY <1>4 DEF Loop
  <2> QED  BY <2>1, <2>2
<1>5. CASE Connect
  BY <1>5 DEF Connect
<1>6. CASE Disconnect \/ Synchronize
  BY <1>6 DEF Disconnect, Synchronize
<1>7. CASE PublishCapabilities
  BY <1>7 DEF PublishCapabilities
<1>8. CASE HoldToTalkStart
  BY <1>8 DEF HoldToTalkStart
<1>9. CASE HoldToTalkStop
  BY <1>9 DEF HoldToTalkStop
<1>10. CASE Finish \/ DestroyClient \/ DestroySampleApp
  BY <1>10 DEF Finish, DestroyClient, DestroySampleApp
<1> QED
  BY <1>2, <1>3, <1>4, <1>5, <1>6, <1>7, <1>8, <1>9, <1>10 DEF DemoTask

---------------------------------------------------------------------------
(* The theorems. *)

\* Every variable keeps its type: the demo stays in its list of cases, and the event group
\* holds none but the bits it has, whatever the server and the client's task do in between.
THEOREM TypeCorrect == Spec => []TypeOK
<1>1. IInv /\ RangeInv /\ ValueInv => TypeOK
  <2> SUFFICES ASSUME IInv, RangeInv, ValueInv PROVE TypeOK
    OBVIOUS
  <2>1. {value, toRunDemo, isAiaClientConnected, isMicrophoneOpen, isMicrophoneActive,
         registrationManager, aiaClient} \subseteq BOOLEAN
    BY Zenon DEF IInv, FlagInv, ValueInv
  <2>2. pc \in Place /\ link \in {"offline", "connecting", "online", "leaving"}
    BY DEF IInv, PlaceInv, LinkInv
  <2> QED  BY <2>1, <2>2 DEF RangeInv, ValueInv, TypeOK
<1>2. IInv /\ RangeInv /\ ValueInv /\ [Next]_vars => RangeInv' /\ ValueInv'
  BY RangeKept, ValuesKept
<1> QED
  BY <1>1, <1>2, InitTypes, Invariance, PTL DEF Spec

\* Every step of the demo's task is further on, by case or within one, and both are bounded:
\* no case is done twice, no loop waits again, and AiaSampleApp_Run takes finitely many steps
\* whatever the server and the client's task do in between.
THEOREM DemoAdvances == Spec => [][DemoTask => Advancing]_vars
<1>1. RangeInv /\ [Next]_vars => [DemoTask => Advancing]_vars
  BY DemoTaskAdvances
<1>2. IInv /\ RangeInv /\ [Next]_vars => RangeInv'
  BY RangeKept
<1> QED
  BY <1>1, <1>2, InitTypes, Invariance, PTL DEF Spec

\* No case after CAPABILITY runs unless the server has accepted the capabilities, with
\* processDemoCase and the callbacks writing toRunDemo in any order.
THEOREM CasesNeedCapabilitiesHolds == Spec => []CasesNeedCapabilities
<1>1. IInv => CasesNeedCapabilities
  BY DEF IInv, PlaceInv, RunInv, CasesNeedCapabilities
<1> QED
  BY <1>1, Invariance, PTL

\* Once CAPABILITY is over, a disconnection that has been noticed starts no further case.
THEOREM LateDisconnectStopsHolds == Spec => LateDisconnectStops
<1>1. IInv => (stoppedAt > 2 => toRunDemo = FALSE)
  BY DEF IInv, RunInv
<1>2. ASSUME Next, pc = "loop", pc' = "call"
      PROVE  toRunDemo = TRUE
  <2>1. Loop
    BY <1>2 DEF Next, DemoTask, Server, ClientTask, Register, InitAiaClient, Loop, Connect,
       Disconnect, PublishCapabilities, Synchronize, HoldToTalkStart, HoldToTalkStop, Finish,
       DestroyClient, DestroySampleApp, OnConnectionSuccessful, OnConnectionRejected,
       OnDisconnected, OnCapabilitiesStateChanged, StopDemo, SetEvent, SetBit, Goto, EndCase,
       Wait, WaitAndEndCase, Abort, Read, AtCase
  <2> QED  BY <2>1, <1>2 DEF Loop, Goto
<1>3. IInv /\ [Next]_vars => [stoppedAt > 2 => ~ Goto("loop", "call")]_vars
  BY <1>1, <1>2 DEF Goto, vars
<1> QED
  BY <1>3, Invariance, PTL DEF Spec, LateDisconnectStops

\* AiaSampleApp_Run destroys a client that is not offline only after one of its waits timed out.
THEOREM LeavesOfflineHolds == Spec => []LeavesOffline
<1>1. IInv => LeavesOffline
  BY DEF IInv, LinkInv, LeavesOffline
<1> QED
  BY <1>1, Invariance, PTL

\* Who stopped the demo while the microphone streams, or is about to.
StreamingInv ==
    /\ audioEnabled /\ i = 4 /\ pc \in {"call", "waitTalk", "testTalk", "waitTalking"} =>
            toRunDemo = TRUE \/ stoppedAt = 4
    /\ isMicrophoneActive = TRUE => toRunDemo = TRUE \/ stoppedAt \in {4, 5}
    /\ isMicrophoneActive = TRUE /\ pc \in FinishPlace => toRunDemo = FALSE

LEMMA StreamingKept ==
    ASSUME IInv, IInv', StreamingInv, [Next]_vars
    PROVE  StreamingInv'
<1> USE DEF IInv, FlagInv, PlaceInv, MicrophoneInv, StreamingInv, FinishPlace, Goto, EndCase,
            Wait, WaitAndEndCase, Abort, Read, WriteToRunDemo, AskToDisconnect, app, client
<1>1. CASE Register /\ UNCHANGED audioEnabled
  BY <1>1 DEF Register
<1>2. CASE InitAiaClient /\ UNCHANGED audioEnabled
  BY <1>2 DEF InitAiaClient
<1>3. CASE Loop /\ UNCHANGED audioEnabled
  BY <1>3, Commands DEF Loop
<1>4. CASE Connect /\ UNCHANGED audioEnabled
  BY <1>4, CommandAt DEF Connect, AtCase
<1>5. CASE Disconnect /\ UNCHANGED audioEnabled
  BY <1>5, CommandAt DEF Disconnect, AtCase
<1>6. CASE PublishCapabilities /\ UNCHANGED audioEnabled
  BY <1>6, CommandAt DEF PublishCapabilities, AtCase
<1>7. CASE Synchronize /\ UNCHANGED audioEnabled
  BY <1>7, CommandAt DEF Synchronize, AtCase
<1>8. CASE HoldToTalkStart /\ UNCHANGED audioEnabled
  BY <1>8, CommandAt DEF HoldToTalkStart, AtCase
<1>9. CASE HoldToTalkStop /\ UNCHANGED audioEnabled
  BY <1>9, CommandAt DEF HoldToTalkStop, AtCase
<1>10. CASE Finish /\ UNCHANGED audioEnabled
  BY <1>10 DEF Finish
<1>11. CASE (DestroyClient \/ DestroySampleApp) /\ UNCHANGED audioEnabled
  BY <1>11 DEF DestroyClient, DestroySampleApp
<1>12. CASE Server
  BY <1>12 DEF Server, OnConnectionSuccessful, OnConnectionRejected, OnDisconnected,
               OnCapabilitiesStateChanged
<1>13. CASE ClientTask
  BY <1>13 DEF ClientTask, StopDemo, SetEvent, SetBit
<1>14. CASE UNCHANGED vars
  BY <1>14 DEF vars
<1> QED
  BY <1>1, <1>2, <1>3, <1>4, <1>5, <1>6, <1>7, <1>8, <1>9, <1>10, <1>11, <1>12, <1>13, <1>14
  DEF Next, DemoTask

\* In both builds: the microphone streams only during the conversation it was opened for, and
\* beyond the last case only if a disconnection stopped the demo in the middle of it.
THEOREM StopsStreamingHolds == Spec => []StopsStreaming
<1>1. Init => StreamingInv
  BY DEF Init, StreamingInv
<1>2. IInv /\ StreamingInv => StopsStreaming
  <2> SUFFICES ASSUME IInv, StreamingInv, isMicrophoneActive
               PROVE  /\ isMicrophoneOpen /\ ~ AtCase("DISCONNECT")
                      /\ pc \in AfterLastCase => stoppedAt \in Talking
    BY DEF StopsStreaming
  <2>1. isMicrophoneActive = TRUE /\ audioEnabled /\ isMicrophoneOpen = TRUE /\ i \in {4, 5}
    BY DEF IInv, FlagInv, MicrophoneInv
  <2>2. ~ AtCase("DISCONNECT")
    BY <2>1, CommandAt DEF IInv, AtCase
  <2>3. ASSUME pc \in AfterLastCase PROVE stoppedAt \in {4, 5}
    BY <2>1, <2>3 DEF StreamingInv, AfterLastCase, FinishPlace
  <2>4. 4 \in Talking /\ 5 \in Talking
    BY <2>1 DEF Talking, cmd
  <2> QED  BY <2>1, <2>2, <2>3, <2>4
<1>3. IInv /\ IInv' /\ StreamingInv /\ [Next]_vars => StreamingInv'
  BY StreamingKept
<1> QED
  BY <1>1, <1>2, <1>3, Invariance, PTL DEF Spec
=============================================================================
