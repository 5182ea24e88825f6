----------------------------- MODULE DemoRunner -----------------------------
(***************************************************************************)
(* AiaSampleApp_Run of demos/aia/aia_sample_app.c: the demo task runs a    *)
(* fixed list of cases against the AIA client, waiting on an event group   *)
(* for at most a few seconds at a time, while the client's own task calls  *)
(* back with what the server did.  The two share plain fields of the       *)
(* sample app, toRunDemo among them, and a statement that reads one and    *)
(* writes another is two steps.                                            *)
(*                                                                         *)
(* The client is external, and modelled by what the code can see of it.    *)
(* shouldPublishEvent is written by three callbacks and read by nothing,   *)
(* and is left out.                                                        *)
(***************************************************************************)
EXTENDS Integers, Sequences

VARIABLES
    audioEnabled,           \* the build: whether AIA_DEMO_AUDIO_ENABLE is defined
    pc,                     \* the statement the demo task is at
    i,                      \* the demo case it runs
    value,                  \* what it read of a shared field, and is about to write
    toRunDemo,
    isAiaClientConnected,
    capState,
    isMicrophoneOpen,
    isMicrophoneActive,
    aia_eg,                 \* the bits set in the event group
    registrationManager,    \* whether there is one
    aiaClient,              \* whether there is one
    link,                   \* the client's connection to AIA
    capabilities,           \* how far the client's publishing of capabilities got
    callback,               \* the statement the client's task is at, in a callback
    expired,                \* history: the waits that ended with no bit set
    stoppedAt               \* history: i when a disconnection stopped the demo, or 0

app == <<toRunDemo, isAiaClientConnected, capState, isMicrophoneOpen, isMicrophoneActive>>
client == <<aiaClient, link, capabilities, callback>>
vars == <<audioEnabled, pc, i, value, app, aia_eg, registrationManager, client, expired, stoppedAt>>

\* A wrong cmd: nothing stops the microphone.
CmdWithoutStop ==
    <<"CONNECT", "CAPABILITY", "SYNC_ST", "HOLD_TO_TALK_START", "DISCONNECT">>

cmd == IF audioEnabled
       THEN <<"CONNECT", "CAPABILITY", "SYNC_ST", "HOLD_TO_TALK_START",
              "HOLD_TO_TALK_STOP", "DISCONNECT">>
       ELSE <<"CONNECT", "CAPABILITY", "SYNC_ST", "SYNC_TIME", "DISCONNECT">>

CapabilityState == {"NONE", "PUBLISHED", "ACCEPTED", "REJECTED"}

Init == /\ audioEnabled \in BOOLEAN
        /\ pc = "register"
        /\ i = 1
        /\ value = FALSE
        /\ toRunDemo = TRUE
        /\ isAiaClientConnected = FALSE
        /\ capState = "NONE"
        /\ isMicrophoneOpen = FALSE
        /\ isMicrophoneActive = FALSE
        /\ aia_eg = {}
        /\ registrationManager = FALSE
        /\ aiaClient = FALSE
        /\ link = "offline"
        /\ capabilities = "unpublished"
        /\ callback = "none"
        /\ expired = {}
        /\ stoppedAt = 0

Goto(from, to) == pc = from /\ pc' = to

\* A wrong EndCase: both the case and the loop count.
EndCaseTwice(from) == Goto(from, "loop") /\ i' = i + 2

\* On to the next demo case, from within one.
EndCase(from) == Goto(from, "loop") /\ i' = i + 1

AtCase(case) == pc = "call" /\ cmd[i] = case

---------------------------------------------------------------------------
(* The demo task, up to the first case and from one case to the next. *)

\* registerAia.  The manager outlives a registration that no callback reports on.
Register ==
    /\ \/ /\ Goto("register", "returned")
          /\ toRunDemo' = FALSE
          /\ UNCHANGED registrationManager
       \/ /\ Goto("register", "init")
          /\ registrationManager' \in BOOLEAN
          /\ UNCHANGED toRunDemo
    /\ UNCHANGED <<i, value, isAiaClientConnected, capState, isMicrophoneOpen,
                   isMicrophoneActive, aia_eg, client, expired, stoppedAt>>

InitAiaClient ==
    /\ \/ Goto("init", "returned") /\ toRunDemo' = FALSE /\ UNCHANGED aiaClient
       \/ Goto("init", "loop") /\ aiaClient' = TRUE /\ UNCHANGED toRunDemo
    /\ UNCHANGED <<i, value, isAiaClientConnected, capState, isMicrophoneOpen,
                   isMicrophoneActive, aia_eg, registrationManager,
                   link, capabilities, callback, expired, stoppedAt>>

Loop == /\ \/ i <= Len(cmd) /\ toRunDemo /\ Goto("loop", "call")
           \/ ~ (i <= Len(cmd) /\ toRunDemo) /\ Goto("loop", "finish")
        /\ UNCHANGED <<i, value, app, aia_eg, registrationManager, client, expired, stoppedAt>>

\* A wrong Wait: no time is ever over.
WaitForever(from, bits, to) ==
    /\ aia_eg \cap bits # {}
    /\ Goto(from, to)
    /\ aia_eg' = aia_eg \ bits
    /\ UNCHANGED <<i, value, app, registrationManager, client, expired, stoppedAt>>

\* AIA_DEMO_EG_WAIT: returns once one of the bits is set, or the time is over, and
\* clears them either way.
Wait(from, bits, to) ==
    /\ Goto(from, to)
    /\ aia_eg' = aia_eg \ bits
    /\ expired' = IF aia_eg \cap bits = {} THEN expired \cup {from} ELSE expired
    /\ UNCHANGED <<i, value, app, registrationManager, client, stoppedAt>>

WaitAndEndCase(from, bits) ==
    /\ EndCase(from)
    /\ aia_eg' = aia_eg \ bits
    /\ expired' = IF aia_eg \cap bits = {} THEN expired \cup {from} ELSE expired
    /\ UNCHANGED <<value, app, registrationManager, client, stoppedAt>>

\* A case that cannot go on: toRunDemo = false; return.
Abort(from) ==
    /\ EndCase(from)
    /\ toRunDemo' = FALSE
    /\ UNCHANGED <<value, isAiaClientConnected, capState, isMicrophoneOpen,
                   isMicrophoneActive, aia_eg, registrationManager, client, expired, stoppedAt>>

\* The right side of an assignment to toRunDemo, and the assignment.
Read(from, condition, to) ==
    /\ Goto(from, to)
    /\ value' = condition
    /\ UNCHANGED <<i, app, aia_eg, registrationManager, client, expired, stoppedAt>>

\* A wrong WriteToRunDemo: a condition that fails does not stop the demo.
WriteToRunDemoIfTrue ==
    /\ toRunDemo' = (toRunDemo \/ value)
    /\ UNCHANGED <<value, isAiaClientConnected, capState, isMicrophoneOpen, isMicrophoneActive,
                   aia_eg, registrationManager, client, expired, stoppedAt>>

WriteToRunDemo ==
    /\ toRunDemo' = value
    /\ UNCHANGED <<value, isAiaClientConnected, capState, isMicrophoneOpen, isMicrophoneActive,
                   aia_eg, registrationManager, client, expired, stoppedAt>>

---------------------------------------------------------------------------
(* processDemoCase. *)

Connect ==
    \/ /\ AtCase("CONNECT")
       /\ \/ Abort("call")
          \/ /\ Goto("call", "waitConnected")
             /\ link' = "connecting"
             /\ UNCHANGED <<i, value, app, aia_eg, registrationManager, aiaClient,
                            capabilities, callback, expired, stoppedAt>>
    \/ Wait("waitConnected", {"CONNECTED"}, "readConnected")
    \/ Read("readConnected", isAiaClientConnected, "setConnected")
    \/ EndCase("setConnected") /\ WriteToRunDemo

\* AiaClient_Disconnect: refused, or under way if there is a connection.
AskToDisconnect ==
    /\ \/ UNCHANGED link
       \/ link = "online" /\ link' = "leaving"
    /\ UNCHANGED <<i, value, app, aia_eg, registrationManager, aiaClient, capabilities,
                   callback, expired, stoppedAt>>

Disconnect ==
    \/ AtCase("DISCONNECT") /\ Goto("call", "waitDisconnected") /\ AskToDisconnect
    \/ WaitAndEndCase("waitDisconnected", {"DISCONNECTED"})

PublishCapabilities ==
    \/ /\ AtCase("CAPABILITY")
       /\ \/ Abort("call")
          \/ /\ Goto("call", "waitPublished")
             /\ capabilities' = "publishing"
             /\ UNCHANGED <<i, value, app, aia_eg, registrationManager, aiaClient,
                            link, callback, expired, stoppedAt>>
    \/ Wait("waitPublished", {"CAP_CHANGED"}, "readPublished")
    \/ Read("readPublished", capState = "PUBLISHED", "setPublished")
    \/ Goto("setPublished", "testPublished") /\ WriteToRunDemo /\ UNCHANGED i
    \/ /\ \/ toRunDemo /\ Goto("testPublished", "waitAccepted") /\ UNCHANGED i
          \/ ~ toRunDemo /\ EndCase("testPublished")
       /\ UNCHANGED <<value, app, aia_eg, registrationManager, client, expired, stoppedAt>>
    \/ Wait("waitAccepted", {"CAP_CHANGED"}, "readAccepted")
    \/ Read("readAccepted", capState = "ACCEPTED", "setAccepted")
    \/ EndCase("setAccepted") /\ WriteToRunDemo

\* A wrong Synchronize: toRunDemo takes the result of the publication.
SynchronizeResumes ==
    /\ AtCase("SYNC_ST") \/ AtCase("SYNC_TIME")
    /\ EndCase("call")
    /\ toRunDemo' \in BOOLEAN
    /\ UNCHANGED <<value, isAiaClientConnected, capState, isMicrophoneOpen, isMicrophoneActive,
                   aia_eg, registrationManager, client, expired, stoppedAt>>

\* SYNC_ST and SYNC_TIME.
Synchronize ==
    /\ AtCase("SYNC_ST") \/ AtCase("SYNC_TIME")
    /\ \/ Abort("call")
       \/ /\ EndCase("call")
          /\ UNCHANGED <<value, app, aia_eg, registrationManager, client, expired, stoppedAt>>

HoldToTalkStart ==
    \/ /\ AtCase("HOLD_TO_TALK_START")
       /\ pc' = IF isMicrophoneOpen THEN "loop" ELSE "waitTalk"
       /\ i' = IF isMicrophoneOpen THEN i + 1 ELSE i
       /\ isMicrophoneOpen' = TRUE
       /\ UNCHANGED <<value, toRunDemo, isAiaClientConnected, capState, isMicrophoneActive,
                      aia_eg, registrationManager, client, expired, stoppedAt>>
    \/ Wait("waitTalk", {"DISCONNECTED"}, "testTalk")
    \/ "DISCONNECTED" \notin aia_eg /\ Abort("testTalk")
    \/ /\ \/ /\ "DISCONNECTED" \notin aia_eg
             /\ Goto("testTalk", "waitTalking")
             /\ isMicrophoneActive' = TRUE
             /\ UNCHANGED i
          \/ "DISCONNECTED" \in aia_eg /\ EndCase("testTalk") /\ UNCHANGED isMicrophoneActive
       /\ UNCHANGED <<value, toRunDemo, isAiaClientConnected, capState, isMicrophoneOpen,
                      aia_eg, registrationManager, client, expired, stoppedAt>>
    \/ WaitAndEndCase("waitTalking", {"DISCONNECTED"})

HoldToTalkStop ==
    \/ /\ AtCase("HOLD_TO_TALK_STOP")
       /\ pc' = IF isMicrophoneOpen THEN "waitStop" ELSE "loop"
       /\ i' = IF isMicrophoneOpen THEN i ELSE i + 1
       /\ isMicrophoneActive' = (isMicrophoneActive /\ ~ isMicrophoneOpen)
       /\ UNCHANGED <<value, toRunDemo, isAiaClientConnected, capState, isMicrophoneOpen,
                      aia_eg, registrationManager, client, expired, stoppedAt>>
    \/ Wait("waitStop", {"DISCONNECTED"}, "testStop")
    \/ /\ \/ "DISCONNECTED" \notin aia_eg /\ Goto("testStop", "waitResponse") /\ UNCHANGED i
          \/ "DISCONNECTED" \in aia_eg /\ EndCase("testStop")
       /\ UNCHANGED <<value, app, aia_eg, registrationManager, client, expired, stoppedAt>>
    \/ Wait("waitResponse", {"DISCONNECTED"}, "closeMicrophone")
    \/ /\ EndCase("closeMicrophone")
       /\ isMicrophoneOpen' = FALSE
       /\ UNCHANGED <<value, toRunDemo, isAiaClientConnected, capState, isMicrophoneActive,
                      aia_eg, registrationManager, client, expired, stoppedAt>>

---------------------------------------------------------------------------
(* The demo task, from the last case on. *)

Finish ==
    \/ isAiaClientConnected /\ Goto("finish", "waitOffline") /\ AskToDisconnect
    \/ /\ ~ isAiaClientConnected
       /\ Goto("finish", "destroy")
       /\ UNCHANGED <<i, value, app, aia_eg, registrationManager, client, expired, stoppedAt>>
    \/ Wait("waitOffline", {"DISCONNECTED"}, "destroy")

\* The client waits for its callbacks before it goes.
DestroyClient ==
    /\ callback = "none"
    /\ Goto("destroy", "returned")
    /\ aiaClient' = FALSE
    /\ toRunDemo' = FALSE
    /\ UNCHANGED <<i, value, isAiaClientConnected, capState, isMicrophoneOpen,
                   isMicrophoneActive, aia_eg, registrationManager, link, capabilities,
                   callback, expired, stoppedAt>>

\* AiaSampleApp_Destroy leaves the registration manager alone.
DestroySampleApp ==
    /\ Goto("returned", "destroyed")
    /\ toRunDemo' = FALSE
    /\ isAiaClientConnected' = FALSE
    /\ capState' = "NONE"
    /\ aia_eg' = {}
    /\ UNCHANGED <<i, value, isMicrophoneOpen, isMicrophoneActive, registrationManager, client,
                   expired, stoppedAt>>

---------------------------------------------------------------------------
(* The client's task: what the server did, and the first statement of the  *)
(* callback that tells the app.                                            *)

ClientIsFree == aiaClient /\ callback = "none"

\* A wrong OnConnectionSuccessful: it only sets the bit.
OnConnectionSuccessfulUnrecorded ==
    /\ ClientIsFree
    /\ link = "connecting"
    /\ link' = "online"
    /\ callback' = "setConnected"
    /\ UNCHANGED <<pc, i, value, app, aia_eg, registrationManager, aiaClient, capabilities,
                   expired, stoppedAt>>

OnConnectionSuccessful ==
    /\ ClientIsFree
    /\ link = "connecting"
    /\ link' = "online"
    /\ isAiaClientConnected' = TRUE
    /\ callback' = "setConnected"
    /\ UNCHANGED <<pc, i, value, toRunDemo, capState, isMicrophoneOpen, isMicrophoneActive,
                   aia_eg, registrationManager, aiaClient, capabilities, expired, stoppedAt>>

\* No bit is set and no field written: the demo task waits its time out.
OnConnectionRejected ==
    /\ ClientIsFree
    /\ link = "connecting"
    /\ link' = "offline"
    /\ UNCHANGED <<pc, i, value, app, aia_eg, registrationManager, aiaClient, capabilities,
                   callback, expired, stoppedAt>>

\* The server's doing, or the answer to AiaClient_Disconnect.
OnDisconnected ==
    /\ ClientIsFree
    /\ link \in {"online", "leaving"}
    /\ link' = "offline"
    /\ isAiaClientConnected' = FALSE
    /\ callback' = "stopDemo"
    /\ UNCHANGED <<pc, i, value, toRunDemo, capState, isMicrophoneOpen, isMicrophoneActive,
                   aia_eg, registrationManager, aiaClient, capabilities, expired, stoppedAt>>

StopDemo ==
    /\ callback = "stopDemo"
    /\ toRunDemo' = FALSE
    /\ callback' = "setDisconnected"
    /\ stoppedAt' = i
    /\ UNCHANGED <<pc, i, value, isAiaClientConnected, capState, isMicrophoneOpen,
                   isMicrophoneActive, aia_eg, registrationManager, aiaClient, link,
                   capabilities, expired>>

\* The client has sent its capabilities, or the server, if it is there, answered them.
OnCapabilitiesStateChanged(state) ==
    /\ ClientIsFree
    /\ \/ capabilities = "publishing" /\ state = "PUBLISHED"
       \/ capabilities = "PUBLISHED" /\ state \in {"ACCEPTED", "REJECTED"} /\ link = "online"
    /\ capabilities' = state
    /\ capState' = state
    /\ callback' = "setCapChanged"
    /\ UNCHANGED <<pc, i, value, toRunDemo, isAiaClientConnected, isMicrophoneOpen,
                   isMicrophoneActive, aia_eg, registrationManager, aiaClient, link,
                   expired, stoppedAt>>

\* AIA_DEMO_EG_SET, the last statement of a callback.
SetBit(at, bit) ==
    /\ callback = at
    /\ callback' = "none"
    /\ aia_eg' = aia_eg \cup {bit}
    /\ UNCHANGED <<pc, i, value, app, registrationManager, aiaClient, link, capabilities,
                   expired, stoppedAt>>

SetEvent == \/ SetBit("setConnected", "CONNECTED")
            \/ SetBit("setDisconnected", "DISCONNECTED")
            \/ SetBit("setCapChanged", "CAP_CHANGED")

---------------------------------------------------------------------------
DemoTask ==
    /\ \/ Register \/ InitAiaClient \/ Loop
       \/ Connect \/ Disconnect \/ PublishCapabilities \/ Synchronize
       \/ HoldToTalkStart \/ HoldToTalkStop
       \/ Finish \/ DestroyClient \/ DestroySampleApp
    /\ UNCHANGED audioEnabled

Server ==
    /\ \/ OnConnectionSuccessful \/ OnConnectionRejected \/ OnDisconnected
       \/ \E state \in CapabilityState : OnCapabilitiesStateChanged(state)
    /\ UNCHANGED audioEnabled

ClientTask ==
    /\ StopDemo \/ SetEvent
    /\ UNCHANGED audioEnabled

Next == DemoTask \/ Server \/ ClientTask

Spec == Init /\ [][Next]_vars

\* Both tasks get the processor, and a wait ends when its time is over.  Nothing is
\* assumed of the server.
FairSpec == Spec /\ WF_vars(DemoTask) /\ WF_vars(ClientTask)

---------------------------------------------------------------------------
(* Properties. *)

Place == {"register", "init", "loop", "call", "waitConnected", "readConnected", "setConnected",
          "waitDisconnected", "waitPublished", "readPublished", "setPublished", "testPublished",
          "waitAccepted", "readAccepted", "setAccepted", "waitTalk", "testTalk", "waitTalking",
          "waitStop", "testStop", "waitResponse", "closeMicrophone", "finish", "waitOffline",
          "destroy", "returned", "destroyed"}

TypeOK ==
    /\ audioEnabled \in BOOLEAN
    /\ pc \in Place
    /\ i \in 1 .. Len(cmd) + 1
    /\ {value, toRunDemo, isAiaClientConnected, isMicrophoneOpen, isMicrophoneActive,
        registrationManager, aiaClient} \subseteq BOOLEAN
    /\ capState \in CapabilityState
    /\ aia_eg \subseteq {"CONNECTED", "DISCONNECTED", "CAP_CHANGED"}
    /\ link \in {"offline", "connecting", "online", "leaving"}
    /\ capabilities \in CapabilityState \cup {"unpublished", "publishing"}
    /\ callback \in {"none", "stopDemo", "setConnected", "setDisconnected", "setCapChanged"}
    /\ expired \subseteq Place
    /\ stoppedAt \in 0 .. Len(cmd) + 1

\* Whatever the order in which callbacks overwrite toRunDemo and the demo task does, no
\* case after CAPABILITY runs unless the server has accepted the capabilities.
CasesNeedCapabilities == pc = "call" /\ i > 2 => capabilities = "ACCEPTED"

\* A disconnection that stops the demo once CAPABILITY is over starts no further case:
\* nothing sets toRunDemo again.
LateDisconnectStops == [][stoppedAt > 2 => ~ Goto("loop", "call")]_vars

\* AiaSampleApp_Run destroys a client that is not offline only if a wait of five seconds,
\* the one for the connection or its own one for the disconnection, went by in vain.
LeavesOffline ==
    pc = "destroy" /\ link # "offline" => {"waitConnected", "waitOffline"} \cap expired # {}

\* The case HOLD_TO_TALK_START starts the microphone, HOLD_TO_TALK_STOP stops it, and the
\* demo may end between the two.  It streams only during the conversation it was opened for
\* and never when the demo disconnects; and it streams on while the client is destroyed, and
\* after that, only if a disconnection stopped the demo before the second of the cases.
Talking == {n \in DOMAIN cmd : cmd[n] \in {"HOLD_TO_TALK_START", "HOLD_TO_TALK_STOP"}}
AfterLastCase == {"finish", "waitOffline", "destroy", "returned", "destroyed"}
StopsStreaming ==
    isMicrophoneActive =>
        /\ isMicrophoneOpen
        /\ ~ AtCase("DISCONNECT")
        /\ pc \in AfterLastCase => stoppedAt \in Talking

\* The demo comes to an end, whether the server answers or not.
Terminates == <>(pc = "destroyed")

\* "Stop demo because client is disconnected now", says the callback.
DisconnectStopsDemo == [][stoppedAt > 0 => ~ Goto("loop", "call")]_vars
=============================================================================
