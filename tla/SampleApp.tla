------------------------------ MODULE SampleApp ------------------------------
(***************************************************************************)
(* What the demo acquires and gives back: RunAiaDemo of                    *)
(* demos/aia/aia_sample_main.c, and AiaSampleApp_Create and                *)
(* AiaSampleApp_Destroy of demos/aia/aia_sample_app.c, with the microphone *)
(* recorder's, one resource a step.  AiaSampleApp_Run is the registration  *)
(* (module Registration, with its request), the life of the AIA client and *)
(* what a run itself destroys; the rest of it is of the modules            *)
(* DemoRunner, MicRecorder and OfflineAlert.                               *)
(***************************************************************************)
EXTENDS Registration

VARIABLES
    enabled,    \* the build: which of AIA_DEMO_AUDIO_ENABLE, AIA_ENABLE_SPEAKER it defines
    credentials,\* whether the demo was started with an interface and credentials
    stage,      \* the function, or the part of RunAiaDemo, that runs
    k,          \* how far AiaSampleApp_Create got
    todo,       \* what is left to give back, in order
    held,       \* the resources there are
    configured, \* whether the strings of the getters are set
    status      \* what RunAiaDemo returns

app == <<enabled, credentials, k, todo, held, configured, status>>
registration == <<at, registrationManager, managers, registered, request, https>>
appVars == <<app, stage, registration>>

If(macro, resources) == IF macro \in enabled THEN resources ELSE <<>>

\* What AiaPortAudioMicrophoneRecorder_Create acquires, and what the recorder's
\* AiaPortAudioMicrophoneRecorder_Destroy gives back.
RecorderSteps == <<"portAudio", "recorder", "recorderMutex", "paStream">>
RecorderDestroySteps == <<"paStream", "portAudio", "recorderMutex", "recorder">>

\* What AiaSampleApp_Create acquires; "seed" is the seed of the random generator.
CreateSteps ==
    <<"threading", "random", "crypto", "seed", "sampleApp", "rawMicrophoneBuffer",
      "microphoneBuffer", "microphoneBufferReader", "microphoneBufferWriter">>
    \o If("AUDIO", RecorderSteps \o <<"opusDecoder", "portAudioSpeaker">>)
    \o If("SPEAKER", <<"offlineAlertPlaybackTimer">>)
    \o <<"aia_eg">>

Step == CreateSteps[k]

\* A wrong RecorderCleanupAfter: without a mutex PortAudio stays initialised.
RecorderCleanupForgetsPortAudio(step) ==
    CASE step = "portAudio"     -> <<>>
      [] step = "recorder"      -> <<"portAudio">>
      [] step = "recorderMutex" -> <<"recorder">>
      [] step = "paStream"      -> <<"recorderMutex", "recorder", "portAudio">>

\* The failure paths of AiaPortAudioMicrophoneRecorder_Create.
RecorderCleanupAfter(step) ==
    CASE step = "portAudio"     -> <<>>
      [] step = "recorder"      -> <<"portAudio">>
      [] step = "recorderMutex" -> <<"recorder", "portAudio">>
      [] step = "paStream"      -> <<"recorderMutex", "recorder", "portAudio">>

\* The calls on the failure path of a step of AiaSampleApp_Create, each path written out by
\* hand.  A seed cannot be given back.
CleanupAfter(step) ==
    LET crypto    == <<"crypto", "random", "threading">>
        sampleApp == <<"sampleApp">> \o crypto
        buffers   == <<"microphoneBufferWriter", "microphoneBufferReader", "microphoneBuffer",
                       "rawMicrophoneBuffer">> \o sampleApp
        audio     == <<"opusDecoder">> \o RecorderDestroySteps
    IN  CASE step = "crypto"                    -> Tail(crypto)
          [] step \in {"seed", "sampleApp"}     -> crypto
          [] step = "rawMicrophoneBuffer"       -> sampleApp
          [] step = "microphoneBuffer"          -> <<"rawMicrophoneBuffer">> \o sampleApp
          [] step = "microphoneBufferReader"    -> Tail(Tail(buffers))
          [] step = "microphoneBufferWriter"    -> Tail(buffers)
          [] step \in {"portAudio", "recorder", "recorderMutex", "paStream"} ->
                 RecorderCleanupAfter(step) \o buffers
          [] step = "opusDecoder"               -> RecorderDestroySteps \o buffers
          [] step = "portAudioSpeaker"          -> audio \o buffers
          [] step = "offlineAlertPlaybackTimer" ->
                 If("AUDIO", <<"portAudioSpeaker">> \o audio) \o buffers

\* A wrong DestroySteps: the buffer goes before its reader.
DestroyStepsBufferFirst ==
    If("SPEAKER", <<"offlineAlertPlaybackTimer">>)
    \o If("AUDIO", <<"portAudioSpeaker", "opusDecoder">> \o RecorderDestroySteps)
    \o <<"microphoneBufferWriter", "microphoneBuffer", "microphoneBufferReader",
         "rawMicrophoneBuffer", "sampleApp", "crypto", "random", "threading", "aia_eg">>

\* A wrong DestroySteps: the client is destroyed without a look whether there is one.
DestroyStepsUnchecked ==
    If("SPEAKER", <<"offlineAlertPlaybackTimer">>)
    \o If("AUDIO", <<"portAudioSpeaker", "opusDecoder">> \o RecorderDestroySteps)
    \o <<"aiaClient", "microphoneBufferWriter", "microphoneBufferReader", "microphoneBuffer",
         "rawMicrophoneBuffer", "sampleApp", "crypto", "random", "threading", "aia_eg">>

\* What AiaSampleApp_Destroy gives back.  The AIA client would come after the recorder, if
\* AiaSampleApp_Run ever left one.
DestroySteps ==
    If("SPEAKER", <<"offlineAlertPlaybackTimer">>)
    \o If("AUDIO", <<"portAudioSpeaker", "opusDecoder">> \o RecorderDestroySteps)
    \o (IF "aiaClient" \in held THEN <<"aiaClient">> ELSE <<>>)
    \o <<"microphoneBufferWriter", "microphoneBufferReader", "microphoneBuffer",
         "rawMicrophoneBuffer", "sampleApp", "crypto", "random", "threading", "aia_eg">>

AppInit == /\ enabled \in SUBSET {"AUDIO", "SPEAKER"}
           /\ credentials \in BOOLEAN
           /\ stage = "initialize"
           /\ k = 1
           /\ todo = <<>>
           /\ held = {}
           /\ configured = FALSE
           /\ status = "EXIT_SUCCESS"
           /\ Init

From(this, to) == stage = this /\ stage' = to

---------------------------------------------------------------------------
\* A wrong InitializeDemo: it returns the status of the library.
InitializeDemoUnmapped ==
    /\ \/ From("initialize", "connect") /\ held' = {"libraries"} /\ UNCHANGED status
       \/ From("initialize", "returned") /\ status' = "IOT_MQTT_NO_MEMORY" /\ UNCHANGED held
    /\ UNCHANGED <<enabled, credentials, k, todo, configured, registration>>

\* _initializeDemo.
InitializeDemo ==
    /\ \/ From("initialize", "connect") /\ held' = {"libraries"} /\ UNCHANGED status
       \/ From("initialize", "returned") /\ status' = "EXIT_FAILURE" /\ UNCHANGED held
    /\ UNCHANGED <<enabled, credentials, k, todo, configured, registration>>

\* _establishMqttConnection, which is called until it succeeds.
EstablishMqttConnection ==
    /\ From("connect", "create")
    /\ held' = held \cup {"mqttConnection"}
    /\ UNCHANGED <<enabled, credentials, k, todo, configured, status, registration>>

\* A step of AiaSampleApp_Create.  The last one also sets the strings of the getters, and
\* does not look at the result of xEventGroupCreate.
Create ==
    /\ \/ k # Len(CreateSteps) /\ From("create", "create") /\ UNCHANGED configured
       \/ k = Len(CreateSteps) /\ From("create", "store") /\ configured' = TRUE
    /\ \/ held' = held \cup {Step}
       \/ Step = "aia_eg" /\ UNCHANGED held
    /\ k' = k + 1
    /\ UNCHANGED <<enabled, credentials, todo, status, registration>>

CreateFails ==
    /\ From("create", "cleanup")
    /\ Step \notin {"threading", "random", "aia_eg"}
    /\ todo' = CleanupAfter(Step)
    /\ UNCHANGED <<enabled, credentials, k, held, configured, status, registration>>

\* One call of a failure path or of AiaSampleApp_Destroy.
Release ==
    /\ stage \in {"cleanup", "destroy"}
    /\ todo # <<>>
    /\ held' = held \ {Head(todo)}
    /\ todo' = Tail(todo)
    /\ UNCHANGED <<enabled, credentials, stage, k, configured, status, registration>>

\* AiaSampleApp_Create returned NULL, and RunAiaDemo returns too.
CreateReturnsNull ==
    /\ From("cleanup", "returned")
    /\ todo = <<>>
    /\ status' = "EXIT_FAILURE"
    /\ UNCHANGED <<enabled, credentials, k, todo, held, configured, registration>>

\* AiaHttpStoreNetworkInfo, with what the demo was started with.  Nobody looks at what it
\* returns: without an interface or credentials the run begins with nothing stored.
StoreBeforeRun ==
    /\ From("store", "register")
    /\ StoreNetworkInfo
    /\ networkInfo' = (credentials \/ networkInfo)
    /\ UNCHANGED app

\* registerAia, up to its return.
RegisterAia ==
    /\ \/ From("register", "registering") /\ CreateManager /\ at' # "idle"
       \/ From("register", "ran") /\ CreateManager /\ at' = "idle"
       \/ /\ From("registering", "registering")
          /\ Register \/ SendRequest \/ Send \/ OnAnswer
             \/ \E x \in Identity : ReadIdentity(x)
       \/ From("registering", "client") /\ RegisterReturns /\ at' = "idle"
       \/ From("registering", "registering") /\ RegisterReturns /\ at' # "idle"
       \/ From("registering", "ran") /\ Undo
    /\ UNCHANGED app

\* initAiaClient.
InitAiaClient ==
    /\ \/ From("client", "run") /\ held' = held \cup {"aiaClient"}
       \/ From("client", "ran") /\ UNCHANGED held
    /\ UNCHANGED <<enabled, credentials, k, todo, configured, status, registration>>

\* What a run may destroy before AiaSampleApp_Destroy does: onStopOfflineAlertTone and
\* onPlayOfflineAlertTone destroy the alert timer and may fail to make it again, and
\* onStartOfflineAlertTone destroys it if it cannot be armed; the recorder closes its stream if
\* it cannot arm its own timer.
GivenBackInRun == {"offlineAlertPlaybackTimer", "paStream"}

GiveBackInRun ==
    /\ From("run", "run")
    /\ \E r \in GivenBackInRun \cap held : held' = held \ {r}
    /\ UNCHANGED <<enabled, credentials, k, todo, configured, status, registration>>

\* A later onStopOfflineAlertTone makes the alert timer.
MakeTimerInRun ==
    /\ From("run", "run")
    /\ "SPEAKER" \in enabled
    /\ held' = held \cup {"offlineAlertPlaybackTimer"}
    /\ UNCHANGED <<enabled, credentials, k, todo, configured, status, registration>>

\* The demo is over, and AiaSampleApp_Run destroys the client.
DestroyClient ==
    /\ From("run", "ran")
    /\ held' = held \ {"aiaClient"}
    /\ UNCHANGED <<enabled, credentials, k, todo, configured, status, registration>>

\* AiaSampleApp_Destroy begins.
Destroy ==
    /\ From("ran", "destroy")
    /\ todo' = DestroySteps
    /\ UNCHANGED <<enabled, credentials, k, held, configured, status, registration>>

\* IotMqtt_Disconnect.
Disconnect ==
    /\ From("destroy", "cleanupDemo")
    /\ todo = <<>>
    /\ held' = held \ {"mqttConnection"}
    /\ UNCHANGED <<enabled, credentials, k, todo, configured, status, registration>>

\* _cleanupDemo.
CleanupDemo ==
    /\ From("cleanupDemo", "returned")
    /\ held' = held \ {"libraries"}
    /\ UNCHANGED <<enabled, credentials, k, todo, configured, status, registration>>

AppNext ==
    \/ InitializeDemo \/ EstablishMqttConnection
    \/ Create \/ CreateFails \/ Release \/ CreateReturnsNull
    \/ StoreBeforeRun \/ RegisterAia
    \/ InitAiaClient \/ GiveBackInRun \/ MakeTimerInRun \/ DestroyClient \/ Destroy
    \/ Disconnect \/ CleanupDemo

AppSpec == AppInit /\ [][AppNext]_appVars

---------------------------------------------------------------------------
(* Properties. *)

Resource ==
    {"libraries", "mqttConnection", "threading", "random", "crypto", "seed", "sampleApp",
     "rawMicrophoneBuffer", "microphoneBuffer", "microphoneBufferReader",
     "microphoneBufferWriter", "portAudio", "recorder", "recorderMutex", "paStream",
     "opusDecoder", "portAudioSpeaker", "offlineAlertPlaybackTimer", "aia_eg", "aiaClient"}

AppTypeOK ==
    /\ enabled \subseteq {"AUDIO", "SPEAKER"}
    /\ credentials \in BOOLEAN
    /\ stage \in {"initialize", "connect", "create", "cleanup", "store", "register",
                  "registering", "client", "run", "ran", "destroy", "cleanupDemo", "returned"}
    /\ k \in 1 .. Len(CreateSteps) + 1
    /\ todo \in Seq(Resource)
    /\ held \subseteq Resource
    /\ configured \in BOOLEAN
    /\ status \in {"EXIT_SUCCESS", "EXIT_FAILURE"}
    /\ TypeOK

Audio(resources) == IF "AUDIO" \in enabled THEN resources ELSE {}
Speaker(resources) == IF "SPEAKER" \in enabled THEN resources ELSE {}

\* What a resource calls, or is called back with, as long as it is there.
Needs(r) ==
    CASE r = "mqttConnection" -> {"libraries"}
      [] r = "random" -> {"threading"}
      [] r = "crypto" -> {"threading"}
      [] r = "rawMicrophoneBuffer" -> {"sampleApp"}
      [] r = "microphoneBuffer" -> {"rawMicrophoneBuffer"}
      [] r \in {"microphoneBufferReader", "microphoneBufferWriter"} -> {"microphoneBuffer"}
      [] r = "paStream" -> {"portAudio"}
      [] r = "recorderMutex" -> {"recorder"}
      [] r = "recorder" -> {"microphoneBufferWriter"}
      [] r = "portAudioSpeaker" -> {"sampleApp", "aiaClient"}
      [] r = "offlineAlertPlaybackTimer" ->
             {"sampleApp", "aiaClient"} \cup Audio({"portAudioSpeaker"})
      [] r = "aiaClient" -> {"mqttConnection", "crypto", "random", "sampleApp",
                             "microphoneBufferReader", "aia_eg"}
                            \cup Audio({"opusDecoder", "portAudioSpeaker"})
                            \cup Speaker({"offlineAlertPlaybackTimer"})
      [] OTHER -> {}

\* What its users may find missing.  xEventGroupCreate may have failed; the alert timer may be
\* gone during the run; and the client, which the alert timer's callback asks to delete the
\* alert and the speaker's tells that it is ready, is there during the run only:
\* AiaSampleApp_Run destroys it while both callbacks may still come, until
\* AiaSampleApp_Destroy.
MayBeMissing ==
    {"aia_eg", "offlineAlertPlaybackTimer"} \cup IF stage = "run" THEN {} ELSE {"aiaClient"}

\* Nothing but what MayBeMissing names is gone before what uses it: not on any failure path of
\* AiaSampleApp_Create, not in a run, and not in AiaSampleApp_Destroy, which frees the decoder
\* and the speaker the client plays with before it would free the client.
UsersGoFirst == \A r \in held : Needs(r) \subseteq held \cup MayBeMissing

\* Every call of a failure path or of AiaSampleApp_Destroy that gives something back finds it
\* there, with three exceptions: the event group, which xEventGroupCreate may not have made,
\* and, in AiaSampleApp_Destroy, the alert timer and the stream of the recorder, which are
\* destroyed once more when the run has already destroyed them.
ReleasesWhatIsHeld ==
    \A n \in DOMAIN todo :
        /\ \/ todo[n] \in held
           \/ todo[n] = "aia_eg"
           \/ stage = "destroy" /\ todo[n] \in GivenBackInRun
        /\ \A m \in DOMAIN todo : todo[m] = todo[n] => m = n

\* A demo that ran leaves nothing but the seed, and the registration manager if no callback
\* came; one that could not be created leaves what RunAiaDemo made before.
NoLeak ==
    stage = "returned" =>
        /\ held \subseteq {"seed"} \cup (IF status = "EXIT_SUCCESS" THEN {}
                                        ELSE {"libraries", "mqttConnection"})
        /\ managers = IF registered /\ callbacks = {} THEN 1 ELSE 0

\* The request goes out with every string whole and ended, however long it is and whatever
\* buffer it was asked for with, and not before the strings were set; and with credentials
\* exactly if the demo was started with some.  Without them it goes out all the same, and
\* AiaSendHttpsRequest reads them through a null pointer.
RequestIsComplete ==
    /\ at \in {"reading", "sending"} => configured
    /\ at = "sending" =>
        /\ networkInfo <=> credentials
        /\ \A x \in Identity : Holds(request[x], Configured[x])
=============================================================================
