---------------------------- MODULE Registration ----------------------------
(***************************************************************************)
(* registerAia of demos/aia/aia_sample_app.c and the two callbacks of the  *)
(* registration manager, composed with the request that the manager sends  *)
(* (module HttpsRequest).  The request is synchronous: the callbacks,      *)
(* which destroy the manager, run inside AiaRegistrationManager_Register,  *)
(* and registerAia destroys the manager as well if that call fails.        *)
(*                                                                         *)
(* External: the manager.  Register asks the getters for the strings the   *)
(* device is known by, may fail before it sends anything, and otherwise    *)
(* returns what AiaSendHttpsRequest returned; each of the two callbacks of *)
(* a request makes it call back exactly once.                              *)
(***************************************************************************)
EXTENDS Getters, FiniteSets

VARIABLES
    at,                     \* the statement registerAia is at
    registrationManager,    \* whether the sample app has one
    managers,               \* how many managers there are: those of earlier sample apps too
    registered,             \* what registerAia returned last
    request,                \* of each string asked for, the buffer it was copied to
    pc, networkInfo, library, connHandle, sent, callbacks, result   \* HttpsRequest's

CONSTANTS
    Identity,       \* the strings: g_aiaClientId, g_aiaLwaRefreshToken, ...
    Configured,     \* what each of them is
    Uninitialized,  \* a byte of a block that nothing was written to
    FixedBuffer,    \* the size of a buffer for a string whose length was not asked for
    MaxManagers     \* bound: the managers that may be left behind

ASSUME RegistrationAssumption ==
    /\ Configured \in [Identity -> Seq(Char)]
    /\ Uninitialized \in Char
    /\ FixedBuffer \in Nat
    /\ MaxManagers \in Nat

https == <<pc, networkInfo, library, connHandle, sent, callbacks, result>>
vars == <<at, registrationManager, managers, registered, request, https>>

Https == INSTANCE HttpsRequest

Init == /\ at = "idle"
        /\ registrationManager = FALSE
        /\ managers = 0
        /\ registered = FALSE
        /\ request = [x \in {} |-> NULL]
        /\ Https!Init

Goto(from, to) == at = from /\ at' = to

\* AiaRegistrationManager_Destroy, and the pointer set to NULL.
DestroyManager ==
    /\ registrationManager' = FALSE
    /\ managers' = managers - 1

---------------------------------------------------------------------------
\* AiaRegistrationManager_Create; AiaSampleApp_Create has just zeroed the sample app.
CreateManager ==
    /\ managers < MaxManagers
    /\ \/ /\ Goto("idle", "register")
          /\ registrationManager' = TRUE
          /\ managers' = managers + 1
          /\ UNCHANGED registered
       \/ /\ at = "idle"
          /\ registrationManager' = FALSE
          /\ registered' = FALSE
          /\ UNCHANGED <<at, managers>>
    /\ UNCHANGED <<request, https>>

\* AiaRegistrationManager_Register, which may fail before it asks for anything.
Register ==
    /\ \/ Goto("register", "reading") /\ request' = [x \in {} |-> NULL]
       \/ Goto("register", "undo") /\ UNCHANGED request
    /\ UNCHANGED <<registrationManager, managers, registered, https>>

\* The manager asks for a string, with a buffer of the length a first call has told or with
\* one of a fixed size; if it is too small, Register fails.
ReadIdentity(x) ==
    /\ x \in Identity \ DOMAIN request
    /\ \E size \in {Get(Configured[x], NULL, 0).len, FixedBuffer} :
         LET got == Get(Configured[x], [n \in 1 .. size |-> Uninitialized], size)
         IN  \/ /\ got.returns
                /\ at = "reading"
                /\ request' = [y \in DOMAIN request \cup {x} |->
                                    IF y = x THEN got.buffer ELSE request[y]]
                /\ UNCHANGED at
             \/ ~ got.returns /\ Goto("reading", "undo") /\ UNCHANGED request
    /\ UNCHANGED <<registrationManager, managers, registered, https>>

SendRequest ==
    /\ Goto("reading", "sending")
    /\ DOMAIN request = Identity
    /\ Https!AiaSendHttpsRequest
    /\ UNCHANGED <<registrationManager, managers, registered, request>>

RegisterReturns ==
    /\ pc = "idle"
    /\ \/ result /\ Goto("sending", "idle") /\ registered' = TRUE
       \/ ~ result /\ Goto("sending", "undo") /\ UNCHANGED registered
    /\ UNCHANGED <<registrationManager, managers, request, https>>

\* Register failed.
Undo ==
    /\ Goto("undo", "idle")
    /\ DestroyManager
    /\ registered' = FALSE
    /\ UNCHANGED <<request, https>>

\* The steps of the request that make no callback.
Send ==
    /\ \/ Https!ParseUrl \/ Https!InitLibrary \/ Https!InitializeRequest
       \/ Https!Connect \/ Https!AddHeader \/ Https!SendSync \/ Https!DisconnectAndCleanup
    /\ UNCHANGED <<at, registrationManager, managers, registered, request>>

\* onAiaRegistrationSuccess and onAiaRegistrationFailed, from the request's callbacks.
OnAnswer ==
    /\ Https!FailureCallback \/ Https!ReadContentLength
    /\ IF callbacks' # callbacks THEN DestroyManager
                                 ELSE UNCHANGED <<registrationManager, managers>>
    /\ UNCHANGED <<at, registered, request>>

StoreNetworkInfo ==
    /\ at = "idle"
    /\ Https!AiaHttpStoreNetworkInfo
    /\ UNCHANGED <<at, registrationManager, managers, registered, request>>

Next ==
    \/ StoreNetworkInfo \/ CreateManager \/ Register
    \/ \E x \in Identity : ReadIdentity(x)
    \/ SendRequest \/ RegisterReturns \/ Undo
    \/ Send \/ OnAnswer

Spec == Init /\ [][Next]_vars

---------------------------------------------------------------------------
(* Properties. *)

TypeOK ==
    /\ at \in {"idle", "register", "reading", "sending", "undo"}
    /\ registrationManager \in BOOLEAN
    /\ managers \in 0 .. MaxManagers
    /\ registered \in BOOLEAN
    /\ DOMAIN request \subseteq Identity
    /\ \A x \in DOMAIN request : request[x] \in Buffer
    /\ Https!TypeOK

\* The library and the connection are given back, whichever call of a request fails.
GivesBack == Https!GivesBack

\* AiaRegistrationManager_Destroy is never called on the NULL a callback has left, by the
\* next callback or by registerAia after a Register that failed.
DestroyFindsManager ==
    at = "undo" \/ pc \in {"failed", "length"} => registrationManager

\* A registration that failed leaves no manager, and one that went well leaves one exactly if
\* no callback came.
LeavesManagerIfUnanswered ==
    at = "idle" => (registrationManager <=> registered /\ callbacks = {})
=============================================================================
