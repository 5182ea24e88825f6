---------------------------- MODULE HttpsRequest ----------------------------
(***************************************************************************)
(* AiaSendHttpsRequest of ports/HTTP/src/aia_http_config.c, the one call   *)
(* registration makes to the server, and AiaHttpStoreNetworkInfo before    *)
(* it.  A call of the HTTPS client library is a step and may return any    *)
(* code; the codes the port treats alike are one.  The caller may send one *)
(* request after the other, not two at a time: the header asks for no      *)
(* thread safety.  The one header it adds is fixed, and left out.          *)
(* Module Registration puts the steps together.                            *)
(***************************************************************************)
EXTENDS Naturals

VARIABLES
    pc,             \* the call of the library that is next
    networkInfo,    \* whether there are credentials to connect with
    library,        \* IotHttpsClient_Init and _Cleanup: how many times it is initialised
    connHandle,     \* whether there is a connection
    sent,           \* what became of the request, and the status of the response
    callbacks,      \* the callbacks made
    result          \* what the last call returned

vars == <<pc, networkInfo, library, connHandle, sent, callbacks, result>>

Outcome == {"unsent", "NETWORK_ERROR", "no status", "OK", "another status"}

Init == /\ pc = "idle"
        /\ networkInfo = FALSE
        /\ library = 0
        /\ connHandle = FALSE
        /\ sent = "unsent"
        /\ callbacks = {}
        /\ result = TRUE

Goto(from, to) == pc = from /\ pc' = to

\* An early return, with the calls it makes first.
ReturnFalse(from) == Goto(from, "idle") /\ result' = FALSE

---------------------------------------------------------------------------
\* AiaHttpStoreNetworkInfo; it returns false and keeps what it had if one of the two is null.
\* AiaSendHttpsRequest does not look whether there is any: with nothing stored it reads through
\* a null pointer, and its steps below stand for the outcomes of that which go on.
AiaHttpStoreNetworkInfo ==
    /\ pc = "idle"
    /\ networkInfo' \in {TRUE, networkInfo}
    /\ UNCHANGED <<pc, library, connHandle, sent, callbacks, result>>

\* The registration manager sends a request.
AiaSendHttpsRequest ==
    /\ Goto("idle", "parse")
    /\ sent' = "unsent"
    /\ callbacks' = {}
    /\ UNCHANGED <<networkInfo, library, connHandle, result>>

\* IotHttpsClient_GetUrlPath, IotHttpsClient_GetUrlAddress, and the method.
ParseUrl ==
    /\ \/ Goto("parse", "init") /\ UNCHANGED result
       \/ ReturnFalse("parse")
    /\ UNCHANGED <<networkInfo, library, connHandle, sent, callbacks>>

InitLibrary ==
    /\ \/ Goto("init", "request") /\ library' = library + 1 /\ UNCHANGED result
       \/ ReturnFalse("init") /\ UNCHANGED library
    /\ UNCHANGED <<networkInfo, connHandle, sent, callbacks>>

InitializeRequest ==
    /\ \/ Goto("request", "connect") /\ UNCHANGED <<library, result>>
       \/ ReturnFalse("request") /\ library' = library - 1
    /\ UNCHANGED <<networkInfo, connHandle, sent, callbacks>>

Connect ==
    /\ \/ Goto("connect", "header") /\ connHandle' = TRUE /\ UNCHANGED <<library, result>>
       \/ ReturnFalse("connect") /\ library' = library - 1 /\ UNCHANGED connHandle
    /\ UNCHANGED <<networkInfo, sent, callbacks>>

\* A wrong AddHeader: its failure leaves the connection open.
AddHeaderKeepsConnection ==
    /\ \/ Goto("header", "send") /\ UNCHANGED <<library, result>>
       \/ ReturnFalse("header") /\ library' = library - 1
    /\ UNCHANGED <<networkInfo, connHandle, sent, callbacks>>

\* Only a network error stops the request.
AddHeader ==
    /\ \/ Goto("header", "send") /\ UNCHANGED <<library, connHandle, result>>
       \/ ReturnFalse("header") /\ connHandle' = FALSE /\ library' = library - 1
    /\ UNCHANGED <<networkInfo, sent, callbacks>>

\* IotHttpsClient_SendSync and IotHttpsClient_ReadResponseStatus.
SendSync ==
    /\ \/ Goto("send", "disconnect") /\ sent' = "NETWORK_ERROR"
       \/ Goto("send", "length") /\ sent' = "OK"
       \/ Goto("send", "failed") /\ sent' \in {"no status", "another status"}
    /\ UNCHANGED <<networkInfo, library, connHandle, callbacks, result>>

FailureCallback ==
    /\ Goto("failed", "disconnect")
    /\ callbacks' = callbacks \cup {"failureCallback"}
    /\ UNCHANGED <<networkInfo, library, connHandle, sent, result>>

\* IotHttpsClient_ReadContentLength: no callback at all if there is none.
ReadContentLength ==
    /\ Goto("length", "disconnect")
    /\ callbacks' \in {callbacks, callbacks \cup {"responseCallback"}}
    /\ UNCHANGED <<networkInfo, library, connHandle, sent, result>>

\* A wrong DisconnectAndCleanup: it returns whether the server was satisfied.
DisconnectAndReturnStatus ==
    /\ Goto("disconnect", "idle")
    /\ connHandle' = FALSE
    /\ library' = library - 1
    /\ result' = (sent = "OK")
    /\ UNCHANGED <<networkInfo, sent, callbacks>>

\* IotHttpsClient_Disconnect and IotHttpsClient_Cleanup, and the last return.
DisconnectAndCleanup ==
    /\ Goto("disconnect", "idle")
    /\ connHandle' = FALSE
    /\ library' = library - 1
    /\ result' = TRUE
    /\ UNCHANGED <<networkInfo, sent, callbacks>>

---------------------------------------------------------------------------
(* Properties. *)

TypeOK ==
    /\ pc \in {"idle", "parse", "init", "request", "connect", "header", "send", "failed",
               "length", "disconnect"}
    /\ networkInfo \in BOOLEAN /\ connHandle \in BOOLEAN /\ result \in BOOLEAN
    /\ library \in 0 .. 1
    /\ sent \in Outcome
    /\ callbacks \subseteq {"responseCallback", "failureCallback"}

\* Whichever call fails, the library is cleaned up as often as it was initialised, and
\* the connection is closed first: the next request finds everything as the first one did.
GivesBack ==
    /\ pc = "idle" => library = 0 /\ ~ connHandle
    /\ connHandle => library = 1
=============================================================================
