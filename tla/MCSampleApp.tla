----------------------------- MODULE MCSampleApp -----------------------------
(* Strings shorter than the fixed buffer, as long as it without and with the *)
(* final zero, and longer.                                                   *)
EXTENDS SampleApp

MCIdentity == {"iotClientId", "awsAccountId", "iotEndpoint", "refreshToken", "lwaClientId"}
MCConfigured ==
    [x \in MCIdentity |->
        CASE x = "iotClientId" -> <<"a">>
          [] x = "awsAccountId" -> <<"a", "b">>
          [] x = "iotEndpoint" -> <<"b", "a", "a">>
          [] x = "refreshToken" -> <<"b", "b", "a", "a">>
          [] OTHER -> <<>>]
=============================================================================
