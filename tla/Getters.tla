------------------------------- MODULE Getters -------------------------------
(***************************************************************************)
(* The getters of ports/Registration and ports/LWA: five functions written *)
(* out alike, AiaGetIotClientId, AiaGetAwsAccountId, AiaGetIotEndpoint,    *)
(* AiaGetRefreshToken and AiaGetLwaClientId.  Each copies a string of the  *)
(* configuration, with its final zero, to a buffer, or tells only how long *)
(* it is.  Strings and buffers are sequences of characters.                *)
(***************************************************************************)
EXTENDS Naturals, Sequences

CONSTANTS
    Char,       \* what a byte of a string or a buffer may be
    NUL,        \* the byte that ends a string
    NULL        \* no buffer, or no place for its length

ASSUME CharAssumption == NUL \notin Char /\ NULL \notin Seq(Char \cup {NUL}) \cup Nat

Buffer == Seq(Char \cup {NUL})

\* strlen( g_... ) + 1, which no string makes zero.
LengthOf(string) == Len(string) + 1

\* A wrong GetSucceeds: the final zero may lie behind the buffer.
GetSucceedsWithoutZero(string, buffer, len) ==
    len # NULL /\ (buffer # NULL => Len(string) <= len)

GetSucceeds(string, buffer, len) ==
    len # NULL /\ (buffer # NULL => LengthOf(string) <= len)

\* strncpy( buffer, string, LengthOf( string ) ).
Copied(string, buffer) ==
    [n \in DOMAIN buffer |-> IF n <= Len(string) THEN string[n]
                             ELSE IF n = LengthOf(string) THEN NUL ELSE buffer[n]]

\* What a getter returns, and what it leaves in the buffer and in *len.
Get(string, buffer, len) ==
    IF GetSucceeds(string, buffer, len)
    THEN [returns |-> TRUE, len |-> LengthOf(string),
          buffer |-> IF buffer = NULL THEN NULL ELSE Copied(string, buffer)]
    ELSE [returns |-> FALSE, len |-> len, buffer |-> buffer]

\* The string a buffer holds, as its reader takes it: up to the first zero, which must be
\* there.
Holds(buffer, string) ==
    /\ Len(buffer) >= LengthOf(string)
    /\ SubSeq(buffer, 1, LengthOf(string)) = Append(string, NUL)
=============================================================================
