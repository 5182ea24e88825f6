---------------------------- MODULE AiaStorage ----------------------------
(***************************************************************************)
(* The storage port, ports/Storage/src/aia_storage_config.c: three blobs   *)
(* in RAM, and the alerts functions that scan, patch and rewrite one of    *)
(* them.  A blob is an array of cells.  An alert takes four consecutive    *)
(* cells, one for each field the code writes (the token characters, the    *)
(* scheduled time, the duration and the type): a cell stands for all the   *)
(* bytes of its field, and only the first byte of a token is ever          *)
(* compared with '\0'.  How a number becomes bytes and back is module      *)
(* AlertCodec's; the scheduled times here are those that survive it.       *)
(*                                                                         *)
(* A call is one step.  The header requires no thread safety of these      *)
(* functions, so their callers serialise them, and a power loss between    *)
(* two statements leaves nothing behind, for no byte of a blob survives it.*)
(***************************************************************************)
EXTENDS Naturals, FiniteSetsExt

CONSTANTS
    Token,          \* alert tokens, of AIA_ALERT_TOKEN_CHARS non-null characters
    ScheduledTime,  \* seconds since the NTP epoch
    Duration,       \* milliseconds
    AlertType,      \* the types of the AIA protocol
    BlobByte,       \* what the cells of the other blobs may hold
    NUL,            \* a zeroed cell
    ClientKey,      \* the keys the client uses for blobs of its own
    BLOBSTORAGE_SHAREDKEY_SIZE,   \* capacities, in cells
    BLOBSTORAGE_ALERTKEY_SIZE,
    BLOBSTORAGE_TOPICROOT_SIZE

ASSUME NULAssumption == NUL \notin Token

ASSUME ClientKeyAssumption ==
    ClientKey \subseteq {"AiaSharedSecretStorageKey", "AiaTopicRootKey", "AiaOtherKey"}

ASSUME CapacityAssumption ==
    /\ BLOBSTORAGE_SHAREDKEY_SIZE \in Nat
    /\ BLOBSTORAGE_ALERTKEY_SIZE \in Nat \ {0}
    /\ BLOBSTORAGE_TOPICROOT_SIZE \in Nat

VARIABLES
    blobstorage,    \* the table of blobs: the bytes and used_len of each
    alertReply,     \* the last alerts call and what it returned
    blobReply       \* the last call on another blob and what it returned

vars == <<blobstorage, alertReply, blobReply>>

SecretKey == "AiaSharedSecretStorageKey"
AlertsKey == "AiaAllAlertsStorageKey"
TopicRootKey == "AiaTopicRootKey"
UnknownKey == "AiaOtherKey"     \* a key that begins no key of the table

Key == {SecretKey, AlertsKey, TopicRootKey}

Capacity == [AiaSharedSecretStorageKey |-> BLOBSTORAGE_SHAREDKEY_SIZE,
             AiaAllAlertsStorageKey    |-> BLOBSTORAGE_ALERTKEY_SIZE,
             AiaTopicRootKey           |-> BLOBSTORAGE_TOPICROOT_SIZE]

Cell == Token \cup ScheduledTime \cup Duration \cup AlertType \cup BlobByte \cup {NUL}

Blob(k) == [storage : [0 .. Capacity[k] - 1 -> Cell], used_len : 0 .. Capacity[k]]

Alert == [token         : Token,
          scheduledTime : ScheduledTime,
          duration      : Duration,
          alertType     : AlertType]

---------------------------------------------------------------------------
(* Blobs. *)

\* Statically allocated, so zeroed; the alerts blob starts one byte long.
InitialBlob == [k \in Key |->
    [storage  |-> [i \in 0 .. Capacity[k] - 1 |-> NUL],
     used_len |-> IF k = AlertsKey THEN 1 ELSE 0]]

\* A wrong StoreAccepts, without the check of the size.
StoreAcceptsAnySize(k, size) == k \in Key

\* AiaStoreBlob finds the key and accepts the size.
StoreAccepts(k, size) == k \in Key /\ size <= Capacity[k]

\* A wrong Overwritten: used_len only grows, and a shorter blob keeps an old tail.
OverwrittenKeepsTail(b, buf, size) ==
    [storage  |-> [i \in DOMAIN b.storage |-> IF i < size THEN buf[i] ELSE b.storage[i]],
     used_len |-> IF size < b.used_len THEN b.used_len ELSE size]

\* The blob b after AiaStoreBlob copied the first size cells of buf to it.
Overwritten(b, buf, size) ==
    [storage  |-> [i \in DOMAIN b.storage |-> IF i < size THEN buf[i] ELSE b.storage[i]],
     used_len |-> size]

\* AiaLoadBlob accepts a buffer of size cells for the blob b.
LoadAccepts(b, size) == b.used_len <= size

\* The buffer buf after AiaLoadBlob copied the blob b to it.
Loaded(b, buf) ==
    [i \in DOMAIN buf |-> IF i < b.used_len THEN b.storage[i] ELSE buf[i]]

\* AiaCalloc returns a zeroed block if the heap has room, and NULL for no bytes.
CallocSucceeds(heap, size) == heap /\ size > 0
Calloced(size) == [i \in 0 .. size - 1 |-> NUL]

---------------------------------------------------------------------------
(* The blob of all alerts. *)

AIA_SIZE_OF_ALERT_IN_BYTES == 4

\* The offsets a scan of size cells visits.
Offsets(size) == {p \in 0 .. size - 1 : p % AIA_SIZE_OF_ALERT_IN_BYTES = 0}

\* Those where it stops, at an empty token or at token t.
Stops(buf, size, t) == {p \in Offsets(size) : buf[p] \in {NUL, t}}

\* A wrong Written: the time and the duration in each other's place.
WrittenSwapped(buf, p, a) ==
    [buf EXCEPT ![p] = a.token, ![p + 1] = a.duration,
                ![p + 2] = a.scheduledTime, ![p + 3] = a.alertType]

\* The buffer once alert a was written at offset p.
Written(buf, p, a) ==
    [buf EXCEPT ![p] = a.token, ![p + 1] = a.scheduledTime,
                ![p + 2] = a.duration, ![p + 3] = a.alertType]

\* A wrong Moved: one byte too few is moved, and the final zero stays behind.
MovedTooFew(buf, p, size) ==
    [i \in DOMAIN buf |->
        IF i >= p /\ i + AIA_SIZE_OF_ALERT_IN_BYTES < size - 1
        THEN buf[i + AIA_SIZE_OF_ALERT_IN_BYTES] ELSE buf[i]]

\* The buffer once the alert at offset p of its first size cells was cut out.
Moved(buf, p, size) ==
    [i \in DOMAIN buf |->
        IF i >= p /\ i + AIA_SIZE_OF_ALERT_IN_BYTES < size
        THEN buf[i + AIA_SIZE_OF_ALERT_IN_BYTES] ELSE buf[i]]

\* The alert AiaLoadAlert reads at offset p.
AlertAt(buf, p) ==
    [token         |-> buf[p],
     scheduledTime |-> buf[p + 1],
     duration      |-> buf[p + 2],
     alertType     |-> buf[p + 3]]

\* The offsets of the whole sections of a blob of size cells.
Sections(size) == {p \in Offsets(size) : p + AIA_SIZE_OF_ALERT_IN_BYTES <= size}

\* The alerts a client reads from the blob b, section by section.
AlertsIn(b) == {AlertAt(b.storage, p) : p \in Sections(b.used_len)}

\* A wrong WithNewAlert: a buffer one byte short.
WithNewAlertShort(b) == b.used_len + AIA_SIZE_OF_ALERT_IN_BYTES - 1

\* AiaStoreAlert's allAlertsBytes + AIA_SIZE_OF_ALERT_IN_BYTES, and its buffer.
WithNewAlert(b) == b.used_len + AIA_SIZE_OF_ALERT_IN_BYTES
StoreBuffer(b) == Loaded(b, Calloced(WithNewAlert(b)))

\* Its startingOffset: where the scan stops, else the last offset visited.
StartingOffset(b, t) ==
    LET stops == Stops(StoreBuffer(b), WithNewAlert(b), t)
    IN  IF stops = {} THEN Max(Offsets(WithNewAlert(b))) ELSE Min(stops)

\* Its updatingExistingAlert and storeSize.
Updating(b, t) ==
    /\ Stops(StoreBuffer(b), WithNewAlert(b), t) # {}
    /\ StoreBuffer(b)[StartingOffset(b, t)] # NUL
\* A wrong StoreSize: an update needs the room of a new alert.
StoreSizeAsIfNew(b, t) == WithNewAlert(b)

StoreSize(b, t) == IF Updating(b, t) THEN b.used_len ELSE WithNewAlert(b)

\* AiaDeleteAlert's buffer, the offset its scan stops at, and whether the
\* token was found there.
DeleteBuffer(b) == Loaded(b, Calloced(b.used_len))
DeleteStops(b, t) == Stops(DeleteBuffer(b), b.used_len, t)
Deleting(b, t) ==
    /\ DeleteStops(b, t) # {}
    /\ DeleteBuffer(b)[Min(DeleteStops(b, t))] # NUL

---------------------------------------------------------------------------
(* The calls. *)

NoReply == [call |-> "none"]

Init == /\ blobstorage = InitialBlob
        /\ alertReply = NoReply
        /\ blobReply = NoReply

\* AiaStoreBlob, and AiaStoreSecret, which only adds the key.  blobOk is FALSE
\* for a null blob.
AiaStoreBlob(k, blobOk, buf, size) ==
    LET ok == blobOk /\ StoreAccepts(k, size)
    IN  /\ blobstorage' = IF ok
                          THEN [blobstorage EXCEPT ![k] = Overwritten(@, buf, size)]
                          ELSE blobstorage
        /\ blobReply' = [call |-> "store", key |-> k, ok |-> ok,
                          stored |-> IF ok THEN buf ELSE <<>>]
        /\ UNCHANGED alertReply

\* AiaLoadBlob and AiaLoadSecret: the loaded cells are the first used_len ones.
AiaLoadBlob(k, blobOk, size) ==
    LET ok == blobOk /\ k \in Key /\ LoadAccepts(blobstorage[k], size)
    IN  /\ blobReply' =
            [call |-> "load", key |-> k, ok |-> ok,
             loaded |-> IF ok THEN Loaded(blobstorage[k], Calloced(size)) ELSE <<>>]
        /\ UNCHANGED <<blobstorage, alertReply>>

\* AiaBlobExists, and AiaGetBlobSize, which is 0 for a key that is not found.
AiaBlobExists(k) ==
    /\ blobReply' = [call |-> "exists", key |-> k, ok |-> k \in Key,
                     size |-> IF k \in Key THEN blobstorage[k].used_len ELSE 0]
    /\ UNCHANGED <<blobstorage, alertReply>>

\* argsOk is FALSE for a null token or one of the wrong length; heap says
\* whether the heap has room.
AiaStoreAlert(a, argsOk, heap) ==
    LET b == blobstorage[AlertsKey]
        size == StoreSize(b, a.token)
        ok == /\ argsOk
              /\ CallocSucceeds(heap, WithNewAlert(b))
              /\ LoadAccepts(b, b.used_len)
              /\ StoreAccepts(AlertsKey, size)
    IN  /\ blobstorage' =
            IF ok
            THEN [blobstorage EXCEPT ![AlertsKey] =
                    Overwritten(@, Written(StoreBuffer(@), StartingOffset(@, a.token), a), size)]
            ELSE blobstorage
        /\ alertReply' = [call |-> "store", alert |-> a, ok |-> ok]
        /\ UNCHANGED blobReply

AiaDeleteAlert(t, argsOk, heap) ==
    LET b == blobstorage[AlertsKey]
        stop == Min(DeleteStops(b, t))
        buf == IF Deleting(b, t) THEN Moved(DeleteBuffer(b), stop, b.used_len) ELSE DeleteBuffer(b)
        size == IF Deleting(b, t) THEN b.used_len - AIA_SIZE_OF_ALERT_IN_BYTES ELSE b.used_len
        ok == /\ argsOk
              /\ CallocSucceeds(heap, b.used_len)
              /\ LoadAccepts(b, b.used_len)
              /\ StoreAccepts(AlertsKey, size)
    IN  /\ blobstorage' = IF ok
                          THEN [blobstorage EXCEPT ![AlertsKey] = Overwritten(@, buf, size)]
                          ELSE blobstorage
        /\ alertReply' = [call |-> "delete", token |-> t, ok |-> ok]
        /\ UNCHANGED blobReply

\* AiaLoadAlerts into a buffer of size cells, and AiaLoadAlert on each section.
AiaLoadAlerts(size) ==
    LET b == blobstorage[AlertsKey]
        ok == LoadAccepts(b, size)
    IN  /\ alertReply' = [call |-> "load", alerts |-> IF ok THEN AlertsIn(b) ELSE {}, ok |-> ok]
        /\ UNCHANGED <<blobstorage, blobReply>>

\* The device restarts: static initialisation again.
Restart == /\ blobstorage' = InitialBlob
           /\ alertReply' = NoReply
           /\ blobReply' = NoReply

\* Sizes offered to the calls on a blob: up to one above its capacity.
SizesFor(k) == 0 .. IF k \in Key THEN Capacity[k] + 1 ELSE 1

BlobNext ==
    \E k \in ClientKey, blobOk \in BOOLEAN :
        \/ \E size \in SizesFor(k) :
            \/ \E buf \in [0 .. size - 1 -> BlobByte] : AiaStoreBlob(k, blobOk, buf, size)
            \/ AiaLoadBlob(k, blobOk, size)
        \/ AiaBlobExists(k)

AlertsNext ==
    \/ \E argsOk, heap \in BOOLEAN :
        \/ \E a \in Alert : AiaStoreAlert(a, argsOk, heap)
        \/ \E t \in Token : AiaDeleteAlert(t, argsOk, heap)
    \/ \E size \in SizesFor(AlertsKey) : AiaLoadAlerts(size)

Next == BlobNext \/ AlertsNext \/ Restart

Spec == Init /\ [][Next]_vars
---------------------------------------------------------------------------
(* Properties. *)

\* Every blob is an array of cells of the capacity the table declares for it, and
\* used_len never exceeds that capacity.
TypeOK ==
    /\ DOMAIN blobstorage = Key
    /\ \A k \in Key : blobstorage[k] \in Blob(k)

AlertsBlob == blobstorage[AlertsKey]

\* The alerts blob is a run of whole alerts and then one zero cell, the byte its
\* used_len starts at.  Both scans rely on it: it is what makes the loop of
\* AiaStoreAlert end at the right place, and no caller establishes it.
AlertsBlobWellFormed ==
    /\ AlertsBlob.used_len % AIA_SIZE_OF_ALERT_IN_BYTES = 1
    /\ AlertsBlob.storage[AlertsBlob.used_len - 1] = NUL
    /\ \A p \in Sections(AlertsBlob.used_len) : AlertsBlob.storage[p] \in Token

\* No token is stored twice, however stores, updates and deletes follow each
\* other: AiaDeleteAlert removes one section, so a second would come back.
TokensUnique ==
    \A p, q \in Sections(AlertsBlob.used_len) :
        AlertsBlob.storage[p] = AlertsBlob.storage[q] => p = q

\* AiaStoreAlert writes its alert inside the buffer it allocated, and
\* AiaDeleteAlert's moveBytes, an unsigned difference, does not wrap.
ScansStayInBuffer ==
    \A t \in Token :
        /\ StartingOffset(AlertsBlob, t) + AIA_SIZE_OF_ALERT_IN_BYTES <= WithNewAlert(AlertsBlob)
        /\ Deleting(AlertsBlob, t) =>
            Min(DeleteStops(AlertsBlob, t)) + AIA_SIZE_OF_ALERT_IN_BYTES <= AlertsBlob.used_len

\* A full blob refuses new tokens only: an alert that is stored can still be
\* rescheduled, and a delete never asks the heap for no bytes, which FreeRTOS
\* answers with NULL.
UpdatesAndDeletesServed ==
    /\ \A a \in AlertsIn(AlertsBlob) :
        StoreAccepts(AlertsKey, StoreSize(AlertsBlob, a.token))
    /\ CallocSucceeds(TRUE, AlertsBlob.used_len)

\* Storage implements the table of alerts: a call that returned true changed
\* exactly the alert of its token, one that returned false changed nothing, and a
\* load returns the alerts stored and not deleted since.
Table == INSTANCE AlertTable WITH alerts <- AlertsIn(AlertsBlob), reply <- alertReply
ImplementsAlertTable == Table!Spec

\* The bytes of the blob under key k that count.
Contents(k) ==
    [len   |-> blobstorage[k].used_len,
     bytes |-> [i \in 0 .. blobstorage[k].used_len - 1 |-> blobstorage[k].storage[i]]]

\* Storage implements the blob store for the secret and the topic root: a load
\* never returns bytes of an older, longer blob, nor those of an alert.
Blobs == INSTANCE BlobStore WITH
    Key <- {SecretKey, TopicRootKey}, OtherKey <- UnknownKey, Byte <- BlobByte,
    Size <- 0 .. BLOBSTORAGE_SHAREDKEY_SIZE + BLOBSTORAGE_TOPICROOT_SIZE + 1,
    contents <- [k \in {SecretKey, TopicRootKey} |-> Contents(k)], reply <- blobReply
ImplementsBlobStore == Blobs!Spec
===========================================================================
