------------------------- MODULE AiaStorage_proofs -------------------------
(***************************************************************************)
(* Proofs about AiaStorage, for every set of tokens and fields and every   *)
(* capacity of the blobs.                                                  *)
(***************************************************************************)
EXTENDS AiaStorage, TLAPS

\* An alerts blob as every call finds it.
WellFormed(b) ==
    /\ b \in Blob(AlertsKey)
    /\ b.used_len % AIA_SIZE_OF_ALERT_IN_BYTES = 1
    /\ b.storage[b.used_len - 1] = NUL
    /\ \A p \in Sections(b.used_len) : b.storage[p] \in Token
    /\ \A p, q \in Sections(b.used_len) : b.storage[p] = b.storage[q] => p = q

\* The inductive invariant.
IInv == TypeOK /\ AlertsBlobWellFormed /\ TokensUnique

---------------------------------------------------------------------------
(* Offsets. *)

\* The offsets of a blob of n = 1 (mod 4) cells are its sections and its last cell.
LEMMA OffsetsSplit ==
    ASSUME NEW n \in Nat, n % 4 = 1
    PROVE  /\ Offsets(n) = Sections(n) \cup {n - 1}
           /\ \A p \in Sections(n) : p \in Nat /\ p % 4 = 0 /\ p + 4 <= n - 1
  BY DEF Offsets, Sections, AIA_SIZE_OF_ALERT_IN_BYTES

LEMMA SectionsGrow ==
    ASSUME NEW n \in Nat, n % 4 = 1
    PROVE  /\ (n + 4) % 4 = 1
           /\ Sections(n + 4) = Sections(n) \cup {n - 1}
  BY DEF Offsets, Sections, AIA_SIZE_OF_ALERT_IN_BYTES

LEMMA SectionsShrink ==
    ASSUME NEW n \in Nat, n % 4 = 1, n >= 4
    PROVE  /\ n - 4 \in Nat
           /\ (n - 4) % 4 = 1
           /\ Sections(n) = Sections(n - 4) \cup {n - 5}
           /\ \A p \in Sections(n - 4) : p + 4 \in Sections(n)
           /\ \A p \in Sections(n) : p # 0 => p - 4 \in Sections(n - 4)
  BY DEF Offsets, Sections, AIA_SIZE_OF_ALERT_IN_BYTES

LEMMA SectionsApart ==
    ASSUME NEW n \in Nat, NEW p \in Sections(n), NEW q \in Sections(n), p < q
    PROVE  p + 4 <= q
  BY DEF Offsets, Sections, AIA_SIZE_OF_ALERT_IN_BYTES
\* The least element of a set of numbers is what Min chooses.
LEMMA MinIs ==
    ASSUME NEW S \in SUBSET Nat, NEW m \in S, \A x \in S : m <= x
    PROVE  Min(S) = m
<1>1. \A x \in S : (\A y \in S : x <= y) => x = m
  OBVIOUS
<1> QED
  BY <1>1, Zenon DEF Min

---------------------------------------------------------------------------
(* What the scans find in a well-formed blob. *)

LEMMA StoreBufferIs ==
    ASSUME NEW b, WellFormed(b)
    PROVE  /\ b.used_len \in Nat /\ b.used_len % 4 = 1
           /\ WithNewAlert(b) = b.used_len + 4
           /\ StoreBuffer(b) = [i \in 0 .. b.used_len + 3 |->
                                    IF i < b.used_len THEN b.storage[i] ELSE NUL]
<1>1. b.used_len \in Nat /\ b.used_len % 4 = 1
  BY CapacityAssumption
  DEF WellFormed, Blob, Capacity, Key, AlertsKey, AIA_SIZE_OF_ALERT_IN_BYTES
<1>2. b.used_len + 4 - 1 = b.used_len + 3
  BY <1>1
<1> QED
  BY <1>1, <1>2
  DEF StoreBuffer, WithNewAlert, Loaded, Calloced, AIA_SIZE_OF_ALERT_IN_BYTES

\* AiaStoreAlert finds the section of a token that is stored.
LEMMA StoreScanFinds ==
    ASSUME NEW b, WellFormed(b), NEW p \in Sections(b.used_len), b.storage[p] \in Token
    PROVE  /\ StartingOffset(b, b.storage[p]) = p
           /\ Updating(b, b.storage[p])
<1> DEFINE n == b.used_len
           t == b.storage[p]
           stops == Stops(StoreBuffer(b), WithNewAlert(b), t)
<1>1. /\ n \in Nat /\ n % 4 = 1
      /\ WithNewAlert(b) = n + 4
      /\ \A i \in 0 .. n + 3 : StoreBuffer(b)[i] = IF i < n THEN b.storage[i] ELSE NUL
  BY StoreBufferIs
<1>2. /\ Offsets(n + 4) = Sections(n) \cup {n - 1, n + 3}
      /\ \A q \in Sections(n) : q \in Nat /\ q + 4 <= n - 1
  BY <1>1, OffsetsSplit, SectionsGrow
<1>3. \A q \in Sections(n) : StoreBuffer(b)[q] = b.storage[q] /\ b.storage[q] # NUL
  BY <1>1, <1>2, NULAssumption DEF WellFormed
<1>4. p \in stops
  BY <1>1, <1>2, <1>3 DEF Stops
<1>5. \A q \in stops : q \in Nat /\ p <= q
  <2> SUFFICES ASSUME NEW q \in stops PROVE q \in Nat /\ p <= q
    OBVIOUS
  <2>1. q \in Offsets(n + 4) /\ StoreBuffer(b)[q] \in {NUL, t}
    BY <1>1 DEF Stops
  <2>2. CASE q \in Sections(n)
    <3>1. b.storage[q] = b.storage[p]
      BY <2>1, <2>2, <1>3
    <3> QED  BY <3>1, <2>2, <1>2 DEF WellFormed
  <2>3. CASE q \in {n - 1, n + 3}
    BY <2>3, <1>1, <1>2
  <2> QED  BY <2>1, <2>2, <2>3, <1>2
<1>6. Min(stops) = p
  <2>1. stops \in SUBSET Nat
    BY <1>5
  <2> QED  BY <2>1, <1>4, <1>5, MinIs
<1> QED
  BY <1>3, <1>4, <1>6 DEF StartingOffset, Updating

\* It appends a token that is not stored, over the zero cell.
LEMMA StoreScanAppends ==
    ASSUME NEW b, WellFormed(b), NEW t, t # NUL,
           \A p \in Sections(b.used_len) : b.storage[p] # t
    PROVE  /\ StartingOffset(b, t) = b.used_len - 1
           /\ ~ Updating(b, t)
<1> DEFINE n == b.used_len
           stops == Stops(StoreBuffer(b), WithNewAlert(b), t)
<1>1. /\ n \in Nat /\ n % 4 = 1
      /\ WithNewAlert(b) = n + 4
      /\ \A i \in 0 .. n + 3 : StoreBuffer(b)[i] = IF i < n THEN b.storage[i] ELSE NUL
  BY StoreBufferIs
<1>2. /\ Offsets(n + 4) = Sections(n) \cup {n - 1, n + 3}
      /\ \A q \in Sections(n) : q \in Nat /\ q + 4 <= n - 1
  BY <1>1, OffsetsSplit, SectionsGrow
<1>3. \A q \in Sections(n) : StoreBuffer(b)[q] \notin {NUL, t}
  BY <1>1, <1>2, NULAssumption DEF WellFormed
<1>4. n - 1 \in Nat /\ StoreBuffer(b)[n - 1] = NUL
  BY <1>1 DEF WellFormed
<1>5. n - 1 \in stops
  BY <1>1, <1>2, <1>4 DEF Stops
<1>6. \A q \in stops : q \in Nat /\ n - 1 <= q
  BY <1>1, <1>2, <1>3 DEF Stops
<1>7. Min(stops) = n - 1
  <2>1. stops \in SUBSET Nat
    BY <1>6
  <2> QED  BY <2>1, <1>5, <1>6, MinIs
<1> QED
  BY <1>4, <1>5, <1>7 DEF StartingOffset, Updating
---------------------------------------------------------------------------
(* What AiaStoreAlert leaves behind. *)

LEMMA AlertsCapacity ==
    /\ Capacity[AlertsKey] = BLOBSTORAGE_ALERTKEY_SIZE
    /\ BLOBSTORAGE_ALERTKEY_SIZE \in Nat
    /\ Blob(AlertsKey) = [storage  : [0 .. BLOBSTORAGE_ALERTKEY_SIZE - 1 -> Cell],
                          used_len : 0 .. BLOBSTORAGE_ALERTKEY_SIZE]
  BY CapacityAssumption DEF Capacity, AlertsKey, Blob

LEMMA WrittenIs ==
    ASSUME NEW m \in Nat, NEW buf \in [0 .. m -> Cell],
           NEW a, a.token \in Cell, a.scheduledTime \in Cell, a.duration \in Cell, a.alertType \in Cell,
           NEW p \in Nat, p + 3 <= m
    PROVE  /\ Written(buf, p, a) \in [0 .. m -> Cell]
           /\ Written(buf, p, a)[p] = a.token
           /\ Written(buf, p, a)[p + 1] = a.scheduledTime
           /\ Written(buf, p, a)[p + 2] = a.duration
           /\ Written(buf, p, a)[p + 3] = a.alertType
           /\ \A i \in 0 .. m : i \notin p .. p + 3 => Written(buf, p, a)[i] = buf[i]
<1>1. /\ p \in 0 .. m /\ p + 1 \in 0 .. m /\ p + 2 \in 0 .. m /\ p + 3 \in 0 .. m
      /\ p # p + 1 /\ p # p + 2 /\ p # p + 3 /\ p + 1 # p + 2 /\ p + 1 # p + 3 /\ p + 2 # p + 3
  OBVIOUS
<1>2. Written(buf, p, a) \in [0 .. m -> Cell]
  BY <1>1 DEF Written
<1>3. \A i \in 0 .. m : i \notin p .. p + 3 => Written(buf, p, a)[i] = buf[i]
  BY <1>1 DEF Written
<1> QED
  BY <1>1, <1>2, <1>3 DEF Written

\* The blob after the alert a was written at offset p and size cells stored.
AfterStore(b, p, a, size) == Overwritten(b, Written(StoreBuffer(b), p, a), size)

LEMMA AfterStoreIs ==
    ASSUME NEW b, WellFormed(b), NEW a \in Alert,
           NEW size \in Nat, size <= BLOBSTORAGE_ALERTKEY_SIZE, size <= b.used_len + 4,
           NEW p \in Nat, p + 4 <= size
    PROVE  /\ AfterStore(b, p, a, size) \in Blob(AlertsKey)
           /\ AfterStore(b, p, a, size).used_len = size
           /\ AlertAt(AfterStore(b, p, a, size).storage, p) = a
           /\ \A i \in 0 .. size - 1 :
                i \notin p .. p + 3 =>
                    AfterStore(b, p, a, size).storage[i] =
                        IF i < b.used_len THEN b.storage[i] ELSE NUL
<1> DEFINE buf == Written(StoreBuffer(b), p, a)
           nb == AfterStore(b, p, a, size)
<1>1. /\ b.used_len \in Nat
      /\ b.used_len <= BLOBSTORAGE_ALERTKEY_SIZE
      /\ b.storage \in [0 .. BLOBSTORAGE_ALERTKEY_SIZE - 1 -> Cell]
      /\ BLOBSTORAGE_ALERTKEY_SIZE \in Nat
  BY AlertsCapacity DEF WellFormed
<1>2. /\ a.token \in Cell /\ a.scheduledTime \in Cell
      /\ a.duration \in Cell /\ a.alertType \in Cell /\ NUL \in Cell
      /\ a = [token |-> a.token, scheduledTime |-> a.scheduledTime,
              duration |-> a.duration, alertType |-> a.alertType]
  BY DEF Alert, Cell
<1>3. /\ buf \in [0 .. b.used_len + 3 -> Cell]
      /\ buf[p] = a.token /\ buf[p + 1] = a.scheduledTime
      /\ buf[p + 2] = a.duration /\ buf[p + 3] = a.alertType
      /\ \A i \in 0 .. b.used_len + 3 :
            i \notin p .. p + 3 => buf[i] = IF i < b.used_len THEN b.storage[i] ELSE NUL
  <2>1. StoreBuffer(b) \in [0 .. b.used_len + 3 -> Cell]
    BY SMTT(30), <1>1, <1>2, StoreBufferIs
  <2>2. b.used_len + 3 \in Nat /\ p + 3 <= b.used_len + 3
    BY <1>1
  <2>3. \A i \in 0 .. b.used_len + 3 :
            StoreBuffer(b)[i] = IF i < b.used_len THEN b.storage[i] ELSE NUL
    BY StoreBufferIs
  <2> DEFINE m == b.used_len + 3
             sb == StoreBuffer(b)
  <2>4. m \in Nat /\ p + 3 <= m /\ sb \in [0 .. m -> Cell]
    BY <2>1, <2>2
  <2> HIDE DEF m, sb
  <2>5. /\ Written(sb, p, a) \in [0 .. m -> Cell]
        /\ Written(sb, p, a)[p] = a.token
        /\ Written(sb, p, a)[p + 1] = a.scheduledTime
        /\ Written(sb, p, a)[p + 2] = a.duration
        /\ Written(sb, p, a)[p + 3] = a.alertType
        /\ \A i \in 0 .. m : i \notin p .. p + 3 => Written(sb, p, a)[i] = sb[i]
    BY SMTT(30), <2>4, <1>2, WrittenIs
  <2> USE DEF m, sb
  <2>6. /\ buf \in [0 .. b.used_len + 3 -> Cell]
        /\ buf[p] = a.token /\ buf[p + 1] = a.scheduledTime
        /\ buf[p + 2] = a.duration /\ buf[p + 3] = a.alertType
        /\ \A i \in 0 .. b.used_len + 3 : i \notin p .. p + 3 => buf[i] = StoreBuffer(b)[i]
    BY <2>5
  <2> QED  BY <2>3, <2>6
<1>4. /\ nb.used_len = size
      /\ nb = [storage |-> nb.storage, used_len |-> nb.used_len]
      /\ nb.storage = [i \in 0 .. BLOBSTORAGE_ALERTKEY_SIZE - 1 |->
                            IF i < size THEN buf[i] ELSE b.storage[i]]
  BY <1>1 DEF AfterStore, Overwritten
<1>5. nb.storage \in [0 .. BLOBSTORAGE_ALERTKEY_SIZE - 1 -> Cell]
  BY SMTT(30), <1>1, <1>3, <1>4
<1>6. \A i \in 0 .. size - 1 : nb.storage[i] = buf[i]
  BY <1>1, <1>4
<1>7. nb \in Blob(AlertsKey)
  BY <1>1, <1>4, <1>5, AlertsCapacity
<1>8. AlertAt(nb.storage, p) = a
  <2>1. p \in 0 .. size - 1 /\ p + 1 \in 0 .. size - 1 /\ p + 2 \in 0 .. size - 1 /\ p + 3 \in 0 .. size - 1
    OBVIOUS
  <2> QED  BY <2>1, <1>2, <1>3, <1>6 DEF AlertAt
<1> QED
  BY SMTT(30), <1>1, <1>3, <1>4, <1>6, <1>7, <1>8
\* The alerts of b whose token is not t.
AlertsBut(b, t) == {x \in AlertsIn(b) : x.token # t}

LEMMA SectionCells ==
    ASSUME NEW n \in Nat, n % 4 = 1, NEW p \in Sections(n)
    PROVE  /\ p \in Nat /\ p + 4 <= n - 1
           /\ p \in 0 .. n - 1 /\ p + 1 \in 0 .. n - 1
           /\ p + 2 \in 0 .. n - 1 /\ p + 3 \in 0 .. n - 1
  BY OffsetsSplit

\* An alert that is stored is replaced where it is.
LEMMA UpdateResult ==
    ASSUME NEW b, WellFormed(b), NEW a \in Alert,
           NEW p \in Sections(b.used_len), b.storage[p] = a.token
    PROVE  /\ WellFormed(AfterStore(b, p, a, b.used_len))
           /\ AlertsIn(AfterStore(b, p, a, b.used_len)) = AlertsBut(b, a.token) \cup {a}
<1> DEFINE n == b.used_len
           nb == AfterStore(b, p, a, n)
<1>1. /\ n \in Nat /\ n % 4 = 1 /\ n <= BLOBSTORAGE_ALERTKEY_SIZE
      /\ p \in Nat /\ p + 4 <= n - 1 /\ n <= n + 4
  BY SMTT(30), StoreBufferIs, SectionCells, AlertsCapacity DEF WellFormed
<1>2. /\ nb \in Blob(AlertsKey)
      /\ nb.used_len = n
      /\ AlertAt(nb.storage, p) = a
      /\ \A i \in 0 .. n - 1 : i \notin p .. p + 3 => nb.storage[i] = b.storage[i]
  <2>1. p + 4 <= n
    BY <1>1
  <2> QED  BY <1>1, <2>1, AfterStoreIs
<1>3. \A q \in Sections(n) : q # p => AlertAt(nb.storage, q) = AlertAt(b.storage, q)
  <2> SUFFICES ASSUME NEW q \in Sections(n), q # p
               PROVE  AlertAt(nb.storage, q) = AlertAt(b.storage, q)
    OBVIOUS
  <2>1. q \in Nat /\ q \in 0 .. n - 1 /\ q + 1 \in 0 .. n - 1 /\ q + 2 \in 0 .. n - 1 /\ q + 3 \in 0 .. n - 1
    BY <1>1, SectionCells
  <2>2. q + 4 <= p \/ p + 4 <= q
    BY <1>1, <2>1, SectionsApart
  <2>3. /\ q \notin p .. p + 3 /\ q + 1 \notin p .. p + 3
        /\ q + 2 \notin p .. p + 3 /\ q + 3 \notin p .. p + 3
    BY <1>1, <2>1, <2>2
  <2> QED  BY <1>2, <2>1, <2>3 DEF AlertAt
<1>4. \A q \in Sections(n) : nb.storage[q] = b.storage[q]
  <2>1. \A s, q : AlertAt(s, q).token = s[q]
    BY DEF AlertAt
  <2>2. nb.storage[p] = b.storage[p]
    BY <1>2, <2>1
  <2>3. \A q \in Sections(n) : q # p => nb.storage[q] = b.storage[q]
    BY <1>3, <2>1
  <2> QED  BY <2>2, <2>3
<1>5. nb.storage[n - 1] = NUL
  <2>1. n - 1 \in 0 .. n - 1 /\ n - 1 \notin p .. p + 3
    BY <1>1
  <2> QED  BY <1>2, <2>1 DEF WellFormed
<1>6. WellFormed(nb)
  BY <1>2, <1>4, <1>5 DEF WellFormed
<1>7. AlertsIn(nb) = {AlertAt(b.storage, q) : q \in Sections(n) \ {p}} \cup {a}
  BY <1>2, <1>3 DEF AlertsIn
<1>8. {AlertAt(b.storage, q) : q \in Sections(n) \ {p}} = AlertsBut(b, a.token)
  <2>1. \A q \in Sections(n) : AlertAt(b.storage, q).token = b.storage[q]
    BY DEF AlertAt
  <2>2. \A q \in Sections(n) : b.storage[q] = a.token => q = p
    BY DEF WellFormed
  <2> QED  BY <2>1, <2>2 DEF AlertsBut, AlertsIn
<1> QED
  BY <1>6, <1>7, <1>8

\* One that is not stored is appended.
LEMMA AppendResult ==
    ASSUME NEW b, WellFormed(b), NEW a \in Alert,
           \A q \in Sections(b.used_len) : b.storage[q] # a.token,
           b.used_len + 4 <= BLOBSTORAGE_ALERTKEY_SIZE
    PROVE  /\ WellFormed(AfterStore(b, b.used_len - 1, a, b.used_len + 4))
           /\ AlertsIn(AfterStore(b, b.used_len - 1, a, b.used_len + 4)) =
                AlertsBut(b, a.token) \cup {a}
<1> DEFINE n == b.used_len
           p == n - 1
           nb == AfterStore(b, p, a, n + 4)
<1>1. /\ n \in Nat /\ n % 4 = 1 /\ n - 1 \in Nat
      /\ (n + 4) % 4 = 1 /\ n + 4 \in Nat
      /\ Sections(n + 4) = Sections(n) \cup {n - 1}
  BY SMTT(30), StoreBufferIs, SectionsGrow
<1>2. /\ nb \in Blob(AlertsKey)
      /\ nb.used_len = n + 4
      /\ AlertAt(nb.storage, p) = a
      /\ \A i \in 0 .. n + 4 - 1 :
            i \notin p .. p + 3 => nb.storage[i] = IF i < n THEN b.storage[i] ELSE NUL
  <2>1. p \in Nat /\ p + 4 <= n + 4 /\ n + 4 <= n + 4
    BY <1>1
  <2> HIDE DEF p
  <2> QED  BY <1>1, <2>1, AfterStoreIs
<1>3. \A q \in Sections(n) : AlertAt(nb.storage, q) = AlertAt(b.storage, q)
  <2> SUFFICES ASSUME NEW q \in Sections(n)
               PROVE  AlertAt(nb.storage, q) = AlertAt(b.storage, q)
    OBVIOUS
  <2>1. q \in Nat /\ q + 4 <= n - 1
    BY <1>1, SectionCells
  <2>2. \A i \in q .. q + 3 : /\ i \in 0 .. n + 4 - 1
                             /\ i \notin p .. p + 3
                             /\ i < n
    BY <1>1, <2>1
  <2>3. \A i \in q .. q + 3 : nb.storage[i] = b.storage[i]
    BY <1>2, <2>2
  <2>4. q \in q .. q + 3 /\ q + 1 \in q .. q + 3 /\ q + 2 \in q .. q + 3 /\ q + 3 \in q .. q + 3
    BY <2>1
  <2> QED  BY <2>3, <2>4 DEF AlertAt
<1>4. \A q \in Sections(n) : nb.storage[q] = b.storage[q]
  BY <1>3 DEF AlertAt
<1>5. nb.storage[p] = a.token
  BY <1>2 DEF AlertAt
<1>6. nb.storage[n + 4 - 1] = NUL
  <2>1. n + 4 - 1 \in 0 .. n + 4 - 1 /\ n + 4 - 1 \notin p .. p + 3 /\ ~ (n + 4 - 1 < n)
    BY <1>1
  <2> QED  BY <1>2, <2>1
<1>7. WellFormed(nb)
  <2>1. a.token \in Token
    BY DEF Alert
  <2>2. \A q \in Sections(n + 4) : nb.storage[q] \in Token
    BY <1>1, <1>4, <1>5, <2>1 DEF WellFormed
  <2>3. \A q, r \in Sections(n + 4) : nb.storage[q] = nb.storage[r] => q = r
    BY <1>1, <1>4, <1>5 DEF WellFormed
  <2> QED
    BY <1>1, <1>2, <1>6, <2>2, <2>3 DEF WellFormed, AIA_SIZE_OF_ALERT_IN_BYTES
<1>8. AlertsIn(nb) = AlertsIn(b) \cup {a}
  BY <1>1, <1>2, <1>3 DEF AlertsIn
<1>9. AlertsIn(b) = AlertsBut(b, a.token)
  <2>1. \A q \in Sections(n) : AlertAt(b.storage, q).token # a.token
    BY DEF AlertAt
  <2> QED  BY <2>1 DEF AlertsBut, AlertsIn
<1> QED
  BY <1>7, <1>8, <1>9
---------------------------------------------------------------------------
(* What AiaDeleteAlert leaves behind. *)

LEMMA DeleteBufferIs ==
    ASSUME NEW b, WellFormed(b)
    PROVE  DeleteBuffer(b) = [i \in 0 .. b.used_len - 1 |-> b.storage[i]]
  BY StoreBufferIs DEF DeleteBuffer, Loaded, Calloced

\* AiaDeleteAlert finds the section of a token that is stored.
LEMMA DeleteScanFinds ==
    ASSUME NEW b, WellFormed(b), NEW p \in Sections(b.used_len), b.storage[p] \in Token
    PROVE  /\ Min(DeleteStops(b, b.storage[p])) = p
           /\ Deleting(b, b.storage[p])
<1> DEFINE n == b.used_len
           t == b.storage[p]
           stops == DeleteStops(b, t)
<1>1. /\ n \in Nat /\ n % 4 = 1
      /\ \A i \in 0 .. n - 1 : DeleteBuffer(b)[i] = b.storage[i]
  BY StoreBufferIs, DeleteBufferIs
<1>2. /\ Offsets(n) = Sections(n) \cup {n - 1}
      /\ \A q \in Sections(n) : q \in Nat /\ q + 4 <= n - 1
  BY <1>1, OffsetsSplit
<1>3. \A q \in Sections(n) : DeleteBuffer(b)[q] = b.storage[q] /\ b.storage[q] # NUL
  BY <1>1, <1>2, NULAssumption DEF WellFormed
<1>4. p \in stops
  BY <1>2, <1>3 DEF Stops, DeleteStops
<1>5. \A q \in stops : q \in Nat /\ p <= q
  <2> SUFFICES ASSUME NEW q \in stops PROVE q \in Nat /\ p <= q
    OBVIOUS
  <2>1. q \in Offsets(n) /\ DeleteBuffer(b)[q] \in {NUL, t}
    BY DEF Stops, DeleteStops
  <2>2. CASE q \in Sections(n)
    <3>1. b.storage[q] = b.storage[p]
      BY <2>1, <2>2, <1>3
    <3> QED  BY <3>1, <2>2, <1>2 DEF WellFormed
  <2>3. CASE q = n - 1
    BY <2>3, <1>1, <1>2
  <2> QED  BY <2>1, <2>2, <2>3, <1>2
<1>6. Min(stops) = p
  <2>1. stops \in SUBSET Nat
    BY <1>5
  <2> QED  BY <2>1, <1>4, <1>5, MinIs
<1> QED
  BY <1>3, <1>4, <1>6 DEF Deleting

\* It finds nothing for a token that is not.
LEMMA DeleteScanMisses ==
    ASSUME NEW b, WellFormed(b), NEW t, t # NUL,
           \A p \in Sections(b.used_len) : b.storage[p] # t
    PROVE  ~ Deleting(b, t)
<1> DEFINE n == b.used_len
           stops == DeleteStops(b, t)
<1>1. /\ n \in Nat /\ n % 4 = 1
      /\ \A i \in 0 .. n - 1 : DeleteBuffer(b)[i] = b.storage[i]
  BY StoreBufferIs, DeleteBufferIs
<1>2. /\ Offsets(n) = Sections(n) \cup {n - 1}
      /\ n - 1 \in 0 .. n - 1
      /\ \A q \in Sections(n) : q \in 0 .. n - 1
  BY <1>1, OffsetsSplit
<1>3. \A q \in Sections(n) : DeleteBuffer(b)[q] \notin {NUL, t}
  BY <1>1, <1>2, NULAssumption DEF WellFormed
<1>4. DeleteBuffer(b)[n - 1] = NUL
  BY <1>1, <1>2 DEF WellFormed
<1>5. stops = {n - 1}
  BY <1>2, <1>3, <1>4 DEF Stops, DeleteStops
<1>6. Min(stops) = n - 1
  <2>1. stops \in SUBSET Nat /\ n - 1 \in stops /\ \A x \in stops : n - 1 <= x
    BY <1>1, <1>5
  <2> QED  BY <2>1, MinIs
<1> QED
  BY <1>4, <1>6 DEF Deleting

\* The blob after the section at offset p was cut out.
AfterDelete(b, p) ==
    Overwritten(b, Moved(DeleteBuffer(b), p, b.used_len), b.used_len - AIA_SIZE_OF_ALERT_IN_BYTES)

LEMMA AfterDeleteIs ==
    ASSUME NEW b, WellFormed(b), NEW p \in Sections(b.used_len)
    PROVE  /\ AfterDelete(b, p) \in Blob(AlertsKey)
           /\ AfterDelete(b, p).used_len = b.used_len - 4
           /\ \A i \in 0 .. b.used_len - 5 :
                AfterDelete(b, p).storage[i] = IF i < p THEN b.storage[i] ELSE b.storage[i + 4]
<1> DEFINE n == b.used_len
           buf == Moved(DeleteBuffer(b), p, n)
           nb == AfterDelete(b, p)
<1>1. /\ n \in Nat /\ n % 4 = 1 /\ n <= BLOBSTORAGE_ALERTKEY_SIZE
      /\ BLOBSTORAGE_ALERTKEY_SIZE \in Nat
      /\ b.storage \in [0 .. BLOBSTORAGE_ALERTKEY_SIZE - 1 -> Cell]
      /\ p \in Nat /\ p + 4 <= n - 1
  BY StoreBufferIs, SectionCells, AlertsCapacity DEF WellFormed
<1>2. \A i \in 0 .. n - 1 :
        buf[i] = IF i >= p /\ i + 4 < n THEN b.storage[i + 4] ELSE b.storage[i]
  <2>1. buf = [i \in 0 .. n - 1 |-> IF i >= p /\ i + 4 < n
                                   THEN DeleteBuffer(b)[i + 4] ELSE DeleteBuffer(b)[i]]
    BY DeleteBufferIs DEF Moved, AIA_SIZE_OF_ALERT_IN_BYTES
  <2>2. \A i \in 0 .. n - 1 : DeleteBuffer(b)[i] = b.storage[i]
    BY DeleteBufferIs
  <2>3. \A i \in 0 .. n - 1 : i + 4 < n => i + 4 \in 0 .. n - 1
    BY <1>1
  <2> HIDE DEF buf, n
  <2> QED  BY <2>1, <2>2, <2>3
<1>3. nb = [storage  |-> [i \in 0 .. BLOBSTORAGE_ALERTKEY_SIZE - 1 |->
                            IF i < n - 4 THEN buf[i] ELSE b.storage[i]],
            used_len |-> n - 4]
  BY <1>1 DEF AfterDelete, Overwritten, AIA_SIZE_OF_ALERT_IN_BYTES
<1>4. \A i \in 0 .. n - 5 : nb.storage[i] = IF i < p THEN b.storage[i] ELSE b.storage[i + 4]
  <2> SUFFICES ASSUME NEW i \in 0 .. n - 5
               PROVE  nb.storage[i] = IF i < p THEN b.storage[i] ELSE b.storage[i + 4]
    OBVIOUS
  <2>1. i \in 0 .. BLOBSTORAGE_ALERTKEY_SIZE - 1 /\ i < n - 4 /\ i \in 0 .. n - 1 /\ i + 4 < n
    BY <1>1
  <2>2. (i >= p) <=> ~ (i < p)
    BY <1>1, <2>1
  <2> HIDE DEF buf, nb, n
  <2>3. nb.storage[i] = buf[i]
    BY <1>3, <2>1
  <2> QED  BY <1>2, <2>1, <2>2, <2>3
<1>5. \A i \in 0 .. n - 5 : buf[i] \in Cell
  <2>1. \A i \in 0 .. n - 1 : b.storage[i] \in Cell
    BY <1>1
  <2>2. \A i \in 0 .. n - 5 : i \in 0 .. n - 1 /\ i + 4 \in 0 .. n - 1
    BY <1>1
  <2> HIDE DEF buf, n
  <2> QED  BY <1>2, <2>1, <2>2
<1>6. nb \in Blob(AlertsKey)
  BY <1>1, <1>3, <1>5, AlertsCapacity
<1> QED
  BY <1>3, <1>4, <1>6
\* The rest of the alerts close up, in the same order.
LEMMA DeleteResult ==
    ASSUME NEW b, WellFormed(b), NEW p \in Sections(b.used_len)
    PROVE  /\ WellFormed(AfterDelete(b, p))
           /\ AlertsIn(AfterDelete(b, p)) = AlertsBut(b, b.storage[p])
<1> DEFINE n == b.used_len
           nb == AfterDelete(b, p)
           From(q) == IF q < p THEN q ELSE q + 4    \* where section q was
<1>1. /\ n \in Nat /\ n % 4 = 1 /\ n >= 4
      /\ p \in Nat /\ p % 4 = 0 /\ p + 4 <= n - 1
  BY SMTT(30), StoreBufferIs, OffsetsSplit, SectionCells
<1>2. n - 4 \in Nat /\ (n - 4) % 4 = 1
  BY <1>1
<1>a. ASSUME NEW q \in Sections(n - 4)
      PROVE  /\ q \in Nat /\ q + 4 <= n - 5
             /\ q + 4 \in Sections(n)
             /\ q < p => q + 4 <= p
  BY <1>1 DEF Sections, Offsets, AIA_SIZE_OF_ALERT_IN_BYTES
<1>b. ASSUME NEW q \in Sections(n)
      PROVE  /\ q \in Nat /\ q + 4 <= n - 1
             /\ q < p => q \in Sections(n - 4)
             /\ q > p => q - 4 \in Sections(n - 4) /\ q - 4 >= p
  BY <1>1 DEF Sections, Offsets, AIA_SIZE_OF_ALERT_IN_BYTES
<1>3. \A q \in Sections(n - 4) : From(q) \in Sections(n) \ {p}
  BY <1>1, <1>2 DEF Sections, Offsets, AIA_SIZE_OF_ALERT_IN_BYTES
<1>4. \A r \in Sections(n) \ {p} : \E q \in Sections(n - 4) : r = From(q)
  <2> SUFFICES ASSUME NEW r \in Sections(n), r # p
               PROVE  \E q \in Sections(n - 4) : r = From(q)
    OBVIOUS
  <2>1. r \in Nat
    BY <1>b
  <2>2. CASE r < p
    <3>1. r \in Sections(n - 4) /\ From(r) = r
      BY <1>b, <2>2
    <3> QED  BY <3>1
  <2>3. CASE r > p
    <3>1. r - 4 \in Sections(n - 4) /\ r - 4 >= p
      BY <1>b, <2>3
    <3>2. From(r - 4) = r
      BY <3>1, <2>1, <1>1
    <3> QED  BY <3>1, <3>2
  <2> QED  BY <2>1, <2>2, <2>3, <1>1
<1>5. \A q, r \in Sections(n - 4) : From(q) = From(r) => q = r
  BY <1>1, <1>a
<1>6. /\ nb \in Blob(AlertsKey)
      /\ nb.used_len = n - 4
      /\ \A i \in 0 .. n - 5 : nb.storage[i] = IF i < p THEN b.storage[i] ELSE b.storage[i + 4]
  BY AfterDeleteIs
<1>7. \A q \in Sections(n - 4) : AlertAt(nb.storage, q) = AlertAt(b.storage, From(q))
  <2> SUFFICES ASSUME NEW q \in Sections(n - 4)
               PROVE  AlertAt(nb.storage, q) = AlertAt(b.storage, From(q))
    OBVIOUS
  <2>1. q \in Nat /\ q + 4 <= n - 5 /\ (q < p => q + 4 <= p)
    BY <1>a
  <2>2. /\ q \in 0 .. n - 5 /\ q + 1 \in 0 .. n - 5 /\ q + 2 \in 0 .. n - 5 /\ q + 3 \in 0 .. n - 5
    BY <1>1, <2>1
  <2>3. CASE q < p
    <3>1. q + 1 < p /\ q + 2 < p /\ q + 3 < p
      BY <1>1, <2>1, <2>3
    <3> QED  BY <3>1, <2>2, <2>3, <1>6 DEF AlertAt
  <2>4. CASE ~ (q < p)
    <3>1. ~ (q + 1 < p) /\ ~ (q + 2 < p) /\ ~ (q + 3 < p)
      BY <1>1, <2>1, <2>4
    <3>2. (q + 1) + 4 = (q + 4) + 1 /\ (q + 2) + 4 = (q + 4) + 2 /\ (q + 3) + 4 = (q + 4) + 3
      BY <2>1
    <3> QED  BY <3>1, <3>2, <2>2, <2>4, <1>6 DEF AlertAt
  <2> QED  BY <2>3, <2>4
<1>8. \A q \in Sections(n - 4) : nb.storage[q] = b.storage[From(q)]
  <2>1. \A s, q : AlertAt(s, q).token = s[q]
    BY DEF AlertAt
  <2> HIDE DEF From
  <2> QED  BY <1>7, <2>1
<1>9. nb.storage[n - 5] = NUL
  <2>1. n - 5 \in 0 .. n - 5 /\ ~ (n - 5 < p) /\ (n - 5) + 4 = n - 1
    BY <1>1, <1>2
  <2> QED  BY <1>6, <2>1 DEF WellFormed
<1> HIDE DEF From
<1>10. WellFormed(nb)
  <2>1. \A q \in Sections(n - 4) : nb.storage[q] \in Token
    BY <1>3, <1>8 DEF WellFormed
  <2>2. \A q, r \in Sections(n - 4) : nb.storage[q] = nb.storage[r] => q = r
    BY <1>3, <1>5, <1>8 DEF WellFormed
  <2>3. n - 4 - 1 = n - 5
    BY <1>1
  <2> QED
    BY <1>2, <1>6, <1>9, <2>1, <2>2, <2>3 DEF WellFormed, AIA_SIZE_OF_ALERT_IN_BYTES
<1>11. AlertsIn(nb) = {AlertAt(b.storage, r) : r \in Sections(n) \ {p}}
  BY <1>3, <1>4, <1>6, <1>7 DEF AlertsIn
<1>12. {AlertAt(b.storage, r) : r \in Sections(n) \ {p}} = AlertsBut(b, b.storage[p])
  <2>1. \A r : AlertAt(b.storage, r).token = b.storage[r]
    BY DEF AlertAt
  <2>2. \A r \in Sections(n) : b.storage[r] = b.storage[p] => r = p
    BY DEF WellFormed
  <2> QED  BY <2>1, <2>2 DEF AlertsBut, AlertsIn
<1> QED
  BY <1>10, <1>11, <1>12

\* A delete that finds nothing writes back what is there.
LEMMA DeleteNothing ==
    ASSUME NEW b, WellFormed(b)
    PROVE  Overwritten(b, DeleteBuffer(b), b.used_len) = b
<1>1. /\ b.used_len \in Nat /\ b.used_len <= BLOBSTORAGE_ALERTKEY_SIZE
      /\ BLOBSTORAGE_ALERTKEY_SIZE \in Nat
      /\ b.storage \in [0 .. BLOBSTORAGE_ALERTKEY_SIZE - 1 -> Cell]
      /\ b = [storage |-> b.storage, used_len |-> b.used_len]
  BY AlertsCapacity DEF WellFormed
<1>2. \A i \in 0 .. BLOBSTORAGE_ALERTKEY_SIZE - 1 :
        (IF i < b.used_len THEN DeleteBuffer(b)[i] ELSE b.storage[i]) = b.storage[i]
  BY <1>1, DeleteBufferIs
<1>3. [i \in DOMAIN b.storage |-> IF i < b.used_len THEN DeleteBuffer(b)[i] ELSE b.storage[i]]
        = b.storage
  BY <1>1, <1>2
<1> QED
  BY <1>1, <1>3 DEF Overwritten
---------------------------------------------------------------------------
(* The invariant. *)

LEMMA IInvIs == IInv <=> TypeOK /\ WellFormed(AlertsBlob)
  BY DEF IInv, TypeOK, AlertsBlobWellFormed, TokensUnique, WellFormed, AlertsBlob,
         Key, AlertsKey

\* A new blob under one key leaves the others as they were.
LEMMA OneBlobChanges ==
    ASSUME TypeOK, NEW k \in Key, NEW nb \in Blob(k),
           blobstorage' = [blobstorage EXCEPT ![k] = nb]
    PROVE  /\ TypeOK'
           /\ blobstorage'[k] = nb
           /\ \A j \in Key : j # k => blobstorage'[j] = blobstorage[j]
  BY DEF TypeOK

LEMMA InitialBlobs ==
    /\ \A k \in Key : InitialBlob[k] \in Blob(k)
    /\ DOMAIN InitialBlob = Key
    /\ WellFormed(InitialBlob[AlertsKey])
    /\ AlertsIn(InitialBlob[AlertsKey]) = {}
<1>1. \A k \in Key : Capacity[k] \in Nat
  BY CapacityAssumption DEF Key, Capacity, SecretKey, AlertsKey, TopicRootKey
<1>2. Capacity[AlertsKey] >= 1
  BY CapacityAssumption, AlertsCapacity
<1>3. \A k \in Key : InitialBlob[k] \in Blob(k)
  BY <1>1, <1>2 DEF InitialBlob, Blob, Cell
<1>4. /\ InitialBlob[AlertsKey].used_len = 1
      /\ InitialBlob[AlertsKey].storage = [i \in 0 .. Capacity[AlertsKey] - 1 |-> NUL]
      /\ AlertsKey \in Key
  BY DEF InitialBlob, Key
<1>5. Sections(1) = {}
  BY DEF Sections, Offsets, AIA_SIZE_OF_ALERT_IN_BYTES
<1>6. InitialBlob[AlertsKey].storage[1 - 1] = NUL
  <2>1. 1 - 1 \in 0 .. Capacity[AlertsKey] - 1
    BY <1>1, <1>2, <1>4
  <2> QED  BY <2>1, <1>4
<1>7. WellFormed(InitialBlob[AlertsKey])
  BY <1>3, <1>4, <1>5, <1>6 DEF WellFormed, AIA_SIZE_OF_ALERT_IN_BYTES
<1>8. AlertsIn(InitialBlob[AlertsKey]) = {}
  BY <1>4, <1>5 DEF AlertsIn
<1>9. DOMAIN InitialBlob = Key
  BY DEF InitialBlob
<1> QED
  BY <1>3, <1>7, <1>8, <1>9

\* The blob AiaStoreAlert stores when it accepts.
LEMMA StoreResult ==
    ASSUME NEW b, WellFormed(b), NEW a \in Alert,
           StoreAccepts(AlertsKey, StoreSize(b, a.token))
    PROVE  LET nb == AfterStore(b, StartingOffset(b, a.token), a, StoreSize(b, a.token))
           IN  WellFormed(nb) /\ AlertsIn(nb) = AlertsBut(b, a.token) \cup {a}
<1> DEFINE n == b.used_len
           t == a.token
<1>1. t \in Token /\ t # NUL
  BY NULAssumption DEF Alert
<1>2. CASE \E p \in Sections(n) : b.storage[p] = t
  <2>1. PICK p \in Sections(n) : b.storage[p] = t
    BY <1>2
  <2>2. StartingOffset(b, t) = p /\ Updating(b, t)
    BY <2>1, <1>1, StoreScanFinds
  <2>3. StoreSize(b, t) = n
    BY <2>2 DEF StoreSize
  <2> QED  BY <2>1, <2>2, <2>3, UpdateResult
<1>3. CASE \A p \in Sections(n) : b.storage[p] # t
  <2>1. StartingOffset(b, t) = n - 1 /\ ~ Updating(b, t)
    BY <1>3, <1>1, StoreScanAppends
  <2>2. StoreSize(b, t) = n + 4
    BY <2>1, StoreBufferIs DEF StoreSize
  <2>3. n + 4 <= BLOBSTORAGE_ALERTKEY_SIZE
    BY <2>2, AlertsCapacity DEF StoreAccepts
  <2> QED  BY <2>1, <2>2, <2>3, <1>3, AppendResult
<1> QED
  BY <1>2, <1>3

\* The blob AiaDeleteAlert stores.
LEMMA DeleteResults ==
    ASSUME NEW b, WellFormed(b), NEW t \in Token
    PROVE  LET buf == IF Deleting(b, t)
                      THEN Moved(DeleteBuffer(b), Min(DeleteStops(b, t)), b.used_len)
                      ELSE DeleteBuffer(b)
               size == IF Deleting(b, t) THEN b.used_len - AIA_SIZE_OF_ALERT_IN_BYTES
                                         ELSE b.used_len
               nb == Overwritten(b, buf, size)
           IN  WellFormed(nb) /\ AlertsIn(nb) = AlertsBut(b, t)
<1>1. CASE \E p \in Sections(b.used_len) : b.storage[p] = t
  <2>1. PICK p \in Sections(b.used_len) : b.storage[p] = t
    BY <1>1
  <2>2. Min(DeleteStops(b, t)) = p /\ Deleting(b, t)
    BY <2>1, DeleteScanFinds
  <2> QED  BY <2>1, <2>2, DeleteResult DEF AfterDelete
<1>2. CASE \A p \in Sections(b.used_len) : b.storage[p] # t
  <2>1. ~ Deleting(b, t)
    BY <1>2, NULAssumption, DeleteScanMisses
  <2>2. AlertsIn(b) = AlertsBut(b, t)
    <3>1. \A p \in Sections(b.used_len) : AlertAt(b.storage, p).token # t
      BY <1>2 DEF AlertAt
    <3> QED  BY <3>1 DEF AlertsIn, AlertsBut
  <2> QED  BY <2>1, <2>2, DeleteNothing
<1> QED
  BY <1>1, <1>2
---------------------------------------------------------------------------
(* The steps. *)

LEMMA InitStep == Init => IInv /\ AlertsIn(AlertsBlob) = {}
  BY InitialBlobs, IInvIs DEF Init, TypeOK, AlertsBlob

\* What a step on the alerts blob does to the table, in terms of the new blob.
LEMMA AlertsBlobChanges ==
    ASSUME IInv, NEW nb, WellFormed(nb),
           blobstorage' = [blobstorage EXCEPT ![AlertsKey] = nb]
    PROVE  /\ IInv'
           /\ AlertsBlob' = nb
           /\ \A k \in Key : k # AlertsKey => blobstorage'[k] = blobstorage[k]
<1>1. AlertsKey \in Key /\ nb \in Blob(AlertsKey) /\ TypeOK
  BY DEF Key, WellFormed, IInv
<1>2. TypeOK' /\ blobstorage'[AlertsKey] = nb
  BY <1>1, OneBlobChanges
<1>3. \A k \in Key : k # AlertsKey => blobstorage'[k] = blobstorage[k]
  BY <1>1, OneBlobChanges
<1>4. AlertsBlob' = nb
  BY <1>2 DEF AlertsBlob
<1>5. (IInv <=> TypeOK /\ WellFormed(AlertsBlob))'
  BY IInvIs, PTL
<1>6. WellFormed(AlertsBlob')
  BY <1>4
<1> QED
  BY <1>2, <1>3, <1>4, <1>5, <1>6

LEMMA StoreStep ==
    ASSUME IInv, NEW a \in Alert, NEW argsOk \in BOOLEAN, NEW heap \in BOOLEAN,
           AiaStoreAlert(a, argsOk, heap)
    PROVE  /\ IInv'
           /\ \E ok \in BOOLEAN : Table!Store(a, ok)
           /\ \A k \in Key : k # AlertsKey => blobstorage'[k] = blobstorage[k]
<1> DEFINE b == AlertsBlob
           size == StoreSize(b, a.token)
           nb == AfterStore(b, StartingOffset(b, a.token), a, size)
           ok == /\ argsOk
                 /\ CallocSucceeds(heap, WithNewAlert(b))
                 /\ LoadAccepts(b, b.used_len)
                 /\ StoreAccepts(AlertsKey, size)
<1>1. /\ WellFormed(b)
      /\ ok \in BOOLEAN
      /\ alertReply' = [call |-> "store", alert |-> a, ok |-> ok]
  BY IInvIs DEF AiaStoreAlert, AlertsBlob
<1>2. CASE ok
  <2>1. blobstorage' = [blobstorage EXCEPT ![AlertsKey] = nb]
    BY <1>2 DEF AiaStoreAlert, AfterStore, AlertsBlob
  <2>2. WellFormed(nb) /\ AlertsIn(nb) = AlertsBut(b, a.token) \cup {a}
    BY <1>1, <1>2, StoreResult
  <2> HIDE DEF nb, ok
  <2>3. /\ IInv' /\ AlertsBlob' = nb
        /\ \A k \in Key : k # AlertsKey => blobstorage'[k] = blobstorage[k]
    BY <2>1, <2>2, AlertsBlobChanges
  <2>4. AlertsIn(AlertsBlob)' = AlertsIn(nb)
    BY <2>3 DEF AlertsIn
  <2>5. Table!Store(a, ok)
    BY <1>1, <1>2, <2>2, <2>4 DEF Table!Store, Table!Without, AlertsBut
  <2> QED  BY <1>1, <2>3, <2>5
<1>3. CASE ~ ok
  <2>1. blobstorage' = blobstorage
    BY <1>3 DEF AiaStoreAlert, AlertsBlob
  <2> HIDE DEF ok
  <2>2. IInv' /\ AlertsIn(AlertsBlob)' = AlertsIn(AlertsBlob)
    BY <2>1 DEF IInv, TypeOK, AlertsBlobWellFormed, TokensUnique, AlertsBlob
  <2>3. Table!Store(a, ok)
    BY <1>1, <1>3, <2>2 DEF Table!Store
  <2> QED  BY <1>1, <2>1, <2>2, <2>3
<1> QED
  BY <1>2, <1>3

LEMMA DeleteStep ==
    ASSUME IInv, NEW t \in Token, NEW argsOk \in BOOLEAN, NEW heap \in BOOLEAN,
           AiaDeleteAlert(t, argsOk, heap)
    PROVE  /\ IInv'
           /\ \E ok \in BOOLEAN : Table!Delete(t, ok)
           /\ \A k \in Key : k # AlertsKey => blobstorage'[k] = blobstorage[k]
<1> DEFINE b == AlertsBlob
           buf == IF Deleting(b, t)
                  THEN Moved(DeleteBuffer(b), Min(DeleteStops(b, t)), b.used_len)
                  ELSE DeleteBuffer(b)
           size == IF Deleting(b, t) THEN b.used_len - AIA_SIZE_OF_ALERT_IN_BYTES
                                     ELSE b.used_len
           nb == Overwritten(b, buf, size)
           ok == /\ argsOk
                 /\ CallocSucceeds(heap, b.used_len)
                 /\ LoadAccepts(b, b.used_len)
                 /\ StoreAccepts(AlertsKey, size)
<1>1. /\ WellFormed(b)
      /\ ok \in BOOLEAN
      /\ alertReply' = [call |-> "delete", token |-> t, ok |-> ok]
  BY IInvIs DEF AiaDeleteAlert, AlertsBlob
<1>2. CASE ok
  <2>1. blobstorage' = [blobstorage EXCEPT ![AlertsKey] = nb]
    BY <1>2 DEF AiaDeleteAlert, AlertsBlob
  <2>2. WellFormed(nb) /\ AlertsIn(nb) = AlertsBut(b, t)
    BY <1>1, DeleteResults
  <2> HIDE DEF nb, ok
  <2>3. /\ IInv' /\ AlertsBlob' = nb
        /\ \A k \in Key : k # AlertsKey => blobstorage'[k] = blobstorage[k]
    BY <2>1, <2>2, AlertsBlobChanges
  <2>4. AlertsIn(AlertsBlob)' = AlertsIn(nb)
    BY <2>3 DEF AlertsIn
  <2>5. Table!Delete(t, ok)
    BY <1>1, <1>2, <2>2, <2>4 DEF Table!Delete, Table!Without, AlertsBut
  <2> QED  BY <1>1, <2>3, <2>5
<1>3. CASE ~ ok
  <2>1. blobstorage' = blobstorage
    BY <1>3 DEF AiaDeleteAlert, AlertsBlob
  <2> HIDE DEF ok
  <2>2. IInv' /\ AlertsIn(AlertsBlob)' = AlertsIn(AlertsBlob)
    BY <2>1 DEF IInv, TypeOK, AlertsBlobWellFormed, TokensUnique, AlertsBlob
  <2>3. Table!Delete(t, ok)
    BY <1>1, <1>3, <2>2 DEF Table!Delete
  <2> QED  BY <1>1, <2>1, <2>2, <2>3
<1> QED
  BY <1>2, <1>3
\* The keys a client can name for a blob of its own.
LEMMA ClientKeys ==
    /\ \A k \in ClientKey : k # AlertsKey /\ k \in {SecretKey, TopicRootKey, UnknownKey}
    /\ Key = {SecretKey, AlertsKey, TopicRootKey}
    /\ UnknownKey \notin Key /\ AlertsKey \notin {SecretKey, TopicRootKey}
    /\ \A k \in Key : Capacity[k] \in Nat
    /\ Capacity[SecretKey] = BLOBSTORAGE_SHAREDKEY_SIZE
    /\ Capacity[TopicRootKey] = BLOBSTORAGE_TOPICROOT_SIZE
  BY ClientKeyAssumption, CapacityAssumption
  DEF Key, SecretKey, AlertsKey, TopicRootKey, UnknownKey, Capacity

\* The alerts blob stands still in a step that leaves it alone.
LEMMA AlertsUntouched ==
    ASSUME IInv, TypeOK', blobstorage'[AlertsKey] = blobstorage[AlertsKey]
    PROVE  IInv' /\ AlertsIn(AlertsBlob)' = AlertsIn(AlertsBlob)
  BY DEF IInv, AlertsBlobWellFormed, TokensUnique, AlertsBlob

LEMMA BlobStoreStep ==
    ASSUME IInv, NEW k \in ClientKey, NEW blobOk \in BOOLEAN, NEW size \in SizesFor(k),
           NEW buf \in [0 .. size - 1 -> BlobByte], AiaStoreBlob(k, blobOk, buf, size)
    PROVE  /\ IInv' /\ AlertsIn(AlertsBlob)' = AlertsIn(AlertsBlob)
           /\ \E ok \in BOOLEAN : Blobs!Store(k, size, buf, ok)
<1> DEFINE ok == blobOk /\ StoreAccepts(k, size)
           nb == Overwritten(blobstorage[k], buf, size)
<1>1. /\ TypeOK /\ ok \in BOOLEAN /\ k # AlertsKey /\ AlertsKey \in Key
      /\ blobReply' = [call |-> "store", key |-> k, ok |-> ok, stored |-> IF ok THEN buf ELSE <<>>]
  BY ClientKeys DEF AiaStoreBlob, IInv
<1>2. CASE ok
  <2>1. /\ k \in Key /\ k \in {SecretKey, TopicRootKey} /\ size <= Capacity[k]
        /\ Capacity[k] \in Nat /\ size \in Nat
    BY <1>2, ClientKeys DEF StoreAccepts, SizesFor
  <2>2. blobstorage' = [blobstorage EXCEPT ![k] = nb]
    BY <1>2 DEF AiaStoreBlob
  <2>3. /\ blobstorage[k].storage \in [0 .. Capacity[k] - 1 -> Cell]
        /\ nb = [storage  |-> [i \in 0 .. Capacity[k] - 1 |->
                                IF i < size THEN buf[i] ELSE blobstorage[k].storage[i]],
                 used_len |-> size]
    BY <1>1, <2>1 DEF TypeOK, Blob, Overwritten
  <2>4. \A i \in 0 .. size - 1 : buf[i] \in Cell /\ i \in 0 .. Capacity[k] - 1
    BY <2>1 DEF Cell
  <2>5. nb \in Blob(k)
    BY <2>1, <2>3, <2>4 DEF Blob
  <2>6. [i \in 0 .. size - 1 |-> nb.storage[i]] = buf
    BY <2>1, <2>3, <2>4
  <2> HIDE DEF nb
  <2>7. /\ TypeOK' /\ blobstorage'[k] = nb
        /\ \A j \in Key : j # k => blobstorage'[j] = blobstorage[j]
    BY <1>1, <2>1, <2>2, <2>5, OneBlobChanges
  <2>8. Contents(k)' = [len |-> size, bytes |-> buf]
    <3>1. nb.used_len = size
      BY <2>3
    <3>2. Contents(k)' = [len   |-> nb.used_len,
                          bytes |-> [i \in 0 .. nb.used_len - 1 |-> nb.storage[i]]]
      BY <2>7 DEF Contents
    <3> QED  BY <3>1, <3>2, <2>6
  <2>9. \A j \in {SecretKey, TopicRootKey} : j # k => Contents(j)' = Contents(j)
    BY <2>7, ClientKeys DEF Contents
  <2>10. Blobs!Store(k, size, buf, ok)
    BY <1>1, <1>2, <2>1, <2>8, <2>9 DEF Blobs!Store
  <2> QED  BY <1>1, <2>7, <2>10, AlertsUntouched
<1>3. CASE ~ ok
  <2>1. blobstorage' = blobstorage
    BY <1>3 DEF AiaStoreBlob
  <2>2. TypeOK' /\ \A j \in {SecretKey, TopicRootKey} : Contents(j)' = Contents(j)
    BY <1>1, <2>1 DEF TypeOK, Contents
  <2> HIDE DEF ok
  <2>3. Blobs!Store(k, size, buf, ok)
    BY <1>1, <1>3, <2>2 DEF Blobs!Store
  <2> QED  BY <1>1, <2>1, <2>2, <2>3, AlertsUntouched
<1> QED
  BY <1>2, <1>3

LEMMA BlobLoadStep ==
    ASSUME IInv, NEW k \in ClientKey, NEW blobOk \in BOOLEAN, NEW size \in SizesFor(k),
           AiaLoadBlob(k, blobOk, size)
    PROVE  /\ IInv' /\ AlertsIn(AlertsBlob)' = AlertsIn(AlertsBlob)
           /\ \E ok \in BOOLEAN : Blobs!Load(k, size, ok)
<1> DEFINE ok == blobOk /\ k \in Key /\ LoadAccepts(blobstorage[k], size)
           loaded == Loaded(blobstorage[k], Calloced(size))
           Stored == [j \in {SecretKey, TopicRootKey} |-> Contents(j)]
<1>1. /\ TypeOK /\ ok \in BOOLEAN /\ blobstorage' = blobstorage
      /\ blobReply' = [call |-> "load", key |-> k, ok |-> ok,
                       loaded |-> IF ok THEN loaded ELSE <<>>]
  BY DEF AiaLoadBlob, IInv
<1>2. /\ TypeOK' /\ IInv' /\ AlertsIn(AlertsBlob)' = AlertsIn(AlertsBlob)
      /\ Stored' = Stored
  BY <1>1, AlertsUntouched DEF TypeOK, Contents
<1>3. ASSUME ok
      PROVE  /\ k \in {SecretKey, TopicRootKey} /\ Stored[k].len <= size
             /\ loaded = Blobs!Padded(Stored[k], size)
  <2>1. k \in Key /\ k \in {SecretKey, TopicRootKey} /\ blobstorage[k].used_len <= size
    BY <1>3, ClientKeys DEF LoadAccepts
  <2>2. /\ blobstorage[k].used_len \in Nat
        /\ size \in Nat
    BY <1>1, <2>1, ClientKeys DEF TypeOK, Blob, SizesFor
  <2>3. /\ Stored[k].len = blobstorage[k].used_len
        /\ \A i \in 0 .. size - 1 : i < blobstorage[k].used_len =>
                Stored[k].bytes[i] = blobstorage[k].storage[i]
    BY <2>1, <2>2 DEF Contents
  <2>4. loaded = [i \in 0 .. size - 1 |->
                    IF i < blobstorage[k].used_len THEN blobstorage[k].storage[i] ELSE NUL]
    BY DEF Loaded, Calloced
  <2> HIDE DEF Stored, loaded
  <2> QED  BY <2>1, <2>3, <2>4 DEF Blobs!Padded
<1>4. Blobs!Load(k, size, ok)
  <2> HIDE DEF ok, loaded
  <2> QED  BY <1>1, <1>2, <1>3 DEF Blobs!Load
<1> QED
  BY <1>1, <1>2, <1>4
\* What the client sees of the two blobs, and the steps that leave them alone.
ClientBlobs == [k \in {SecretKey, TopicRootKey} |-> Contents(k)]

LEMMA ClientBlobsUntouched ==
    ASSUME \A k \in Key : k # AlertsKey => blobstorage'[k] = blobstorage[k]
    PROVE  ClientBlobs' = ClientBlobs
  BY ClientKeys DEF ClientBlobs, Contents

\* Every step of storage keeps the invariant, and is a step, or a stutter, of the
\* alert table and of the blob store.
LEMMA NextStep ==
    ASSUME IInv, [Next]_vars
    PROVE  IInv' /\ [Table!Next]_(Table!vars) /\ [Blobs!Next]_(Blobs!vars)
<1>1. ASSUME NEW k \in ClientKey, NEW blobOk \in BOOLEAN, NEW size \in SizesFor(k),
             NEW buf \in [0 .. size - 1 -> BlobByte], AiaStoreBlob(k, blobOk, buf, size)
      PROVE  IInv' /\ UNCHANGED Table!vars /\ Blobs!Next
  <2>1. /\ IInv' /\ AlertsIn(AlertsBlob)' = AlertsIn(AlertsBlob)
        /\ \E ok \in BOOLEAN : Blobs!Store(k, size, buf, ok)
    BY <1>1, BlobStoreStep
  <2>2. /\ k \in {SecretKey, TopicRootKey} \cup {UnknownKey}
        /\ size \in 0 .. BLOBSTORAGE_SHAREDKEY_SIZE + BLOBSTORAGE_TOPICROOT_SIZE + 1
    BY ClientKeys, CapacityAssumption DEF SizesFor
  <2>3. UNCHANGED Table!vars
    BY <1>1, <2>1 DEF AiaStoreBlob, Table!vars
  <2> QED  BY <2>1, <2>2, <2>3 DEF Blobs!Next, Blobs!Bytes
<1>2. ASSUME NEW k \in ClientKey, NEW blobOk \in BOOLEAN, NEW size \in SizesFor(k),
             AiaLoadBlob(k, blobOk, size)
      PROVE  IInv' /\ UNCHANGED Table!vars /\ Blobs!Next
  <2>1. /\ IInv' /\ AlertsIn(AlertsBlob)' = AlertsIn(AlertsBlob)
        /\ \E ok \in BOOLEAN : Blobs!Load(k, size, ok)
    BY <1>2, BlobLoadStep
  <2>2. /\ k \in {SecretKey, TopicRootKey} \cup {UnknownKey}
        /\ size \in 0 .. BLOBSTORAGE_SHAREDKEY_SIZE + BLOBSTORAGE_TOPICROOT_SIZE + 1
    BY ClientKeys, CapacityAssumption DEF SizesFor
  <2>3. UNCHANGED Table!vars
    BY <1>2, <2>1 DEF AiaLoadBlob, Table!vars
  <2> QED  BY <2>1, <2>2, <2>3 DEF Blobs!Next
<1>3. ASSUME NEW k \in ClientKey, AiaBlobExists(k)
      PROVE  IInv' /\ UNCHANGED Table!vars /\ Blobs!Next
  <2>1. blobstorage' = blobstorage /\ alertReply' = alertReply
    BY <1>3 DEF AiaBlobExists
  <2>2. IInv' /\ UNCHANGED Table!vars
    BY <2>1, AlertsUntouched DEF IInv, TypeOK, Table!vars
  <2>3. k \in {SecretKey, TopicRootKey} \cup {UnknownKey} /\ k # AlertsKey
    BY ClientKeys
  <2>4. Blobs!Exists(k)
    <3>1. k \in Key <=> k \in {SecretKey, TopicRootKey}
      BY <2>3, ClientKeys
    <3>2. k \in {SecretKey, TopicRootKey} => ClientBlobs[k].len = blobstorage[k].used_len
      BY DEF ClientBlobs, Contents
    <3>3. ClientBlobs' = ClientBlobs
      BY <2>1, ClientBlobsUntouched
    <3> QED  BY <1>3, <3>1, <3>2, <3>3 DEF AiaBlobExists, Blobs!Exists, ClientBlobs
  <2> QED  BY <2>2, <2>3, <2>4 DEF Blobs!Next
<1>4. ASSUME NEW a \in Alert, NEW argsOk \in BOOLEAN, NEW heap \in BOOLEAN,
             AiaStoreAlert(a, argsOk, heap)
      PROVE  IInv' /\ Table!Next /\ UNCHANGED Blobs!vars
  <2>1. /\ IInv' /\ (\E ok \in BOOLEAN : Table!Store(a, ok))
        /\ ClientBlobs' = ClientBlobs
    BY <1>4, StoreStep, ClientBlobsUntouched
  <2>2. UNCHANGED Blobs!vars
    BY <1>4, <2>1 DEF AiaStoreAlert, Blobs!vars, ClientBlobs
  <2> QED  BY <2>1, <2>2 DEF Table!Next, Table!Alert, Alert
<1>5. ASSUME NEW t \in Token, NEW argsOk \in BOOLEAN, NEW heap \in BOOLEAN,
             AiaDeleteAlert(t, argsOk, heap)
      PROVE  IInv' /\ Table!Next /\ UNCHANGED Blobs!vars
  <2>1. /\ IInv' /\ (\E ok \in BOOLEAN : Table!Delete(t, ok))
        /\ ClientBlobs' = ClientBlobs
    BY <1>5, DeleteStep, ClientBlobsUntouched
  <2>2. UNCHANGED Blobs!vars
    BY <1>5, <2>1 DEF AiaDeleteAlert, Blobs!vars, ClientBlobs
  <2> QED  BY <2>1, <2>2 DEF Table!Next
<1>6. ASSUME NEW size \in SizesFor(AlertsKey), AiaLoadAlerts(size)
      PROVE  IInv' /\ Table!Next /\ UNCHANGED Blobs!vars
  <2>1. blobstorage' = blobstorage /\ blobReply' = blobReply
    BY <1>6 DEF AiaLoadAlerts
  <2>2. /\ IInv' /\ AlertsIn(AlertsBlob)' = AlertsIn(AlertsBlob)
        /\ ClientBlobs' = ClientBlobs
    BY <2>1, AlertsUntouched, ClientBlobsUntouched DEF IInv, TypeOK
  <2>3. Table!Load(LoadAccepts(AlertsBlob, size))
    BY <1>6, <2>2 DEF AiaLoadAlerts, Table!Load, AlertsBlob
  <2>4. LoadAccepts(AlertsBlob, size) \in BOOLEAN
    BY DEF LoadAccepts
  <2>5. UNCHANGED Blobs!vars
    BY <2>1, <2>2 DEF Blobs!vars, ClientBlobs
  <2> QED  BY <2>2, <2>3, <2>4, <2>5 DEF Table!Next
<1>7. ASSUME Restart
      PROVE  IInv' /\ Table!Next /\ Blobs!Next
  <2>1. blobstorage' = InitialBlob
    BY <1>7 DEF Restart
  <2>2. IInv' /\ AlertsIn(AlertsBlob)' = {}
    <3>1. (Init => IInv /\ AlertsIn(AlertsBlob) = {})'
      BY InitStep, PTL
    <3> QED  BY <3>1, <1>7 DEF Init, Restart
  <2>3. Table!Lose
    BY <1>7, <2>2 DEF Restart, NoReply, Table!Lose, Table!NoReply
  <2>4. Blobs!Lose
    <3>1. \A k \in {SecretKey, TopicRootKey} : Contents(k)' = [len |-> 0, bytes |-> <<>>]
      <4>1. \A k \in {SecretKey, TopicRootKey} : InitialBlob[k].used_len = 0
        BY ClientKeys DEF InitialBlob
      <4>2. \A s : [i \in 0 .. 0 - 1 |-> s[i]] = <<>>
        OBVIOUS
      <4> QED  BY <2>1, <4>1, <4>2 DEF Contents
    <3> QED  BY <1>7, <3>1 DEF Restart, NoReply, Blobs!Lose, Blobs!Init
  <2> QED  BY <2>2, <2>3, <2>4 DEF Table!Next, Blobs!Next
<1>8. CASE UNCHANGED vars
  <2>1. /\ IInv' /\ AlertsIn(AlertsBlob)' = AlertsIn(AlertsBlob)
        /\ ClientBlobs' = ClientBlobs
    BY <1>8, AlertsUntouched, ClientBlobsUntouched DEF IInv, TypeOK, vars
  <2> QED  BY <1>8, <2>1 DEF vars, Table!vars, Blobs!vars, ClientBlobs
<1> QED
  BY <1>1, <1>2, <1>3, <1>4, <1>5, <1>6, <1>7, <1>8 DEF Next, BlobNext, AlertsNext
LEMMA Invariance == Spec => []IInv
  BY InitStep, NextStep, PTL DEF Spec

---------------------------------------------------------------------------
(* The theorems. *)

\* Every blob keeps its cells, and its used_len within the capacity its table declares,
\* whatever is stored, appended, shifted or lost at a restart.
THEOREM TypeCorrect == Spec => []TypeOK
<1>1. IInv => TypeOK
  BY DEF IInv
<1> QED
  BY <1>1, Invariance, PTL

\* Whatever sequence of stores, updates, deletes, loads and restarts a client
\* makes, the alerts blob is a run of whole alerts closed by a zero cell, and no
\* token occurs in it twice.
THEOREM AlertsBlobInvariant == Spec => [](AlertsBlobWellFormed /\ TokensUnique)
<1>1. IInv => AlertsBlobWellFormed /\ TokensUnique
  BY DEF IInv
<1> QED
  BY <1>1, Invariance, PTL

\* Nor does any of them write or move outside the buffer it allocated.
THEOREM ScansBounded == Spec => []ScansStayInBuffer
<1>1. IInv => ScansStayInBuffer
  <2> SUFFICES ASSUME IInv, NEW t \in Token
               PROVE  /\ StartingOffset(AlertsBlob, t) + AIA_SIZE_OF_ALERT_IN_BYTES
                            <= WithNewAlert(AlertsBlob)
                      /\ Deleting(AlertsBlob, t) =>
                            Min(DeleteStops(AlertsBlob, t)) + AIA_SIZE_OF_ALERT_IN_BYTES
                                <= AlertsBlob.used_len
    BY DEF ScansStayInBuffer
  <2> DEFINE b == AlertsBlob
  <2>1. /\ WellFormed(b) /\ t # NUL
        /\ b.used_len \in Nat /\ b.used_len % 4 = 1
        /\ WithNewAlert(b) = b.used_len + 4
    BY IInvIs, NULAssumption, StoreBufferIs
  <2> HIDE DEF b
  <2>2. CASE \E p \in Sections(b.used_len) : b.storage[p] = t
    <3>1. PICK p \in Sections(b.used_len) : b.storage[p] = t
      BY <2>2
    <3>2. StartingOffset(b, t) = p /\ Min(DeleteStops(b, t)) = p
      BY <2>1, <3>1, StoreScanFinds, DeleteScanFinds
    <3>3. p \in Nat /\ p + 4 <= b.used_len - 1
      BY <2>1, SectionCells
    <3> QED  BY <2>1, <3>2, <3>3 DEF AIA_SIZE_OF_ALERT_IN_BYTES, b
  <2>3. CASE \A p \in Sections(b.used_len) : b.storage[p] # t
    <3>1. StartingOffset(b, t) = b.used_len - 1 /\ ~ Deleting(b, t)
      BY <2>1, <2>3, StoreScanAppends, DeleteScanMisses
    <3> QED  BY <2>1, <3>1 DEF AIA_SIZE_OF_ALERT_IN_BYTES, b
  <2> QED  BY <2>2, <2>3
<1> QED
  BY <1>1, Invariance, PTL

\* A full blob still serves the updates and the deletes of what it holds.
THEOREM UpdatesServed == Spec => []UpdatesAndDeletesServed
<1>1. IInv => UpdatesAndDeletesServed
  <2> SUFFICES ASSUME IInv
               PROVE  /\ \A a \in AlertsIn(AlertsBlob) :
                            StoreAccepts(AlertsKey, StoreSize(AlertsBlob, a.token))
                      /\ CallocSucceeds(TRUE, AlertsBlob.used_len)
    BY DEF UpdatesAndDeletesServed
  <2> DEFINE b == AlertsBlob
  <2>1. /\ WellFormed(b)
        /\ b.used_len \in Nat /\ b.used_len % 4 = 1
    BY IInvIs, StoreBufferIs
  <2>2. b.used_len <= Capacity[AlertsKey] /\ AlertsKey \in Key
    BY <2>1, AlertsCapacity DEF WellFormed, Key
  <2> HIDE DEF b
  <2>3. CallocSucceeds(TRUE, b.used_len)
    BY <2>1 DEF CallocSucceeds
  <2>4. ASSUME NEW a \in AlertsIn(b)
        PROVE  StoreAccepts(AlertsKey, StoreSize(b, a.token))
    <3>1. PICK p \in Sections(b.used_len) : a = AlertAt(b.storage, p)
      BY DEF AlertsIn
    <3>2. b.storage[p] = a.token /\ b.storage[p] \in Token
      BY <2>1, <3>1 DEF AlertAt, WellFormed
    <3>3. Updating(b, a.token)
      BY <2>1, <3>2, StoreScanFinds
    <3> QED  BY <2>2, <3>3 DEF StoreSize, StoreAccepts
  <2> QED  BY <2>3, <2>4 DEF b
<1> QED
  BY <1>1, Invariance, PTL

\* Storage implements the table of alerts: answers included, every call on the
\* scanned and shifted blob looks like a call on a map from tokens to alerts.
THEOREM StorageImplementsAlertTable == Spec => ImplementsAlertTable
<1>1. Init => IInv /\ Table!Init
  BY InitStep DEF Init, NoReply, Table!Init, Table!NoReply
<1>2. IInv /\ [Next]_vars => IInv' /\ [Table!Next]_(Table!vars)
  BY NextStep
<1> QED
  BY <1>1, <1>2, PTL DEF Spec, ImplementsAlertTable, Table!Spec

\* And the blob store, for the secret and the topic root.
THEOREM StorageImplementsBlobStore == Spec => ImplementsBlobStore
<1>1. Init => IInv /\ Blobs!Init
  <2>1. Init => \A k \in {SecretKey, TopicRootKey} : Contents(k) = [len |-> 0, bytes |-> <<>>]
    <3>1. \A k \in {SecretKey, TopicRootKey} : InitialBlob[k].used_len = 0
      BY ClientKeys DEF InitialBlob
    <3>2. \A s : [i \in 0 .. 0 - 1 |-> s[i]] = <<>>
      OBVIOUS
    <3> QED  BY <3>1, <3>2 DEF Init, Contents
  <2> QED  BY <2>1, InitStep DEF Init, NoReply, Blobs!Init
<1>2. IInv /\ [Next]_vars => IInv' /\ [Blobs!Next]_(Blobs!vars)
  BY NextStep
<1> QED
  BY <1>1, <1>2, PTL DEF Spec, ImplementsBlobStore, Blobs!Spec
===========================================================================
