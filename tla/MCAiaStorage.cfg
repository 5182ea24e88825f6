CONSTANTS
    Token = {t1, t2, t3}
    ScheduledTime = {s1}
    Duration = {d1}
    AlertType = {TIMER, ALARM}
    BlobByte = {x}
    NUL = NUL
    ClientKey = {"AiaSharedSecretStorageKey", "AiaTopicRootKey", "AiaOtherKey"}
    BLOBSTORAGE_SHAREDKEY_SIZE = 2
    BLOBSTORAGE_ALERTKEY_SIZE = 9
    BLOBSTORAGE_TOPICROOT_SIZE = 0
SYMMETRY TokenSymmetry
SPECIFICATION Spec
INVARIANTS
    TypeOK
    AlertsBlobWellFormed
    ScansStayInBuffer
    UpdatesAndDeletesServed
PROPERTIES
    ImplementsAlertTable
    ImplementsBlobStore
