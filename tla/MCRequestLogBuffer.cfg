SPECIFICATION Spec
CONSTANTS
    FlushMaxBuffer = 2
    RetryFactor = 2
    Flusher = {f1}
    f1 = f1
    MaxRows = 6
    MaxFailures = 2
INVARIANTS
    PendingInOrder
    NothingLostSilently
    FlushPendingDrains
    ShutdownDrains
PROPERTY
    RowsWrittenUnlessMissed
