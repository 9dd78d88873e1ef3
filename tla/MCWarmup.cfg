CONSTANTS
    N = 3
    Streams = {"client"}
    Workers = 1
    Raises = {3}
SPECIFICATION Spec
CHECK_DEADLOCK FALSE
INVARIANTS
    CompleteIsFinal
    AnnouncedStands
PROPERTIES
    Completes
    StreamsEnd
