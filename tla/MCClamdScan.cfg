CONSTANTS
    Messages = 6
    SocketRoom = 2
    HighWater = 2
    LowWater = 1
SPECIFICATION ServedSpec
INVARIANT TypeOK
PROPERTIES FailsClosed EndsWhenServed
\* A scan ends.
CHECK_DEADLOCK FALSE
