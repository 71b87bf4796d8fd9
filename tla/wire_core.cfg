\* Whole sends, every split of the stream into recv() results; one message does not fit the buffer.
CONSTANTS
    w1 = w1
    w2 = w2
    a = a
    b = b
    c = c
    d = d
    Senders <- MCSenders
    Work <- MCWork
    Payload <- MCPayload
    HL = 2
    Cap = 4
    MayTruncate = FALSE
SPECIFICATION Spec
INVARIANTS TypeOK StreamAligned
PROPERTY WireRefinesChannel
\* Once every message is sent and read, the receive thread only polls.
CHECK_DEADLOCK FALSE
