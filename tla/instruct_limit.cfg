SPECIFICATION MCSpec
CONSTANT BITS = 7
PROPERTY LimitIsAnnounced
CHECK_DEADLOCK FALSE
