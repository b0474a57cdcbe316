CONSTANTS
    voice = voice
    worker = worker
    chat = chat
    Sessions <- OnlyChat
    Kind <- KindChat
    Volatile = TRUE
    MaxDrafts = 2
    MaxConfirms = 2
    MaxStarts = 3
SPECIFICATION Spec
CHECK_DEADLOCK FALSE
INVARIANTS AtMostOnce FreshRequestStartsFresh ExecutesForTheUser
