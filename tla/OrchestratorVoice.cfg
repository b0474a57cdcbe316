CONSTANTS
    voice = voice
    worker = worker
    chat = chat
    Sessions <- OnlyVoice
    Kind <- KindVoice
    Volatile = FALSE
    MaxDrafts = 2
    MaxConfirms = 2
    MaxStarts = 3
SPECIFICATION FairSpec
CHECK_DEADLOCK FALSE
INVARIANTS TypeOK ConfirmedBeforeSent AtMostOnceUnlessCrashed PromptShowsPending
PROPERTIES LastAnswerGoverns GatePromise PromptsResolve
