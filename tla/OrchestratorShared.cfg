CONSTANTS
    voice = voice
    worker = worker
    chat = chat
    Sessions <- VoiceAndWorker
    Kind <- KindVoiceAndWorker
    Volatile = FALSE
    MaxDrafts = 2
    MaxConfirms = 1
    MaxStarts = 2
SPECIFICATION Spec
VIEW WithoutLast
CHECK_DEADLOCK FALSE
INVARIANTS GateNeverBypassed AuditTruthful
