CONSTANTS
    MaxUtterances = 3
    MaxFinals = 2
SPECIFICATION FairSpec
CHECK_DEADLOCK FALSE
INVARIANTS TypeOK MutedOnlyWhileSpeaking StopIsForASpeech
PROPERTIES BargeInHasCause OnlySpokenOverIsSwallowed MicReopens
