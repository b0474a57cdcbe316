CONSTANTS
    w1 = w1
    w2 = w2
    google = google
    outlook = outlook
    slack = slack
    None = None
    Writers = {w1, w2}
    Asked <- MCAsked
    Kept <- MCKept
    AccountSets <- MCAccounts
    Unbuildable = {outlook, slack}
    MaxMails = 2
    Slots = 1
    MaxStray = 1
    DayLength = 2
    Horizon = 2
    LastRequest = 0
SPECIFICATION FairSpec
CHECK_DEADLOCK FALSE
INVARIANTS TypeOK SettingsStick TodaysBriefingIsRead
PROPERTIES EveryRunEnds
