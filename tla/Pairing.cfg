CONSTANTS
    ios = ios
    android = android
    Phones = {ios, android}
    AndroidPhones = {android}
    Refreshers = {android}
    InvitedUsers = {1}
    Emails = {e1, e2}
    Codes = {c1, c2}
    Rows = {r1, r2}
    MaxUser = 2
    MaxKills = 1
    None = None
SPECIFICATION Spec
SYMMETRY Symmetry
CHECK_DEADLOCK FALSE
INVARIANTS TypeOK OneDevicePerCode  FlagShowsToken

PROPERTIES StrangersStayApart
