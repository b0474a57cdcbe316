CONSTANTS
    ios = ios
    android = android
    Phones = {ios, android}
    AndroidPhones = {android}
    Refreshers = {}
    InvitedUsers = {}
    Emails = {e1}
    Codes = {c1, c2}
    Rows = {r1, r2}
    MaxUser = 2
    MaxKills = 0
    None = None
SPECIFICATION Spec
CHECK_DEADLOCK FALSE
INVARIANT SameAddressSameUser
