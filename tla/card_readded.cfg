\* A register removes a card and registers its number again.
CONSTANTS
    s1 = s1  s2 = s2  g1 = g1  n1 = n1  c1 = c1  c2 = c2
    NoGroup = NoGroup  NoCode = NoCode  NoCard = NoCard  NoId = NoId
    ProfileCode = profile  ExpiryCode = expiry  DefaultVerifyCode = default
    Registers = {s1, s2}
    Groups = {g1}
    InitialGroup <- Joined
    Numbers = {n1}
    TestNumbers = {n1}
    Callers = {c1}
    Tried = {profile, default}
    VerifyWait = 0
    DefaultVerifyWait = 1
    Forms <- TwoForms
    Overlap = "serial"
    MaxCards = 2
    MaxClock = 2
    MaxCalls = 4
    MaxIncidents = 0
SPECIFICATION Spec
PROPERTY RemovedCanReturn
CHECK_DEADLOCK FALSE
