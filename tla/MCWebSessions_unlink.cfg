SPECIFICATION Spec
CONSTANTS
    Workers = {w1, w2}
    Browsers = {b1, b2}
    Tokens = {t1, t2}
    NoToken = NoToken
    Nobody = Nobody
    Keys = {user}
    UserKey = user
    Torn = Torn
    Missing = Missing
    NoFile = NoFile
    Expiration = 0
    MaySaveFail = FALSE
    MayCrash = FALSE
    MaxNow = 1
    user = user
    w1 = w1
    w2 = w2
    b1 = b1
    b2 = b2
    t1 = t1
    t2 = t2
PROPERTY OnlyUnregisteredUnlinked
