CONSTANTS
    Token = {t1, t2, t3}
    Login = {l1, l2, l3}
    State = {s1, s2}
    Call = {c1, c2}
    None = None
    Req = {q1, q2}
    MaxRefreshes = 2
    MaxActs = 3
SPECIFICATION BrowserSpec
INVARIANTS
    CredentialsWorkOnce LogoutEndsLogin SignOutIsClean NotThrownOut
PROPERTIES
    NothingOutlivesLogout EverythingSettles
CHECK_DEADLOCK FALSE
