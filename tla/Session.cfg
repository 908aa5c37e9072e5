\* Two tabs of one browser, two users, two sessions.
SPECIFICATION Spec
CONSTANTS
    Tabs = {t1, t2}
    Users = {"courier", "operator"}
    RoleOf <- MCRoleOf
    Granted <- MCGranted
    Paths = {"/login", "/inicio", "/usuarios"}
    Callers = {t1}
    MaxLogins = 2
INVARIANT SessionIsOwn
PROPERTIES SessionEndsOnItsOwn RouterSettles
