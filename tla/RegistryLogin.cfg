SPECIFICATION LoginSpec
CONSTANTS
    Registries = {r1, r2}
    r1 = r1
    r2 = r2
    Passwords = {"p1"}
    Tokens = {"t1"}
    NoSecret = "none"
    BrokenEntry = "broken"
    MaxCliEdits = 1
    MaxAbandons = 1
SYMMETRY RegistrySymmetry
VIEW LoginView
INVARIANTS
    StoredIsAccepted
    ForgottenStaysForgotten
    ListShowsWallet
CHECK_DEADLOCK FALSE
