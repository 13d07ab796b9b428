\* Two requests at a time, each login or page for 1 and each other request for 2
\* of a budget of 5, and two edits, reloads, failures or kills; the lock of the
\* panel after 2 wrong passwords for 3. Symmetric: requests, keys with a public key.
SPECIFICATION Spec
CONSTANTS
    cn = cn
    en = en
    r1 = r1
    r2 = r2
    plain = plain
    window = window
    hotfix = hotfix
    beta = beta
    a1 = a1
    a2 = a2
    n1 = n1
    n2 = n2
    p1 = p1
    p2 = p2
    Absent = Absent
    Bad = Bad
    Corrupt = Corrupt
    None = None
    Languages = {cn, en}
    Routes = {r1, r2}
    Rests = {plain, window}
    Blank = Blank
    RegionNames = {hotfix, beta, Blank}
    Addresses = {a1, a2, Blank}
    Capacity = 2
    Default <- MCDefault
    Edits <- MCEdits
    Requests = {q1, q2}
    Names = {n1, n2}
    Passwords = {p1, p2}
    FirstCreds <- MCFirst
    Guesses <- MCGuesses
    Changes <- MCChanges
    Tokens = {t1}
    AdminMaxFails = 2
    StopWindows = {window}
    KeyIds = {k4, k5, k9}
    EncryptionKeys = {k4, k5}
    MaxWork = 5
    MaxEvents = 2
SYMMETRY RequestSymmetry
INVARIANTS
    TypeOK
    RestartAgrees
    GuessesBounded
    ChangesStick
    LanguageAgrees
    AnswerFromOneConfig
    EncryptedForAsker
PROPERTY TokensAreSessions
CHECK_DEADLOCK FALSE
