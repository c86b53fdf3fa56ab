SPECIFICATION Spec
CONSTANTS
    w1 = w1  w2 = w2
    a1 = a1  a2 = a2  a3 = a3
    t1 = t1  t2 = t2
    f1 = f1  f2 = f2
    NoAttempt = NoAttempt
    NoToken = NoToken
    NoPlatform = NoPlatform
    NoWorker = NoWorker
    PlatformOf <- MCPlatformOf
    Workers = {w1, w2}
    Attempts = {a1, a2, a3}
    Tokens = {t1, t2}
    Platforms = {f1, f2}
    MaxActive = 2
    Lifetime = 1
    MaxLostAnswers = 1
SYMMETRY Symmetry
INVARIANTS SlotsAreAccounted SessionsAreGuarded EndedIsClosed
PROPERTY EndedForCause
