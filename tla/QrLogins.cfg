SPECIFICATION FairLoginSpec
CONSTANTS
    c1 = c1  c2 = c2
    w1 = w1  w2 = w2
    a1 = a1  a2 = a2
    t1 = t1  t2 = t2
    f1 = f1  f2 = f2
    NoAttempt = NoAttempt
    NoToken = NoToken
    NoPlatform = NoPlatform
    NoWorker = NoWorker
    NoClient = NoClient
    PlatformOf <- MCPlatformOf
    ClientPlatform <- MCClientPlatform
    Clients = {c1, c2}
    Workers = {w1}
    Attempts = {a1, a2}
    Tokens = {t1}
    Platforms = {f1, f2}
    MaxActive = 1
    Lifetime = 1
    MaxRefreshes = 1
    MaxLostAnswers = 0
    MaxMissed = 1
    MaxKills = 1
INVARIANT OrphansWereMissed
PROPERTIES LoginsEnd SlotsComeBack
