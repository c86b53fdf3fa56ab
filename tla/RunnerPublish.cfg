SPECIFICATION FairSpec
CONSTANTS
    Platforms = {"wechat", "douyin", "bilibili", "kuaishou", "toutiao", "fanqie", "baijiahao", "xiaohongshu", "juejin"}
    MaxPolls = 2
    MaxChecks = 3
    MaxNotices = 1
    MaxLayouts = 2
    MaxMisses = 1
    Crashing = TRUE
INVARIANTS
    QueuedIsComplete
    RefusedIsUntouched
    ResourcesAreScoped
    ActionsAreDue
    OldMarkersAreCaught
PROPERTIES
    ExchangeEnds
    ImplementsExchange
CHECK_DEADLOCK FALSE
