SPECIFICATION FairSpec
CONSTANTS
    Assets = {a1, a2}
    NoAsset = NoAsset
    Calls = {c1, c2}
    Modes = {"object", "local"}
    MaxCalls = 3
    MaxFaults = 1
CHECK_DEADLOCK FALSE
INVARIANTS TypeOK ShownAvatarIsServed OneLiveAvatar StrayObjectsAreExplained
PROPERTIES DiscardedRowsVanish
