SPECIFICATION MCSpec
CONSTANTS
    a = a  b = b
    None = None
    Records = {a, b}
    Groups = {"n"}
    GroupOf <- OneGroup
    HealthyThreshold = 1
    UnhealthyThreshold = 2
    MaxAge = 1
    Ops = {"delete", "crash", "enable", "set", "clear"}
    Slices = {"serve", "checks"}
    Kinds <- AMayBeWatched
    Edited = {a}
INVARIANT ServedByHealth
PROPERTIES Recovers Forgotten
