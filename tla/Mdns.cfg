SPECIFICATION MCSpec
CONSTANTS
    None = None
    Instances = {"h", "r"}
    Holder = "h"
    Reporter = "r"
    Names = {"n1", "n2"}
    First = "n1"
    Zones = {"x", "y"}
    Home = "x"
    Curator = "op"
    Filters <- MCFilters
    Toml <- MCToml
    Slices = {"shared", "holder", "rehome"}
INVARIANT Rehomed
PROPERTIES WithdrawsRight 
