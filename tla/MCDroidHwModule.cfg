SPECIFICATION Spec
CONSTANTS
    Ids <- MCIds
    PrimaryId = "primary"
    Cards <- MCCards
    Sinks <- MCSinks
    Sources <- MCSources
    CardOf <- MCCardOf
    Id <- MCId
    NoCard = "no card"
    i1 = i1
    i2 = i2
    i3 = i3
    Instances = {i1, i2, i3}
    NoHw = NoHw
    Options = {"close", "no_close", "exit"}
    MaxLost = 2
SYMMETRY Symmetry
INVARIANT TypeOK UsersShareModule OneDevicePerModule ApiIsPrimary NeverAborts LastUserCloses
CHECK_DEADLOCK FALSE
