CONSTANTS
    Outputs = {"p"}
    Primary = "p"
    Options <- MCOptions
SPECIFICATION Spec
INVARIANT TypeOK OneInHal LocksReleased NoUseAfterClose HandleIsOwn
PROPERTY HandlersEnd
CHECK_DEADLOCK FALSE
