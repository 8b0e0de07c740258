SPECIFICATION Spec
CONSTANTS
    Store = {s1, s2}
    MaxHeight = 1
INVARIANTS NoCyclicWait HeaderNotStale QueryAllOrNothing
PROPERTIES NoSaveAfterPanic PanicStops
