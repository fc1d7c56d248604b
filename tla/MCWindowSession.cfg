\* Two windows on a platform whose process outlives its last window.
SPECIFICATION Spec
CONSTANTS
    w1 = w1
    w2 = w2
    t1 = t1
    t2 = t2
    Windows <- MCWindows
    EditedWindows = {w1}
    OpeningWindows = {w2}
    Writers <- MCWriters
    Earlier = Earlier
    FirstWindow = w1
    KeepsRunning = TRUE
SYMMETRY MCSymmetry
INVARIANTS
    WindowsInv
    FaultlessQuitPublishesEveryWindow
PROPERTIES
    OnlyTheFinalWindowPublishes
CHECK_DEADLOCK FALSE
