\* Two switches; homing cycles that use none, one or both of them.
CONSTANTS
    Pins = {x, y}
    NoPin = none
    HomingSources = {{}, {x}, {x, y}}
    MaxTasks = 2
    MaxPresses = 4
SPECIFICATION Spec
INVARIANTS TypeOK NoDeafPin PressNotLost
PROPERTY PressReported
CHECK_DEADLOCK FALSE
