\* The same inputs: a debounce that was waiting enables an input in use by homing.
CONSTANTS
    Pins = {x, y}
    NoPin = none
    HomingSources = {{}, {x}, {x, y}}
    MaxTasks = 2
    MaxPresses = 4
SPECIFICATION Spec
INVARIANT DisabledIsQuiet
CHECK_DEADLOCK FALSE
