SPECIFICATION Spec
CONSTANTS
    Ssids = {a, b}
    Long = {b}
    Cut = cut
    None = None
    MaxRadio = 2
    MaxCalls = 2
INVARIANTS TypeOK ServedIsPolled ConfigAgrees
PROPERTIES PollsEnd
CHECK_DEADLOCK FALSE
