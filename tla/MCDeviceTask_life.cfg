SPECIFICATION LiveSpec
CONSTANTS
    NoConn = NoConn
    Conns = {k1, k2}
    Forwards = {f}
    Calls = {s}
    Usb = TRUE
    HID_RESET_THRESHOLD = 3
    MaxFaults = 2
INVARIANTS TypeOK
PROPERTIES DeadIsWithdrawn Reconnects DeadIsClosed
