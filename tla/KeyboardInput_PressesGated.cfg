CONSTANTS
    k1 = k1
    c1 = c1
    c2 = c2
    Keys = {k1}
    Clients = {c1, c2}
    Owner <- MCOwner
    Calls <- MCCalls
    MaxHeld = 1
    MaxGen = 2
SPECIFICATION Spec
PROPERTIES PressesGated
CHECK_DEADLOCK FALSE
