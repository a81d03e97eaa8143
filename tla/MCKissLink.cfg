SPECIFICATION LinkSpec
CONSTANTS
    Plain = {x}
    x = x
    LIMIT = 2
    MaxLen = 3
    MaxDamage = 2
INVARIANTS
    LinkTypeOK
    IntactFrameDelivered
    NothingInvented
