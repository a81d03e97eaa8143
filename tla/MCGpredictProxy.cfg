\* Four commands; a daemon's answer arrives whole.
SPECIFICATION Spec
CONSTANTS
    b1 = b1
    b2 = b2
    Home = Home
    Channels = {"rotator", "radio"}
    Bearings = {b1, b2}
    Travel = {b1}
    Frequencies = {1}
    Policies = {"follow", "hold", "ignore"}
    HeldHz = 2
    Lines = 1
    MaxCommands = 4
INVARIANTS ProfileObeyed ReplyIsItsOwn
CHECK_DEADLOCK FALSE
