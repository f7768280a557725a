\* The assertions of the code.
CONSTANTS
    Workers = {"encoder", "btn", "udp", "joy", "stick", "stickBtn", "display", "player", "accel", "beat"}
SPECIFICATION Spec
INVARIANT AssertionsHold
