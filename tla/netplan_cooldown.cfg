SPECIFICATION Spec
CONSTANTS
    TicksPerSecond = 3
    Cooldown = 6
    MaxBack = 0
    MaxForward = 0
    MaxFaults = 1
PROPERTIES CooldownHonoured
