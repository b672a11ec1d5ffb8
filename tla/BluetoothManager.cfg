SPECIFICATION ManagerSpec
CONSTANTS
    Devices = {d1}
    Names = {a, b}
    SystemName = a
    MaxEvents = 3
INVARIANT PageIsTold
PROPERTIES MirrorConverges AgentAnswered
