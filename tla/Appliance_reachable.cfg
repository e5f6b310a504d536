\* One request; the web pages rest.
SPECIFICATION MCSpec
CONSTANTS
    MaxRequests = 1
    MaxLosses = 0
    ConsoleSize = 4
    ConsoleLine = 3
    LogSize = 5
    LogLine = 4
    MaxEvents = 0
PROPERTIES
    AccessibleInApMode
CHECK_DEADLOCK FALSE
