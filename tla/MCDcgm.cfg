\* Two callers and three starts; a caller may stop for ever.
SPECIFICATION Spec
CONSTANTS
    Callers = {c1, c2}
    MaxStarts = 3
CHECK_DEADLOCK FALSE
PROPERTY CrashIsNoticed
