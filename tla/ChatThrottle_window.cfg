\* The chat "a" and a window of three ticks, as in the composed run.
SPECIFICATION ThrottleSpec
CONSTANTS
 AllowedChats = {a}
 WINDOW = 3
 MAX_REQUESTS = 2
 MaxTime = 6
 MaxPerTick = 3
INVARIANTS
 WindowSlides
CHECK_DEADLOCK FALSE
