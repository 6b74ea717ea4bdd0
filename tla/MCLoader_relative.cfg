SPECIFICATION LoaderSpec
CONSTANTS
    PAGE = 4
    PIE_LOAD_BASE = 40
    INTERP_LOAD_BASE = 60
    LIBRARY_BASE = 80
    USER_STACK_TOP = 200
    USER_STACK_PAGES = 2
    MAX_OBJECTS = 3
    Image <- MCImage
    Programs <- MCStarted
INVARIANT RelativeOnce
CHECK_DEADLOCK FALSE
