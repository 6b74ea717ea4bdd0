SPECIFICATION ProgramsSpec
CONSTANTS
    Tasks = {1, 2}
    Paths = {"a", "d"}
    Directories = {"d"}
    Vnodes = {1, 2}
    Files = {1, 2}
    MAX_OPEN_FILES = 1
    MaxSize = 1
    MaxRefs = 3
    ForkMapped = FALSE
    HeaderSize = 2
    ALIGNMENT = 2
    HeapStart = 2
    HeapLimit = 26
    RequestSizes = {1, 4, 8}
    PAGE = 4
    PIE_LOAD_BASE = 40
    INTERP_LOAD_BASE = 60
    LIBRARY_BASE = 80
    USER_STACK_TOP = 200
    USER_STACK_PAGES = 2
    MAX_OBJECTS = 3
    Image <- MCImage
    Programs <- MCStarted
    WORD = 2
    BITS = 2
    INT_BITS = 8
    Columns = 3
    GfxColumns = 2
    Rows = 2
    FirstRow = 1
    TAB = 2
    Glyphs = {"a"}
    Colors = {1, 2}
    MaxSheet = 1
    RING = 3
    KeyCodes = {"prefix", "up", "shift", "caps", "letter", "alt"}
    MaxAccepted = 3
    SHELL_HISTORY_SIZE = 2
    SHELL_MAX_CMD_LEN = 6
    Letters = {"a", "b", "w", " ", "|", ">"}
    Builtins <- MCBuiltins
    DirEntries <- MCDirEntries
    WriteWord <- MCWriteWord
    RedirFileMax = 2
    MaxAdded = 3
    max_len = 4
    TabWidth = 2
    EditorFiles <- MCFiles
INVARIANTS  MallocTilesHeap ProgramLinked StringsExact PrintfExact ScreenExact KeysInOrder ShellExact
PROPERTY KeyIsDelivered
CHECK_DEADLOCK FALSE
