SPECIFICATION Spec
CONSTANTS
    Memories = {"video", "deep", "other"}
    FormatOf <- MCFormatOf
    NoFb = NoFb
    Fds <- MCFds
    Displays <- MCDisplays
INVARIANTS
    FramebuffersAccounted
    LitDisplayWorks
PROPERTIES
    ShownAsGiven
CHECK_DEADLOCK FALSE
