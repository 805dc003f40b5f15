SPECIFICATION RetrieverSpec
CONSTANTS
    Sources = {"film", "song"}
    TracksOf <- MCTracksOf
    Pictures <- MCPictures
INVARIANTS
    CachedIsOfSource
    FrameIsPicture
CHECK_DEADLOCK FALSE
