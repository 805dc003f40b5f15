SPECIFICATION HdmiSpec
CONSTANTS
    Formats <- MCFormats
    Table <- MCTable
    Level <- MCLevel
    MaxListed <- MCMaxListed
    Sinks <- MCSinks
PROPERTIES
    ListedTwiceOnlyByRequest
    FollowsEdid
    FollowsSink
