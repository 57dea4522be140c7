SPECIFICATION ArchivedSpec
CONSTANTS
    MAX_NUM_OF_THREADS = 2
    Main = Main
    MaxCalls = 3
    MaxInits = 2
PROPERTIES
    LeavesAfterOddReleases
    NoWayBack22
CHECK_DEADLOCK FALSE
