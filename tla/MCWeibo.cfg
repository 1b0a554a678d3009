SPECIFICATION WeiboSpec
CONSTANTS
    Spiders <- TwoSpiders
    MaxPosts <- PostsOf
    Filtered <- FilteredPosts
    Skipped = {}
    PageSize = 2
    Buffer = 1
    MaxAge = 1
    MaxMinutes = 3
    MaxFaults = 1
PROPERTIES
    PushedSinceStart
CHECK_DEADLOCK FALSE
