SPECIFICATION ModulesSpec
CONSTANTS
    s1 = s1
    s2 = s2
    s3 = s3
    m1 = m1
    m2 = m2
    Services = {s1, s2, s3}
    Groups = {g1, g2}
    Handlers = {h1, h2}
    Manage <- Levels
    Module <- Modules
    Perms = {3, 4, 7}
    Faults = {"disk", "modules"}
    None = None
    Absent = Absent
    Torn = Torn
    c1 = c1
    c2 = c2
    c3 = c3
    Channels = {c1, c2, c3}
    Walks = {morning, weibo}
    Copies = {weibo}
    Closes = {"early", "handling"}
    End = End
    a = a
    A = A
    b = b
    Space = Space
    Garbage = Garbage
    Amp = Amp
    amp = amp
    Meaning <- Entities
    Temporary <- TemporaryTalk
    Fold <- Lower
    Commands <- AllCommands
    DispatchServices <- AllServices
    Level <- ServiceLevels
    OnlyToMe = {"clean"}
    Matches <- MatchedTexts
    Events <- AllEvents
    Switchable = {"help", "weather"}
    Users = {u1}
    ChatGroups = {q1, q2}
    Silent = {q1}
    BotConfig <- OnlyGroups
    MaxEvents = 4
    Spiders <- TwoSpiders
    MaxPosts <- PostsOf
    Filtered <- FilteredPosts
    Skipped = {}
    PageSize = 2
    Buffer = 1
    MaxAge = 1
    MaxMinutes = 3
    MaxFaults = 1
    PlacesAt <- TwoVersions
    AliasedPlaces = {"limsa"}
    Dates <- SomeDates
    Updaters = {h1, h2}
    MaxTroubles = 2
    Expressions <- SomeExpressions
    Starts <- SomeStarts
    MaxRuns = 4
    Speakers = {"k1"}
    Searches = {h1, h2}
    Eorzean = {"limsa"}
    Places <- PlacesOf
    MaxSearches = 4
    Parsers = {h1, h2}
    Chats = {"g1"}
    Posts <- LinkMessages
    Urls = {"av1", "bv1", "room"}
    Alias = {"short"}
    RealUrl <- ShortLinks
    UrlKind <- KindsOf
    Link <- PagesOf
    kExpiredTime = 1
    MaxLinkMessages = 3
    MaxRedisFaults = 1
    MaxCrashes = 1
    Askers = {"u1"}
    Requests = {h1, h2}
    Fortunes = {"best", "fish"}
    Best = "best"
    Dyes = {"red"}
    DayLength = 3
    MaxTime = 7
    MaxAsked = 4
    MaxTableFaults = 1
    Authors = {1, 3}
    MaxInt = 2
    Rooms = {0, 7}
    Senders = {h1, h2}
    MaxFeedbacks = 2
    MaxRefusals = 1
    Tables <- SomeTables
    Styles <- SomeStyles
    Capacity = 3
    IntMax = 11
SYMMETRY Symmetric
INVARIANTS
    Durable
    Remembered
    MissingOnlyByFault
    SetExact
    EveryBotReached
    WalksUnharmed
    LongestMatch
    OwnCommandText
    FieldsApart
    ListsAgree
    NewOnce
    NewArePushed
    ForecastComesTrue
    KnownPlacesAnswer
    DueNextOfPlain
    NumbersMeanWhatWasShown
    AnsweredOnce
    OwnNumber
    ReadsAsWritten
PROPERTIES
    NoTrustForTheBanned
    SameAllDay
CHECK_DEADLOCK FALSE
