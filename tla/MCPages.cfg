CONSTANTS
\* The hub.
    k1 = k1
    k2 = k2
    k3 = k3
    viewer = viewer
    Connections <- ThreeSockets
    Audience <- OneRole
    AudienceOf <- RoleOfSocket
    Capacity = 2
    BufferSize = 1
    MaxMessages = 2
    NoRoom = NoRoom
\* Emails: two pages of followers, one of whom may leave or mute them.
    u1 = u1
    u2 = u2
    u3 = u3
    Readers <- ThreeReaders
    Batch = 2
    MaxSends = 2
    NumAlerts = 2
    MaxSwitches = 1
\* The caller's page.
    Tiers = {"short", "long"}
    MaxKeys = 3
    TierOf <- KeysOfTwoTiers
    MaxTalks = 1
    MaxAsks = 2
    MaxErrors = 1
\* The studio.
    Tabs = {"a", "b"}
    Times = {"soon"}
    MaxShows = 2
    MaxSaves = 1
    Microphones = {"m1", "m2"}
    MaxStreams = 3
    MaxAccounts = 2
    MaxChanges = 1
    MaxActions = 2
\* Four years, one of them a leap year.
    FirstMonth = 12
    LastMonth = 59
    HoldDays = 7
    Stops <- SomeStops
    MaxIdle = 1
    Pages = {"settings", "checkout"}
    Here = "settings"
    Cards = {"visa"}
    MaxCustomers = 2
    MaxFailures = 1
\* Signing in and following.
    SessionTabs <- TwoTabs
    ThisTab = "this"
    Askers = {"beat", "join", "elsewhere"}
    TabOf <- TabOfAsker
    MaxGuests = 2
    MaxLogins = 1
    SendsPerWindow = 2
    MaxRequests = 5
    LastWindow = 1
    Creators = {"c1", "c2"}
    MaxPresses = 2
SPECIFICATION MCSpec
VIEW SceneView
INVARIANTS
    RoomsAreSound
    AlertsAreSound
    CallerPageIsSound
    PublicProfileIsSound
    MicrophoneIsSound
    SettingsAreSound
    IdentityIsSound
    FollowButtonsAreSound
PROPERTIES
    StartsAsShown
\* Every tab may be gone, every message delivered and every bound reached.
CHECK_DEADLOCK FALSE
