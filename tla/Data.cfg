INIT Init
NEXT Next
CONSTANTS
    Chunk = {1, 8, 23, 32, 55, 64, 73}
    MaxLen = 135
    ChallengeByte = {0, 1, 2, 3, 127, 128, 131, 255}
    NameLen = {0, 7, 15, 16, 24, 25, 39, 40}
    OptionType = {98, 106, 111}
    OptionDigits <- MCOptionDigits
    ServerType = {0, 1, 60}
    ServerSize = {0, 1, 10, 253}
    FRAME_BUF_SIZE = 1512
    MaxOptions = 2
    MaxServerProps = 2
    Argument <- MCArgument
    FirstFile <- MCFirstFile
    MAX_LINE_LEN = 100
    MaxArguments = 2
    MaxStarts = 2
    MessageByte = {0, 65, 64, 127, 129, 176, 255}
    MaxMessageLen = 3
    Address <- MCAddress
    DnsLine <- MCDnsLine
    Route <- MCRoute
    FakeDns = {"none", "d9"}
    NL_BUFSIZE = 5
    MaxEntries = 2
    MaxRoutes = 3
CHECK_DEADLOCK FALSE
INVARIANTS
    DigestIsOfWholeMessage WholeChallengeHashed V4BufferBounds OnlyPasswordMasks
    ScramblingInverts HeaderCrcIsSound TrailerHoldsEveryProp ServerMessageIsRead
    OptionsSurviveSave SavedConfigIsReloaded CmdlineOverridesFile SavingSettles
    MessageIsShownWhole TableReadInBounds HostFieldsAreOwn
