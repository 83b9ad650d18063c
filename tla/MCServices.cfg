CONSTANTS
  Talkers = {"al", "ex"}
  Operators = {"ex"}
  Barred <- MCBarred
  NameOf <- MCNameOf
  Messages <- MCMessages
  Slots = {"air", "modded"}
  Setups <- MCSetups
  SnapshotTtl = 2
  MaxSnapshots = 2
  MaxClock = 2
  MaxOffered = 3
  Runners = {"al", "ex"}
  Grants <- MCGrants
  CommandLines <- MCLines
  OperatorSets <- MCOperatorSets
  Controllers <- MCControllers
  MaxInstant = 4
  Urls = {"a", "b"}
  Published <- MCPublished
  Sections <- MCSections
  MaxRestarts = 1
  Texts <- MCTexts
  Lower <- MCLower
  Norm <- MCNorm
  Blocked <- MCBlocked
  Workers = {"w1", "w2"}
  Profiles <- MCProfiles
  Databases <- MCDatabases
  Idle = Idle
  Bundled <- MCBundled
  Schema <- MCSchema
  Lists = {"[]", "[w]"}
  Unreadable = {"?"}
  Edits <- MCEdits
  MaxEdits = 2
  MaxKills = 1
  Ascending <- MCAscending
  Editions = {1}
  Admins = {"p"}
  MaxFound = 2
  Notes <- MCNotes
  Alphabet <- MCAlphabet
  Numerals <- MCNumerals
  Payloads <- MCPayloads
  Strays <- MCStrays
  Greetings <- MCGreetings
  Channel <- MCChannel
  MaxDepth = 1
  MaxPushes = 2
  MaxPublishes = 2
  Components <- MCComponents
  ModComponents <- MCModComponents
  Walks <- MCWalks
  DaySeconds = {0, 1, 3599, 43200, 86399}
  Patterns <- MCPatterns
  Targets <- MCTargets
  Totals = {1, 59, 60, 3600, 86399, 604800, 694861}
  Channels <- MCChannels
  Sayings <- MCSayings
  Glyphs = {"G"}
  Joiners = {"E"}
  Codes = {"a", "b", "f", "r"}
  Names <- MCNames
  Rights = {"op", "vip", "a"}
  Letters = {"a", "A", "b", " "}
  LowerCase <- MCLowerCase
  First <- MCFirst
  Excused <- MCExcused
  MaxLength = 6
  MaxChanges = 3
  FlushInterval = 2
  CleanupInterval = 4
  DayTicks = 2
  Retentions = {0, 1}
  MaxLogged = 2
  MaxTime = 8
  MaxFailures = 1
  Packets <- MCPackets
  Uids = {u1, u2, u3}
  BadUid = BadUid
  MaxChunks = 2
  MaxChunkLength = 1
  MaxPending = 2
  MaxBuffered = 2
  MaxCompleted = 1
  TTL = 2
  MaxNow = 2
  MaxLog = 3
SPECIFICATION ServicesSpec
INVARIANTS
    TokensGranted
    SnapshotsKept
    CommandsSpaced
    WordsRecorded
    FilterExact
    OneReading
    FilesKept
    ToldOfTheNewer
    StreamExact
    FormatsAgree
    TextsAgree
    LogAccounted
    RetainsBounded
    AtMostOnce
    AssembledInOneWindow
PROPERTIES
    WordsArrive
    ReloadHonest
    AbandonedIsForgotten
CHECK_DEADLOCK FALSE
