SPECIFICATION PagesSpec
CONSTANTS
  None = None
  MaxClicks <- MCClicks
  MaxNotes = 2
  Queries = {"ab", "x"}
  ShortQueries = {"x"}
  TotalPages = 2
  MaxRecent = 2
  Histories <- MCHistories
  MaxLive = 2
  MaxPushes = 2
  Scripts <- MCScripts
  ShownEvents = 3
  Teams = {"A", "B"}
  SeasonsOf <- MCSeasons
  MaxPosts = 2
  MaxStarted = 2
  Typed = {"ok", "ok2", "bad"}
  MaxRegisters = 2
  MaxSaves = 3
  Values = {"default", "on", "off"}
  Items <- MCItems
  Words = {"", "x", "z"}
  Things <- MCThings
  MaxVersions = 2
  Products = {1, 2}
  MaxQuantity = 2
  Hubs = {"match"}
  Callers = {}
  MaxVisits = 2
  Matches = {1, 2}
  MaxReconnectAttempts = 0
  MaxTries = 2
  MaxConns = 2
  MaxSigns = 1
  MaxLosses = 1
  MaxRetries = 2
  KeptStates = 1
  Visits <- MCVisits
  MaxEvents = 1
INVARIANTS
  EventsOfThisMatch ReadIsRead SearchShowsItsQuery NumbersOfThisMatch
  ScoreOfEvents SentAsShown StoredAsShown CatalogueAsFetched
CHECK_DEADLOCK FALSE
