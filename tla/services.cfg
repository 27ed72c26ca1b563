\* Administration, intake, scheduling, scripts, speech, audio, what listeners see, shutdown.
SPECIFICATION ServicesSpec
CONSTANTS
  Keys = {k1, k2}
  Logins = {l1, l2}
  Codes = {"c0", "c1"}
  CodeAt <- SharedCode
  MaxGuesses = 1
  GuessWindow = 2
  SessionTTL = 1
  MaxStep = 2
  Entries = {"a", "b", "x"}
  Wanted = {"a", "b"}
  Feeds <- TwoFeeds
  MaxItems = 2
  PollOnly = {"b"}
  Polls = {p1, p2}
  Scheduled <- SourceAndMirror
  CronTimes <- TheirTimes
  Tickers = {t1, t2}
  MaxTime = 5
  Chunks <- FileChunks
  Tails <- FileTails
  MaxChunks = 3
  Voices <- SomeVoices
  MultiModels = {"m", "n"}
  TalkersOf <- Talkers
  Services = {"edge", "azure", "other"}
  MaxSpeakers = 3
  MaxTurns = 2
  Parts = 2
  Handshakes = 3
  Speakers = {"A", "B"}
  LLMServices <- TwoServices
  AnswerTurns = 2
  MaxFlaws = 2
  Limit = 4
  Header = 2
  Contents = {0, 1, 2, 3}
  MaxDocs = 3
  Library = {"e1", "e2"}
  OwnerOf <- TheirOwner
  FeedSources = {"s1"}
  ItemDay <- FirstDay
  PodcastAge <- OneDayOld
  HostForms <- EveryHost
  MediaHosts <- OneOrigin
  MaxDays = 3
  PageLimit = 4
  BatchSize = 2
  TopicPages = 5
  DocLimit = 2
  DerivedLen = 3
  MaxOwners = 4
  MaxOrder = 5
CHECK_DEADLOCK FALSE
INVARIANTS
  GuessRate
  CodeUsedOnce
  OneJobPerItem
  OnePollPerMinute
  WholeFramesCounted
  FrameHoldsItsSamples
  AudioOfOneAttempt
  ValidatedIsVoiced
  StoredAsMeant
  KnownFlawsMended
  PromptIsPrefix
  ShownIsAccepted
  PlacesAgree
  StopsInOrder
  ContentIsWhole
  NoneOverwritten
  OrdersHonoured
PROPERTIES
  IgnoredStaysAway
