SPECIFICATION FairSpec
CONSTANTS
  Requests = {q1, q2}
  Nobody = Nobody
  Failures = TRUE
  MaxTokens = 2
  MaxEvents = 3
  None = None
  PromptTokens = 2
  Layers = 2
  Heads = 3
  HeadDim = 2
  ElementSize = 4
  CacheFormats = {"tuple", "convertible", "lists", "layers", "opaque"}
  Budgets <- NoOpAndOne
CHECK_DEADLOCK FALSE
INVARIANTS
  ChatTypeOK
  OneModel
  Accounting
  EventsOrdered
  LastEventsFresh
  PolicySeesCache
  AnswerConsistent
  LegacyAgrees
PROPERTIES
  LoadedForGood
  EveryoneLeaves
