SPECIFICATION LibrarySpec
CONSTANTS
  Fns = {callback1, callback2}
  MaxCallbackCalls = 5
  MaxCalls = 4
  MaxEvents = 1
  PageElements = {"canvas"}
  Bindings <- MCBindings
  Requests = {1, 2}
  MayThrow = TRUE
  NumElements = 4
  TagsOf <- MCTags
  SelectorSet <- MCSelectors
  ContextSets <- MCContexts
  CacheLength = 2
  MaxFinds = 2
  Animated = {dialog, mask}
  MaxItems = 3
  MaxStops = 3
  MaxFades = 4
SYMMETRY MCAnimated
CHECK_DEADLOCK FALSE
INVARIANTS
  CallbacksInOrder
  EventsAreHeard
  RequestsEndRight
  FindsExactly
  EffectsEnd
  FadesEndAsAsked
