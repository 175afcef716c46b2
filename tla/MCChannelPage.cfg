SPECIFICATION FairPageSpec
CONSTANTS
  User = User
  DefaultMax = 3
  DefaultMin = 1
  Patient = TRUE
  Channels <- MCChannels
  RegionSize <- MCRegionSize
  MaxSize <- MCMaxSize
  MinSize <- MCMinSize
  Faulty = TRUE
  MaxClicks = 4
CHECK_DEADLOCK FALSE
INVARIANTS
  FormIsSound
PROPERTIES
  SelectedIsLoaded
