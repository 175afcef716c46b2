SPECIFICATION FairPageSpec
CONSTANTS
  User = User
  DefaultMax = 3
  DefaultMin = 1
  Patient = TRUE
  Channels <- MCChannels
  RegionSize <- MCRegionSize
  MaxSize <- MCMaxSize
  MinSize <- MCMinSize
  Faulty = FALSE
  MaxClicks = 0
CHECK_DEADLOCK FALSE
PROPERTIES
  FirstIsLoaded
