SPECIFICATION FairSpec
CONSTANTS
  sock = sock
  port = port
  alpha = alpha
  beta = beta
  jpeg = jpeg
  torn = torn
  given = given
  None = None
  Local <- SomeLocal
  NameOrder <- SomeNames
  Ads <- SomeAds
  Lockable = {port}
  Given = given
  Covers = {jpeg, torn}
  Unusable = {torn}
  Environments <- InTmux
  MaxUpdates = 1
  MaxEvents = 4
INVARIANT ScreenTells
PROPERTY ChoiceIsAimed
INVARIANT ListIsCurrent
INVARIANT PictureAgrees
PROPERTY HostFound
CHECK_DEADLOCK FALSE
