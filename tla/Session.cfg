SPECIFICATION FairSpec
CONSTANTS
  Values = {a, b}
  Nothing = Nothing
  Width = 8
  Rate = 2
  Tracks <- TwoTracks
  Times <- SomeTimes
  Volumes <- SomeVolumes
  MuteDb <- Mute
  FullDb = 0
  MaxCalls = 5
  MaxStreams = 2
INVARIANT NothingUnsaid
INVARIANT PausedMeansPaused
INVARIANT ClockStops
INVARIANT StaleForASecond
PROPERTY ImplementsEvents
CHECK_DEADLOCK FALSE
