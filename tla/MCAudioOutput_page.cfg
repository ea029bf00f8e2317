CONSTANTS
  BufferTime = 4
  Margin = 1
  MaxAudioLag = 50
  Unscheduled = Unscheduled
  Chunks <- MCChunks
SPECIFICATION FairSpec
INVARIANTS NothingStale TrackInForeground
PROPERTIES InTime SoundFollowsPage
