CONSTANTS
  Files = {1, 2, 3}
  Readable = {1, 2}
  Sizes <- MCSizes
  FadeTicks = 3
  MaxEvents = 3
SPECIFICATION SlideSpec
INVARIANT OneInFlight
INVARIANT PullFindsResult
PROPERTY EveryPictureIsShown
