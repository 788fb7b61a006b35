SPECIFICATION Spec
CONSTANTS
  Keys <- TwoKeys
  DEBOUNCE_DURATION = 2
  LongPress = 3
  MaxTicks = 4
INVARIANT DurationIsOnePress
INVARIANT OnlyShortPressesLost
INVARIANT NoBounceReported
