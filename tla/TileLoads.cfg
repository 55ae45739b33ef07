CONSTANTS
  Layer = {l1, l2, l3}
  MaxSpoilt = 1
SPECIFICATION LoadSpec
PROPERTIES PreviewHidesNothing PictureOnlyGains Converges LandedIsShown
CHECK_DEADLOCK FALSE
