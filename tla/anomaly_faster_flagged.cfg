CONSTANTS
  f1 = f1  f2 = f2  g1 = g1  g2 = g2
  NoMean = NoMean  NoSeries = NoSeries
  Fingerprint = {f1}
  Duration <- Assorted
  Hundredth = 10
  Scraper = {}
  MaxSamples = 3
  MaxIngests = 3
SPECIFICATION Spec
INVARIANT FlaggedIsSlower
CHECK_DEADLOCK FALSE
