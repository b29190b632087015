CONSTANTS
  Readings = {0, 8}
  Commands <- TwoCommands
  Stalls = TRUE
  MaxCommands = 2
  MaxSamples = 2
  MaxBoots = 1
SPECIFICATION FairSpec
INVARIANTS ConnectedIsSubscribed SampleMatchesSettings SettingsOfOneCommand SettingsInOrder OncePerSample
PROPERTIES SamplingGoesOn
CHECK_DEADLOCK FALSE
