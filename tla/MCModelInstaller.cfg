SPECIFICATION InstallerSpec
CONSTANTS
  Tiny = Tiny
  Base = Base
  Models <- MCModels
  Preset = Base
  Full = 2
  MaxTampered = 1
PROPERTIES
  PublishedVerified
  DownloadEnds
