SPECIFICATION LocalSpec
CONSTANTS
    Width = 60
    Timer = 4
    NoTimer = 14
    ImageCases <- MCImageCases
    AttachCases <- MCAttachCases
    LocalCases <- MCLocalCases
    OptionCases <- MCOptionCases
INVARIANTS
  PulledRight
  OutputRight
  OptionsRight
  ContainersRight
PROPERTIES
  AttachEnds
