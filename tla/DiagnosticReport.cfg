\* The transport of the firmware: three parts of 220 characters.
CONSTANTS
  PartCount = 3
  PartMax = 220
  Reports <- MCReports
  OrdinarySnapshots <- MCOrdinarySnapshots
SPECIFICATION Spec
INVARIANTS
  SplitExact
  OneReportShown
  OrdinaryReportsFit
PROPERTIES
  GenerationProgress
