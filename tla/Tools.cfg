CONSTANTS
  ArgumentLists <- MCArgumentLists
  CaseFiles <- MCCaseFiles
  Number <- MCNumber
  MaxNumber = 2047
  Hex <- MCHex
  Background <- MCBackground
  Extension <- MCExtension
  GoldenPlan <- MCGoldenPlan
  Builds <- MCBuilds
  Invocations = 2
SPECIFICATION Spec
INVARIANTS BatchFollowsFormat FilesMatchLines SingleAsAsked VectorsAreMade CheckIsExact
PROPERTY WrittenOnlyWhole
CHECK_DEADLOCK FALSE
