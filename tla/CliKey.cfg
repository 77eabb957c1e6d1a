CONSTANTS
  ArgumentLists <- MCEmptyKey
  CaseFiles <- MCCaseFiles
  Number <- MCNumber
  MaxNumber = 2047
  Hex <- MCHex
  Background <- MCBackground
  Extension <- MCExtension
  GoldenPlan <- MCGoldenPlan
  Builds <- MCBuilds
  Invocations = 2
SPECIFICATION Spec
INVARIANT KeyMeansKeyed
CHECK_DEADLOCK FALSE
