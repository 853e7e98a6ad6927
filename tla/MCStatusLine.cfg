SPECIFICATION Spec
CONSTANTS
  None = none
  Settings <- MCSettings
  Contents <- MCContents
INVARIANTS PausesFully NewSecondEachLine ClocksOnceInOrder NextEventShown TextsAsDocumented
PROPERTY ShownEventually
