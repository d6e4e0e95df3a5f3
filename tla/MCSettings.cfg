CONSTANTS
  t1 = t1
  t2 = t2
  Themes <- MCThemes
  Installed <- MCInstalled
  ThemeLists <- MCThemeLists
  DelayValues <- MCDelayValues
  OtherWrites <- MCOtherWrites
  BlankRow = blank_row
  RandomRow = random_row
  NoRow = no_row
  NoTheme = no_theme
  MaxTime = 2
  MaxWrites = 1
  MaxInputs = 2
SPECIFICATION SettingsSpec
INVARIANT DaemonFollowsSettings
INVARIANT LockTimerIsExact
INVARIANT DialogShowsSettings
PROPERTY CyclesInTime
PROPERTY SettingsSettle
CHECK_DEADLOCK FALSE
