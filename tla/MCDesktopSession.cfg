SPECIFICATION FairSpec
CONSTANTS
  a1 = a1
  a2 = a2
  Defaults <- DefaultApps
  Pinned = {a1, a2}
  NewApps = {n1}
  Files = {f1}
  SplashSteps = 2
  ShutdownSteps = 2
  MaxDesktops = 2
INVARIANTS LaunchesWhatItSays ScreensAreGuarded SignalNotLost
PROPERTY TimedScreensEnd
