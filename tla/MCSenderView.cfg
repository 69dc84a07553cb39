SPECIFICATION Spec
CONSTANTS
  Keys = {brightness}
  Levels = {1, 2}
  Browsers = {1}
INVARIANT GestureAtHome HoldIsContinuous ScreenCurrent PagesSound SavedIsStored
