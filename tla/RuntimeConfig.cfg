SPECIFICATION Spec
CONSTANTS
  Number <- NumberOf
  Dashed <- DashedTexts
  Directories = {"/", "/a", "/a/b", "/a/b/c", "C:/", "C:/d", "C:/d/e"}
  Above <- AboveOf
  Drives = {"C:/"}
  Inputs <- CallInputs
INVARIANTS
  SettingsAsAsked
  RootIsNearest
PROPERTIES
  LoadReturns
