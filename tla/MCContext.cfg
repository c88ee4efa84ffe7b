\* Two notes with a current-state permalink and one other; headers and bodies of two lengths.
SPECIFICATION Spec
CONSTANTS
  Keys = {state, old, note}
  StateKeys = {state, old}
  Heads = {2, 3}
  Bodies = {0, 4}
  Marker = 2
  MaxPage = 2
  MaxItems = 3
  MaxChars = 16
  HookItems = 2
  HookChars = 5
INVARIANTS TypeOK BundleIsLongest NothingDroppedSilently OneVersionEach
CHECK_DEADLOCK FALSE
