\* Logs of up to eight events; windows that fit the cap and one that does not.
SPECIFICATION Spec
CONSTANTS
  MaxLog = 8
  Limits = {1, 2}
  EventCaps = {2, 4}
  Contexts = {0, 1, 2}
  RetainFloor = 2
  Slack = 1
INVARIANTS
  WindowIntact
  SelectsTheWindow
  ContextShownOrDisclosed
CHECK_DEADLOCK FALSE
