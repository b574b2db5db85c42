\* A module whose name the router refuses, settings files that may fail.
SPECIFICATION ToolSpec
CONSTANTS
  Modules = {ma, mb}
  Unroutable = {mb}
  Posts = {r1, r2}
  MayFail = {"stdio", "http"}
INVARIANTS BootsAgain
CHECK_DEADLOCK FALSE
