\* Three iterations, answers of up to four calls, a prompt of two messages.
SPECIFICATION RunFairSpec
CONSTANTS
    Tools = {"read", "fetch", "exec", "nosuch"}
    Safe = {"read", "fetch"}
    Unknown = {"nosuch"}
    Lookups = {"fetch"}
    CallLists <- MCCallLists
    MaxIterations = 3
    Window = 2
    Budgets = {0, 1}
    Delays = 1
    MaxErrors = 2
CHECK_DEADLOCK FALSE
INVARIANTS
  ConversationWellFormed
  ToolsCovered
PROPERTIES
  RunEnds
