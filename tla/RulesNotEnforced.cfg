\* One administrator, every save succeeds, no lists and no patches.
SPECIFICATION RulesSpec
CONSTANTS
  RuleIDs = {1, 2, 3}
  Priorities = {0, 1, 2}
  Conditions <- MCConditions
  Requests <- MCRequests
  Transforms <- MCTransforms
  Accepts <- MCAccepts
  Elements <- MCElements
  Fold <- MCFold
  BadPatterns = {"(scan"}
  DryRun = FALSE
  Admins = {a1}
  Patches = {}
  PatchRules <- NoPatchRules
  OwnRules <- MCOwn
  BulkLists = {}
  SaveMayFail = FALSE
  MaxRuleCalls = 3
INVARIANT EnabledRuleEnforced
CHECK_DEADLOCK FALSE
