SPECIFICATION FairSpec
CONSTANTS
  MaxConns = 2
  MaxPrompts = 2
INVARIANTS AnswerIsForThisPrompt HolderWasPrompted
PROPERTIES PromptResolves
CHECK_DEADLOCK FALSE
