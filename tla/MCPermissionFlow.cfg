CONSTANTS
  Prompts = {p1, p2}
  Plain = Plain
  NoPrompt = NoPrompt
  Notice = Notice
  Diff = Diff
  WindowLines = 2
  InboxCap = 2
  MaxLines = 3
  MaxDecisions = 2
  MaxItems = 1
SPECIFICATION FairFlowSpec

  
PROPERTY DecisionsResolveCards
CHECK_DEADLOCK FALSE
