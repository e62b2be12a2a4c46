SPECIFICATION Spec
CONSTANTS
  Agents = {relay}
  Humans = {h1}
  AgentTTL = 2
  HumanTTL = 2
  NoId = NoId
  Me = relay
  Prompts <- MCPrompts
  DefaultPrompt <- MCDefaultPrompt
  DefaultCuts <- MCDefaultCuts
INVARIANTS TypeOK PromptArrivesOnce FailedScriptCleansUp
PROPERTIES OthersRecordingsAreKept ScriptEnds
CHECK_DEADLOCK FALSE
