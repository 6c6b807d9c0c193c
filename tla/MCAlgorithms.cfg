CONSTANTS
  LettersPerToken = 2
  Alike = 50
  CandidatesPerResult = 2
  ProviderModel = "m"
  ListLevels = 2
  ChunkCalls <- MCChunkCalls
  RetrievalCalls <- MCRetrievalCalls
  QueryCalls <- MCQueryCalls
  WordCalls <- MCWordCalls
  TableCalls <- MCTableCalls
SPECIFICATION Spec
INVARIANTS PassagesAreSound AnswersAreGrounded  PromptShowsTheEdit 
CHECK_DEADLOCK FALSE
