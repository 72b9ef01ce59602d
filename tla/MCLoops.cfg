CONSTANT Graphs <- MCGraphs
SPECIFICATION Spec
INVARIANTS OrderIsReverse IdomEarlier Correct FrontierCorrect
  HeaderDominates DepthCounts
PROPERTIES AnswersUnlessShared
