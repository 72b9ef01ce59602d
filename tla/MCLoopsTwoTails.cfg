CONSTANT Graphs <- MCTwoTails
SPECIFICATION Spec
PROPERTY Answers
