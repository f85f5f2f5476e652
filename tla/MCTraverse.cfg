SPECIFICATION Spec
CONSTANT Graphs <- MCGraphs
INVARIANTS
  IInv
  VisitedIsList
  StackBounded
  BreadthFirst
  DepthFirst
PROPERTY ImplementsQuery
