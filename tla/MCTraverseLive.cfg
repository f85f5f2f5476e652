SPECIFICATION FairSpec
CONSTANT Graphs <- LiveGraphs
PROPERTY ImplementsFairQuery
