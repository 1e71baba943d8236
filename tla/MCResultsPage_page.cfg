SPECIFICATION Spec
CONSTANTS
  Nodes = {1, 2}
  MaxId = 3
  Run = run
  Graphs <- ThreeGraphs
  Optional = {"jitter"}
  CountFrom = 2
  run = run
INVARIANTS TypeOK SomeSeriesShown LayerFresh TimersKept Faded ChartsFit
PROPERTIES PageFollows TransitionsEnd
