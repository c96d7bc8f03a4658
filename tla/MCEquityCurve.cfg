SPECIFICATION Spec
CONSTANTS
  Calls = {c1, c2, c3}
  Portfolios = {p1, p2}
  Snapshots <- SomeSnapshots
  Batches <- SomeBatches
  BatchSize = 1
SYMMETRY Symmetries
INVARIANTS
  DrawdownsSeeStoredRows
  StoredDrawdownsMatchSeries
