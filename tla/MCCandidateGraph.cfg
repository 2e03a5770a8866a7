SPECIFICATION Spec
CONSTANTS
  Projects = {p1}
  Tracks = {t1, t2, t3}
  HashOrder <- Order
  Profiles <- ShortOrLongFast
  NoProfile = NoProfile
  Genres = {Untagged}
  Untagged = Untagged
  NoTrack = NoTrack
  Builders = {b1, b2}
  Renderers = {w1}
  Forces = {TRUE, FALSE}
  Limits = {1}
  Requests <- AllOrTwo
  MaxTargets = 1
  MaxBuilds = 2
  MaxRenders = 1
  MaxLabels = 0
  MaxEdits = 1
  p1 = p1
  t1 = t1
  t2 = t2
  t3 = t3
  b1 = b1
  b2 = b2
  w1 = w1
SYMMETRY Symmetry
INVARIANTS TypeOK EdgesHaveEnds GraphBounded
PROPERTIES RendersOutliveRebuilds ImplementsStableGraph
CHECK_DEADLOCK FALSE
