SPECIFICATION Spec
CONSTANTS
  Projects = {p1}
  Tracks = {t1, t2}
  HashOrder <- Order
  Profiles <- ShortOrFast
  NoProfile = NoProfile
  Genres = {Untagged}
  Untagged = Untagged
  NoTrack = NoTrack
  Builders = {b1}
  Renderers = {w1}
  Forces = {TRUE}
  Limits = {1}
  Requests <- AllTracks
  MaxTargets = 1
  MaxBuilds = 3
  MaxRenders = 1
  MaxLabels = 3
  MaxEdits = 0
  p1 = p1
  t1 = t1
  t2 = t2
  t3 = t3
  b1 = b1
  w1 = w1
INVARIANTS DroppedStaysDropped
CHECK_DEADLOCK FALSE
