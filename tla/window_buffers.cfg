SPECIFICATION Spec
CONSTANTS
  p1 = p1
  p2 = p2
  p3 = p3
  p4 = p4
  c1 = c1
  c2 = c2
  t1 = t1
  t2 = t2
  NoPixmap = NoPixmap
  Pixmaps = {p1, p2, p3, p4}
  ClientPixmaps = {c1, c2}
  Tiles = {t1, t2}
  Timeout = 2
  MaxLate = 1
SYMMETRY Symmetry
INVARIANTS TypeOK Counted Faithful Reclaimed
