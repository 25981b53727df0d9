\* Careful programs, and any other legal ones without windows: handles of freed
\* groups are used again, communicators are freed while a group of theirs is kept.
CONSTANTS
  Procs = {1, 2}
  Me = 1
  World = cw
  Self = cs
  Comms = {cw, cs, c1, c2}
  Groups = {g1, g2, g3, g4}
  Windows = {w1, w2}
  NULL = null
  MaxComms = 5
  MaxWins = 1
  CarelessWins = {}
SPECIFICATION Spec
INVARIANTS TypeOK TablesRight CarefulIsServed
SYMMETRY Symmetry
CHECK_DEADLOCK FALSE
