SPECIFICATION Spec
CONSTANTS
  Targets = {t1, t2}
  Edits = {e1, e2, e3}
  Looks = {k1, k2}
  Styles = {c1}
  Handlers = {h1, h2}
  NoRow = NoRow
  NoPut = NoPut
  NoEdit = NoEdit
  NoCss = NoCss
  NoBody = NoBody
  MaxDeletes = 1
  MaxThemePuts = 3
SYMMETRY Symmetry
CHECK_DEADLOCK FALSE
INVARIANTS TypeOK NoLostUpdate AppliedOnce OneTheme
