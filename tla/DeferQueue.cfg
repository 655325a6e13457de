\* A ring of four slots (three entries) wraps several times; the drop counter wraps too.
CONSTANTS
  Entry = {e1, e2}
  Size = 4
  DropWrap = 3
SPECIFICATION FairSpec
INVARIANTS
  TypeOK
PROPERTY
  ImplementsFifo
