CONSTANTS
  NULL = NULL
  OOB = OOB
  EINVAL = EINVAL
  SymValueNamesLen = 102
  SizeofProps = 32
  SizeTWidth = 30
  Probes <- MCProbes
  Buflens <- MCBuflens
SPECIFICATION Spec
\* The caller of src/t/symbol.c ends in its probes; nothing more follows.
CHECK_DEADLOCK FALSE
INVARIANT TableBounds
