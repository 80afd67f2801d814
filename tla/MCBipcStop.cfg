CONSTANTS
  k1 = k1
  k2 = k2
  k3 = k3
  k4 = k4
  None = None
  Aipcs <- MCAipcs

SPECIFICATION Spec

\* The endpoint's life ends once it is destroyed.
CHECK_DEADLOCK FALSE

PROPERTY StopCompletes
