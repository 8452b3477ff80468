SPECIFICATION Spec
CONSTANTS
  CPU_EMU_C = TRUE
  Operands = {0, 1, 15, 16, 127, 128, 254, 255}
INVARIANTS
  DecimalSums
