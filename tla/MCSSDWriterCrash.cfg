SPECIFICATION Spec
CONSTANTS
  Tensor = {t1, t2}
  MaxBlocks = 2
  Junk = junk
  Zeros = zeros
INVARIANT
  BlockSurvivesCrash
