SPECIFICATION Spec
CONSTANTS
  Tensor = {t1, t2}
  MaxBlocks = 3
  Junk = junk
  Zeros = zeros
INVARIANTS
  ListedIsReadable
  VerifiedIsWhole

  
  
