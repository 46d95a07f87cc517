\* What two comments say of the decryption table; -continue shows both wrong.
SPECIFICATION Spec
CONSTANTS
  MaxHomomorphicInt = 6
  Value <- Values
  Limit <- Limits
INVARIANTS NegativesDecrypt TableCoversLimit
