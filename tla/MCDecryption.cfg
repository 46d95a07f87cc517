\* All sequences of decryptions of small integers.
SPECIFICATION Spec
CONSTANTS
  MaxHomomorphicInt = 6
  Value <- Values
  Limit <- Limits
INVARIANTS TypeOK TableCorrect NonNegativesDecrypt NoGap
