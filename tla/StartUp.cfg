SPECIFICATION FairSpec
CONSTANTS
  empty = empty
  word = word
  zero = zero
  second = second
  minus = minus
  no = no
  key1 = key1
  key2 = key2
  pem = pem
  Bad = Bad
  NoPEM = NoPEM
  Other = Other
  Nil = Nil
  Empty = empty
  Keys = {key1, key2}
  Texts <- MCTexts
  Durations <- MCDurations
  Bools <- MCBools
  KeyFiles <- MCKeyFiles
  Default <- MCDefault
  Inputs <- MCInputs
INVARIANTS
  TypeOK
  Inv
  Precedence
  BackupHasAFile
PROPERTY
  GoodInputStarts
CHECK_DEADLOCK FALSE
