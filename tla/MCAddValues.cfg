SPECIFICATION FairSpec
CONSTANTS
  Args <- MCArgs
  Width = 3
INVARIANTS
  TypeOK
  ResultIsSum
  BuffersExact
PROPERTY Terminates
