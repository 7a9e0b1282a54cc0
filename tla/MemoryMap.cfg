SPECIFICATION Spec
CONSTANT UserTtba <- MCUserTtba
INVARIANTS
  TypeOK
  PrivateToStructure
  ConsistentAttributes
  InterruptsReachable
