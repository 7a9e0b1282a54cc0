SPECIFICATION FairSpec
CONSTANT
  Slow = {}
PROPERTIES
  IpiEnabled
