CONSTANTS
  None = None
  Pending = Pending
  Statements <- SomeStatements
  Methods <- TwoClasses
  Returns <- WhatTheyReturn
  NamePrefixes <- OnePrefix
  MaxUnplaced = 1
SPECIFICATION Spec
INVARIANT HoverInMessage
CHECK_DEADLOCK FALSE
