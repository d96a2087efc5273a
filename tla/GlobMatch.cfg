CONSTANTS
  Patterns <- OnePattern
  Texts <- SomeTexts
SPECIFICATION Spec
CHECK_DEADLOCK FALSE
PROPERTY AsDocumented
