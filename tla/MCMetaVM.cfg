CONSTANTS
  Sessions <- Sound
  Library <- Functions
  Compiled <- CodeOf
  Width = 256
  Fuel = 12
SPECIFICATION Spec
INVARIANTS SameMeaning LocalsApart
PROPERTY Finishes
