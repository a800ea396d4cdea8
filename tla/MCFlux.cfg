CONSTANTS
  Generators <- Sound
  Arguments <- Given
  Objects <- Variables
  MaxNest = 2
  Junk <- Garbage
  MaxCalls = 7
  Fuel = 12
SPECIFICATION Spec
PROPERTIES ImplementsStreams Returns
