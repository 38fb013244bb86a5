SPECIFICATION TreeSpec
CONSTANTS
  StaticNode <- MCStaticNode
  DefaultLinks <- GvdDefaultLinks
  ExampleLinks <- MCExampleLinks
  Clone <- MCClone
  MayLack <- Mode
  Spelling <- MCSpelling
INVARIANTS TreeConsistent MergesWhole BuildinsAsPromised
PROPERTIES KeepsCommands StartsUp
CHECK_DEADLOCK FALSE
