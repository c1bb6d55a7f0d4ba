SPECIFICATION Spec
CONSTANTS
  Nodes <- NumberedNodes
  Key <- PairedKeys
INVARIANTS
  TypeOK
  Linked
  RedBlack
PROPERTIES
  KeepsOrder
