\* Two edits and any number of exports, deletions and imports of a network.
SPECIFICATION Spec
CONSTANTS
  Text <- MCText
  Empty = ""
  Trimmed <- MCTrimmed
  Flags = {"x", "y"}
  DefaultFlags = "x"
  DefaultText <- MCDefaultText
  Typed <- MCTyped
  TypedLines <- MCTypedLines
  Numbers = {70000}
  Foreign <- MCForeign
  MaxNetworks = 1
  MaxEdits = 2
INVARIANTS
  TypeOK
  SameNetwork
  ReadsBack
  
