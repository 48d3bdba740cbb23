SPECIFICATION BuilderSpec
CONSTANTS
  Idents = {"a", "b", "f", "x", "y", "u8", "usize", "S", "E", "A", "B", "T", "F", "Vec", "new", "vec", "matches"}
  IntSuffixes = {"u8"}
  Ints = {"0", "1", "2"}
  Strs = {}
  Chars = {}
  Lifetimes = {"'l"}
  Atoms <- MCAtoms
  Contexts <- MCContexts
  Programs <- MCPrograms
  MaxDepth = 2
  Sources <- Texts
  IntModulus = 100
  Tables <- MCTables
INVARIANT TryReadsOnce
CHECK_DEADLOCK FALSE
