SPECIFICATION FrontSpec
CONSTANTS
  Idents = {"a", "b", "f", "x", "y", "u8", "usize", "S", "E", "A", "B", "T", "F", "Vec", "new", "vec", "matches"}
  IntSuffixes = {"u8"}
  Ints = {"0", "1", "2"}
  Strs = {}
  Chars = {}
  Lifetimes = {"'l"}
  Atoms <- MCAtoms
  Contexts <- MCContexts
  Programs <- MCPrograms
  MaxDepth = 2
  Sources <- Texts
  IntModulus = 100
  Tables <- MCTables
INVARIANTS MaximalMunch PositionsAreTrue Reads Ids
  AcceptedCovers RejectedMisses BindingsFit AnswerSolves FailsOnlyIfUnsolvable
  VariancesAreLeast CallsDoTheSame LoweredIsAccepted SameEvents NamesAreTheirs
PROPERTIES FnOnlyReads
CHECK_DEADLOCK FALSE
