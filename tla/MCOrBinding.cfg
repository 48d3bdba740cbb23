SPECIFICATION Spec
CONSTANTS
    Structs <- MCStructs
    Enums <- MCEnums
    Impls <- MCImpls
    Funs <- MCFuns
    Crates <- OrCrates
    Meanings <- MCMeanings
    Observed = {"note", "gone"}
    WideBits = 12
    PageEnd = 65536
PROPERTY ImplementsSource
