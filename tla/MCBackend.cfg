SPECIFICATION Spec
CONSTANTS
    Structs <- MCStructs
    Enums <- MCEnums
    Impls <- MCImpls
    Funs <- MCFuns
    Crates <- MCCrates
    Meanings <- MCMeanings
    Observed = {"note", "gone"}
    WideBits = 12
    PageEnd = 65536
INVARIANTS BackendTypeOK NothingMissing IndexesHold ValidCode
PROPERTIES StackGivenBack NoStrayWrite ImplementsSource
