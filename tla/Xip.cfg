CONSTANTS
    Sections = {0, 1, 2, 6, 7, 8, 9, 12}
    Cells <- MCCells
    Zero <- MCZero
    Samples <- MCSamples
    Targets = {6, 7, 8, 12}
    BufferSize = 18
    Allocations = {17, 18}
    FinalAlignment = 2
    CodeAlignment = 2
    DataAlignment = 2
    LinkAddress = 32
    Images <- MCImages
    Names = {1, 2, 3, 4, 5}
    HeaderNames <- MCHeaderNames
    Hash <- MCHash
    FixedLimit = 8
    Width <- MCWidth
    Flags = {"none", "ifs"}
    Pairs <- MCPairs
    Indices = {1, 2}
    Values = {3}
    MaxAlign = 4
    Cuts = {1, 13}
    Symbols <- MCSymbols
SPECIFICATION Spec
INVARIANTS Disjoint FindsTheSymbol StaysValid
PROPERTIES OthersUntouched FailureRestores
