SPECIFICATION Spec
CONSTANTS
    Blocks <- MCBlocks
    Size = 23
    Sizes = {4, 9}
    Align = 4
INVARIANTS TypeOK CountAgrees
PROPERTIES ImplementsFifo
