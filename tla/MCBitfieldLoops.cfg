SPECIFICATION Spec
CONSTANT TotalPieces = 9
INVARIANTS PaddingStaysClear PositionsExact EndsAgree
PROPERTIES ImplementsPicker CallsReturn YieldedAgain
