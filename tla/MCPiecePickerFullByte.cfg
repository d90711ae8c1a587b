SPECIFICATION Spec
CONSTANT TotalPieces = 8
INVARIANT SetStaysInside
