SPECIFICATION Spec
CONSTANTS
    Halves <- MCHalves
    Tens <- MCTens
    Widths <- MCWidths
    Heights <- MCHeights
    Strides <- MCStrides
    Sizes <- MCSizes
    Word <- MCWord
CHECK_DEADLOCK FALSE
INVARIANTS FloatExact Nearest X11ReadsRightBytes InBounds
