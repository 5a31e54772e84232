SPECIFICATION Spec
CONSTANT Chips <- MCChips
INVARIANT Calibrated
