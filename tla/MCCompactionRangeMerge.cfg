SPECIFICATION Spec
CONSTANT IsJob <- CoveredJob
CHECK_DEADLOCK FALSE
INVARIANT ReadsPreserved
