SPECIFICATION Spec
CONSTANT
    Commands <- OneByte
INVARIANT
    CommandArrives
