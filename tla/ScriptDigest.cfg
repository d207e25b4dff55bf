CONSTANTS
    Cases <- ThreeInputs
    StackAlloc = 8
    MaxIfDepth = 2
SPECIFICATION Spec
INVARIANT DigestsAgree
