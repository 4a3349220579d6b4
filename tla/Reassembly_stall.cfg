CONSTANTS
    f1 = f1
    None = None
    Flows = {f1}
    SeqMod = 8
    ISN <- OneFlowISN
    Wires <- Overlapping
SPECIFICATION Spec
INVARIANTS
    NeverStalls
