SPECIFICATION Spec
CONSTANTS
    Sender = {s1, s2}
    ToolSender = {s1}
    DataSlots = 1
    ToolSlots = 1
    MaxSequence = 2
INVARIANTS
    ReplaySafe

    
