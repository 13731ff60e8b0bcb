SPECIFICATION MCSpec
CONSTANTS
    Dpt <- AllTypes
    Inputs <- InputsTo
    Telegrams <- NoneOrAll
    SizesOf <- BothSizes
    MaxWrite = 2
    Bodies = {10, 53, 265}
    MaxTransfer = 3
    TelegramLengths = {8, 128, 250}
    PromptSteps = {5, 12}
    LateSteps = {11, 70}
    MaxRadioFrame = 2
    MaxIncoming = 1
    MaxStop = 1
    MaxQueue = 2
    MaxFrame = 2
    MaxChange = 3
INVARIANTS
    EachToItsOwner
    FieldsReadBack
    PacketsWhole
PROPERTIES
    QueueDrains
    PatientServed
CHECK_DEADLOCK FALSE
