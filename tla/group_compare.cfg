SPECIFICATION Spec
CONSTANTS
    Dpt <- Dimmers
    Inputs <- InputsTo
    Telegrams <- NoneOrAll
    SizesOf <- BothSizes
    MaxWrite = 2
PROPERTY CompareDoesTheSame
CHECK_DEADLOCK FALSE
