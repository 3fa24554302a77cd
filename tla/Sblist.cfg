SPECIFICATION Spec
CONSTANTS
    Item = {a, b, c}
    Garbage = Garbage
    BlockItems = 2
    MaxCapa = 4
PROPERTY ItemListSpec
CHECK_DEADLOCK FALSE
