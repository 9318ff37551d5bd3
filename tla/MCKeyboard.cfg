SPECIFICATION Spec
CONSTANTS
    PlainKeys <- MCPlainKeys
    ExtKeys <- MCExtKeys
INVARIANTS
    TypeOK
    ModifiersAsHeld
    CharAsTyped
