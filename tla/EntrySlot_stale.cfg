\* Two slots, each used up to four times.  The operands of an entry have words
\* of their own, so that one operand for each entry loses nothing.
CONSTANTS
    BUF_ENTRIES = 2
    MaxOperands = 1
    MaxInstr = 4
SPECIFICATION Spec
INVARIANTS
    TypeOK
    StaleFieldsKnown
