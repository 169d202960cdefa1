\* What --jsonl writes.
CONSTANTS
    Window = 2
    MaxIntervals = 2
SPECIFICATION Spec
INVARIANTS JsonlIsJson
