SPECIFICATION Spec
CONSTANTS
    Attempts = 3
    Window = 2
    Epochs = {1, 2, 3, 4, 5}
    MaxToken = 6
CHECK_DEADLOCK FALSE
INVARIANTS SentIsJournaled AttemptsBounded TokenUsable
PROPERTIES RetriesInWindow
