CONSTANTS
    MAX_RETRIES = 1
    MaxEdits = 2
    MaxIds = 2
    MaxNotes = 2
    MaxRuns = 1
SPECIFICATION Spec
CHECK_DEADLOCK FALSE
INVARIANTS EventCreatedOnce ReminderIsKnown EventsCarried
CONSTRAINT Undisturbed
