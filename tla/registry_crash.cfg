SPECIFICATION Spec
CONSTANTS
    MaxSources = 1
    Configured = FALSE
CHECK_DEADLOCK FALSE
INVARIANT SavedSourcesLoad
