SPECIFICATION Spec
CONSTANTS
    Endpoint = {e1, e2}
    Call = {c1, c2}
    Class = {"quote", "submit_non_idempotent"}
    MaxAttempts = 3
    MinRetries = 1
    Ratio <- OneToOne
    Window = 1
INVARIANTS TypeOK ProcessedOnce RetriesWithinBudget
PROPERTIES CooldownHonoured CallsEnd
