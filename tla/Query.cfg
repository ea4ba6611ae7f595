\* Queries one after another, three commits or deletes before and between their statements.
SPECIFICATION Spec
CONSTANTS
    Uri = {"a", "b", "c"}
    RecordDoc = {"a1", "a2", "b1", "c1"}
    NoDoc = "none"
    UriOf <- MCUriOf
    Date = {1, 2}
    Match <- MCMatch
    SchemaOf <- MCSchemaOf
    Asked <- MCAsked
    DefaultLimit = 1
    MaxLimit = 2
    None = None
    MaxWrites = 3
INVARIANTS
    AnswersOfOneMoment
    FailsOnlyOnChange
