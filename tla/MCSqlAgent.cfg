CONSTANTS
    Worlds <- MCWorlds
    Ingesters = {i1, i2}
    None = None
    DefaultSchema = "public"
    RowLimit = 2
    NoLimit = NoLimit
    NoQualifier = NoQualifier
    Requests = {r1}
    Queries <- MCQueries
    MaxRepairs = 2
    ExplainValidation = TRUE
    Budgets <- MCBudgets
    calls = calls
    agents = agents
    id = id
    agent = agent
    callback = callback
SPECIFICATION Spec
INVARIANTS TypeOK StructureHeals StoreMirrors EmbeddingsFresh BuiltAsChecked BuiltBounded BuiltOwned RepairsAudited
PROPERTIES EmbeddingsKept QuestionsAdvance QuestionsEnd
CHECK_DEADLOCK FALSE
