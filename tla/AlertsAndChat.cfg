\* One group: two evaluators whose Redis lock may expire, with quota adjustments; or one
\* evaluator at a time, with edits of the rule between and during evaluations.  Or two turns
\* of the chat.
SPECIFICATION ScenarioSpec
CONSTANTS
    Directories = {}
    Groups = {g}
    Projects = {}
    Evaluators = {e1, e2}
    Rules <- TwoRules
    Ratios = {0, 1, 2, NoRatio}
    MaxTime = 4
    MaxRuleChanges = 2
    NoOne = NoOne
    NoState = NoState
    NoRatio = NoRatio
    NoTime = NoTime
    \* ChatTurn: an ordinary turn and one of an agent; a detail view, a quota
    \* tool and a name that is not registered
    Turns = {t1, t2}
    AgentTurns = {t2}
    ReadableProjects = {p}
    Calls = {detail, quota, other}
    NameOf <- Names
    ScopeOf <- Scopes
    QuotaCalls = {quota}
    Unlisted = {other}
    MaxIterations = 2
    MaxArgumentRepairs = 1
    MaxFailureRepairs = 1
    MaxBatch = 2
    MaxRuns = 2
    MaxLosses = 1
    p = p
    t1 = t1
    t2 = t2
    detail = detail
SYMMETRY EvaluatorSymmetry
INVARIANTS
    OpenIffTwoBreaches ObservationsInOrder EventsAreDue
    ShownWithinAccess CallsRunOnce
PROPERTY ImplementsContract
