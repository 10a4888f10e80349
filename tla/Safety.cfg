\* Seven components, one at a time.
SPECIFICATION SafetySpec
CONSTANTS
    \* QuotaConfirmation: two proposals of one turn, two requests
    Confirmations = {q1, q2}
    Deciders = {d1, d2}
    None = None
    SeveralProposals = TRUE
    \* IncidentReview: two reviews that overlap, one person
    Reviewers = {a1, a2}
    People = {u1}
    ReviewModels = 1
    MaxEvidence = 2
    MaxSlot = 1
    MaxKills = 1
    Nobody = Nobody
    \* CapacityPrediction: windows of a day, from the third day on; two administrators
    Targets = {volume, group_target}
    BusinessTargets = {group_target}
    StorableTargets = {group_target}
    Candidates = {v1, v2}
    Admins = {x1, x2}
    WindowDays = 1
    FirstHistory = 2
    MaxDay = 2
    MaxStops = 1
    NoCandidate = NoCandidate
    \* CapacityCollection: two rounds over three clusters
    Clusters = {k1, k2, k3}
    Unsupported = {k3}
    Groups = {g1, g2}
    Projects = {p1, p2}
    Rounds = {r1, r2}
    MaxMoves = 1
    MaxFaults = 1
    NoRound = NoRound
    \* VendorCatalogue: two built-in codes, one whose seed and row of the script are pending,
    \* and another code; two discoveries
    Codes = {builtin, pending, other}
    BuiltIn = {builtin, pending}
    Catalogued = {builtin, pending}
    PendingSeeds = {pending}
    PendingRows = {pending}
    Discoveries = {n1, n2}
    Faults = {fault1}
    MaxEdits = 2
    \* ChatPage: one conversation and two to be created, two prompts, two clicks on the list
    Conversations = {c1, c2, c3}
    FirstConversations = {c1}
    Prompts = {s1, s2}
    Clicks = {o1, o2}
    MaxWire = 1
    Nowhere = Nowhere
    NoPrompt = NoPrompt
    \* AliasStream: kinds that begin unlike and like the random letters
    Letters = {lp, lq, lx}
    Resources = {project, tree, odd}
    AliasOf <- Drawn
    MaxSaid = 6
    MaxChunk = 3
    lp = lp
    lq = lq
    lx = lx
    project = project
    tree = tree
    odd = odd
    c1 = c1
    c2 = c2
    c3 = c3
    s1 = s1
    s2 = s2
    o1 = o1
    o2 = o2
    builtin = builtin
    pending = pending
    other = other
    n1 = n1
    n2 = n2
    q1 = q1
    q2 = q2
    u1 = u1
    x2 = x2
    v1 = v1
    v2 = v2
    k1 = k1
    k2 = k2
    k3 = k3
    g1 = g1
    g2 = g2
    p1 = p1
    p2 = p2
    r1 = r1
    r2 = r2
\* The turn ends, the days are over and the rounds used up: each part stops in the end.
CHECK_DEADLOCK FALSE
INVARIANTS
    ExecutedAtMostOnce OutcomeIsTrue
    AskedOnce RunsHaveReviewers
    JudgedOnce
    TotalsNeedEveryCluster TrendShowsItsRound LedgerIsHonest
    TurnsShownAtHome
    CutsDoNotShow
PROPERTIES
    OneTakesOver ImplementsProposals OutcomeFinal ReadingsFitTheirGroup DiscoveryIsComplete EditsAreKept
