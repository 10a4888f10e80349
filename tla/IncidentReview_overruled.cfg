\* The claim that a review does not overrule what people did meanwhile.
SPECIFICATION ReviewSpec
CONSTANTS
    Reviewers = {r1}
    People = {p1}
    ReviewModels = 1
    MaxEvidence = 2
    MaxSlot = 0
    MaxKills = 0
    Nobody = Nobody
\* With the agent off and the slots over the system may stop.
CHECK_DEADLOCK FALSE
PROPERTY StepsAreAdjacent
