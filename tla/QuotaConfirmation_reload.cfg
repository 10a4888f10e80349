\* The claim that a reload does not lose an outcome.
SPECIFICATION Spec
CONSTANTS
    Confirmations = {c1}
    Deciders = {d1}
    None = None
    SeveralProposals = FALSE
SYMMETRY Symmetry
\* The turn ends and its keys expire: the system stops.
CHECK_DEADLOCK FALSE
PROPERTY OutcomeSurvives
