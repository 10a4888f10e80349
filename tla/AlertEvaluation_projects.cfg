\* A project whose totals are written between the choice of the sample and its evaluation.
SPECIFICATION Spec
CONSTANTS
    Directories = {}
    Groups = {g}
    Projects = {p}
    Evaluators = {e1}
    Rules <- OneRule
    Ratios = {1}
    MaxTime = 2
    MaxRuleChanges = 0
    NoOne = NoOne
    NoState = NoState
    NoRatio = NoRatio
    NoTime = NoTime
INVARIANTS ProjectRefreshesCountOnce
