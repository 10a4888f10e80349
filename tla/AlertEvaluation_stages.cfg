\* A directory and a project of one round, refreshed and given another rule while they are
\* evaluated; AlertsAndChat.cfg has the group.
SPECIFICATION FairSpec
CONSTANTS
    Directories = {d}
    Groups = {}
    Projects = {p}
    Evaluators = {e1}
    Rules <- TwoRules
    Ratios = {1}
    MaxTime = 3
    MaxRuleChanges = 1
    NoOne = NoOne
    NoState = NoState
    NoRatio = NoRatio
    NoTime = NoTime
INVARIANTS DatedRefreshesCountOnce
PROPERTY FreshSampleEvaluated
