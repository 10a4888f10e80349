\* One prompt, stopped before its answer has text.
SPECIFICATION PageSpec
CONSTANTS
    Conversations = {c1, c2}
    FirstConversations = {c1}
    Prompts = {s1}
    Clicks = {o1}
    MaxWire = 2
    Nowhere = Nowhere
    NoPrompt = NoPrompt
\* The prompt is over and nothing is clicked any more.
CHECK_DEADLOCK FALSE
PROPERTY StoppedIsMarked
