SPECIFICATION AskSpec
CONSTANTS
    Entries = 2
    Anthropic = {1}
    OpenAI = {2}
    Gemini = {}
    Keyless = {0}
    MaxContextMessages = 3
    MaxContextChars = 6
    Lengths = {1}
    MaxMessages = 3
    MaxAsks = 1
INVARIANTS
    ErrorsMoveOn
CHECK_DEADLOCK FALSE
