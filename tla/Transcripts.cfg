SPECIFICATION Spec
CONSTANTS
    Tools = {"claude-code", "codex-cli", "copilot-cli", "continue-dev", "aider",
             "gemini-cli", "cline", "zed-ai", "opencode", "cursor"}
    Setups <- MCSetups
    Written <- MCWritten
    MaxRecs = 3
    MaxNames = 2
    MaxRows = 2
INVARIANTS
    TypeOK
    SaidIsListed
    LeftOutIsCounted
PROPERTIES
    TurnsStay
    ChangesAreFingerprinted
