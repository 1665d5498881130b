SPECIFICATION LlmSpec
CONSTANTS
    Clouds <- CloudOrder
    Offered <- SettingsThatOccur
    MaxTokens = 1
    MaxUsages = 1
    JsonTries = 1
    MaxChanges = 1
INVARIANT StatusTellsModel
CHECK_DEADLOCK FALSE
