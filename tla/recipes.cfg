SPECIFICATION FairSpec
CONSTANTS
    Workspaces <- MCWorkspaces
    RecipeFiles <- MCRecipeFiles
    Garbled = Garbled
    Commands <- MCCommands
    Builtins <- MCBuiltins
    Texts = {"", "one", "two"}
    Blank = ""
    Rows = {m1, m2}
    MaxEdits = 2
INVARIANTS TypeOK RanInOrder InputsEarlier AgentsStable MemorySeen
PROPERTY Ends
CHECK_DEADLOCK FALSE
