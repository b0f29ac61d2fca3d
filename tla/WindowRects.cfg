SPECIFICATION Spec
CONSTANTS
    NUM_WIN = 3
    NUM_ORECT = 30
    Width = 5
    Height = 5
    MenuHeight = 1
    Shadow = 1
    Places <- MCPlaces
    Dialogs <- MCDialogs
    Early = FALSE
    Prompt = TRUE
INVARIANTS OwnersExact ScreenRight OrectsAccounted
