SPECIFICATION Spec
CONSTANTS
    LaunchPolls = 2
    MaxInputs = 2
    Starts = {"alive", "none"}
PROPERTIES IconCatchesUp StaysReachable ManualStartShows
