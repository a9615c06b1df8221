SPECIFICATION FairSpec
CONSTANTS
    j1 = j1
    j2 = j2
    r1 = r1
    r2 = r2
    None = None
    Job = {j1, j2}
    Run = {r1, r2}
    JobOf <- MC_JobOf
    LastLevel <- MC_LastLevel
    Bounds <- MC_Bounds
    Triggerable = {j1}
    PollCall = {"p1"}
    ClickCall = {"u1", "u2"}
    ConsoleCall = {"c1", "c2"}
PROPERTIES
    GoesBackOnlyWhenOvertaken
    MixedOnlyWhenCrossed
    ScreenCatchesUp
