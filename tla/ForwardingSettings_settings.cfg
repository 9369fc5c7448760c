SPECIFICATION FairSpec
CONSTANTS
    t0 = t0
    t1 = t1
    Consoles = {c1, c2}
    Tokens = {t0, t1}
    Blank = Blank
    Empty = Empty
    Partial = Partial
    EnvConfig <- MCEnv
    MaxPosts = 3
    MaxFailures = 1
    MaxCrashes = 2
INVARIANT TokenIsSubmitted
PROPERTY PausedFlagsAgree
CHECK_DEADLOCK FALSE
