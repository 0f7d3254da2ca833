CONSTANT
    Handler = {h1}
SPECIFICATION FairSpec
PROPERTY
    ReloadsOnRequest
CHECK_DEADLOCK FALSE
