\* six handles, three threads; the counter saturates after the third clone
SPECIFICATION FairSpec
CONSTANTS
    Handle = {h1, h2, h3, h4, h5, h6}
    First = h1
    Threads = 3
    MaxRefcount = 2
    Saturation = 6
    Wrap = 10
    PromptStores = TRUE
INVARIANTS NoUseAfterFree ExclusiveMutation CountExact StaysSaturated SeenIsLeaked
PROPERTIES NeverWraps EventuallyFreed
CHECK_DEADLOCK FALSE
