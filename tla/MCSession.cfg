\* Streams cut at every token.  Every behaviour ends, in Over.
CONSTANTS
    Jobs <- MCJobs
    NULL = NULL
    Token <- MCToken
    StashSize = 6
    SizeMod = 16
    FoldCuts = FALSE
SPECIFICATION Spec
INVARIANTS DoneAsAsked AnswersTrue
