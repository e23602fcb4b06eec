\* One session types lines and parts of lines, others move the mode at any time
SPECIFICATION Spec
CONSTANTS
    Interface = {"fc1/1"}
    Number <- Numbers
    Value <- Sample
INVARIANTS TypeOK CompleteLinesUnderstood AbbreviationsMean CrossedLinesStoreTheSame
PROPERTIES TabKeepsMeaning
CHECK_DEADLOCK FALSE
