SPECIFICATION ReaderSpec
CONSTANT Texts <- MCTexts
CONSTANT Words <- MCWords
CONSTANT Tokens <- AnyToken
CONSTANT MaxTokens = 100
CONSTANT MaxInteger = 10
CONSTANT MaxDigits = 1
CONSTANT MaxGlyphs = 4
CONSTANT MaxRest = 6
CONSTANT MaxItems = 4
CHECK_DEADLOCK FALSE
INVARIANT Nesting
INVARIANT FollowsGrammar
PROPERTY NothingLost
PROPERTY ReadsTokens
PROPERTY ReadingEnds
