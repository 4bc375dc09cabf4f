CONSTANTS
    Count = 2
    WordSize = 16
    StackSize = 16
    Texts <- SomeTexts
    Reads <- SomeReads
    NaN = NaN
    MsgIds <- TwoIds
    Requests <- AllRequests
SPECIFICATION Spec
INVARIANTS
    TypeOK
    CodeTellsEffect
    ChangeIsTold
    AnswersItsRequest
    TreeIsText
    LastRequestIsRead
    PartIsNoRequest
