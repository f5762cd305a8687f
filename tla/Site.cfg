SPECIFICATION SiteSpec
CONSTANTS
    w1 = w1
    w2 = w2
    Worker = {w1, w2}
    MaxRow = 3
    MaxSecond = 2
    MaxSize = 2
    MaxUpload = 2
    MaxPost = 2
INVARIANTS
    CommandsFailForCause
    HeadIsModels
    ServedSchemaIsModels
    NothingMissedWithoutWithdrawal
    NothingTwiceWithoutCreation
    ListedImagesExist
    AnswersAreTrue
    OnePictureOneRow
