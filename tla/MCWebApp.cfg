\* Two queries; two deliveries, both of one query or one of each.
CONSTANTS
    Run = {1, 2}
    MaxQueries = 2
    MaxAttempts = 2
    MaxHistory = 1
    None = None
SPECIFICATION FairSpec
INVARIANTS
    TypeOK
    AnswersFollowQuestions
    QuietAfterAnswer
PROPERTIES
    ComposerComesBack
CHECK_DEADLOCK FALSE
