\* One request, three tool rounds.
CONSTANTS
    Run = {first}
    Plan <- ThePlans
    MaxRounds = 3
SPECIFICATION FairSpec
INVARIANTS
    TypeOK
    PromptChecked
    AnswerKnowsEffects
    AnswerFiltered
PROPERTIES
    RunImplemented
    RunsEnd
CHECK_DEADLOCK FALSE
