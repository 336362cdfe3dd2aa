\* A writer who is no administrator, alone: the record the model has seen is masked.
CONSTANTS
    admin = admin
    writer = writer
    Conversation = {writer}
    Admins = {}
    Writers = {writer}
    None = None
SPECIFICATION Spec
PROPERTIES
    UpdateKeepsTheRest
CHECK_DEADLOCK FALSE
