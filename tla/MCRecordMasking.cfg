\* An administrator and a writer, each in a conversation about the record.
CONSTANTS
    admin = admin
    writer = writer
    Conversation = {admin, writer}
    Admins = {admin}
    Writers = {admin, writer}
    None = None
SPECIFICATION Spec
INVARIANTS
    TypeOK
    LeavesMasked
    ShownMasked
CHECK_DEADLOCK FALSE
