----------------------------- MODULE UserRecords -----------------------------
(* The users of user-mcp's repositories (models.py), and what can be asked *)
(* of a repository (storage/base.py).                                      *)

CONSTANTS
    Email,      \* email addresses as they are spelled
    Box,        \* mailboxes
    BoxOf,      \* normalize_email: the mailbox of an address
    Name,       \* values of a field that may be left empty
    Null        \* such a field left empty; no user, no request, no outcome

\* `name` stands for all fields but the email.
User == [email : Email, name : Name \cup {Null}]

\* `list` also stands for the search by first name.
Request ==
    [op : {"list"}]
    \cup [op : {"create"}, user : User]
    \cup [op : {"delete"}, email : Email]
    \cup [op : {"update"}, email : Email, user : User]

\* "exists" and "missing" are the AppErrors 400 and 404, "failed" is any other error.
Outcome(is, found) == [is |-> is, users |-> found]
Outcomes == [is : {"ok", "exists", "missing", "failed"}, users : SUBSET User]

ASSUME RecordsAssumption ==
    /\ BoxOf \in [Email -> Box]
    /\ Null \notin User /\ Null \notin Request /\ Null \notin Outcomes

\* update_by_email of the Postgres repository: an empty field is left as it was.
Filled(user, old) == [user EXCEPT !.name = IF @ = Null THEN old.name ELSE @]
===============================================================================
