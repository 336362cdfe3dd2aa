---------------------------- MODULE MCUserBackends ----------------------------
(* Instances of UserBackends for TLC. *)
EXTENDS UserBackends

CONSTANTS first, other, name

\* Two mailboxes; the address of the first is spelled in two ways.
TheEmails == {"First", "first", "other"}

TheBoxOf == [e \in TheEmails |-> IF e = "other" THEN other ELSE first]

Person(email, n) == [email |-> email, name |-> n]

TheSeed == <<Person("First", name), Person("other", name)>>

\* Creations and renamings that collide, an update with an empty field.
TheRequests == {
    [op |-> "list"],
    [op |-> "create", user |-> Person("first", Null)],
    [op |-> "delete", email |-> "first"],
    [op |-> "update", email |-> "first", user |-> Person("First", Null)],
    [op |-> "update", email |-> "other", user |-> Person("first", name)]}
===============================================================================
