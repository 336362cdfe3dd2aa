---------------------------- MODULE RecordMasking ----------------------------
(***************************************************************************)
(* What happens to the personal data of a user record on its way from the  *)
(* database to the person who asked, and back: user-mcp masks the result   *)
(* of a tool for callers outside `admins` (vault_transform.py), the agent  *)
(* masks what it is about to show them with its tool mask_pii              *)
(* (pii_masking.py), and an update sends the whole record the model has    *)
(* seen, with the changed fields put in (agent_runtime.py, system prompt). *)
(* Vault Transform is external: it encodes a value its template matches,   *)
(* and refuses or fails otherwise and at any time.                         *)
(***************************************************************************)
CONSTANTS
    Conversation,
    Admins,         \* those whose user is in the group `admins`
    Writers,        \* those whose user may have the scope users.write
    None

ASSUME MaskingAssumption == Admins \subseteq Conversation /\ Writers \subseteq Conversation

VaultField == {"ssn", "credit_card_number"}
LocalField == {"email", "phone"}       \* ip_address is treated like phone
Field == VaultField \cup LocalField

\* A field is not there, fits Vault's template, does not (too many or too few
\* digits), or is masked: it holds stars.
Value == {"absent", "plain", "odd", "stars"}
Record == [Field -> Value]

ASSUME NoneAssumption == None \notin Record

VARIABLES
    masker,     \* user-mcp is configured with a TransformMasker
    row,        \* the record in the database
    at,         \* what each conversation awaits
    work,       \* the record that is being masked
    left,       \* user-mcp: the fields Vault has not encoded yet
    seen,       \* the record as the last tool result gave it to the model
    shown,      \* what mask_pii made of it
    wrapped,    \* mask_pii was given it inside another value, not as a record
    asked       \* history: the fields the last update was to change

convVars == <<at, work, left, seen, shown, wrapped>>
vars == <<masker, row, convVars, asked>>

TypeOK ==
    /\ masker \in BOOLEAN
    /\ row \in Record /\ row["email"] # "absent"
    /\ at \in [Conversation -> {"idle", "encode", "ssn", "card", "local"}]
    /\ work \in [Conversation -> Record \cup {None}]
    /\ left \in [Conversation -> SUBSET VaultField]
    /\ seen \in [Conversation -> Record \cup {None}]
    /\ shown \in [Conversation -> Record \cup {None}]
    /\ wrapped \in [Conversation -> BOOLEAN]
    /\ asked \subseteq Field

\* The table has an email in every row, and nothing checks what is in the others
\* (docker-compose/templates/users-init.sql).
Init ==
    /\ masker \in BOOLEAN
    /\ row \in {r \in [Field -> Value \ {"stars"}] :
                  r["email"] = "plain" /\ r["phone"] # "odd"}
    /\ at = [c \in Conversation |-> "idle"]
    /\ work = [c \in Conversation |-> None]
    /\ left = [c \in Conversation |-> {}]
    /\ seen = [c \in Conversation |-> None]
    /\ shown = [c \in Conversation |-> None]
    /\ wrapped = [c \in Conversation |-> FALSE]
    /\ asked = {}

-----------------------------------------------------------------------------
(* Maskers. *)

\* The local maskers replace what is there, whatever it looks like.
Starred(record, fields) ==
    [f \in Field |-> IF f \in fields /\ record[f] # "absent" THEN "stars" ELSE record[f]]

\* _run_tool: the masker is there and the caller is no admin.
MustMask(c) == masker /\ c \notin Admins

\* The model gets a tool result, or an error.
Result(c, record) ==
    /\ at' = [at EXCEPT ![c] = "idle"]
    /\ seen' = [seen EXCEPT ![c] = record]
    /\ shown' = [shown EXCEPT ![c] = None]
    /\ wrapped' = [wrapped EXCEPT ![c] = FALSE]
    /\ work' = [work EXCEPT ![c] = None]
    /\ left' = [left EXCEPT ![c] = {}]

ForVault(record) == {f \in VaultField : record[f] # "absent"}

\* A tool that returns the record passes it to the masker, which asks Vault for all
\* its fields at once.
Hand(c, record) ==
    IF MustMask(c) /\ ForVault(record) # {}
    THEN /\ at' = [at EXCEPT ![c] = "encode"]
         /\ work' = [work EXCEPT ![c] = record]
         /\ left' = [left EXCEPT ![c] = ForVault(record)]
         /\ UNCHANGED <<seen, shown, wrapped>>
    ELSE Result(c, IF MustMask(c) THEN Starred(record, LocalField) ELSE record)

-----------------------------------------------------------------------------
(* user-mcp. *)

\* list_all_users and search_users_by_first_name.
Read(c) ==
    /\ at[c] = "idle"
    /\ Hand(c, row)
    /\ UNCHANGED <<masker, row, asked>>

\* Vault's answer for one field; the last one completes the record.
Encoded(c, f) ==
    /\ at[c] = "encode" /\ f \in left[c] /\ work[c][f] = "plain"
    /\ IF left[c] = {f}
       THEN Result(c, Starred(work[c], LocalField \cup {f}))
       ELSE /\ work' = [work EXCEPT ![c] = Starred(@, {f})]
            /\ left' = [left EXCEPT ![c] = @ \ {f}]
            /\ UNCHANGED <<at, seen, shown, wrapped>>
    /\ UNCHANGED <<masker, row, asked>>

\* (Mutant of EncodeFails: a field Vault did not encode stays as it is.)
EncodeFailsAlone(c) ==
    /\ at[c] = "encode"
    /\ Result(c, Starred(work[c], LocalField))
    /\ UNCHANGED <<masker, row, asked>>

\* One refused or failed encoding fails the tool call: asyncio.gather raises.
EncodeFails(c) ==
    /\ at[c] = "encode"
    /\ Result(c, None)
    /\ UNCHANGED <<masker, row, asked>>

-----------------------------------------------------------------------------
(* The agent. *)

\* The model calls mask_pii for a caller outside `admins`, with the record it has
\* seen or with one field of it.
MaskCalled(c) == at[c] = "idle" /\ seen[c] # None /\ c \notin Admins

Part(record, fields) == [f \in Field |-> IF f \in fields THEN record[f] ELSE "absent"]
Parts(record) == {Part(record, Field)} \cup {Part(record, {f}) : f \in Field}

\* A JSON object with the fields as its keys, alone or in an array, is masked key by
\* key.
Mask(c) ==
    /\ MaskCalled(c)
    /\ \E part \in Parts(seen[c]) : work' = [work EXCEPT ![c] = part]
    /\ at' = [at EXCEPT ![c] = "ssn"]
    /\ UNCHANGED <<masker, row, left, seen, shown, wrapped, asked>>

\* Any other JSON is returned as it is: a value that is no object, and an object that
\* has the fields deeper down, such as the content blocks of a tool result.
MaskWrapped(c) ==
    /\ MaskCalled(c)
    /\ \E part \in Parts(seen[c]) : shown' = [shown EXCEPT ![c] = part]
    /\ wrapped' = [wrapped EXCEPT ![c] = TRUE]
    /\ UNCHANGED <<masker, row, at, work, left, seen, asked>>

\* What is no JSON gets an error.
MaskRejects(c) ==
    /\ MaskCalled(c)
    /\ shown' = [shown EXCEPT ![c] = None]
    /\ wrapped' = [wrapped EXCEPT ![c] = FALSE]
    /\ UNCHANGED <<masker, row, at, work, left, seen, asked>>

\* (Mutant of Fallback: Vault's failure leaves the value.)
FallbackKeeps(value) == value

\* Letters and digits become stars when Vault fails.
Fallback(value) == "stars"

\* _vault_ready_value skips what is not there, holds a star or has the wrong number of
\* digits.  Vault encodes the rest, or fails.
MaskField(c, stage, f, next) ==
    /\ at[c] = stage
    /\ at' = [at EXCEPT ![c] = next]
    /\ \E v \in IF work[c][f] = "plain" THEN {"stars", Fallback(work[c][f])} ELSE {work[c][f]} :
          work' = [work EXCEPT ![c][f] = v]
    /\ UNCHANGED <<masker, row, left, seen, shown, wrapped, asked>>

MaskSsn(c) == MaskField(c, "ssn", "ssn", "card")
MaskCard(c) == MaskField(c, "card", "credit_card_number", "local")

MaskLocal(c) ==
    /\ at[c] = "local"
    /\ at' = [at EXCEPT ![c] = "idle"]
    /\ shown' = [shown EXCEPT ![c] = Starred(work[c], LocalField)]
    /\ wrapped' = [wrapped EXCEPT ![c] = FALSE]
    /\ work' = [work EXCEPT ![c] = None]
    /\ UNCHANGED <<masker, row, left, seen, asked>>

\* (Mutant of Updated: an explicit null is written.)
UpdatedWhole(old, sent) == sent

\* update_by_email sets the columns that are sent and not null.
Updated(old, sent) == [f \in Field |-> IF sent[f] = "absent" THEN old[f] ELSE sent[f]]

\* The user has one field changed, or none of these.  The model sends its new value,
\* and for the others what it has seen or, against its instructions, nulls; the tool
\* returns the new row.
Update(c) ==
    /\ at[c] = "idle" /\ seen[c] # None /\ c \in Writers
    /\ \E change \in {{}} \cup {{f} : f \in Field}, merged \in BOOLEAN :
          /\ asked' = change
          /\ row' = Updated(row, [f \in Field |-> IF f \in change THEN "plain"
                                               ELSE IF merged THEN seen[c][f]
                                               ELSE "absent"])
    /\ Hand(c, row')
    /\ UNCHANGED masker

Next == \E c \in Conversation :
    \/ Read(c) \/ EncodeFails(c) \/ Update(c)
    \/ Mask(c) \/ MaskWrapped(c) \/ MaskRejects(c)
    \/ MaskSsn(c) \/ MaskCard(c) \/ MaskLocal(c)
    \/ \E f \in VaultField : Encoded(c, f)

Spec == Init /\ [][Next]_vars

-----------------------------------------------------------------------------
(* Properties. *)

\* While user-mcp masks, no field of a record leaves it readable for a caller outside
\* `admins`: neither when Vault fails, nor for a value Vault's template does not
\* match (vault_transform.py mask_user_record).
LeavesMasked ==
    \A c \in Conversation : (MustMask(c) /\ seen[c] # None) =>
        \A f \in Field : seen[c][f] \in {"absent", "stars"}

\* What mask_pii returns for a caller outside `admins` is masked whether or not Vault
\* answers, in two cases (pii_masking.py _mask_record).  Where user-mcp masks, all of
\* it is, in whatever form mask_pii gets it.  Where user-mcp does not, mask_pii is the
\* only masker, and of a record handed over as one the only fields left readable are
\* social security and card numbers with a wrong number of digits.  The tool's
\* docstring promises more: those numbers, and whatever is handed over in another
\* form, come back readable.
ShownMasked ==
    \A c \in Conversation : shown[c] # None =>
        \A f \in Field : shown[c][f] \notin {"absent", "stars"} =>
            ~masker /\ (wrapped[c] \/ (f \in VaultField /\ shown[c][f] = "odd"))

\* agent_runtime.py, system prompt: an update sends "the original values for fields
\* the user is NOT changing".  It does not hold: what the model has seen is masked,
\* or older than another update.
UpdateKeepsTheRest == [][\A f \in Field : row'[f] # row[f] => f \in asked']_vars

-----------------------------------------------------------------------------
(* The inductive invariant behind LeavesMasked and ShownMasked. *)

Hidden(record, fields) == \A f \in fields : record[f] \in {"absent", "stars"}

\* While Vault is asked, the fields it has answered for are masked.
EncodeInv ==
    \A c \in Conversation : at[c] = "encode" =>
        MustMask(c) /\ work[c] # None /\ Hidden(work[c], VaultField \ left[c])

\* mask_pii works on what the model has seen: for a caller outside `admins` that is
\* masked already where user-mcp masks; field by field nothing stays as it was but
\* what is no number for Vault.
MaskInv ==
    \A c \in Conversation : at[c] \in {"ssn", "card", "local"} =>
        /\ work[c] # None
        /\ masker => Hidden(work[c], Field)
        /\ at[c] # "ssn" => work[c]["ssn"] # "plain"
        /\ at[c] = "local" => work[c]["credit_card_number"] # "plain"

Inv == TypeOK /\ EncodeInv /\ MaskInv /\ LeavesMasked /\ ShownMasked
==============================================================================
