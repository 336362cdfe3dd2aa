------------------------- MODULE RecordMasking_proofs -------------------------
(***************************************************************************)
(* Proofs about RecordMasking, for every set of conversations, admins and  *)
(* writers: the inductive invariant Inv and the safety properties in it.   *)
(***************************************************************************)
EXTENDS RecordMasking, TLAPS

-----------------------------------------------------------------------------
(* Maskers. *)

LEMMA StarredMasks ==
    ASSUME NEW record \in Record, NEW fields
    PROVE  /\ Starred(record, fields) \in Record
           /\ \A f \in Field : Starred(record, fields)[f] =
                 IF f \in fields /\ record[f] # "absent" THEN "stars" ELSE record[f]
BY DEF Starred, Record, Value

LEMMA UpdatedKeepsRow ==
    ASSUME NEW old \in Record, NEW sent \in Record
    PROVE  /\ Updated(old, sent) \in Record
           /\ old["email"] # "absent" => Updated(old, sent)["email"] # "absent"
BY DEF Updated, Record, Field, LocalField

\* The part of TypeOK that is about conversations.
ConvTypeOK ==
    /\ at \in [Conversation -> {"idle", "encode", "ssn", "card", "local"}]
    /\ work \in [Conversation -> Record \cup {None}]
    /\ left \in [Conversation -> SUBSET VaultField]
    /\ seen \in [Conversation -> Record \cup {None}]
    /\ shown \in [Conversation -> Record \cup {None}]
    /\ wrapped \in [Conversation -> BOOLEAN]

\* The conjuncts of Inv that are about one conversation.
ConvInv(c) ==
    /\ at[c] = "encode" =>
          MustMask(c) /\ work[c] # None /\ Hidden(work[c], VaultField \ left[c])
    /\ at[c] \in {"ssn", "card", "local"} =>
          /\ work[c] # None
          /\ masker => Hidden(work[c], Field)
          /\ at[c] # "ssn" => work[c]["ssn"] # "plain"
          /\ at[c] = "local" => work[c]["credit_card_number"] # "plain"
    /\ (MustMask(c) /\ seen[c] # None) => Hidden(seen[c], Field)
    /\ shown[c] # None =>
          \A f \in Field : shown[c][f] \notin {"absent", "stars"} =>
              ~masker /\ (wrapped[c] \/ (f \in VaultField /\ shown[c][f] = "odd"))

LEMMA InvIsPerConversation ==
    Inv <=> TypeOK /\ \A c \in Conversation : ConvInv(c)
BY DEF Inv, ConvInv, EncodeInv, MaskInv, LeavesMasked, ShownMasked, Hidden

Same(d) ==
    /\ at'[d] = at[d] /\ work'[d] = work[d] /\ left'[d] = left[d]
    /\ seen'[d] = seen[d] /\ shown'[d] = shown[d] /\ wrapped'[d] = wrapped[d]

LEMMA SameKeeps ==
    ASSUME masker' = masker, NEW d \in Conversation, Same(d), ConvInv(d)
    PROVE  ConvInv(d)'
BY DEF Same, ConvInv, MustMask, Hidden

LEMMA InitInv ==
    ASSUME Init
    PROVE  Inv
<1>1. row \in Record /\ row["email"] # "absent"
    BY DEF Init, Record, Value
<1>2. TypeOK
    BY <1>1 DEF Init, TypeOK
<1> QED BY <1>2 DEF Init, Inv, EncodeInv, MaskInv, LeavesMasked, ShownMasked

-----------------------------------------------------------------------------
(* What the helpers of the actions do. *)

\* A result is masked where it must be, or an error.
LEMMA ResultKeeps ==
    ASSUME TypeOK, NEW c \in Conversation, NEW record \in Record \cup {None},
           Result(c, record), masker' = masker,
           (MustMask(c) /\ record # None) => Hidden(record, Field)
    PROVE  /\ ConvTypeOK' /\ ConvInv(c)'
           /\ \A d \in Conversation \ {c} : Same(d)
<1>1. /\ at'[c] = "idle" /\ seen'[c] = record /\ shown'[c] = None
      /\ MustMask(c)' = MustMask(c)
    BY DEF Result, TypeOK, MustMask
<1>2. ConvInv(c)'
    BY <1>1 DEF ConvInv, Hidden
<1> QED BY <1>2 DEF Result, TypeOK, ConvTypeOK, Same

LEMMA HandKeeps ==
    ASSUME TypeOK, NEW c \in Conversation, NEW record \in Record,
           Hand(c, record), masker' = masker, ConvInv(c)
    PROVE  /\ ConvTypeOK' /\ ConvInv(c)'
           /\ \A d \in Conversation \ {c} : Same(d)
<1>1. CASE MustMask(c) /\ ForVault(record) # {}
    <2>1. /\ at' = [at EXCEPT ![c] = "encode"]
          /\ work' = [work EXCEPT ![c] = record]
          /\ left' = [left EXCEPT ![c] = ForVault(record)]
          /\ seen' = seen /\ shown' = shown /\ wrapped' = wrapped
        BY <1>1 DEF Hand
    <2>2. /\ ForVault(record) \subseteq VaultField
          /\ Hidden(record, VaultField \ ForVault(record))
        BY DEF ForVault, Hidden
    <2>3. /\ at'[c] = "encode" /\ work'[c] = record /\ left'[c] = ForVault(record)
          /\ seen'[c] = seen[c] /\ shown'[c] = shown[c] /\ wrapped'[c] = wrapped[c]
        BY <2>1 DEF TypeOK
    <2>4. ConvInv(c)'
        BY <1>1, <2>2, <2>3, NoneAssumption DEF ConvInv, MustMask, Hidden
    <2> QED BY <2>1, <2>2, <2>4 DEF TypeOK, ConvTypeOK, Same
<1>2. CASE ~(MustMask(c) /\ ForVault(record) # {})
    <2> DEFINE result == IF MustMask(c) THEN Starred(record, LocalField) ELSE record
    <2>1. Result(c, result)
        BY <1>2 DEF Hand
    <2>2. result \in Record
        BY StarredMasks
    <2>3. MustMask(c) => Hidden(result, Field)
        <3> SUFFICES ASSUME MustMask(c), NEW f \in Field
                     PROVE  result[f] \in {"absent", "stars"}
            BY DEF Hidden
        <3>1. f \in VaultField => record[f] = "absent"
            BY <1>2 DEF ForVault
        <3> QED BY <3>1, StarredMasks DEF Field
    <2> HIDE DEF result
    <2> QED BY <2>1, <2>2, <2>3, ResultKeeps
<1> QED BY <1>1, <1>2

-----------------------------------------------------------------------------
(* The actions. *)

\* An action that changes only its conversation keeps Inv if it keeps that one's part.
LEMMA ConvStep ==
    ASSUME Inv, NEW c \in Conversation, masker' = masker,
           row' \in Record, row'["email"] # "absent", asked' \subseteq Field,
           ConvTypeOK', ConvInv(c)', \A d \in Conversation \ {c} : Same(d)
    PROVE  Inv'
<1>1. TypeOK'
    BY DEF Inv, TypeOK, ConvTypeOK
<1>2. \A d \in Conversation : ConvInv(d)'
    BY SameKeeps, InvIsPerConversation
<1> QED BY <1>1, <1>2 DEF Inv, ConvInv, EncodeInv, MaskInv, LeavesMasked, ShownMasked, Hidden

LEMMA EncodedKeeps ==
    ASSUME Inv, NEW c \in Conversation, NEW f \in VaultField, Encoded(c, f)
    PROVE  Inv'
<1>1. /\ at[c] = "encode" /\ f \in left[c] /\ MustMask(c)
      /\ work[c] \in Record /\ Hidden(work[c], VaultField \ left[c])
      /\ TypeOK /\ ConvInv(c)
    BY InvIsPerConversation DEF Encoded, Inv, TypeOK, ConvInv
<1>2. /\ row' \in Record /\ row'["email"] # "absent" /\ asked' \subseteq Field
      /\ masker' = masker
    BY <1>1 DEF Encoded, TypeOK
<1>3. CASE left[c] = {f}
    <2> DEFINE masked == Starred(work[c], LocalField \cup {f})
    <2>1. Result(c, masked)
        BY <1>3 DEF Encoded
    <2>2. masked \in Record /\ Hidden(masked, Field)
        BY <1>1, <1>3, StarredMasks DEF Hidden, Field
    <2> HIDE DEF masked
    <2>3. ConvTypeOK' /\ ConvInv(c)' /\ \A d \in Conversation \ {c} : Same(d)
        BY <1>1, <1>2, <2>1, <2>2, ResultKeeps
    <2> QED BY <1>2, <2>3, ConvStep
<1>4. CASE left[c] # {f}
    <2> DEFINE masked == Starred(work[c], {f})
    <2>1. /\ work' = [work EXCEPT ![c] = masked]
          /\ left' = [left EXCEPT ![c] = @ \ {f}]
          /\ at' = at /\ seen' = seen /\ shown' = shown /\ wrapped' = wrapped
        BY <1>4 DEF Encoded
    <2>2. masked \in Record /\ Hidden(masked, VaultField \ (left[c] \ {f}))
        BY <1>1, StarredMasks DEF Hidden, Field
    <2> HIDE DEF masked
    <2>3. /\ work'[c] = masked /\ left'[c] = left[c] \ {f} /\ at'[c] = "encode"
          /\ seen'[c] = seen[c] /\ shown'[c] = shown[c] /\ wrapped'[c] = wrapped[c]
        BY <1>1, <2>1 DEF TypeOK
    <2>4. ConvInv(c)'
        BY <1>1, <1>2, <2>2, <2>3, NoneAssumption DEF ConvInv, MustMask, Hidden
    <2>5. ConvTypeOK' /\ \A d \in Conversation \ {c} : Same(d)
        BY <1>1, <2>1, <2>2 DEF TypeOK, ConvTypeOK, Same
    <2> QED BY <1>2, <2>4, <2>5, ConvStep
<1> QED BY <1>3, <1>4

LEMMA ReadKeeps ==
    ASSUME Inv, NEW c \in Conversation, Read(c)
    PROVE  Inv'
<1>1. TypeOK /\ ConvInv(c) /\ row \in Record
    BY InvIsPerConversation DEF Inv, TypeOK
<1>2. /\ row' \in Record /\ row'["email"] # "absent" /\ asked' \subseteq Field
      /\ masker' = masker
    BY <1>1 DEF Read, TypeOK
<1>3. ConvTypeOK' /\ ConvInv(c)' /\ \A d \in Conversation \ {c} : Same(d)
    BY <1>1, <1>2, HandKeeps DEF Read
<1> QED BY <1>2, <1>3, ConvStep

LEMMA EncodeFailsKeeps ==
    ASSUME Inv, NEW c \in Conversation, EncodeFails(c)
    PROVE  Inv'
<1>1. TypeOK
    BY DEF Inv
<1>2. /\ row' \in Record /\ row'["email"] # "absent" /\ asked' \subseteq Field
      /\ masker' = masker
    BY <1>1 DEF EncodeFails, TypeOK
<1>3. ConvTypeOK' /\ ConvInv(c)' /\ \A d \in Conversation \ {c} : Same(d)
    BY <1>1, <1>2, ResultKeeps DEF EncodeFails
<1> QED BY <1>2, <1>3, ConvStep

\* What mask_pii is given is of the record the model has seen.
LEMMA PartsHide ==
    ASSUME Inv, NEW c \in Conversation, MaskCalled(c), NEW part \in Parts(seen[c])
    PROVE  part \in Record /\ (masker => Hidden(part, Field))
<1>1. seen[c] \in Record /\ (masker => Hidden(seen[c], Field))
    BY InvIsPerConversation DEF Inv, TypeOK, ConvInv, MaskCalled, MustMask
<1>2. PICK kept \in SUBSET Field : part = Part(seen[c], kept)
    BY DEF Parts
<1> QED BY <1>1, <1>2 DEF Part, Record, Value, Hidden

LEMMA MaskKeeps ==
    ASSUME Inv, NEW c \in Conversation, Mask(c)
    PROVE  Inv'
<1>1. TypeOK /\ ConvInv(c)
    BY InvIsPerConversation DEF Inv
<1>2. PICK given \in Parts(seen[c]) : work' = [work EXCEPT ![c] = given]
    BY DEF Mask
<1>3. given \in Record /\ (masker => Hidden(given, Field))
    BY PartsHide DEF Mask
<1>4. /\ row' = row /\ asked' = asked /\ masker' = masker
      /\ at' = [at EXCEPT ![c] = "ssn"] /\ work' = [work EXCEPT ![c] = given]
      /\ left' = left /\ seen' = seen /\ shown' = shown /\ wrapped' = wrapped
    BY <1>2 DEF Mask
<1>5. /\ at'[c] = "ssn" /\ work'[c] = given /\ seen'[c] = seen[c]
      /\ shown'[c] = shown[c] /\ wrapped'[c] = wrapped[c]
    BY <1>1, <1>4 DEF TypeOK
<1>6. ConvInv(c)'
    BY <1>1, <1>3, <1>4, <1>5, NoneAssumption DEF ConvInv, MustMask, Hidden
<1>7. ConvTypeOK' /\ \A d \in Conversation \ {c} : Same(d)
    BY <1>1, <1>3, <1>4 DEF TypeOK, ConvTypeOK, Same
<1>8. row' \in Record /\ row'["email"] # "absent" /\ asked' \subseteq Field
    BY <1>1, <1>4 DEF TypeOK
<1> QED BY <1>4, <1>6, <1>7, <1>8, ConvStep

\* What mask_pii returns without looking into it was masked if user-mcp masks.
LEMMA MaskWrappedKeeps ==
    ASSUME Inv, NEW c \in Conversation, MaskWrapped(c)
    PROVE  Inv'
<1>1. TypeOK /\ ConvInv(c) /\ at[c] = "idle"
    BY InvIsPerConversation DEF Inv, MaskWrapped, MaskCalled
<1>2. PICK given \in Parts(seen[c]) : shown' = [shown EXCEPT ![c] = given]
    BY DEF MaskWrapped
<1>3. given \in Record /\ (masker => Hidden(given, Field))
    BY PartsHide DEF MaskWrapped
<1>4. /\ row' = row /\ asked' = asked /\ masker' = masker
      /\ at' = at /\ work' = work /\ left' = left /\ seen' = seen
      /\ wrapped' = [wrapped EXCEPT ![c] = TRUE]
    BY DEF MaskWrapped
<1>5. shown'[c] = given /\ wrapped'[c] = TRUE
    BY <1>1, <1>2, <1>4 DEF TypeOK
<1>6. ConvInv(c)'
    BY <1>1, <1>3, <1>4, <1>5 DEF ConvInv, MustMask, Hidden
<1>7. ConvTypeOK' /\ \A d \in Conversation \ {c} : Same(d)
    BY <1>1, <1>2, <1>3, <1>4 DEF TypeOK, ConvTypeOK, Same
<1>8. row' \in Record /\ row'["email"] # "absent" /\ asked' \subseteq Field
    BY <1>1, <1>4 DEF TypeOK
<1> QED BY <1>4, <1>6, <1>7, <1>8, ConvStep

LEMMA MaskRejectsKeeps ==
    ASSUME Inv, NEW c \in Conversation, MaskRejects(c)
    PROVE  Inv'
<1>1. TypeOK /\ ConvInv(c) /\ at[c] = "idle"
    BY InvIsPerConversation DEF Inv, MaskRejects, MaskCalled
<1>2. /\ row' = row /\ asked' = asked /\ masker' = masker
      /\ at' = at /\ work' = work /\ left' = left /\ seen' = seen
      /\ shown' = [shown EXCEPT ![c] = None] /\ wrapped' = [wrapped EXCEPT ![c] = FALSE]
    BY DEF MaskRejects
<1>3. ConvInv(c)'
    BY <1>1, <1>2 DEF TypeOK, ConvInv, MustMask, Hidden
<1>4. ConvTypeOK' /\ \A d \in Conversation \ {c} : Same(d)
    BY <1>1, <1>2 DEF TypeOK, ConvTypeOK, Same
<1>5. row' \in Record /\ row'["email"] # "absent" /\ asked' \subseteq Field
    BY <1>1, <1>2 DEF TypeOK
<1> QED BY <1>2, <1>3, <1>4, <1>5, ConvStep

LEMMA MaskFieldKeeps ==
    ASSUME Inv, NEW c \in Conversation, MaskSsn(c) \/ MaskCard(c)
    PROVE  Inv'
<1>1. /\ TypeOK /\ ConvInv(c) /\ at[c] \in {"ssn", "card"}
      /\ work[c] \in Record /\ (masker => Hidden(work[c], Field))
    BY InvIsPerConversation DEF Inv, TypeOK, ConvInv, MaskSsn, MaskCard, MaskField
<1> DEFINE f == IF at[c] = "ssn" THEN "ssn" ELSE "credit_card_number"
           next == IF at[c] = "ssn" THEN "card" ELSE "local"
<1>2. MaskField(c, at[c], f, next)
    BY <1>1 DEF MaskSsn, MaskCard, MaskField
<1>3. f \in VaultField /\ f \in Field
    BY DEF VaultField, Field
<1>4. PICK v \in IF work[c][f] = "plain" THEN {"stars"} ELSE {work[c][f]} :
          work' = [work EXCEPT ![c][f] = v]
    BY <1>2 DEF MaskField, Fallback
<1>5. v \in Value /\ v # "plain" /\ (masker => v \in {"absent", "stars"})
    BY <1>1, <1>3, <1>4 DEF Record, Value, Hidden
<1> DEFINE masked == [work[c] EXCEPT ![f] = v]
<1>6. /\ masked \in Record /\ (masker => Hidden(masked, Field))
      /\ masked[f] # "plain"
      /\ \A g \in Field : g # f => masked[g] = work[c][g]
    BY <1>1, <1>3, <1>5 DEF Record, Hidden
<1>7. /\ row' = row /\ asked' = asked /\ masker' = masker
      /\ at' = [at EXCEPT ![c] = next] /\ work' = [work EXCEPT ![c] = masked]
      /\ left' = left /\ seen' = seen /\ shown' = shown /\ wrapped' = wrapped
    BY <1>2, <1>4 DEF MaskField
<1>8. /\ at'[c] = next /\ work'[c] = masked /\ seen'[c] = seen[c]
      /\ shown'[c] = shown[c] /\ wrapped'[c] = wrapped[c]
    BY <1>1, <1>7 DEF TypeOK
<1>9. masked["ssn"] # "plain" /\ (next = "local" => masked["credit_card_number"] # "plain")
    <2>1. CASE at[c] = "ssn"
        BY <2>1, <1>6
    <2>2. CASE at[c] = "card"
        <3>1. work[c]["ssn"] # "plain" /\ "ssn" \in Field
            BY <2>2, <1>1 DEF ConvInv, Field, VaultField
        <3> QED BY <2>2, <3>1, <1>6
    <2> QED BY <1>1, <2>1, <2>2
<1>10. next \in {"card", "local"}
    OBVIOUS
<1> HIDE DEF masked, next, f
<1>11. ConvInv(c)'
    BY <1>1, <1>6, <1>7, <1>8, <1>9, <1>10, NoneAssumption DEF ConvInv, MustMask, Hidden
<1>12. ConvTypeOK' /\ \A d \in Conversation \ {c} : Same(d)
    BY <1>1, <1>6, <1>7, <1>10 DEF TypeOK, ConvTypeOK, Same
<1>13. row' \in Record /\ row'["email"] # "absent" /\ asked' \subseteq Field
    BY <1>1, <1>7 DEF TypeOK
<1> QED BY <1>7, <1>11, <1>12, <1>13, ConvStep

LEMMA MaskLocalKeeps ==
    ASSUME Inv, NEW c \in Conversation, MaskLocal(c)
    PROVE  Inv'
<1>1. /\ TypeOK /\ ConvInv(c) /\ at[c] = "local" /\ work[c] \in Record
      /\ masker => Hidden(work[c], Field)
      /\ work[c]["ssn"] # "plain" /\ work[c]["credit_card_number"] # "plain"
    BY InvIsPerConversation DEF Inv, TypeOK, ConvInv, MaskLocal
<1> DEFINE masked == Starred(work[c], LocalField)
<1>2. masked \in Record
    BY <1>1, StarredMasks
<1>3. ASSUME NEW f \in Field, masked[f] \notin {"absent", "stars"}
      PROVE  ~masker /\ f \in VaultField /\ masked[f] = "odd"
    <2>1. f \in VaultField /\ masked[f] = work[c][f]
        BY <1>1, <1>3, StarredMasks DEF Field
    <2>2. work[c][f] \in Value /\ work[c][f] # "plain"
        BY <1>1, <2>1 DEF VaultField, Record
    <2>3. masker => work[c][f] \in {"absent", "stars"}
        BY <1>1 DEF Hidden
    <2> QED BY <1>3, <2>1, <2>2, <2>3 DEF Value
<1> HIDE DEF masked
<1>4. /\ row' = row /\ asked' = asked /\ masker' = masker
      /\ at' = [at EXCEPT ![c] = "idle"] /\ work' = [work EXCEPT ![c] = None]
      /\ left' = left /\ seen' = seen /\ shown' = [shown EXCEPT ![c] = masked]
      /\ wrapped' = [wrapped EXCEPT ![c] = FALSE]
    BY DEF MaskLocal, masked
<1>5. at'[c] = "idle" /\ seen'[c] = seen[c] /\ shown'[c] = masked
    BY <1>1, <1>4 DEF TypeOK
<1>6. ConvInv(c)'
    BY <1>1, <1>3, <1>4, <1>5 DEF ConvInv, MustMask, Hidden
<1>7. ConvTypeOK' /\ \A d \in Conversation \ {c} : Same(d)
    BY <1>1, <1>2, <1>4 DEF TypeOK, ConvTypeOK, Same
<1>8. row' \in Record /\ row'["email"] # "absent" /\ asked' \subseteq Field
    BY <1>1, <1>4 DEF TypeOK
<1> QED BY <1>4, <1>6, <1>7, <1>8, ConvStep

LEMMA UpdateKeeps ==
    ASSUME Inv, NEW c \in Conversation, Update(c)
    PROVE  Inv'
<1>1. /\ TypeOK /\ ConvInv(c) /\ seen[c] \in Record
      /\ row \in Record /\ row["email"] # "absent"
    BY InvIsPerConversation DEF Inv, TypeOK, Update
<1>2. PICK change \in SUBSET Field, merged \in BOOLEAN :
          /\ asked' = change
          /\ row' = Updated(row, [f \in Field |-> IF f \in change THEN "plain"
                                               ELSE IF merged THEN seen[c][f]
                                               ELSE "absent"])
    BY DEF Update
<1>3. [f \in Field |-> IF f \in change THEN "plain"
                      ELSE IF merged THEN seen[c][f] ELSE "absent"] \in Record
    BY <1>1 DEF Record, Value
<1>4. row' \in Record /\ row'["email"] # "absent" /\ asked' \subseteq Field
    BY <1>1, <1>2, <1>3, UpdatedKeepsRow
<1>5. masker' = masker /\ Hand(c, row')
    BY DEF Update
<1>6. ConvTypeOK' /\ ConvInv(c)' /\ \A d \in Conversation \ {c} : Same(d)
    BY <1>1, <1>4, <1>5, HandKeeps
<1> QED BY <1>4, <1>5, <1>6, ConvStep

LEMMA StutterKeeps ==
    ASSUME Inv, UNCHANGED vars
    PROVE  Inv'
BY DEF vars, convVars, Inv, TypeOK, EncodeInv, MaskInv, LeavesMasked, ShownMasked,
       MustMask, Hidden

-----------------------------------------------------------------------------
\* Inv holds in every reachable state.
THEOREM MaskingInvariant == Spec => []Inv
<1>1. Inv /\ [Next]_vars => Inv'
    BY ReadKeeps, EncodedKeeps, EncodeFailsKeeps, MaskKeeps, MaskWrappedKeeps,
       MaskRejectsKeeps, MaskFieldKeeps, MaskLocalKeeps, UpdateKeeps, StutterKeeps DEF Next
<1> QED BY InitInv, <1>1, PTL DEF Spec

\* Every reachable state is well typed: nobody's update empties the email column.
THEOREM MaskingTypeCorrect == Spec => []TypeOK
<1>1. Inv => TypeOK
    BY DEF Inv
<1> QED BY MaskingInvariant, <1>1, PTL

\* user-mcp gives callers outside `admins` no readable field while it masks.
THEOREM RecordsLeaveMasked == Spec => []LeavesMasked
<1>1. Inv => LeavesMasked
    BY DEF Inv
<1> QED BY MaskingInvariant, <1>1, PTL

\* Where user-mcp masks, mask_pii returns nothing readable to a caller outside `admins`;
\* where it does not, nothing of a record handed over as one but numbers Vault's
\* templates do not match.
THEOREM MaskPiiMasks == Spec => []ShownMasked
<1>1. Inv => ShownMasked
    BY DEF Inv
<1> QED BY MaskingInvariant, <1>1, PTL
===============================================================================
