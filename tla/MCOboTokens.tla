----------------------------- MODULE MCOboTokens -----------------------------
(* Instances of OboTokens for TLC. *)
EXTENDS OboTokens, TLC

CONSTANTS alice, bob, actor1, actor2, read, write, delegation,
          reading, writing, refused

\* Alice is a writer and needs a read and a write token; Bob is a reader whose
\* tool needs a write token he cannot get.  Bob's subject token expires early.
TheAsks == reading :> [who |-> alice, what |-> {read}]
        @@ writing :> [who |-> alice, what |-> {write}]
        @@ refused :> [who |-> bob, what |-> {write}]

TheExp == [x \in Subject \cup Actor |-> IF x = actor1 THEN 0 ELSE IF x = bob THEN 1 ELSE 9]

TheEntitled == {<<alice, read>>, <<alice, write>>, <<bob, read>>}
==============================================================================
