------------------------------ MODULE MC_OdrTrie ------------------------------
(* Instantiation for TLC: one-byte keys over the nibbles 0 and 1, a full   *)
(* trie of depth two, and a permutation standing for Keccak256.           *)
EXTENDS OdrTrie

MCRawKeys == {<<0>>, <<1>>, <<16>>, <<17>>}

\* A permutation of the key space: the hashed key's path differs from the
\* raw key's.
MCKeccak == (<<0>> :> <<17>>) @@ (<<1>> :> <<16>>) @@ (<<16>> :> <<0>>) @@ (<<17>> :> <<1>>)

MCTrieNodes == {<<>>, <<0>>, <<1>>, <<0, 0>>, <<0, 1>>, <<1, 0>>, <<1, 1>>}

MCOpsNoDelete == {"get", "update", "newit", "next"}
MCOpsAll == {"get", "update", "delete", "newit", "next"}

\* Nibble paths: up to three nibbles over 0, 1 and 15, with or without the
\* terminator.
MCNibbleInputs ==
    LET body == BoundedSeq({0, 1, 15}, 3)
    IN  body \cup {Append(b, Terminator) : b \in body}

\* nibblesToKey matches its reference on every bounded nibble path and on
\* the path of every node the current iterator may fetch.
MCNibblesToKeyMatchesReference ==
    NibblesToKeyMatchesReference(MCNibbleInputs \cup Range(itSeq))
====
