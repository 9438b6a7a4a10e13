---------------------------- MODULE MCPrefixSharing ----------------------------
(* Small caches for PrefixSharing.                                           *)
EXTENDS PrefixSharing

\* Two prompts that share their first block, and one that shares its second
\* block's content with them but not its prefix.
BranchingPrompts == {<<"a", "a", "b">>, <<"a", "b", "b">>, <<"b", "a">>}

\* No collisions: a hash is the prefix it stands for.
NoHash == <<>>
PrefixHash(prev, tokens) == Append(prev, tokens)

\* First blocks collide; afterwards the hash tells all contents apart, and it
\* is injective in the previous hash, as block_hash is.
CollidingHash(prev, tokens) ==
  IF prev = NoHash THEN <<"*">> ELSE Append(prev, tokens)

\* The second block is inserted behind "a" by one prompt, and looked up behind
\* "b" by another.
CollidingPrompts == {<<"b", "a">>, <<"a", "b", "b">>, <<"b", "b", "b">>}

=============================================================================
