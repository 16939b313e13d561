--------------------------- MODULE MCAccountPool ---------------------------
(* Small instances of AccountPool for TLC. *)
EXTENDS AccountPool, TLC

Symmetry == Permutations(Accounts) \cup Permutations(Chats) \cup Permutations(Calls)

\* Who owns a chat, and which chat a call is about, guides no step and none of
\* the properties about the store.
View == <<clock, memory, durable, background, leaving, bounds,
          [c \in Calls |-> <<call[c].pc, call[c].account>>],
          {k \in Chats : owner[k] = NoAccount}>>
=============================================================================
