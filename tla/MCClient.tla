------------------------------ MODULE MCClient ------------------------------
EXTENDS Client, TLC

\* Calls that ask, fill and drop the cache, may and may not be repeated, are
\* sent as a request and as a stream, need and need no organization; and open().
MCOps == {get_conversation, update_conversation, send_message, login_complete,
          open_client}
MCInitial == [n \in {"sessionKey"} |-> 0]
Symmetry == Permutations(Calls)
=============================================================================
