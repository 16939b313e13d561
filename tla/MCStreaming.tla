----------------------------- MODULE MCStreaming -----------------------------
EXTENDS Streaming
CONSTANTS s1, s2
MCAsked == [s \in Streams |-> IF s = s1 THEN Wishes
              ELSE {r \in Wishes : r.route = "chat" /\ r.stream /\ r.tools = {"native"}}]
MCPieces == [s \in Streams |-> IF s = s1 THEN 2 ELSE 0]
=============================================================================
