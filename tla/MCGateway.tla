------------------------------ MODULE MCGateway ------------------------------
EXTENDS Gateway, TLC
\* A plain call, one that needs the organization, a stream and an upload.
MCInvokable == {GetProfile, GetConversation, SendMessage, UploadFile}
Symmetry == Permutations(Requests) \cup Permutations(Admins)
=============================================================================
