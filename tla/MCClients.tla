------------------------------ MODULE MCClients ------------------------------
EXTENDS Clients, TLC
CONSTANTS AuditMoves, ConfigMoves
Symm == Permutations(Tests) \cup Permutations(Results)
MovesOf == (Audit :> AuditMoves) @@ (Config :> ConfigMoves)
=============================================================================
