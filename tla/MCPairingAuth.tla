--------------------------- MODULE MCPairingAuth ---------------------------
(* Model values and symmetry of PairingAuth for TLC. *)
EXTENDS PairingAuth, TLC

\* Clients, tokens and threads are only compared for equality.
Symmetry == Permutations(Clients) \cup Permutations(Tokens) \cup Permutations(Handlers)
=============================================================================
