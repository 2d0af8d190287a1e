---------------------------- MODULE MCChatSession ----------------------------
(* TLC instances of ChatSession.                                            *)
EXTENDS ChatSession, TLC

Symmetry == Permutations(Runs) \cup Permutations(Sockets)

=============================================================================
