--------------------------- MODULE MCLiveSessions ---------------------------
(* Small instances of LiveSessions for TLC. *)
EXTENDS LiveSessionsInvariant, TLC

\* Connections and handlers are interchangeable.
Symmetry == Permutations(Conn) \union Permutations(Req)

=============================================================================
