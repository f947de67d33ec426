----------------------- MODULE MCSpotifyAuthorization -----------------------
(* SpotifyAuthorization with symmetric callers, for TLC.                    *)
EXTENDS SpotifyAuthorization, TLC

CONSTANTS c1, c2

Symmetry == Permutations(Callers)

=============================================================================
