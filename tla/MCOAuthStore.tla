---------------------------- MODULE MCOAuthStore ----------------------------
(* Small instances of OAuthStore for TLC. *)
EXTENDS OAuthCascade, TLC

CONSTANTS i1, i2, i3, c1, c2, s1

OneId == {i1}
TwoIds == {i1, i2}
ThreeIds == {i1, i2, i3}
OneClient == {c1}
TwoClients == {c1, c2}
NoScope == {}
OneScope == {s1}

Symmetric == Permutations(TwoClients) \cup Permutations(TwoIds)
=============================================================================
