------------------------------- MODULE Stamps -------------------------------
(***************************************************************************)
(* Instants that are only asked whether they are younger than a window,    *)
(* kept as their ages in ticks, cut off at the window.  A queue of them is *)
(* the set of its members, each told apart from others of its age by a     *)
(* number.                                                                 *)
(***************************************************************************)
EXTENDS Naturals, FiniteSets

CONSTANTS
  Window           \* 60 seconds, in ticks

Stamp == (0..Window) \X Nat

\* The stamps that are younger than the window.
Evict(s) == {t \in s : t[1] < Window}

Older(s) == {<<IF t[1] < Window THEN t[1] + 1 ELSE Window, t[2]>> : t \in s}

\* push_back(now)
Push(s) == s \cup {<<0, Cardinality({t \in s : t[1] = 0})>>}
=============================================================================
