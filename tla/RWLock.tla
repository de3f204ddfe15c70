------------------------------- MODULE RWLock -------------------------------
(***************************************************************************)
(* tokio::sync::RwLock as the daemon uses it: whoever asks waits in line,  *)
(* readers share the lock, a writer has it alone, and a writer that waits  *)
(* keeps later readers waiting.                                            *)
(***************************************************************************)
EXTENDS Sequences

Free == [line |-> <<>>, readers |-> {}, writer |-> {}]

Ask(lock, p, mode) == [lock EXCEPT !.line = Append(@, [who |-> p, mode |-> mode])]

\* p is first in line and may have the lock now.
Granted(lock, p, mode) ==
  /\ lock.line # <<>>
  /\ Head(lock.line) = [who |-> p, mode |-> mode]
  /\ lock.writer = {}
  /\ mode = "write" => lock.readers = {}

Take(lock, p, mode) ==
  IF mode = "read"
    THEN [lock EXCEPT !.line = Tail(@), !.readers = @ \cup {p}]
    ELSE [lock EXCEPT !.line = Tail(@), !.writer = {p}]

Release(lock, p) == [lock EXCEPT !.readers = @ \ {p}, !.writer = @ \ {p}]

\* A write that ends before anything else is awaited: taken and released at once.
Pass(lock) == [lock EXCEPT !.line = Tail(@)]
=============================================================================
