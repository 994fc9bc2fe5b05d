-------------------------------- MODULE Decoder --------------------------------
(***************************************************************************)
(* What the readers of PackBytes, ObjectParse and Reflog have in common: a  *)
(* call holds an input it does not change and a position in it, moves       *)
(* forward, gathers what it reads and answers "ok" or an error.  Inputs and *)
(* what is gathered differ from call to call; each module says which.       *)
(***************************************************************************)
EXTENDS Naturals, Sequences

VARIABLES
  call,      \* the function called
  input,     \* its arguments
  pos,       \* the next item to read, 1 at first
  acc,       \* what has been read so far
  result     \* "pending", "ok", "oob" (OutOfBounds), "invalid" (InvalidObject,
             \* InvalidHash), "bomb" (DeflateBomb) or "io"

vars == <<call, input, pos, acc, result>>

Results == {"pending", "ok", "oob", "invalid", "bomb", "io"}

Begin(c, inputs, nothing) ==
  /\ call = c /\ input \in inputs
  /\ pos = 1 /\ acc = nothing /\ result = "pending"

Reading(c) == call = c /\ result = "pending"

Finished(c) == call = c /\ result # "pending"

(* The loop goes on, with n items less to read.                             *)
Advance(n, a) == pos' = pos + n /\ acc' = a /\ UNCHANGED <<call, input, result>>

Return(r) == result' = r /\ UNCHANGED <<call, input, pos, acc>>

(* The last read and the answer in one step.                                *)
ReturnAfter(n, a) == pos' = pos + n /\ acc' = a /\ result' = "ok" /\ UNCHANGED <<call, input>>
=============================================================================
