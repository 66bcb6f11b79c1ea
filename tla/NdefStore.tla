------------------------------ MODULE NdefStore ------------------------------
(***************************************************************************)
(* What a tag driver promises to a sketch: the tag is a cell that holds    *)
(* one NDEF message.  Operations are called one at a time.                 *)
(*                                                                         *)
(*   - a read never changes the cell, and a read that reports a message    *)
(*     reports the one the cell holds;                                     *)
(*   - a write that succeeds leaves exactly its argument in the cell;      *)
(*   - a write that fails, and an operation that formats or cleans the     *)
(*     tag, promise nothing about the cell, but they do return before the  *)
(*     next operation starts.                                              *)
(*                                                                         *)
(* The drivers are shown to implement this specification.                  *)
(***************************************************************************)

CONSTANT Changing   \* the operations that may change the cell

VARIABLES
  cell,    \* the message on the tag, or whatever stands for "none"
  op,      \* the operation in progress, "none" between two operations
  arg,     \* its argument
  result   \* "message", "true" or a failure, of the last operation
           \* together with the message it reported: [is, msg]

vars == <<cell, op, arg, result>>

\* An operation is called.
Call == /\ op = "none" /\ op' # "none"
        /\ UNCHANGED cell

\* An operation other than read works on the cell.
Work == /\ op \in Changing
        /\ UNCHANGED <<op, arg, result>>

\* A read reports the message in the cell.
ReadMessage == /\ op = "read" /\ op' = "none"
               /\ result'.is = "message" /\ result'.msg = cell
               /\ UNCHANGED cell

\* A write succeeds: its argument is in the cell.
Written == /\ op = "write" /\ op' = "none"
           /\ result'.is = "true"
           /\ cell' = arg

\* An operation gives up, or returns without a promise about the cell.
Done == /\ op # "none" /\ op' = "none"
        /\ op = "read" => result'.is # "message"
        /\ op = "write" => result'.is # "true"
        /\ op \notin Changing => UNCHANGED cell

Init == op = "none" /\ result.is = "none"

Next == Call \/ Work \/ ReadMessage \/ Written \/ Done

Spec == Init /\ [][Next]_vars
=============================================================================
