------------------------------- MODULE ByteFifo -------------------------------
(***************************************************************************)
(* A bounded first-in first-out queue of bytes on which one call at a time  *)
(* works: the call marks the contents it starts from, and what it did is    *)
(* either kept or undone as a whole.  The ring buffer of MsgQueue, with the *)
(* snapshots its callers take, implements it.                               *)
(***************************************************************************)
EXTENDS Naturals, Sequences

CONSTANTS Size, Byte

VARIABLES
  contents,   \* the bytes in the queue, oldest first
  marked      \* the contents at the start of the call in progress

vars == <<contents, marked>>

Init == contents = <<>> /\ marked = <<>>

\* A byte is put only where there is room for it.
Put(c) ==
  /\ Len(contents) < Size
  /\ contents' = Append(contents, c) /\ UNCHANGED marked

Get == contents # <<>> /\ contents' = Tail(contents) /\ UNCHANGED marked

\* The call ends and its effect is kept.
Keep == marked' = contents /\ UNCHANGED contents

\* The call ends and leaves nothing behind.
Undo == contents' = marked /\ UNCHANGED marked

Next == (\E c \in Byte : Put(c)) \/ Get \/ Keep \/ Undo

Spec == Init /\ [][Next]_vars
=============================================================================
