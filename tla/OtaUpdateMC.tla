---------------------------- MODULE OtaUpdateMC ----------------------------
(* What servers may answer to OtaUpdate: the image a digest names, whole and
   in ranges, another build of the same size, a longer one, and malformed
   answers that ota.c refuses. *)
EXTENDS OtaUpdate

Answer(status, first, last, total, image) ==
  [status |-> status, length |-> last - first + 1, first |-> first,
   last |-> last, total |-> total, image |-> image, magic |-> image # "page"]

Whole(image, size) == Answer(200, 0, size - 1, size, image)
Range(image, first, last, size) == Answer(206, first, last, size, image)

New == {Whole("new", 3), Range("new", 0, 0, 3), Range("new", 0, 1, 3),
        Range("new", 1, 2, 3), Range("new", 2, 2, 3)}
Old == {Whole("old", 3), Range("old", 2, 2, 3)}
Big == {Whole("big", 4), Range("big", 2, 3, 4)}

\* No length, a page sent as the image, a range shorter than it says.
Refused == {[Whole("new", 3) EXCEPT !.length = 0], Whole("page", 3),
            [Range("new", 0, 1, 3) EXCEPT !.length = 1]}

AllReplies == New \cup Old \cup Big \cup Refused
NewOnly    == {"new"}
=============================================================================
