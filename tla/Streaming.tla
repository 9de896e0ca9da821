--------------------------------- MODULE Streaming ---------------------------------
(***************************************************************************)
(* What a client that asks for a range of a media file is sent:            *)
(* parseSingleByteRange (src/src/file/range-bytes.ts) and its two callers, *)
(* pipeRangedFile for a file on disk (src/src/file/file.controller.ts) and *)
(* pipeRangedGetObject for one in R2 (src/src/file/r2-storage.service.ts). *)
(*                                                                         *)
(* A Range header is absent, unusable, or its first range: the last n      *)
(* bytes (bytes=-n), all from one on (bytes=s-), or from one to another    *)
(* (bytes=s-e).                                                            *)
(***************************************************************************)
EXTENDS Integers

Ranges ==
  [kind: {"absent", "unusable"}] \cup [kind: {"last"}, n: Nat]
    \cup [kind: {"from"}, start: Nat] \cup [kind: {"span"}, start: Nat, end: Nat]

\* null.
NoRange == [start |-> 0, end |-> -1]

Span(start, end) == [start |-> start, end |-> end]

ParseSingleByteRange(range, fileSize) ==
  IF fileSize <= 0 THEN NoRange
  ELSE CASE range.kind = "last" ->
              IF range.n <= 0 THEN NoRange
              ELSE Span(IF fileSize > range.n THEN fileSize - range.n ELSE 0, fileSize - 1)
         [] range.kind = "from" ->
              IF range.start >= fileSize THEN NoRange ELSE Span(range.start, fileSize - 1)
         [] range.kind = "span" ->
              IF range.start >= fileSize \/ range.start > range.end THEN NoRange
              ELSE Span(range.start, IF range.end < fileSize THEN range.end ELSE fileSize - 1)
         [] OTHER -> NoRange

\* The answer: the status, the bytes that are piped, and the Content-Length.
Respond(range, fileSize) ==
  LET parsed == ParseSingleByteRange(range, fileSize)
  IN CASE parsed # NoRange ->
            [status |-> 206, bytes |-> parsed.start .. parsed.end,
             length |-> parsed.end - parsed.start + 1]
       [] parsed = NoRange /\ range.kind # "absent" ->
            [status |-> 416, bytes |-> {}, length |-> 0]
       [] parsed = NoRange /\ range.kind = "absent" ->
            [status |-> 200, bytes |-> 0 .. fileSize - 1, length |-> fileSize]

---------------------------------------------------------------------------
\* The bytes of the file that the client asks for, by the meaning of the header.
Requested(range, fileSize) ==
  {i \in 0 .. fileSize - 1 :
     \/ range.kind = "absent"
     \/ range.kind = "last" /\ i >= fileSize - range.n
     \/ range.kind = "from" /\ i >= range.start
     \/ range.kind = "span" /\ range.start <= i /\ i <= range.end}
=============================================================================
