---------------------------- MODULE PrintBuffer ----------------------------
(***************************************************************************)
(* The buffer that the JSON library prints into (printbuffer, ensure and   *)
(* update_offset of engine/thirdparty/cJSON.c).  Offsets count bytes; what *)
(* is printed is a sequence of tokens.                                     *)
(***************************************************************************)
EXTENDS Integers, Sequences

CONSTANT INT_MAX

ASSUME BufferAssumption == INT_MAX \in Nat \ {0}

(***************************************************************************)
(* p is the printbuffer: whether it still has its buffer, the bytes in it, *)
(* the offset of the next byte, the nesting depth, the two options, the    *)
(* allocations that will still succeed, where the text written last ends   *)
(* in a NUL (-1 where it does not), the tokens written, whether all went   *)
(* well so far, and whether a byte beyond the buffer was written or read.  *)
(***************************************************************************)
Buffer(length, noalloc, format, left) ==
    [buffer |-> TRUE, length |-> length, offset |-> 0, depth |-> 0,
     noalloc |-> noalloc, format |-> format, left |-> left, end |-> -1,
     out |-> <<>>, ok |-> TRUE, over |-> FALSE]

Refused(p) == [p EXCEPT !.ok = FALSE]

(* Mutants: the bytes already written, or the spare byte, are not counted. *)
WantedFromStart(p, needed) == needed + 1
WantedNoSpare(p, needed) == needed + p.offset

(* The size of the buffer with needed bytes behind the offset, and one     *)
(* more.                                                                   *)
Wanted(p, needed) == needed + p.offset + 1

(* Mutant: a buffer is never more than half of what an int can count.      *)
TooLargeHalf(all) == all > INT_MAX \div 2

TooLarge(all) == all > INT_MAX

ensure(p, needed) ==
    LET all == Wanted(p, needed)
        newsize == IF all > INT_MAX \div 2 THEN INT_MAX ELSE all * 2
    IN  IF ~p.buffer \/ (p.length > 0 /\ p.offset >= p.length) \/ needed > INT_MAX
        THEN Refused(p)
        ELSE IF all <= p.length THEN p
        ELSE IF p.noalloc \/ TooLarge(all) THEN Refused(p)
        ELSE IF p.left = 0
        THEN Refused([p EXCEPT !.buffer = FALSE, !.length = 0])
        ELSE [p EXCEPT !.length = newsize, !.left = @ - 1]

Write(p, tokens, bytes, closed, advance) ==
    IF ~p.ok THEN p
    ELSE [p EXCEPT !.out = @ \o tokens,
                   !.over = @ \/ p.offset + bytes > p.length,
                   !.end = IF closed THEN p.offset + bytes - 1 ELSE -1,
                   !.offset = @ + advance]

(* Ask for needed bytes, write bytes of them (the last one a NUL when      *)
(* closed) and move the offset by advance; nothing after a failure.        *)
Emit(p, needed, tokens, bytes, closed, advance) ==
    IF ~p.ok THEN p
    ELSE Write(ensure(p, needed), tokens, bytes, closed, advance)

(* strlen from the offset.                                                 *)
update_offset(p) ==
    IF ~p.ok \/ ~p.buffer THEN p
    ELSE [p EXCEPT !.offset = p.end, !.over = @ \/ p.end < p.offset]

=============================================================================
