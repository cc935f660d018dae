------------------------------ MODULE JsonText ------------------------------
(***************************************************************************)
(* Reading and writing text in the JSON library (engine/thirdparty/        *)
(* cJSON.c): cJSON_ParseWithOpts with the recursive parser under it, and   *)
(* the printing functions with the buffer they grow.                       *)
(*                                                                         *)
(* A text is a sequence of tokens that ends with "NUL"; brackets, commas,  *)
(* colons and literals are tokens, "ws" is a run of blanks, "bad" any      *)
(* character no value starts with, "open" a quote that is never closed.    *)
(* Offsets count tokens when parsing and bytes when printing.  An item is  *)
(* a record of its type, value, name and children; the pointers that link  *)
(* children are the subject of JsonTree.                                   *)
(***************************************************************************)
EXTENDS PrintBuffer, FiniteSets, SequencesExt, FiniteSetsExt

CONSTANTS
    Texts,      \* the texts given to the parser
    StrTok,     \* string tokens; StrTok[t]: how t is written and stored
    NumTok,     \* number tokens; NumTok[t]: the value of t
    CJSON_NESTING_LIMIT,
    DefaultSize, \* default_buffer_size of print
    MaxAlloc,   \* bound on the allocations that succeed before one fails
    PrintSizes  \* the sizes callers give to the printing functions

NoName == "NULL"
Literals == {"null", "true", "false"}
Blank == {"ws", "NUL"}

ASSUME TextAssumption ==
    /\ CJSON_NESTING_LIMIT \in Nat
    /\ DefaultSize \in Nat \ {0}
    /\ MaxAlloc \in Nat
    /\ PrintSizes \subseteq Nat
    /\ \A t \in DOMAIN StrTok :
           /\ {StrTok[t][f] : f \in {"src", "skip", "mem", "out"}} \subseteq Nat
           /\ StrTok[t].ok \in BOOLEAN
    /\ \A t \in DOMAIN NumTok : NumTok[t].val \in Int /\ NumTok[t].out \in Nat
    /\ \A b \in Texts : b # <<>> /\ Last(b) = "NUL"

(***************************************************************************)
(* Items.                                                                  *)
(***************************************************************************)
NewItem == [type |-> "Invalid", val |-> NoName, int |-> 0,
            string |-> NoName, kids |-> <<>>]

(* The allocations that cJSON_Delete frees with the items of a list.       *)
RECURSIVE Owned(_)
Owned(list) ==
    IF list = <<>> THEN 0
    ELSE LET i == Head(list) IN
         1 + (IF i.type = "String" /\ i.val # NoName THEN 1 ELSE 0)
           + (IF i.string # NoName THEN 1 ELSE 0)
           + Owned(i.kids) + Owned(Tail(list))

(* The tokens of an item, without blanks.                                  *)
RECURSIVE Spell(_)
Spell(i) ==
    LET element(c) == (IF i.type = "Object" THEN <<c.string, ":">> ELSE <<>>)
                      \o Spell(c)
        elements == FlattenSeq([n \in DOMAIN i.kids |->
                        (IF n = 1 THEN <<>> ELSE <<",">>) \o element(i.kids[n])])
    IN  CASE i.type = "Array"  -> <<"[">> \o elements \o <<"]">>
          [] i.type = "Object" -> <<"{">> \o elements \o <<"}">>
          [] OTHER             -> <<i.val>>

(***************************************************************************)
(* Parsing.  s is the state of the parser: the offset, the nesting depth,  *)
(* the allocations that will still succeed, the allocations not yet freed  *)
(* and whether a string was written past its allocation.  A parsing        *)
(* function returns the state, the item it filled in, and whether it       *)
(* succeeded.                                                              *)
(***************************************************************************)
Outcome(ok, s, item) == [ok |-> ok, s |-> s, item |-> item]

At(b, s) == IF s.off < Len(b) THEN b[s.off + 1] ELSE "END"

Skip(s, n) == [s EXCEPT !.off = @ + n]

(* Mutant: the step back onto the terminator is missing.                   *)
SkipWhitespacePast(b, s) ==
    LET stops == {n \in s.off .. Len(b) - 1 : b[n + 1] \notin Blank} IN
    [s EXCEPT !.off = IF stops = {} THEN Len(b) ELSE Min(stops)]

(* The terminator counts as a blank; at the end of the buffer the offset   *)
(* steps back onto it.                                                     *)
buffer_skip_whitespace(b, s) ==
    LET stops == {n \in s.off .. Len(b) - 1 : b[n + 1] \notin Blank} IN
    [s EXCEPT !.off = IF stops = {} THEN Len(b) - 1 ELSE Min(stops)]

skip_utf8_bom(b, s) ==
    IF b[1] = "bom" /\ Len(b) > 2 THEN Skip(s, 1) ELSE s

CanAlloc(s) == s.left > 0
Alloc(s) == [s EXCEPT !.left = @ - 1, !.live = @ + 1]
Release(s, n) == [s EXCEPT !.live = @ - n]

(* A string is copied into an allocation of an upper bound of its size;    *)
(* an escape sequence that is not valid is found while copying.            *)
parse_string(b, s, item) ==
    LET t == At(b, s)
        written == StrTok[t]
        room == (written.src + 1 - written.skip) + 1
        s1 == [Alloc(s) EXCEPT !.over = @ \/ written.mem + 1 > room]
    IN  IF t \notin DOMAIN StrTok \/ ~CanAlloc(s)
        THEN Outcome(FALSE, Skip(s, 1), item)
        ELSE IF ~written.ok THEN Outcome(FALSE, Skip(Release(s1, 1), 1), item)
        ELSE Outcome(TRUE, Skip(s1, 1),
                     [item EXCEPT !.type = "String", !.val = written.canon])

(* valueint saturates at the limits of int.                                *)
Saturate(n) == IF n >= INT_MAX THEN INT_MAX
               ELSE IF n <= -INT_MAX - 1 THEN -INT_MAX - 1 ELSE n

parse_number(b, s, item) ==
    LET t == At(b, s) IN
    Outcome(TRUE, Skip(s, 1), [item EXCEPT !.type = "Number", !.val = t,
                                           !.int = Saturate(NumTok[t].val)])

RECURSIVE parse_value(_, _, _)
RECURSIVE Elements(_, _, _, _)

(* The colon behind the name r of an element of an object.                 *)
ParseColon(b, r) ==
    LET s1 == buffer_skip_whitespace(b, r.s)
        named == [r.item EXCEPT !.val = NoName, !.string = r.item.val]
    IN  IF ~r.ok THEN r
        ELSE IF At(b, s1) # ":" THEN Outcome(FALSE, s1, named)
        ELSE Outcome(TRUE, buffer_skip_whitespace(b, Skip(s1, 1)), named)

(* The name of an element, if it has one.                                  *)
ParseName(b, s, object) ==
    IF object THEN ParseColon(b, parse_string(b, s, NewItem))
              ELSE Outcome(TRUE, s, NewItem)

(* Mutant: the items read before the failure are forgotten.                *)
FailListLeaks(s, items) == [ok |-> FALSE, s |-> s, list |-> <<>>]

(* A failure inside a list deletes the items read so far.                  *)
FailList(s, items) ==
    [ok |-> FALSE, s |-> Release(s, Owned(items)), list |-> <<>>]

Close(object) == IF object THEN "}" ELSE "]"

(* What follows the value v of an element: a comma and more elements, or   *)
(* the end of the list.                                                    *)
MoreElements(b, v, list, object) ==
    LET s == buffer_skip_whitespace(b, v.s) IN
    IF ~v.ok THEN FailList(v.s, list)
    ELSE IF At(b, s) = "," THEN Elements(b, s, list, object)
    ELSE IF At(b, s) # Close(object) THEN FailList(s, list)
    ELSE [ok |-> TRUE, s |-> s, list |-> list]

AddElement(b, v, list, object) == MoreElements(b, v, Append(list, v.item), object)

ParseElement(b, n, list, object) ==
    IF ~n.ok THEN FailList(n.s, Append(list, n.item))
    ELSE AddElement(b, parse_value(b, n.s, n.item), list, object)

(* The comma separated elements from the current offset, which is that of  *)
(* the character in front of the next one; list holds those read so far.   *)
Elements(b, s, list, object) ==
    IF ~CanAlloc(s) THEN FailList(s, list)
    ELSE ParseElement(b, ParseName(b, buffer_skip_whitespace(b, Skip(Alloc(s), 1)), object),
                      list, object)

FirstElement(b, s, object) ==
    IF At(b, s) = Close(object) THEN [ok |-> TRUE, s |-> s, list |-> <<>>]
    ELSE Elements(b, Skip(s, -1), <<>>, object)

FillList(r, item, object) ==
    IF ~r.ok THEN Outcome(FALSE, r.s, item)
    ELSE Outcome(TRUE, Skip([r.s EXCEPT !.depth = @ - 1], 1),
                 [item EXCEPT !.type = IF object THEN "Object" ELSE "Array",
                              !.kids = r.list])

(* parse_array and parse_object.                                           *)
ParseList(b, s, item, object) ==
    LET inside == buffer_skip_whitespace(b, Skip([s EXCEPT !.depth = @ + 1], 1)) IN
    IF s.depth >= CJSON_NESTING_LIMIT THEN Outcome(FALSE, s, item)
    ELSE FillList(FirstElement(b, inside, object), item, object)

parse_value(b, s, item) ==
    LET t == At(b, s) IN
    CASE t \in Literals ->
             Outcome(TRUE, Skip(s, 1), [item EXCEPT !.type = "Literal", !.val = t])
      [] t \in DOMAIN StrTok \cup {"open"} -> parse_string(b, s, item)
      [] t \in DOMAIN NumTok -> parse_number(b, s, item)
      [] t = "[" -> ParseList(b, s, item, FALSE)
      [] t = "{" -> ParseList(b, s, item, TRUE)
      [] OTHER -> Outcome(FALSE, s, item)

Start(left) == [off |-> 0, depth |-> 0, left |-> left, live |-> 0, over |-> FALSE]

(* Mutant: the error is reported where the parser stopped.                 *)
ErrorPositionRaw(b, s) == s

(* The parser may stop behind the text; the error is reported inside it.   *)
ErrorPosition(b, s) ==
    IF s.off < Len(b) THEN s ELSE [s EXCEPT !.off = Len(b) - 1]

FailParse(b, s, item) ==
    Outcome(FALSE, ErrorPosition(b, Release(s, Owned(<<item>>))), NewItem)

(* The end of the text behind the value r, when it is required.            *)
ParseEnd(b, r, require_null_terminated) ==
    LET s == IF require_null_terminated THEN buffer_skip_whitespace(b, r.s) ELSE r.s IN
    IF ~r.ok THEN FailParse(b, r.s, r.item)
    ELSE IF require_null_terminated /\ At(b, s) # "NUL" THEN FailParse(b, s, r.item)
    ELSE Outcome(TRUE, s, r.item)

cJSON_ParseWithOpts(b, left, require_null_terminated) ==
    IF ~CanAlloc(Start(left)) THEN Outcome(FALSE, Start(left), NewItem)
    ELSE ParseEnd(b,
             parse_value(b, buffer_skip_whitespace(b, skip_utf8_bom(b, Alloc(Start(left)))),
                         NewItem),
             require_null_terminated)

(***************************************************************************)
(* Printing, into the buffer p.                                            *)
(***************************************************************************)
print_string_ptr(t, p) ==
    LET bytes == StrTok[t].out + 3 IN Emit(p, bytes, <<t>>, bytes, TRUE, 0)

print_number(t, p) ==
    LET n == NumTok[t].out IN Emit(p, n + 1, <<t>>, n + 1, TRUE, n)

PrintLiteral(t, p) ==
    LET bytes == IF t = "false" THEN 6 ELSE 5 IN
    Emit(p, bytes, <<t>>, bytes, TRUE, 0)

Deeper(p, n) == IF p.ok THEN [p EXCEPT !.depth = @ + n] ELSE p
Space(p) == IF p.format THEN <<"ws">> ELSE <<>>
Extra(p) == IF p.format THEN 1 ELSE 0

(* Mutant: a separator behind the last element too.                        *)
HasNextAlways(list) == TRUE

HasNext(list) == Len(list) > 1

RECURSIVE print_value(_, _)
RECURSIVE PrintElements(_, _)
RECURSIVE PrintMembers(_, _)

(* The separator behind an element and the elements that follow it.        *)
PrintRest(list, p) ==
    LET n == 1 + Extra(p) IN
    PrintElements(Tail(list),
                  IF HasNext(list) THEN Emit(p, n + 1, <<",">> \o Space(p), n + 1, TRUE, n)
                                   ELSE p)

PrintElements(list, p) ==
    IF list = <<>> \/ ~p.ok THEN p
    ELSE PrintRest(list, update_offset(print_value(Head(list), p)))

print_array(item, p) ==
    LET open == Deeper(Emit(p, 1, <<"[">>, 1, FALSE, 1), 1)
        body == PrintElements(item.kids, open)
    IN  Deeper(Emit(body, 2, <<"]">>, 2, TRUE, 0), -1)

PrintMembers(list, p) ==
    IF list = <<>> \/ ~p.ok THEN p
    ELSE LET n     == 1 + Extra(p)
             sep   == IF HasNext(list) THEN <<",">> ELSE <<>>
             m     == Extra(p) + Len(sep)
             tabs  == IF p.format THEN Emit(p, p.depth, <<"ws">>, p.depth, FALSE, p.depth)
                      ELSE p
             name  == update_offset(print_string_ptr(Head(list).string, tabs))
             colon == Emit(name, n, <<":">> \o Space(p), n, FALSE, n)
             value == update_offset(print_value(Head(list), colon))
         IN  PrintMembers(Tail(list),
                          Emit(value, m + 1, sep \o Space(p), m + 1, TRUE, m))

CloseObject(p) ==
    LET n == IF p.format THEN p.depth + 1 ELSE 2 IN
    Deeper(Emit(p, n, <<"}">>, n, TRUE, 0), -1)

print_object(item, p) ==
    LET n    == 1 + Extra(p)
        open == Deeper(Emit(p, n + 1, <<"{">> \o Space(p), n, FALSE, n), 1)
    IN  CloseObject(PrintMembers(item.kids, open))

print_value(item, p) ==
    CASE item.type = "Literal" -> PrintLiteral(item.val, p)
      [] item.type = "Number"  -> print_number(item.val, p)
      [] item.type = "String"  -> print_string_ptr(item.val, p)
      [] item.type = "Array"   -> print_array(item, p)
      [] item.type = "Object"  -> print_object(item, p)
      [] OTHER                 -> Refused(p)

(* What a call returns: whether it printed, the tokens and bytes of the    *)
(* text, the allocations it leaves, and whether it left the buffer.        *)
Printed(p, live) ==
    [ok |-> p.ok, out |-> p.out, strlen |-> p.end, live |-> live, over |-> p.over]

(* The text is moved to an allocation of its own size, with realloc or by  *)
(* a copy.                                                                 *)
Shrunk(p) == IF p.ok /\ p.left > 0 THEN Printed(p, 1) ELSE Printed(Refused(p), 0)

(* cJSON_Print and cJSON_PrintUnformatted.                                 *)
print(item, format, left) ==
    Shrunk(IF left = 0 THEN Refused([Buffer(0, FALSE, format, 0) EXCEPT !.buffer = FALSE])
           ELSE update_offset(print_value(item,
                    Buffer(DefaultSize, FALSE, format, left - 1))))

Kept(p) == Printed(p, IF p.ok THEN 1 ELSE 0)

cJSON_PrintBuffered(item, prebuffer, format, left) ==
    Kept(IF left = 0 THEN Refused(Buffer(0, FALSE, format, 0))
         ELSE print_value(item, Buffer(prebuffer, FALSE, format, left - 1)))

cJSON_PrintPreallocated(item, len, format) ==
    Printed(print_value(item, Buffer(len, TRUE, format, 0)), 0)

(***************************************************************************)
(* A caller reads a text, prints the item in one of the three ways, and    *)
(* deletes it.                                                             *)
(***************************************************************************)
VARIABLES
    text,   \* the text to parse, with its NUL
    left,   \* allocations that will still succeed
    pc,     \* "start", "parsed", "printed", "deleted"
    parsed, \* outcome of the parse
    call,   \* how the item was printed
    printed \* outcome of the print

vars == <<text, left, pc, parsed, call, printed>>

NoCall == [how |-> "none", format |-> FALSE, size |-> 0]
NoPrint == [ok |-> FALSE, out |-> <<>>, strlen |-> -1, live |-> 0, over |-> FALSE]

Init ==
    /\ text \in Texts
    /\ left \in 0 .. MaxAlloc
    /\ pc = "start"
    /\ parsed = Outcome(FALSE, Start(0), NewItem)
    /\ call = NoCall
    /\ printed = NoPrint

Parse(require_null_terminated) ==
    /\ pc = "start"
    /\ pc' = "parsed"
    /\ parsed' = cJSON_ParseWithOpts(text, left, require_null_terminated)
    /\ left' = parsed'.s.left
    /\ UNCHANGED <<text, call, printed>>

Prints(how, format, size, outcome) ==
    /\ pc = "parsed"
    /\ parsed.ok
    /\ pc' = "printed"
    /\ call' = [how |-> how, format |-> format, size |-> size]
    /\ printed' = outcome
    /\ UNCHANGED <<text, left, parsed>>

PrintText(format) ==
    Prints("print", format, 0, print(parsed.item, format, left))

PrintBuffered(format, size) ==
    Prints("buffered", format, size,
           cJSON_PrintBuffered(parsed.item, size, format, left))

PrintPreallocated(format, size) ==
    Prints("preallocated", format, size,
           cJSON_PrintPreallocated(parsed.item, size, format))

(* cJSON_Delete; the caller frees a printed text as well.                  *)
Delete ==
    /\ parsed.ok
    /\ pc \in {"parsed", "printed"}
    /\ pc' = "deleted"
    /\ parsed' = Outcome(FALSE, Release(parsed.s, Owned(<<parsed.item>>)), NewItem)
    /\ call' = NoCall
    /\ printed' = NoPrint
    /\ UNCHANGED <<text, left>>

Next ==
    \/ \E require_null_terminated \in BOOLEAN : Parse(require_null_terminated)
    \/ \E format \in BOOLEAN : PrintText(format)
    \/ \E format \in BOOLEAN, size \in PrintSizes : PrintBuffered(format, size)
    \/ \E format \in BOOLEAN, size \in PrintSizes : PrintPreallocated(format, size)
    \/ Delete

Spec == Init /\ [][Next]_vars

-----------------------------------------------------------------------------

(* The grammar of JSON on tokens without blanks, as a reference for the    *)
(* parser: what a value is, in terms of the places of brackets and commas. *)
RECURSIVE IsValue(_)
RECURSIVE AreElements(_, _)

IsElement(ts, object) ==
    IF object
    THEN /\ Len(ts) > 2
         /\ ts[1] \in {t \in DOMAIN StrTok : StrTok[t].ok}
         /\ ts[2] = ":"
         /\ IsValue(SubSeq(ts, 3, Len(ts)))
    ELSE IsValue(ts)

AreElements(ts, object) ==
    \/ IsElement(ts, object)
    \/ \E n \in DOMAIN ts :
           /\ ts[n] = ","
           /\ IsElement(SubSeq(ts, 1, n - 1), object)
           /\ AreElements(SubSeq(ts, n + 1, Len(ts)), object)

IsValue(ts) ==
    \/ /\ Len(ts) = 1
       /\ \/ ts[1] \in Literals \cup DOMAIN NumTok
          \/ ts[1] \in DOMAIN StrTok /\ StrTok[ts[1]].ok
    \/ /\ Len(ts) > 1
       /\ \E object \in BOOLEAN :
              /\ Head(ts) = IF object THEN "{" ELSE "["
              /\ Last(ts) = IF object THEN "}" ELSE "]"
              /\ LET inner == SubSeq(ts, 2, Len(ts) - 1) IN
                 inner = <<>> \/ AreElements(inner, object)

Strip(ts) == SelectSeq(ts, LAMBDA t : t \notin Blank)

Nesting(ts) ==
    LET count(n, ends) == Cardinality({k \in 1 .. n : ts[k] \in ends}) IN
    Max({0} \cup {count(n, {"[", "{"}) - count(n, {"]", "}"}) : n \in DOMAIN ts})

(* The tokens of the value a text starts with; none when there is no such  *)
(* value or it is nested too deep.                                         *)
ValueOf(b) ==
    LET ts == Strip(IF Head(b) = "bom" /\ Len(b) > 2 THEN Tail(b) ELSE b)
        ends == {n \in DOMAIN ts : IsValue(SubSeq(ts, 1, n))}
        ts1 == SubSeq(ts, 1, Min(ends))
    IN  IF ends = {} THEN <<>>
        ELSE IF Nesting(ts1) > CJSON_NESTING_LIMIT THEN <<>> ELSE ts1

Canonical(ts) ==
    [n \in DOMAIN ts |-> IF ts[n] \in DOMAIN StrTok THEN StrTok[ts[n]].canon ELSE ts[n]]

Whole(b) == Strip(IF Head(b) = "bom" /\ Len(b) > 2 THEN Tail(b) ELSE b) = ValueOf(b)

(* TypeOK: the parser's offset stays inside the text it was given, so that *)
(* the error position cJSON_ParseWithOpts reports is a character of it;    *)
(* allocation counts never go negative.                                    *)
TypeOK ==
    /\ left \in 0 .. MaxAlloc
    /\ pc \in {"start", "parsed", "printed", "deleted"}
    /\ parsed.ok \in BOOLEAN
    /\ parsed.s.off \in 0 .. Len(text) - 1
    /\ parsed.s.live \in Nat
    /\ printed.live \in 0 .. 1

(* The allocations of an item with these tokens: an item for each value,   *)
(* and a copy of each string and name.                                     *)
Allocations(ts) ==
    LET names == {n \in DOMAIN ts : n < Len(ts) /\ ts[n + 1] = ":"}
        strings == {n \in DOMAIN ts : ts[n] \in DOMAIN StrTok}
        values == {n \in DOMAIN ts : ts[n] \notin {"]", "}", ",", ":"}} \ names
    IN  Cardinality(values) + Cardinality(strings)

(* ParseMatchesGrammar: for every text and every budget of allocations,    *)
(* cJSON_ParseWithOpts returns an item exactly when the text starts with a *)
(* JSON value that is not nested too deep (and holds nothing else, when    *)
(* the end is required) and the allocations the value needs succeed.  The  *)
(* item is that value.                                                     *)
ParseMatchesGrammar ==
    pc = "start" =>
        \A whole \in BOOLEAN :
            LET r == cJSON_ParseWithOpts(text, left, whole)
                value == ValueOf(text)
            IN  /\ r.ok <=> /\ value # <<>>
                            /\ whole => Whole(text)
                            /\ left >= Allocations(value)
                /\ r.ok => Spell(r.item) = Canonical(value)

(* NoLeak: a parse that fails, for a bad text or a failed allocation, has  *)
(* freed every item and string it had allocated; one that succeeds leaves  *)
(* what cJSON_Delete will free.  A print leaves one allocation when it     *)
(* returns a text of its own and none when it fails.                       *)
NoLeak ==
    /\ parsed.s.live = IF parsed.ok THEN Owned(<<parsed.item>>) ELSE 0
    /\ pc = "printed" =>
           printed.live = IF printed.ok /\ call.how # "preallocated" THEN 1 ELSE 0

(* NoOverrun: parse_string never writes past the size it estimated, and no *)
(* printing function writes past the buffer or looks for the end of a text *)
(* that is not terminated, at any size the caller gives.                   *)
NoOverrun == ~parsed.s.over /\ ~printed.over

(* RoundTrip: the text of every successful print, formatted or not, parses *)
(* to the item that was printed.                                           *)
RoundTrip ==
    pc = "printed" /\ printed.ok =>
        LET r == cJSON_ParseWithOpts(Append(printed.out, "NUL"),
                                     Allocations(printed.out), TRUE)
        IN  r.ok /\ r.item = parsed.item

(* The bytes of the text of an item.                                       *)
Strlen(item, format) == cJSON_PrintPreallocated(item, INT_MAX * 4, format).strlen

(* PreallocExact: cJSON_PrintPreallocated succeeds exactly when the buffer *)
(* has two bytes more than the text, so the five bytes that cJSON.h tells  *)
(* callers to add are always enough and the terminator alone never is.     *)
PreallocExact ==
    pc = "printed" /\ call.how = "preallocated" =>
        (printed.ok <=> call.size >= Strlen(parsed.item, call.format) + 2)

(* GrowsToFit: while allocations succeed, ensure grows the buffer from any *)
(* first size to the text, up to INT_MAX bytes and no further.             *)
GrowsToFit ==
    pc = "parsed" /\ parsed.ok =>
        \A format \in BOOLEAN :
            LET fits == Strlen(parsed.item, format) + 2 <= INT_MAX
                plenty == INT_MAX + 2
            IN  /\ print(parsed.item, format, plenty).ok <=> fits
                /\ \A size \in {n \in PrintSizes : n <= INT_MAX} :
                       cJSON_PrintBuffered(parsed.item, size, format, plenty).ok <=> fits

=============================================================================
