----------------------------- MODULE MCJsonText -----------------------------
(***************************************************************************)
(* The texts and tokens of the instance of JsonText.                       *)
(***************************************************************************)
EXTENDS JsonText

(* src and skip: bytes between the quotes and backslashes among them; mem: *)
(* bytes of the string in memory; out: bytes print_string_ptr writes for   *)
(* it; canon: the form it is printed in; ok: every escape is valid.        *)
Form(src, skip, mem, out, canon, ok) ==
    [src |-> src, skip |-> skip, mem |-> mem, out |-> out, canon |-> canon, ok |-> ok]

MCStrTok ==
    ("ip"    :> Form(2, 0, 2, 2, "ip", TRUE)) @@
    ("\\n"   :> Form(2, 1, 1, 2, "\\n", TRUE)) @@     \* a line feed
    ("u006e" :> Form(6, 1, 1, 1, "n", TRUE)) @@      \* the letter n by its code
    ("n"     :> Form(1, 0, 1, 1, "n", TRUE)) @@
    ("pair"  :> Form(12, 2, 4, 4, "utf8", TRUE)) @@  \* a surrogate pair
    ("utf8"  :> Form(4, 0, 4, 4, "utf8", TRUE)) @@
    ("\\q"   :> Form(2, 1, 1, 0, "\\q", FALSE))       \* no such escape

MCNumTok == ("1" :> [val |-> 1, out |-> 1]) @@ ("99999" :> [val |-> 99999, out |-> 5])

Token == {"[", "]", "{", "}", ",", ":", "ws", "bad", "open", "bom",
          "true", "false", "1", "ip", "\\n", "pair", "\\q"}

(* Tokens for the texts of length three; the others concern one place.     *)
Simple == Token \ {"bom", "open", "\\n", "pair", "\\q"}

Base == {
    <<"{", "ip", ":", "1", "}">>,
    <<"[", "ip", ",", "99999", "]">>,
    <<"[", "[", "null", "]", ",", "u006e", "]">>,
    <<"{", "ip", ":", "{", "n", ":", "[", "]", "}", "}">>,
    <<"{", "n", ":", "[", "{", "}", "]", ",", "\\n", ":", "false", "}">>}

(* Every text one token away from one of the base texts.                   *)
Edits(b) ==
    {RemoveAt(b, n) : n \in DOMAIN b}
    \cup {[b EXCEPT ![n] = t] : n \in DOMAIN b, t \in Token}
    \cup {InsertAt(b, n, t) : n \in 1 .. Len(b) + 1, t \in Token}

MCTexts ==
    {Append(b, "NUL") : b \in
        UNION {[1 .. n -> Token] : n \in 0 .. 2} \cup [1 .. 3 -> Simple]
        \cup Base \cup UNION {Edits(b) : b \in Base}}

=============================================================================
