----------------------------- MODULE HttpBytes -----------------------------
(***************************************************************************)
(* The bytes http_parser.cpp tells apart, and its character tables.        *)
(*                                                                         *)
(* A printable byte is written as itself, the others by name: "CTL" stands *)
(* for the control characters without a meaning of their own, "HIGH" for   *)
(* the bytes from 0x80.  The build is the default, HTTP_PARSER_STRICT = 1. *)
(***************************************************************************)
EXTENDS Naturals, Sequences

LowerOf == [A |-> "a", B |-> "b", C |-> "c", D |-> "d", E |-> "e", F |-> "f",
            G |-> "g", H |-> "h", I |-> "i", J |-> "j", K |-> "k", L |-> "l",
            M |-> "m", N |-> "n", O |-> "o", P |-> "p", Q |-> "q", R |-> "r",
            S |-> "s", T |-> "t", U |-> "u", V |-> "v", W |-> "w", X |-> "x",
            Y |-> "y", Z |-> "z"]
Uppers == DOMAIN LowerOf
Lowers == {LowerOf[c] : c \in Uppers}
IsAlpha(c) == c \in Uppers \cup Lowers

Digit == [c \in {"0", "1", "2", "3", "4", "5", "6", "7", "8", "9"} |->
            CHOOSE d \in 0..9 :
               c = <<"0", "1", "2", "3", "4", "5", "6", "7", "8", "9">>[d + 1]]
IsNum(c) == c \in DOMAIN Digit

\* unhex[]: the value of a hexadecimal digit, in either case.
HexLetter == [a |-> 10, b |-> 11, c |-> 12, d |-> 13, e |-> 14, f |-> 15,
              A |-> 10, B |-> 11, C |-> 12, D |-> 13, E |-> 14, F |-> 15]
IsHex(c) == IsNum(c) \/ c \in DOMAIN HexLetter
Unhex(c) == IF IsNum(c) THEN Digit[c] ELSE HexLetter[c]

Separators == {"(", ")", "<", ">", "@", ",", ";", ":", "/", "[", "]",
               "?", "=", "{", "}"}
TokenPunctuation == {"!", "#", "$", "%", "&", "'", "*", "+", "-", ".", "^",
                     "_", "GRAVE", "|", "~"}
Controls == {"NUL", "HT", "LF", "CR", "CTL"}
Bytes == Uppers \cup Lowers \cup DOMAIN Digit \cup Separators
           \cup TokenPunctuation \cup Controls \cup {"SP", "HIGH"}

\* tokens[]: what a header name is made of.
IsToken(c) == IsAlpha(c) \/ IsNum(c) \/ c \in TokenPunctuation
ToLower(c) == IF c \in Uppers THEN LowerOf[c] ELSE c

\* LOWER(c), c | 0x20: lower case for a letter, and other bytes change too: a
\* tab becomes ")", an underscore DEL.
LOWER(c) == CASE c = "HT"  -> ")"
              [] c = "_"   -> "CTL"
              [] c = "@"   -> "GRAVE"
              [] c = "^"   -> "~"
              [] OTHER     -> ToLower(c)

IsHeaderChar(c) == c \notin {"NUL", "CTL"}

\* normal_url_char[].
IsUrlChar(c) == c \notin Controls \cup {"SP", "HIGH", "#", "?"}

IsUserinfoChar(c) == \/ IsAlpha(c) \/ IsNum(c)
                     \/ c \in {"-", "_", ".", "!", "~", "*", "'", "(", ")",
                               "%", ";", ":", "&", "=", "+", "$", ","}
=============================================================================
