---------------------------- MODULE MCConstants ----------------------------
(***************************************************************************)
(* The constants of HttpParser for TLC: a few methods, and keywords cut to *)
(* the letters that tell them apart and one more.                          *)
(***************************************************************************)
EXTENDS HttpParser

MCKeyword == [k \in HeaderKeywords |->
    CASE k = "connection"        -> <<"c", "o", "n", "n", "e">>
      [] k = "content-length"    -> <<"c", "o", "n", "t", "e">>
      [] k = "proxy-connection"  -> <<"p", "r">>
      [] k = "transfer-encoding" -> <<"t", "r">>
      [] k = "upgrade"           -> <<"u", "p">>
      [] k = "chunked"           -> <<"c", "h">>
      [] k = "keep-alive"        -> <<"k", "e">>
      [] k = "close"             -> <<"c", "l">>]

MCMethodString == [GET |-> <<"G", "E", "T">>, POST |-> <<"P", "O", "S", "T">>,
                   PUT |-> <<"P", "U", "T">>,
                   CONNECT |-> <<"C", "O", "N", "N", "E", "C", "T">>,
                   HEAD |-> <<"H", "E", "A", "D">>,
                   MKCOL |-> <<"M", "K", "C", "O", "L">>,
                   MSEARCH |-> <<"M", "-", "S", "E", "A", "R", "C", "H">>]
MCFirstMethod == [G |-> "GET", P |-> "POST", C |-> "CONNECT", H |-> "HEAD",
                  M |-> "MKCOL"]
MCMethodSwitch == [k \in {<<"POST", 1, "U">>, <<"MKCOL", 1, "-">>} |->
                     IF k[1] = "POST" THEN "PUT" ELSE "MSEARCH"]

Line(l) == l \o <<"CR", "LF">>
Header(k) == Keyword[k] \o <<":">>
=============================================================================
