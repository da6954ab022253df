------------------------------ MODULE UrlParser ------------------------------
(***************************************************************************)
(* http_parser_parse_url and http_parse_host of http_parser.cpp, and       *)
(* parse_uri of http_packet.cpp, on every URL of a few lexemes.            *)
(*                                                                         *)
(* The state is that of the loop of http_parser_parse_url after the bytes  *)
(* of url; Parsed is what the function returns if the buffer ends there.   *)
(***************************************************************************)
EXTENDS HttpUrl, Integers, TLC
LOCAL INSTANCE SequencesExt

CONSTANTS
    UrlLexemes,   \* bound: what URLs are made of, as sequences of bytes
    MaxLexemes,   \* bound: lexemes of a URL
    Schemas,      \* the schemas parse_uri knows, with their default ports
    UINT16,       \* values of a uint16_t
    Beyond        \* the bytes that may follow the buffer in memory

ASSUME UrlAssumption ==
    /\ UrlLexemes \subseteq Seq(Bytes) \ {<<>>}
    /\ MaxLexemes \in Nat
    /\ UINT16 \in Nat \ {0}
    /\ Beyond \subseteq Seq(Bytes)

VARIABLES
    is_connect,
    url,       \* the buffer
    loop,      \* the locals s, old_uf and found_at, and *u
    lexemes    \* lexemes so far

vars == <<is_connect, url, loop, lexemes>>

\* The field that is operated on in a state of the URL.
FieldOf == [s_req_schema |-> "SCHEMA", s_req_server_with_at |-> "HOST",
            s_req_server |-> "HOST", s_req_path |-> "PATH",
            s_req_query_string |-> "QUERY", s_req_fragment |-> "FRAGMENT"]

Delimiters == {"s_req_schema_slash", "s_req_schema_slash_slash",
               "s_req_server_start", "s_req_query_string_start",
               "s_req_fragment_start"}

Fields == {"SCHEMA", "HOST", "PORT", "PATH", "QUERY", "FRAGMENT", "USERINFO"}

\* field_data, of the fields in field_set.
Begin(u, uf, off) == (uf :> [off |-> off % UINT16, len |-> 1]) @@ u
Extend(u, uf) == [u EXCEPT ![uf].len = (@ + 1) % UINT16]

Init ==
    /\ is_connect \in BOOLEAN
    /\ url = <<>>
    /\ loop = [s |-> IF is_connect THEN "s_req_server_start"
                     ELSE "s_req_spaces_before_url",
               old_uf |-> "MAX", found_at |-> FALSE, u |-> <<>>, p |-> 0]
    /\ lexemes = 0

\* One pass of the loop, on the byte at p.
Pass(l, ch) ==
    LET s == parse_url_char(l.s, ch)
    IN  CASE s \notin DOMAIN FieldOf -> [l EXCEPT !.s = s, !.p = @ + 1]
          [] s \in DOMAIN FieldOf ->
               [s |-> s, old_uf |-> FieldOf[s], p |-> l.p + 1,
                found_at |-> l.found_at \/ s = "s_req_server_with_at",
                u |-> IF FieldOf[s] = l.old_uf THEN Extend(l.u, l.old_uf)
                      ELSE Begin(l.u, FieldOf[s], l.p)]

\* The buffer is longer by a lexeme; it is refused at the first dead byte.
Next ==
    /\ loop.s # "s_dead"
    /\ lexemes < MaxLexemes
    /\ \E l \in UrlLexemes : url' = url \o l /\ loop' = FoldLeft(Pass, loop, l)
    /\ lexemes' = lexemes + 1
    /\ UNCHANGED is_connect

Spec == Init /\ [][Next]_vars
-----------------------------------------------------------------------------
(* The host. *)

IsHostChar(ch) == IsAlpha(ch) \/ IsNum(ch) \/ ch \in {".", "-"}
IsZoneChar(ch) == IsHostChar(ch) \/ ch \in {"%", "_", "~"}

HostStates == {"s_http_userinfo_start", "s_http_userinfo", "s_http_host_start",
               "s_http_host_v6_start", "s_http_host", "s_http_host_v6",
               "s_http_host_v6_end", "s_http_host_v6_zone_start",
               "s_http_host_v6_zone", "s_http_host_port_start", "s_http_host_port"}

http_parse_host_char(s, ch) ==
    CASE s \in {"s_http_userinfo", "s_http_userinfo_start"} /\ ch = "@"
           -> "s_http_host_start"
      [] s \in {"s_http_userinfo", "s_http_userinfo_start"} /\ IsUserinfoChar(ch)
           -> "s_http_userinfo"
      [] s = "s_http_host_start" /\ ch = "[" -> "s_http_host_v6_start"
      [] s \in {"s_http_host_start", "s_http_host"} /\ IsHostChar(ch)
           -> "s_http_host"
      [] s \in {"s_http_host", "s_http_host_v6_end"} /\ ch = ":"
           -> "s_http_host_port_start"
      [] s \in {"s_http_host_v6", "s_http_host_v6_zone"} /\ ch = "]"
           -> "s_http_host_v6_end"
      [] s \in {"s_http_host_v6", "s_http_host_v6_start"}
           /\ (IsHex(ch) \/ ch \in {":", "."}) -> "s_http_host_v6"
      [] s = "s_http_host_v6" /\ ch = "%" -> "s_http_host_v6_zone_start"
      [] s \in {"s_http_host_v6_zone", "s_http_host_v6_zone_start"}
           /\ IsZoneChar(ch) -> "s_http_host_v6_zone"
      [] s \in {"s_http_host_port", "s_http_host_port_start"} /\ IsNum(ch)
           -> "s_http_host_port"
      [] OTHER -> "s_http_host_dead"

\* One pass of the loop of http_parse_host: h.u is *u.
HostPass(h, ch) ==
    LET s == http_parse_host_char(h.s, ch)
        begins(uf) == Begin(h.u, uf, h.p)
        goesOn(uf) == IF s = h.s THEN Extend(h.u, uf) ELSE begins(uf)
        u == CASE s \in {"s_http_host", "s_http_host_v6"} -> goesOn("HOST")
               [] s \in {"s_http_host_v6_zone_start", "s_http_host_v6_zone"}
                    -> Extend(h.u, "HOST")
               [] s = "s_http_host_port" -> goesOn("PORT")
               [] s = "s_http_userinfo" -> goesOn("USERINFO")
               [] OTHER -> h.u
    IN  [s |-> s, p |-> h.p + 1, u |-> u]

\* Mutant: the host may end in its port's colon.
HostEndsAnyhow == {"s_http_host", "s_http_host_v6_end", "s_http_host_port",
                   "s_http_host_port_start"}

\* The states in which a host may end.
HostEnds == {"s_http_host", "s_http_host_v6_end", "s_http_host_port"}

http_parse_host(u, found_at) ==
    LET off == u.HOST.off
        len == u.HOST.len
    IN  FoldLeft(HostPass,
                 [s |-> IF found_at THEN "s_http_userinfo_start"
                        ELSE "s_http_host_start",
                  p |-> off, u |-> [u EXCEPT !.HOST.len = 0]],
                 SubSeq(url, off + 1, off + len))
-----------------------------------------------------------------------------
(* After the loop. *)

Refused == [ok |-> FALSE]

Text(u, uf) == SubSeq(url, u[uf].off + 1, u[uf].off + u[uf].len)

\* A number, up to a bound that stands for ULONG_MAX.
Value(digits) ==
    FoldLeft(LAMBDA v, c : IF v > 10000000 THEN v ELSE 10 * v + Digit[c], 0, digits)

\* strtoul on the port: the digits there are, in the buffer or beyond its end.
strtoul(off, beyond) ==
    LET from == SubSeq(url \o beyond, off + 1, Len(url) + Len(beyond))
        end == SelectInSeq(from, LAMBDA c : ~IsNum(c))
    IN  Value(IF end = 0 THEN from ELSE SubSeq(from, 1, end - 1))

Port(u, beyond) ==
    IF "PORT" \in DOMAIN u THEN strtoul(u.PORT.off, beyond) ELSE 0

\* A host must be present if there is a schema.
HostMissing(u) == "SCHEMA" \in DOMAIN u /\ "HOST" \notin DOMAIN u

\* What http_parser_parse_url returns, and *u.
Parsed(beyond) ==
    LET h == IF "HOST" \in DOMAIN loop.u THEN http_parse_host(loop.u, loop.found_at)
             ELSE [s |-> "s_http_host", u |-> loop.u]
    IN  IF \/ loop.s = "s_dead"
           \/ HostMissing(loop.u)
           \/ h.s \notin HostEnds
           \/ is_connect /\ DOMAIN h.u # {"HOST", "PORT"}
           \/ Port(h.u, beyond) > 65535
          THEN Refused
        ELSE [ok |-> TRUE, u |-> h.u, port |-> Port(h.u, beyond)]
-----------------------------------------------------------------------------
(* parse_uri of http_packet.cpp. *)

\* find() of a byte: 0 if there is none.
Find(text, c) == SelectInSeq(text, LAMBDA b : b = c)

Known(path) == {k \in DOMAIN Schemas : IsPrefix(k \o <<":", "/", "/">>, path)}

\* The path without the prefix of a known schema.
View(path) == IF Known(path) = {} THEN path
              ELSE SubSeq(path, Len(CHOOSE k \in Known(path) : TRUE) + 4, Len(path))

\* Mutant: the server is all there is.
ServerAll(view) == view

\* What stands before the first slash.
Server(view) == IF Find(view, "/") = 0 THEN view
                ELSE SubSeq(view, 1, Find(view, "/") - 1)

parse_uri(path) ==
    LET view == View(path)
        server == Server(view)
        slash == Find(view, "/")
        colon == Find(server, ":")
    IN  [server_url |-> IF colon = 0 THEN server ELSE SubSeq(server, 1, colon - 1),
         server_port |-> CASE colon # 0 -> SubSeq(server, colon + 1, Len(server))
                           [] colon = 0 /\ Known(path) # {} ->
                                Schemas[CHOOSE k \in Known(path) : TRUE]
                           [] OTHER -> <<"8", "0">>,
         resource_path |-> IF slash = 0 THEN <<"/">>
                           ELSE SubSeq(view, slash, Len(view))]
-----------------------------------------------------------------------------
(* Properties. *)

\* The loop never meets the state its assertion calls unexpected, and no field
\* reaches beyond the buffer.
UrlTypeOK ==
    /\ loop.s \in DOMAIN FieldOf \cup Delimiters
                  \cup {"s_dead", "s_req_spaces_before_url"}
    /\ loop.s = "s_req_spaces_before_url" => url = <<>>
    /\ \A uf \in DOMAIN loop.u :
          uf \in Fields /\ loop.u[uf].off + loop.u[uf].len <= Len(url)

\* What is between the fields: a schema and what follows it, an "@" that may
\* stand alone, brackets, and delimiters with nothing after them.
IsWritten(u) ==
    LET text(uf) == IF uf \in DOMAIN u THEN Text(u, uf) ELSE <<>>
        lead(uf, c) == IF uf \in DOMAIN u THEN <<c>> ELSE <<>>
    IN  \E at \in {lead("USERINFO", "@"), <<"@">>}, v6 \in BOOLEAN,
          q \in {lead("QUERY", "?"), <<"?">>}, n \in 0..MaxLexemes :
          url = text("SCHEMA")
                  \o (IF "SCHEMA" \in DOMAIN u THEN <<":", "/", "/">> ELSE <<>>)
                  \o text("USERINFO") \o at
                  \o (IF v6 THEN <<"[">> \o text("HOST") \o <<"]">> ELSE text("HOST"))
                  \o lead("PORT", ":") \o text("PORT") \o text("PATH")
                  \o q \o text("QUERY")
                  \o [i \in 1..n |-> "#"] \o text("FRAGMENT")

\* port is the number that stands in the URL; a digit that follows the buffer in
\* memory would be read as its last.
PortIsExact ==
    LET r == Parsed(<<>>)
    IN  r.ok /\ "PORT" \in DOMAIN r.u => r.port = Value(Text(r.u, "PORT"))

\* The fields of a URL that is accepted are the URL ("Offset into buffer in
\* which field starts", http_parser.h): in order, without overlap, and with
\* nothing left out but delimiters; whatever follows the buffer in memory.
FieldsAreTheUrl ==
    /\ UrlTypeOK
    /\ \A b \in Beyond : Parsed(b).ok => IsWritten(Parsed(b).u)
    /\ PortIsExact

\* What is accepted, other than nothing, is a target the request parser accepts.
AcceptedIsATarget == Parsed(<<>>).ok /\ url # <<>> => loop.s \in UrlTails

Has(c) == \E i \in DOMAIN url : url[i] = c

\* Without user and brackets parse_uri splits a URL of a known schema with a path
\* where http_parser_parse_url does.
SplitAlike ==
    LET r == Parsed(<<>>)
        p == parse_uri(url)
    IN  /\ r.ok /\ ~Has("@") /\ ~Has("[")
        /\ {"SCHEMA", "HOST", "PATH"} \subseteq DOMAIN r.u
        /\ Text(r.u, "SCHEMA") \in DOMAIN Schemas
        => /\ p.server_url = Text(r.u, "HOST")
           /\ "PORT" \in DOMAIN r.u => p.server_port = Text(r.u, "PORT")
           /\ p.resource_path = SubSeq(url, r.u.PATH.off + 1, Len(url))

\* A URL parse_uri has split into a name, a port below 2^16 and a path is accepted.
PlainUrlIsTaken ==
    LET p == parse_uri(url)
        all(text, IsIn(_)) == \A i \in DOMAIN text : IsIn(text[i])
        alnum(c) == IsAlpha(c) \/ IsNum(c) \/ c \in {".", "-"}
    IN  /\ ~is_connect /\ Known(url) # {}
        /\ p.server_url # <<>> /\ all(p.server_url, alnum)
        /\ p.server_port # <<>> /\ all(p.server_port, IsNum)
        /\ Value(p.server_port) < 65536
        /\ all(p.resource_path, IsUrlChar)
        => Parsed(<<>>).ok

\* The three readers of URLs in the library agree, each with the others on what
\* they share: http_parser_parse_url, the request parser and parse_uri.
ParsersAgree == AcceptedIsATarget /\ SplitAlike /\ PlainUrlIsTaken
=============================================================================
