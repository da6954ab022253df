------------------------------ MODULE HttpUrl ------------------------------
(***************************************************************************)
(* parse_url_char of http_parser.cpp: the states of a request's URL.       *)
(***************************************************************************)
EXTENDS HttpBytes

\* The states in which a URL may not end, and those in which it may.
UrlHeads == {"s_req_schema", "s_req_schema_slash", "s_req_schema_slash_slash",
             "s_req_server_start"}
UrlTails == {"s_req_server", "s_req_server_with_at", "s_req_path",
             "s_req_query_string_start", "s_req_query_string",
             "s_req_fragment_start", "s_req_fragment"}
UrlStates == UrlHeads \cup UrlTails

InServer(ch) ==
    CASE ch = "/" -> "s_req_path"
      [] ch = "?" -> "s_req_query_string_start"
      [] ch = "@" -> "s_req_server_with_at"
      [] IsUserinfoChar(ch) \/ ch \in {"[", "]"} -> "s_req_server"
      [] OTHER -> "s_dead"

\* The state after ch, s_dead if no URL goes on like that.
parse_url_char(s, ch) ==
    CASE ch \in {"SP", "CR", "LF", "HT"} -> "s_dead"
      [] s = "s_req_spaces_before_url" /\ ch \in {"/", "*"} -> "s_req_path"
      [] s = "s_req_spaces_before_url" /\ IsAlpha(ch) -> "s_req_schema"
      [] s = "s_req_schema" /\ IsAlpha(ch) -> s
      [] s = "s_req_schema" /\ ch = ":" -> "s_req_schema_slash"
      [] s = "s_req_schema_slash" /\ ch = "/" -> "s_req_schema_slash_slash"
      [] s = "s_req_schema_slash_slash" /\ ch = "/" -> "s_req_server_start"
      [] s \in {"s_req_server_start", "s_req_server"} -> InServer(ch)
      [] s = "s_req_server_with_at" /\ ch # "@" -> InServer(ch)
      [] s = "s_req_path" /\ IsUrlChar(ch) -> s
      [] s \in {"s_req_query_string_start", "s_req_query_string"}
           /\ (IsUrlChar(ch) \/ ch = "?") -> "s_req_query_string"
      [] s = "s_req_fragment_start" /\ (IsUrlChar(ch) \/ ch = "?")
           -> "s_req_fragment"
      [] s \in {"s_req_fragment_start", "s_req_fragment"} /\ ch = "#" -> s
      [] s = "s_req_fragment" /\ (IsUrlChar(ch) \/ ch = "?") -> s
      [] s = "s_req_path" /\ ch = "?" -> "s_req_query_string_start"
      [] s \in {"s_req_path", "s_req_query_string_start", "s_req_query_string"}
           /\ ch = "#" -> "s_req_fragment_start"
      [] OTHER -> "s_dead"
=============================================================================
