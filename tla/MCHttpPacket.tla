---------------------------- MODULE MCHttpPacket ----------------------------
(* Instances of HttpPacket for TLC: one message of a small set is sent. *)
EXTENDS MCConstants, HttpPacket

Own == [name |-> <<"X">>, value |-> <<"v", "SP", "w">>]
Empty == [name |-> <<"Y", "-">>, value |-> <<>>]

MCReplies ==
    {[status_code |-> 200, headers |-> <<>>, content |-> <<>>],
     [status_code |-> 304, headers |-> <<Own>>, content |-> <<"CR", "LF">>],
     [status_code |-> 500, headers |-> <<Empty, Own>>, content |-> <<"H">>]}

MCRequest(m, hs, text) ==
    [method |-> m, uri |-> <<"/", "?", "u">>, http_version_major |-> 1,
     http_version_minor |-> 1, host |-> <<"h", ":">>, headers |-> hs, body |-> text]
MCRequests == {MCRequest("GET", <<>>, <<>>),
               MCRequest("PUT", <<Own, Empty>>, <<"G", "LF", "G">>)}

WrittenReplies == {ReplyToString(r) : r \in MCReplies}
WrittenRequests == {RequestToString(q) : q \in MCRequests}
Written == [HTTP_REQUEST |-> WrittenRequests, HTTP_RESPONSE |-> WrittenReplies]
AllWritten == WrittenRequests \cup WrittenReplies
WrittenStock == {ReplyToString(stock_reply(s)) : s \in {200, 400}}

\* A server is sent requests, and a client replies.
MCNext == PacketNext /\ (wire' # <<>> => wire' \in Written[parser.type])

MCSpec == PacketInit /\ [][MCNext]_<<allVars, wire>>
=============================================================================
