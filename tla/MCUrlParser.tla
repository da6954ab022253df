---------------------------- MODULE MCUrlParser ----------------------------
(* UrlParser for TLC: schemas, users, hosts, zones and ports of all sizes. *)
EXTENDS UrlParser

http == <<"h", "t", "t", "p">>
MCSchemas == http :> <<"8", "0">> @@ (http \o <<"s">>) :> <<"4", "4", "3">>

MCUrlLexemes == {<<c>> : c \in {"/", ":", "@", "]", "?", "#", ".", "a", "5", "6"}}
                  \cup {http \o <<":", "/", "/">>, <<"6", "5", "5", "3">>,
                        <<"[", "a">>, <<"%", "a">>}

\* What follows the buffer in memory: nothing that is a digit, or a digit.
MCBeyond == {<<>>, <<"1">>}
=============================================================================
