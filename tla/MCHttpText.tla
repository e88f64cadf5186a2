----------------------------- MODULE MCHttpText -----------------------------
(* An instance of HttpText for TLC.                                        *)
EXTENDS HttpText

FullUrl(s, h, p, x) == [kind |-> "url", secure |-> s, host |-> h, port |-> p, path |-> x]
Rooted(x) == [kind |-> "root", path |-> x]
Beside(x) == [kind |-> "beside", path |-> x]

\* Hosts of one word and of four, the second too long with its port; a path
\* with a colon, which begins no port.
Starts ==
    {FullUrl(TRUE, <<"h">>, 0, <<"/", "a", ":", "2">>),
     FullUrl(FALSE, <<"h", ".", "i", "j">>, 12, <<>>)}

Targets ==
    {FullUrl(TRUE, <<"k">>, 0, <<"/", "d">>), FullUrl(FALSE, <<"k">>, 2, <<>>),
     FullUrl(FALSE, <<"k">>, 12, <<"/", "b", "/", "c">>),
     Rooted(<<"/", "e", "?", "f", "/", "g">>), Rooted(<<"/", "e", "/", "f">>),
     Beside(<<"i", "/", "x">>)}

Others ==
    {[name |-> <<"X">>, pad |-> <<>>, value |-> <<"u", ":", "v">>],
     [name |-> <<"X">>, pad |-> <<SP, SP>>, value |-> <<"w">>],
     [name |-> <<"X">>, pad |-> <<SP>>, value |-> <<>>],
     [name |-> <<"Transfer-Encoding">>, pad |-> <<SP>>, value |-> <<"chunked">>],
     [name |-> <<"Content-", "Location">>, pad |-> <<SP>>, value |-> <<"/", "m">>]}

\* Data that looks like a size, like an end of line, like a header and like
\* the fields that are searched for; a chunk of 16 words has a size of two.
Pieces ==
    {<<"1">>, CRLF, CRLF \o CRLF \o <<"0">>, <<"X", ":", "y">> \o CRLF,
     <<"Location", ":">>, [i \in 1..16 |-> "z"]}
=============================================================================
