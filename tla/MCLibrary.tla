----------------------------- MODULE MCLibrary -----------------------------
(* Small arguments for Library.  The inlined headers are the server's:     *)
(* Ethernet, IPv4, UDP, the packet id and the checksum.                    *)
EXTENDS Library

RequestHeaders == <<14, 20, 8, 8, 8>>

\* All texts of up to three characters, lists of two numbers of up to two
\* digits and what may stand between or behind them, and longer lists.
Pieces == {<<0>>, <<3>>, <<1, 2>>, <<6, 3>>, <<1, 0, 0>>, <<0, 7>>, <<0, Bits!X, 3>>, <<Bits!Dash, 1>>, <<>>}
Gaps == {<<>>, <<Bits!Comma>>, <<Bits!Dash>>, <<Bits!Comma, Bits!Comma>>, <<Bits!Blank>>, <<Bits!Newline>>}
ShortTexts ==
    UNION {[1 .. n -> {0, 1, 5} \cup Bits!X .. Bits!Other] : n \in 0 .. 3}
    \cup {a \o g \o b \o h : a \in Pieces, g \in Gaps, b \in Pieces, h \in Gaps}
    \cup {<<1, Bits!Dash>> \o a \o g \o b : a \in Pieces, g \in Gaps \cup {<<Bits!Colon>>}, b \in Pieces}
    \cup {<<a, Bits!Comma, b, Bits!Dash, c, Bits!Comma, d, Bits!Dash, e>> : a, b, c, d, e \in {0, 2, 4, 6}}

TwoHosts == {[mac |-> "mac1", ip |-> "ip1", port |-> "port1"], [mac |-> "mac2", ip |-> "ip2", port |-> "port2"]}
=============================================================================
