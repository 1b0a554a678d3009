------------------------------- MODULE MCCsv -------------------------------
(***************************************************************************)
(* Bounds for TLC of CsvReader: a header of one or two names, a row of any *)
(* length, and a row with every field of up to three characters of each of *)
(* two alphabets.                                                          *)
(***************************************************************************)
EXTENDS CsvReader

UpTo(n, S) == UNION {[1 .. k -> S] : k \in 0 .. n}
Headers == {<<<<"a">>>>, <<<<"a">>, <<"b", ",">>>>}
Others == {<<<<>>, <<"1">>>>, <<<<"a">>, <<>>, <<"a">>>>}
Cells == UpTo(3, {"a", Quote, ","}) \cup UpTo(2, {"\r", "\n", Quote})
         \cup UpTo(3, {"1", "-", " ", "a", "."})
Rows == {<<f, <<"2">>>> : f \in Cells} \cup {<<<<"2">>, f>> : f \in Cells}
        \cup {<<f>> : f \in Cells \ {<<>>}}

SomeTables == {<<>>} \cup {<<h>> : h \in Headers}
              \cup {<<h, o, r>> : h \in Headers, o \in Others, r \in Rows}
\* Every way to quote, with each line end, with and without a last one and a mark.
Plainest == [quotes |-> "needed", eol |-> <<"\n">>, last |-> TRUE, bom |-> FALSE]
SomeStyles ==
    {[Plainest EXCEPT !.quotes = q] : q \in {"always", "needed", "bare"}}
    \cup {[quotes |-> q, eol |-> <<"\r", "\n">>, last |-> FALSE, bom |-> TRUE] :
            q \in {"always", "bare"}}
=============================================================================
