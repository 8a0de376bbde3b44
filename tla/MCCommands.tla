----------------------------- MODULE MCCommands ----------------------------
(* An instance of Commands for TLC.                                        *)
EXTENDS Commands, MCScanner

\* What an Everything list may say of one item.  Dvd has a D in its name, one
\* item goes on where the prefix E:\Archive ends, three have dots or a NUL in
\* their paths, the last is of a share.
Listed == {
    [Filename |-> <<"E:", "\\", "Archive", "\\">>,
     Size |-> <<>>, Attributes |-> <<"D">>],
    [Filename |-> <<"E:", "\\", "Archive", "\\", "Dvd">>,
     Size |-> <<>>, Attributes |-> <<"D", "H">>],
    [Filename |-> <<"E:", "/", "Archive", "\\", "\\", "Dvd", "/", "x">>,
     Size |-> <<"7">>, Attributes |-> <<"A">>],
    [Filename |-> <<"E:", "\\", "Archive", "\\", "2", "\\", "x">>,
     Size |-> <<"x">>, Attributes |-> <<>>],
    [Filename |-> <<"E:", "\\", "Archive", "2", "\\", "x">>,
     Size |-> <<"-1">>, Attributes |-> <<"A">>],
    [Filename |-> <<"E:", "\\", "Archive", "\\", ".", ".", "\\", "x">>,
     Size |-> <<"9..9">>, Attributes |-> <<"A">>],
    [Filename |-> <<"E:", "\\", "Archive", "\\", ".", "x", "\\", ".">>,
     Size |-> <<>>, Attributes |-> <<"D">>],
    [Filename |-> <<"E:", "\\", "Archive", "\\", "x", "NUL">>,
     Size |-> <<"7">>, Attributes |-> <<>>],
    [Filename |-> <<"\\", "\\", "E:", "\\", "Archive", "\\", "x">>,
     Size |-> <<>>, Attributes |-> <<"A">>]}

LettersInName == [t \in UNION {ToSet(i[c]) : i \in Listed, c \in {"Filename",
                                              "Size", "Attributes"}} |->
                     CASE t \in {"D", "Dvd"}      -> {"D"}
                       [] t \in {"H", "Archive"}  -> {"H"}
                       [] OTHER                   -> {}]

\* 1000 stands for the largest int64.
NumbersInName == ("7" :> 7) @@ ("2" :> 2) @@ ("-1" :> -1) @@ ("9..9" :> 1000)

\* The usual order of columns, another, and two lists without attributes or
\* names.
Headers == {<<"Filename", "Size", "Attributes">>,
            <<"Attributes", "Filename", "Size">>,
            <<"Filename", "Size">>, <<"Size", "Attributes">>}

\* A record of n cells.
RecordOf(item, header, n) == [i \in 1 .. n |-> item[header[i]]]

\* Two records, each whole or cut short.
RecordsFor(header) == {RecordOf(item, header, n) :
                           item \in Listed, n \in {1, Len(header)}}

SmallFiles ==
    UNION {[header  : {header},
            records : {<<r, s>> : r, s \in RecordsFor(header)},
            prefix  : {<<>>, <<"E:", "\\", "Archive">>,
                       <<"/", "E:", "/", "Archive", "/">>}] : header \in Headers}
=============================================================================
