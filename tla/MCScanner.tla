----------------------------- MODULE MCScanner -----------------------------
(* Instances of Scanner for TLC.                                           *)
EXTENDS Scanner, TLC

\* A folder with a folder and a file in it, another folder, a link, a file.
SmallTree ==
    (Root        :> << <<"a">>, <<"b">>, <<"link">>, <<"x">> >>) @@
    (<<"b">>     :> << <<"b", "w">> >>) @@
    (<<"a">>     :> << <<"a", "cache">>, <<"a", "y">> >>) @@
    (<<"a", "cache">> :> << <<"a", "cache", "z">> >>)

SmallLinks == {<<"link">>}

\* --exclude cache --exclude 'b/**'
NameAndFolder == {<<"cache">>, <<"b", "**">>}
=============================================================================
