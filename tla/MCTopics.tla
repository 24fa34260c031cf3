------------------------------ MODULE MCTopics ------------------------------
(* Small instances of Topics for TLC.                                       *)
EXTENDS Topics

a  == <<"a">>
b  == <<"b">>
ab == <<"a", "b">>

(* The topics of the repository's tests (two, and a longer name below the   *)
(* first); three of a kind on two levels; a topic given after one below it, *)
(* and one given twice.                                                     *)
MCTests == <<<<a>>, <<b>>, <<a, ab>>>>
MCSetups == {MCTests,
             <<<<ab>>, <<a>>, <<b>>, <<b, a>>, <<b, ab>>, <<b, b>>>>,
             <<<<a, b>>, <<a>>, <<b>>, <<a>>>>}

Name(p, w) == [path |-> p, wild |-> w]

MCNames == {Name(<<a>>, FALSE), Name(<<ab>>, FALSE), Name(<<a, ab>>, FALSE),
            Name(<<b, b>>, FALSE), Name(<<ab, a>>, FALSE), Name(<<a>>, TRUE)}
MCIds == {ab}

MCTestSetups == {MCTests}

=============================================================================
