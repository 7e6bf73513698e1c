----------------------------- MODULE MCMpqSlave -----------------------------
(* Instances of MpqSlave for TLC.                                          *)
EXTENDS MpqSlave, TLC

CONSTANTS war3, patch

T(name) == [name |-> name, case |-> "lower"]
U(name) == [name |-> name, case |-> "upper"]
File(upper, size) == [upper |-> upper, size |-> size, isFile |-> TRUE]

(* An archive with all of it, one without a listfile and attributes, one   *)
(* without times, and ones whose attributes are cut off; their files have  *)
(* other blocks.                                                           *)
Full ==
    [files |-> <<File(<<"(listfile)">>, 1), File(<<"units", "a">>, 2), File(<<"b">>, 3),
                 File(<<"units", "c">>, 0), File(<<"(attributes)">>, 1)>>,
     listed |-> <<<<U("units"), T("a")>>, <<T("units"), T("c")>>, <<T("b")>>, <<T("ui"), T("b")>>>>,
     times |-> TRUE, cut |-> "none"]
Bare ==
    [files |-> <<File(<<"b">>, 2), [File(<<"units", "a">>, 1) EXCEPT !.isFile = FALSE]>>,
     listed |-> <<>>, times |-> FALSE, cut |-> "none"]
Timeless ==
    [files |-> <<File(<<"(attributes)">>, 0), File(<<"b">>, 1)>>,
     listed |-> <<>>, times |-> FALSE, cut |-> "none"]
Cut(where) ==
    [files |-> <<File(<<"(attributes)">>, 1), File(<<"b">>, 1)>>,
     listed |-> <<>>, times |-> where # "header", cut |-> where]

MCArchives == {war3, patch}
MCContents == {Full, Bare, Timeless, Cut("times")}
MCInstalled == <<<<T("b")>>, <<T("units"), T("a")>>, <<T("ui"), T("a")>>>>
MCUrls ==
    [archive : MCArchives, path : {<<>>, <<T("units"), U("a")>>}]
Symmetry == Permutations(MCArchives)
=============================================================================
