--------------------------- MODULE MCMirrorFiles ---------------------------
(* The start page /h/; /d, a PDF under a name without a dot; the page       *)
(* /v.htm, which is in the way of /v.htm//c?x&y, or the other way round.    *)
EXTENDS MirrorFiles, TLC

CONSTANTS c1, c2, r1

U(path, slash, query) == [path |-> path, slash |-> slash, query |-> query]
Home == U(<<<<"h">>>>, TRUE, "none")
Paper == U(<<<<"d">>>>, FALSE, "none")
About == U(<<<<"v.htm">>>>, FALSE, "none")
Page == U(<<<<"v.htm">>, <<"">>, <<"c">>>>, FALSE, "x&y")

MCParsed(url) ==
    CASE url = "home" -> Home [] url = "paper" -> Paper
      [] url = "about" -> About [] url = "page" -> Page
MCURLs == {"home", "paper", "about", "page"}
MCHTML == {"home", "about", "page"}
MCOldMirrors == {{"about"}, {"home", "page"}}
MCDotted == {"index.html", "v.htm"}
MCHTMLEnds == {"index.html", "v.htm"}
MCSafe(query) == "x_y"
MCLinksOf(url) ==
    CASE url = "home" -> {"paper", "about", "page"}
      [] url \in {"about", "page"} -> {"home", "about"} [] OTHER -> {}
MCCrawls == {c1, c2}
MCPasses == {r1}
Symmetry == Permutations(MCCrawls)
============================================================================
