------------------------------ MODULE MCLinks ------------------------------
(* A vault with two notes of one name in two folders, a third note and an  *)
(* attachment; the requests take in every scope and direction, and pages   *)
(* that are too small for the scope.                                       *)
EXTENDS GraphView

\* a/x.md, b/x.md, y.md and x.png
MCFull == <<"x.md", "x.md", "y.md", "x.png">>
MCStem == <<"x", "x", "y", "x">>

MCRefs == [binary |-> <<>>,
           hub |-> <<[form |-> "name", name |-> "x", stem |-> "x"],
                     [form |-> "name", name |-> "y", stem |-> "y"]>>,
           mixed |-> <<[form |-> "path", paths |-> {2}], [form |-> "anchor"],
                       [form |-> "name", name |-> "x.png", stem |-> "x"], [form |-> "web"]>>]
MCTokens == [binary |-> {}, hub |-> {"alpha", "beta"}, mixed |-> {"alpha"}]
MCHolds == [binary |-> {}, hub |-> {"alpha", "beta", "et"}, mixed |-> {"alpha", "et"}]
MCQueries == {{"alpha"}, {"alpha", "beta"}, {"et"}, {"beta", "et"}}
MCTexts == DOMAIN MCRefs
MCTagsOf == [binary |-> {}, hub |-> {1}, mixed |-> {1, 2}]
MCScore == [pair \in MCTexts \X MCTexts |->
              IF pair[1] = pair[2] THEN 100 ELSE IF "binary" \in {pair[1], pair[2]} THEN 90 ELSE 50]

MCStarts == {<<Missing, "hub", "mixed", Missing>>}

Ask == [scope |-> "global", root |-> 0, depth |-> 0, direction |-> "both", tag |-> 0,
        broken |-> TRUE, semantic |-> TRUE, limit |-> 9]
MCRequests ==
  {Ask, [Ask EXCEPT !.limit = 0],
   [Ask EXCEPT !.limit = 2, !.broken = FALSE], [Ask EXCEPT !.scope = "tag", !.tag = 1, !.limit = 2]}
    \cup {[Ask EXCEPT !.scope = "local", !.root = 2, !.depth = 2, !.semantic = FALSE,
                      !.direction = d] : d \in {"both", "outgoing", "incoming"}}
    \cup {[Ask EXCEPT !.scope = "local", !.root = p, !.depth = 1, !.tag = 1, !.limit = 2] :
            p \in {1, 3}}
=============================================================================
