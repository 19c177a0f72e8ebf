------------------------------ MODULE MCSurfaces ------------------------------
(* What agents and people reach the program through, and the scripts of two   *)
(* skills, on one small instance each.  They share no state with each other,  *)
(* so a behaviour is a behaviour of one of them: the others stay in one of    *)
(* their initial states.                                                      *)
EXTENDS McpServer, Console, Artifacts, Redlines, Comments, Slides, TLC

CONSTANTS q1, q2, k1, k2, a, b, c, t1, t2,    \* McpServer
          u1, u2, l1, l2, a1, a2, w1, w2, \* Console
          r1, r2, f1                          \* Artifacts

VARIABLE part

surfaceVars == <<mcpVars, consoleVars, artifactVars, redlineVars, commentVars, slideVars>>

-----------------------------------------------------------------------------
(* McpServer: both keys and the connections a and b belong to one tenant.     *)
OneTenant == [o \in Keys \cup MConns |-> IF o = c THEN t2 ELSE t1]
InOrder == [o \in MConns |-> CASE o = a -> 1 [] o = b -> 2 [] o = c -> 3]
AllOrOne == {All, {b}}

(* Artifacts: both executions run the same skill.                             *)
SameSkill == [r \in Jobs |-> "pdf"]

-----------------------------------------------------------------------------
(* Redlines: documents that hold another author's changes.                    *)
Run(text, tag, within) == [text |-> text, tag |-> tag, within |-> within]
Foreign(kind, id) == Change(kind, "other", id)

Originals1 ==
  <<<<Run("a", "t", <<>>), Run("b", "t", <<Foreign("ins", 0)>>), Run("c", "t", <<Foreign("ins", 0)>>),
      Run("d", "delText", <<Foreign("del", 1)>>)>>,
    <<Run("e", "t", <<>>)>>>>
Originals2 ==
  <<<<Run("a", "t", <<Foreign("ins", 0)>>), Run("b", "delText", <<Foreign("ins", 0), Foreign("del", 1)>>),
      Run("c", "t", <<>>)>>>>
SomeOriginals == {Originals1, Originals2}

-----------------------------------------------------------------------------
(* Comments: a package without comments, one with two, a reply to the other,   *)
(* and one whose comments have no companion parts.                             *)
Markers(ids) == FlattenSeq([i \in 1..2 |->
  IF i \in ids THEN <<Marker("start", i - 1), Marker("text", 0), Marker("end", i - 1), Marker("ref", i - 1)>>
               ELSE <<Marker("text", 0)>>])
Uncommented == [parts |-> {"styles"}, rels |-> {[id |-> 2, target |-> "styles"]}, types |-> {"styles"},
            comments |-> {}, extended |-> {}, marks |-> Markers({})]
WithComments ==
  [parts |-> {"styles"} \cup CommentParts, types |-> {"styles"} \cup CommentParts,
   rels |-> {[id |-> 1, target |-> "styles"], [id |-> 3, target |-> "comments"],
             [id |-> 4, target |-> "commentsExtended"], [id |-> 5, target |-> "commentsIds"],
             [id |-> 6, target |-> "commentsExtensible"]},
   comments |-> {[id |-> 0, para |-> 1], [id |-> 1, para |-> 0]},
   extended |-> {[para |-> 1, parent |-> NoParent]},
   marks |-> Markers({1, 2})]
LegacyPackage == [WithComments EXCEPT !.parts = {"styles", "comments"}, !.types = {"styles", "comments"}, !.extended = {},
                            !.rels = {r \in @ : r.target \in {"styles", "comments"}}]
SomeParts == {"styles", "people"} \cup CommentParts
SomePackages == {Uncommented, WithComments, LegacyPackage}

-----------------------------------------------------------------------------
(* Slides: shapes that overflow, are grouped, and pictures.                    *)
LineText(n) == [lines |-> n, digits |-> FALSE, bullet |-> FALSE]
Body(left, top, groups, n, room) ==
  [kind |-> "body", left |-> left, top |-> top, groups |-> groups, text |-> LineText(n), room |-> room, blip |-> 0]
Picture(blip) == [kind |-> "picture", left |-> 0, top |-> 0, groups |-> <<>>, text |-> Blank, room |-> 0, blip |-> blip]
Related(ids) == [n \in {1} \cup ids |-> IF n = 1 THEN Layout ELSE [type |-> "image", target |-> n]]
SomeTemplates ==
  {<<[shapes |-> <<Body(4, 3, <<>>, 1, 1), Body(0, 0, <<[left |-> 1, top |-> 4]>>, 2, 1), Picture(2), Picture(4)>>,
      rels |-> Related({2, 4})],
     [shapes |-> <<Body(0, 0, <<>>, 1, 2), [Body(0, 0, <<>>, 1, 1) EXCEPT !.kind = "number"]>>, rels |-> Related({})],
     [shapes |-> <<Picture(3), Picture(3)>>, rels |-> Related({2, 3})]>>}
SomeTexts == {LineText(1), LineText(2), [LineText(1) EXCEPT !.bullet = TRUE]}
SomeKeys == {0, 1} \X {0, 1}

-----------------------------------------------------------------------------
Parts == {"mcp", "console", "artifacts", "redlines", "comments", "slides"}

\* One initial state for the parts that stay.
Of(name, pinned) == part = name \/ pinned

Init ==
  /\ part \in Parts
  /\ McpInit
  /\ ConsoleInit
  /\ ArtifactsInit
  /\ RedlinesInit /\ Of("redlines", original = Originals1)
  /\ CommentsInit /\ Of("comments", stored = Uncommented)
  /\ SlidesInit   /\ Of("slides", sequence = <<0>>)

Next ==
  /\ UNCHANGED part
  /\ \/ part = "mcp" /\ McpNext
       /\ UNCHANGED <<consoleVars, artifactVars, redlineVars, commentVars, slideVars>>
     \/ part = "console" /\ ConsoleNext
       /\ UNCHANGED <<mcpVars, artifactVars, redlineVars, commentVars, slideVars>>
     \/ part = "artifacts" /\ ArtifactsNext
       /\ UNCHANGED <<mcpVars, consoleVars, redlineVars, commentVars, slideVars>>
     \/ part = "redlines" /\ RedlinesNext
       /\ UNCHANGED <<mcpVars, consoleVars, artifactVars, commentVars, slideVars>>
     \/ part = "comments" /\ CommentsNext
       /\ UNCHANGED <<mcpVars, consoleVars, artifactVars, redlineVars, slideVars>>
     \/ part = "slides" /\ SlidesNext
       /\ UNCHANGED <<mcpVars, consoleVars, artifactVars, redlineVars, commentVars>>

Spec == Init /\ [][Next]_<<surfaceVars, part>>

Symmetric == Permutations(Requests) \cup Permutations(Keys)

=============================================================================
