-------------------------------- MODULE Comments --------------------------------
(***************************************************************************)
(* Comments in a Word package, as the docx skill writes them                  *)
(* (skills/builtins/docx/scripts/document.py, utilities.py): four parts of      *)
(* their own, markers in document.xml, relationships and content types.         *)
(* A session opens a copy of the package, edits it, and is validated when it      *)
(* saves (skills/builtins/docx/ooxml/scripts/validation/base.py); packages are     *)
(* opened again by later sessions.                                            *)
(***************************************************************************)
EXTENDS Integers, Sequences, FiniteSets, SequencesExt, FiniteSetsExt

CONSTANTS
  Packages,    \* packages to begin with
  PartNames,   \* names a part may have
  MaxComments, \* bound on the comments of a package
  MaxSessions, \* bound on the sessions
  NoParent     \* a comment that is no reply

CommentParts == {"comments", "commentsExtended", "commentsIds", "commentsExtensible"}

ASSUME CommentsAssumption ==
  /\ MaxComments \in Nat /\ MaxSessions \in Nat
  /\ CommentParts \cup {"people"} \subseteq PartNames

VARIABLES
  stored,    \* the package on disk
  session,   \* the open Document
  sessions,  \* how many were opened
  minted,    \* paragraph ids handed out; random and never equal here
  refused    \* a save of this session failed validation

commentVars == <<stored, session, sessions, minted, refused>>

(* A package: its parts, the relationships of document.xml, the parts declared in *)
(* [Content_Types].xml, comments.xml, commentsExtended.xml, and the markers of     *)
(* document.xml in order.                                                     *)
Package ==
  [parts : SUBSET PartNames, rels : SUBSET [id : Nat, target : PartNames], types : SUBSET PartNames,
   comments : SUBSET [id : Nat, para : Nat],
   extended : SUBSET [para : Nat, parent : Nat \cup {NoParent}],
   marks : Seq([kind : {"start", "end", "ref", "text"}, id : Nat])]

Closed == [open |-> FALSE]

Marker(kind, id) == [kind |-> kind, id |-> id]

CommentsInit ==
  /\ stored \in Packages
  /\ session = Closed
  /\ sessions = 0
  /\ minted = Cardinality(stored.comments)
  /\ refused = FALSE

\* get_next_rid
NextRid(pkg) == Max({0} \cup {r.id : r \in pkg.rels}) + 1

HasRelationship(pkg, part) == \E r \in pkg.rels : r.target = part

Relate(pkg, part) ==
  [pkg EXCEPT !.rels = @ \cup {[id |-> NextRid(pkg), target |-> part]}]

\* _setup_tracking, _add_author_to_people
WithPeople(pkg) ==
  LET related == IF HasRelationship(pkg, "people") THEN pkg ELSE Relate(pkg, "people")
  IN [related EXCEPT !.parts = @ \cup {"people"}, !.types = @ \cup {"people"}]

\* _load_existing_comments: comments whose paragraph has an id.
ExistingComments(pkg) == {c \in pkg.comments : c.para # 0}

\* Mutant: comments without a paragraph id are not counted.
NextCommentIdOfExisting(pkg) == Max({-1} \cup {c.id : c \in ExistingComments(pkg)}) + 1

\* _get_next_comment_id
NextCommentId(pkg) == Max({-1} \cup {c.id : c \in pkg.comments}) + 1

(* Document(...): a copy of the package.                                     *)
Open ==
  /\ ~session.open
  /\ sessions < MaxSessions
  /\ session' = [open |-> TRUE, pkg |-> WithPeople(stored),
                 existing |-> ExistingComments(stored), next |-> NextCommentId(stored)]
  /\ sessions' = sessions + 1
  /\ refused' = FALSE
  /\ UNCHANGED <<stored, minted>>

\* _add_to_comments_xml, _add_to_comments_extended_xml, _add_to_comments_ids_xml
\* and _add_to_comments_extensible_xml, with the markers of the new comment.
WithComment(pkg, c, parent, marks) ==
  [pkg EXCEPT !.parts = @ \cup CommentParts,
              !.comments = @ \cup {c},
              !.extended = @ \cup {[para |-> c.para, parent |-> parent]},
              !.marks = marks]

NewComment == [id |-> session.next, para |-> minted + 1]

Commented(parent, marks) ==
  /\ session' = [session EXCEPT !.pkg = WithComment(session.pkg, NewComment, parent, marks),
                                !.existing = session.existing \cup {NewComment},
                                !.next = session.next + 1]
  /\ minted' = minted + 1
  /\ UNCHANGED <<stored, sessions, refused>>

Room == session.open /\ Cardinality(session.pkg.comments) < MaxComments

(* add_comment from the element at i to the element at j.                    *)
AddComment(i, j) ==
  /\ Room
  /\ LET m == session.pkg.marks  id == session.next IN
     /\ i \in DOMAIN m /\ j \in DOMAIN m /\ i <= j
     /\ m[i].kind = "text" /\ m[j].kind = "text"
     /\ Commented(NoParent,
          SubSeq(m, 1, i - 1) \o <<Marker("start", id)>> \o SubSeq(m, i, j)
            \o <<Marker("end", id), Marker("ref", id)>> \o SubSeq(m, j + 1, Len(m)))

\* get_node, which insists on exactly one match.
Found(m, kind, id) == {i \in DOMAIN m : m[i] = Marker(kind, id)}

(* reply_to_comment: the range starts after the start of the parent's; its end  *)
(* and its reference are inserted, in turn, after the parent's reference.       *)
ReplyTo(parent) ==
  /\ Room
  /\ parent \in session.existing
  /\ LET m == session.pkg.marks
         id == session.next
     IN \E s \in Found(m, "start", parent.id), r \in Found(m, "ref", parent.id) :
          /\ Cardinality(Found(m, "start", parent.id)) = 1
          /\ Cardinality(Found(m, "ref", parent.id)) = 1
          /\ Commented(parent.para,
               SubSeq(m, 1, s) \o <<Marker("start", id)>> \o SubSeq(m, s + 1, r)
                 \o <<Marker("ref", id), Marker("end", id)>> \o SubSeq(m, r + 1, Len(m)))

\* _ensure_comment_relationships, _ensure_comment_content_types: all four
\* parts, or none when comments.xml is there already.
Ensured(pkg) ==
  LET n == NextRid(pkg)
      rels == {[id |-> n, target |-> "comments"], [id |-> n + 1, target |-> "commentsExtended"],
               [id |-> n + 2, target |-> "commentsIds"], [id |-> n + 3, target |-> "commentsExtensible"]}
  IN IF "comments" \notin pkg.parts THEN pkg
     ELSE [pkg EXCEPT !.rels = @ \cup IF HasRelationship(pkg, "comments") THEN {} ELSE rels,
                      !.types = @ \cup IF "comments" \in pkg.types THEN {} ELSE CommentParts]

\* validate_file_references: every part is referenced, every reference found.
FilesReferenced(pkg) == {r.target : r \in pkg.rels} = pkg.parts

\* validate_unique_ids: comments in their file, range markers in theirs.
IdsUnique(pkg) ==
  /\ \A c, d \in pkg.comments : c.id = d.id => c = d
  /\ \A i, j \in DOMAIN pkg.marks :
       pkg.marks[i].kind \in {"start", "end"} /\ pkg.marks[i] = pkg.marks[j] => i = j

\* validate_all_relationship_ids
RidsUnique(pkg) == \A r, s \in pkg.rels : r.id = s.id => r = s

\* Document.save: written, validated, and copied over the package on disk.
Save ==
  /\ session.open
  /\ LET pkg == Ensured(session.pkg)
         valid == FilesReferenced(pkg) /\ IdsUnique(pkg) /\ RidsUnique(pkg)
     IN /\ stored' = IF valid THEN pkg ELSE stored
        /\ refused' = ~valid
        /\ session' = [session EXCEPT !.pkg = pkg]
  /\ UNCHANGED <<sessions, minted>>

(* __del__: the copy goes away.                                              *)
Leave == /\ session.open
         /\ session' = Closed
         /\ UNCHANGED <<stored, sessions, minted, refused>>

CommentsNext ==
  \/ Open \/ Save \/ Leave
  \/ \E i, j \in 1..(3 * MaxComments + 2) : AddComment(i, j)
  \/ session.open /\ \E c \in session.existing : ReplyTo(c)

-----------------------------------------------------------------------------
(* What a package other programs wrote is taken to be: comments.xml numbers its  *)
(* comments, each has its range and reference in document.xml and no range or      *)
(* reference is left of a comment that went, replies name a comment, and the      *)
(* package passes the validation of a save.                                   *)

\* One range and one reference for each comment, the start of the range first.
Anchored(pkg) ==
  \A c \in pkg.comments :
    /\ \A kind \in {"start", "end", "ref"} : Cardinality(Found(pkg.marks, kind, c.id)) = 1
    /\ \A s \in Found(pkg.marks, "start", c.id) :
         \A e \in Found(pkg.marks, "end", c.id) \cup Found(pkg.marks, "ref", c.id) : s < e

RepliesNamed(pkg) ==
  \A e \in pkg.extended : e.parent # NoParent => \E c \in pkg.comments : c.para = e.parent

\* No range and no reference of a comment that is not there.
NoneStray(pkg) ==
  \A i \in DOMAIN pkg.marks :
    pkg.marks[i].kind # "text" => \E c \in pkg.comments : c.id = pkg.marks[i].id

WellFormed(pkg) ==
  /\ pkg \in Package
  /\ IsFiniteSet(pkg.rels) /\ IsFiniteSet(pkg.comments)
  /\ Anchored(pkg) /\ RepliesNamed(pkg) /\ NoneStray(pkg)
  /\ FilesReferenced(pkg) /\ IdsUnique(pkg) /\ RidsUnique(pkg)

ASSUME PackagesAssumption == \A pkg \in Packages : WellFormed(pkg)

CommentsSpec == CommentsInit /\ [][CommentsNext]_commentVars

\* comments.xml came without its companions, as older writers leave it.
Legacy(pkg) == "comments" \in pkg.parts /\ ~(CommentParts \subseteq pkg.parts)

(* Over any number of sessions, a package that had all comment parts or none is   *)
(* never refused, and what is saved hangs together: ids are unique, every comment   *)
(* added has one range and one reference in the document with the start of the      *)
(* range first, and replies name the paragraph of a comment that is there.  For a   *)
(* legacy package the companions are written but never related, and the save is     *)
(* refused (_ensure_comment_relationships).                                    *)
CommentsHangTogether ==
  /\ refused => Legacy(stored)
  /\ Anchored(stored)
  /\ RepliesNamed(stored)

=============================================================================
