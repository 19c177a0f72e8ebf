-------------------------------- MODULE Redlines --------------------------------
(***************************************************************************)
(* Tracked changes in a Word document, as the docx skill edits them           *)
(* (skills/builtins/docx/scripts/document.py) and checks them before a save     *)
(* (skills/builtins/docx/ooxml/scripts/validation: redlining.py, docx.py).      *)
(* A run is its text with the w:ins and w:del elements around it, outermost      *)
(* first; the runs of an element share its w:id.                              *)
(***************************************************************************)
EXTENDS Integers, Sequences, FiniteSets, SequencesExt, FiniteSetsExt

CONSTANTS
  Originals,  \* documents to begin with: sequences of paragraphs, each of runs
  Author,     \* the author of the session's changes, "Claude"
  NewText,    \* text the session writes
  MaxEdits    \* bound on the edits of a session

ASSUME RedlinesAssumption == MaxEdits \in Nat

VARIABLES
  original,  \* the document the session opened
  body,      \* the document as edited
  edits,     \* how many edits were made
  untracked, \* some text was changed without a tracked change
  nested,    \* an insertion was rejected that held a deletion
  saved      \* "open", "saved" or "refused"

redlineVars == <<original, body, edits, untracked, nested, saved>>

Change(kind, author, id) == [kind |-> kind, author |-> author, id |-> id]

Plain(text) == [text |-> text, tag |-> "t", within |-> <<>>]

Runs(doc) == UNION {ToSet(doc[p]) : p \in DOMAIN doc}

Changes(doc) == UNION {ToSet(r.within) : r \in Runs(doc)}

\* _get_next_change_id
NextChangeId(doc) == Max({-1} \cup {c.id : c \in Changes(doc)}) + 1

\* The entries of s at the positions S, in order: SelectSeq, told by positions
\* and without recursion.  The n-th has n - 1 of S before it.
Before(S, i) == {j \in S : j < i}
Selected(s, S) ==
  [n \in 1..Cardinality(S) |-> s[CHOOSE i \in S : Cardinality(Before(S, i)) = n - 1]]

IsSeq(s) == s \in Seq(ToSet(s))

\* What docx.py parses: a list of paragraphs, each a list of runs.
IsRun(r) ==
  /\ DOMAIN r = {"text", "tag", "within"} /\ r.tag \in {"t", "delText"} /\ IsSeq(r.within)

IsDocument(doc) ==
  /\ IsSeq(doc) /\ \A p \in DOMAIN doc : IsSeq(doc[p])
  /\ \A r \in Runs(doc) : IsRun(r)

Deletions(r) == {d \in DOMAIN r.within : r.within[d].kind = "del"}

\* validate_deletions and validate_insertions: in a w:del there is deleted text
\* only, and deleted text in a w:ins is in a w:del as well.
TagsFit(doc) ==
  \A r \in Runs(doc) :
    /\ Deletions(r) # {} => r.tag = "delText"
    /\ r.tag = "delText" /\ (\E d \in DOMAIN r.within : r.within[d].kind = "ins") => Deletions(r) # {}

\* Documents as Word writes them: deleted text is in a w:del, and in one only.
DeletedOnce(doc) ==
  \A r \in Runs(doc) : /\ r.tag = "delText" <=> Deletions(r) # {}
                       /\ \A d, e \in Deletions(r) : d = e

ASSUME OriginalsAssumption ==
  \A doc \in Originals : IsDocument(doc) /\ DeletedOnce(doc)

RedlinesInit ==
  /\ original \in Originals
  /\ body = original
  /\ edits = 0
  /\ untracked = FALSE /\ nested = FALSE
  /\ saved = "open"

Editable == edits < MaxEdits /\ saved = "open"

Edited(doc) == body' = doc /\ edits' = edits + 1 /\ UNCHANGED <<original, saved>>

\* How deep the element c lies around run r.
DepthOf(r, c) == CHOOSE d \in DOMAIN r.within : r.within[d] = c

Around(r, c) == c \in ToSet(r.within)

(* revert_insertion: what the w:ins holds is wrapped in a w:del of the          *)
(* session, other authors' deletions included.                                *)
RevertInsertion(c) ==
  /\ Editable
  /\ c.kind = "ins"
  /\ LET del == Change("del", Author, NextChangeId(body))
         wrap(r) == IF ~Around(r, c) THEN r
                    ELSE [r EXCEPT !.tag = "delText",
                                   !.within = InsertAt(r.within, DepthOf(r, c) + 1, del)]
     IN Edited([p \in DOMAIN body |-> [i \in DOMAIN body[p] |-> wrap(body[p][i])]])
  /\ nested' = (nested \/ \E r \in Runs(body) : Around(r, c) /\ r.tag = "delText")
  /\ UNCHANGED untracked

\* The runs of paragraph p inside the element c.
InsideOf(p, c) == {i \in DOMAIN body[p] : Around(body[p][i], c)}
Inside(p, c) == Selected(body[p], InsideOf(p, c))

\* Mutant: the deleted runs themselves are moved out of the w:del.
RevertDeletionMoving(c) ==
  /\ Editable
  /\ c.kind = "del"
  /\ Edited([p \in DOMAIN body |-> [i \in DOMAIN body[p] |->
       IF Around(body[p][i], c)
       THEN [body[p][i] EXCEPT !.tag = "t",
                !.within = SubSeq(body[p][i].within, 1, DepthOf(body[p][i], c) - 1)]
       ELSE body[p][i]]])
  /\ UNCHANGED <<untracked, nested>>

(* revert_deletion: a copy of the deleted runs, inside a w:ins of the session,   *)
(* right after the w:del.                                                     *)
RevertDeletion(c) ==
  /\ Editable
  /\ c.kind = "del"
  /\ LET ins == Change("ins", Author, NextChangeId(body))
         copy(r) == [text |-> r.text, tag |-> "t",
                     within |-> Append(SubSeq(r.within, 1, DepthOf(r, c) - 1), ins)]
         copies(p) == [i \in DOMAIN Inside(p, c) |-> copy(Inside(p, c)[i])]
         restored(p) ==
           LET last == Max(InsideOf(p, c))
           IN SubSeq(body[p], 1, last) \o copies(p) \o SubSeq(body[p], last + 1, Len(body[p]))
     IN Edited([p \in DOMAIN body |-> IF InsideOf(p, c) = {} THEN body[p] ELSE restored(p)])
  /\ UNCHANGED <<untracked, nested>>

Deleted(r, id) == [r EXCEPT !.tag = "delText", !.within = Append(@, Change("del", Author, id))]

(* suggest_deletion of a run, which may lie inside an insertion.              *)
SuggestRunDeletion(p, i) ==
  /\ Editable
  /\ body[p][i].tag = "t"
  /\ Edited([body EXCEPT ![p][i] = Deleted(body[p][i], NextChangeId(body))])
  /\ UNCHANGED <<untracked, nested>>

(* suggest_deletion of a paragraph, refused when it has tracked changes.      *)
SuggestParagraphDeletion(p) ==
  /\ Editable
  /\ \A i \in DOMAIN body[p] : body[p][i].within = <<>>
  /\ Edited([body EXCEPT ![p] = [i \in DOMAIN body[p] |-> Deleted(body[p][i], NextChangeId(body))]])
  /\ UNCHANGED <<untracked, nested>>

NewRun == [Plain(NewText) EXCEPT !.within = <<Change("ins", Author, NextChangeId(body))>>]

(* suggest_paragraph and insert_after: a new paragraph, all of it inserted.   *)
SuggestParagraph(p) ==
  /\ Editable
  /\ Edited(InsertAt(body, p + 1, <<NewRun>>))
  /\ UNCHANGED <<untracked, nested>>

(* insert_before an element that no change encloses, with a w:ins.            *)
InsertTracked(p, i) ==
  /\ Editable
  /\ body[p][i].within = <<>>
  /\ Edited([body EXCEPT ![p] = InsertAt(body[p], i, NewRun)])
  /\ UNCHANGED <<untracked, nested>>

(* replace_node with other text and no tracked change.                       *)
EditText(p, i) ==
  /\ Editable
  /\ body[p][i].text # NewText
  /\ Edited([body EXCEPT ![p][i].text = NewText])
  /\ untracked' = TRUE
  /\ UNCHANGED nested

-----------------------------------------------------------------------------
By(r, kind) == \E c \in ToSet(r.within) : c.kind = kind /\ c.author = Author

\* _remove_claude_tracked_changes and _extract_text_content: what the author
\* inserted is gone, all text of what the author deleted is back, other
\* deletions do not count, and paragraphs without text are skipped.
Counts(r) == ~By(r, "ins") /\ (r.tag = "t" \/ By(r, "del"))
Counting(runs) == {i \in DOMAIN runs : Counts(runs[i])}
ParagraphText(runs) == Selected([i \in DOMAIN runs |-> runs[i].text], Counting(runs))
TextWithout(doc) ==
  Selected([p \in DOMAIN doc |-> ParagraphText(doc[p])], {p \in DOMAIN doc : Counting(doc[p]) # {}})

\* RedliningValidator.validate: without a change of the author nothing is
\* compared.
Redlined(doc) ==
  (\E r \in Runs(doc) : By(r, "ins") \/ By(r, "del")) => TextWithout(doc) = TextWithout(original)

(* Document.save.                                                           *)
SaveTracked ==
  /\ saved = "open"
  /\ saved' = IF TagsFit(body) /\ Redlined(body) THEN "saved" ELSE "refused"
  /\ UNCHANGED <<original, body, edits, untracked, nested>>

RedlinesNext ==
  \/ \E c \in Changes(body) : RevertInsertion(c) \/ RevertDeletion(c)
  \/ \E p \in DOMAIN body : \/ SuggestParagraphDeletion(p) \/ SuggestParagraph(p)
                            \/ \E i \in DOMAIN body[p] : \/ SuggestRunDeletion(p, i)
                                                         \/ InsertTracked(p, i) \/ EditText(p, i)
  \/ SaveTracked

RedlinesSpec == RedlinesInit /\ [][RedlinesNext]_redlineVars

-----------------------------------------------------------------------------
(* Tracked edits never make a document that cannot be saved: in whatever order   *)
(* insertions and deletions of others are rejected, runs and paragraphs deleted   *)
(* and inserted, taking the session's changes away gives the original text        *)
(* again, and deleted text is where it belongs.  Excepted is the rejection of an   *)
(* insertion from which something had been deleted before: the w:del goes around    *)
(* that deletion too, and the validator puts both back (redlining.py:240-243).    *)
TrackedEditsValidate == ~untracked /\ ~nested => saved # "refused"

=============================================================================
