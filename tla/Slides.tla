--------------------------------- MODULE Slides ---------------------------------
(***************************************************************************)
(* The pptx skill's scripts (skills/builtins/pptx/scripts): rearrange.py makes   *)
(* a deck of the slides a sequence names, in three passes over one list of        *)
(* positions; replace.py puts texts into the shapes inventory.py numbered, and    *)
(* refuses a deck whose texts overflow more than before.                       *)
(* Positions are 0-based as in the scripts, in quarter inches; a text is the       *)
(* number of lines it wraps to, a shape has room for some.                     *)
(***************************************************************************)
EXTENDS Integers, Sequences, FiniteSets, SequencesExt, FiniteSetsExt

CONSTANTS
  Templates,    \* decks to begin with
  MaxSequence,  \* bound on the length of the slide sequence
  Texts,        \* replacement texts
  ShapeKeys          \* <<slide, shape>> keys a replacement file may hold

Text == [lines : Nat, digits : BOOLEAN, bullet : BOOLEAN]

Shape == [kind : {"body", "footer", "number", "picture"}, left : Int, top : Int,
          groups : Seq([left : Int, top : Int]), text : Text, room : Nat, blip : Nat]

ASSUME SlidesAssumption == MaxSequence \in Nat \ {0} /\ Texts \subseteq Text

VARIABLES
  template,   \* the deck the sequence refers to
  sequence,   \* the slides wanted
  deck,       \* the presentation as it is rebuilt
  slideMap,   \* slide_map
  duplicated, \* duplicated: slide -> positions of its unused copies
  step,       \* loop counter of the running pass
  phase,      \* the pass, or how the scripts ended
  output      \* the deck replace.py saved

slideVars == <<template, sequence, deck, slideMap, duplicated, step, phase, output>>

\* Relationships of a slide part: relationship id -> [type, target].
Layout == [type |-> "layout", target |-> 0]

RelIds(rels, rel) == {n \in DOMAIN rels : rels[n] = rel}

ImageIds(rels) == {n \in DOMAIN rels : rels[n].type = "image"}

Images(source) == {source.rels[n] : n \in ImageIds(source.rels)}

\* When duplicate_slide asks for an image: by the shapes that embed it, in order,
\* and once more by each of its relationships, after all shapes.
Uses(source, image) ==
  {i \in DOMAIN source.shapes : /\ source.shapes[i].blip \in ImageIds(source.rels)
                                /\ source.rels[source.shapes[i].blip] = image}
  \cup {Len(source.shapes) + n : n \in RelIds(source.rels, image)}

Earlier(source, image) ==
  {other \in Images(source) : Min(Uses(source, other)) < Min(Uses(source, image))}

\* The copy's relationships: its layout and the source's images, which
\* rels.get_or_add numbers by their first use.
CopiedRels(source) ==
  [n \in 1..(Cardinality(Images(source)) + 1) |->
     IF n = 1 THEN Layout
     ELSE CHOOSE image \in Images(source) : Cardinality(Earlier(source, image)) = n - 2]

\* Mutant: the copy keeps the source's relationship ids.
DuplicateSlideSameIds(source) == [source EXCEPT !.rels = CopiedRels(source)]

\* duplicate_slide: the shapes with their image references remapped.
DuplicateSlide(source) ==
  LET rels == CopiedRels(source)
      Remapped(s) == IF s.blip \in ImageIds(source.rels)
                     THEN [s EXCEPT !.blip = CHOOSE n \in RelIds(rels, source.rels[s.blip]) : TRUE]
                     ELSE s
  IN [shapes |-> [i \in DOMAIN source.shapes |-> Remapped(source.shapes[i])], rels |-> rels]

\* A slide of a template: the picture a shape embeds is one of its images, 0 is none.
IsSlide(slide) ==
  /\ DOMAIN slide = {"shapes", "rels"} /\ slide.shapes \in Seq(Shape)
  /\ DOMAIN slide.rels \subseteq Nat \ {0} /\ IsFiniteSet(DOMAIN slide.rels)
  /\ \A i \in DOMAIN slide.shapes : slide.shapes[i].blip \in {0} \cup ImageIds(slide.rels)

ASSUME TemplatesAssumption ==
  \A slides \in Templates : /\ slides \in Seq(Range(slides))
                            /\ \A t \in DOMAIN slides : IsSlide(slides[t])

SlidesInit ==
  /\ template \in Templates
  /\ sequence \in UNION {[1..n -> 0..Len(template)] : n \in 1..MaxSequence}
  /\ deck = template /\ output = <<>>
  /\ slideMap = <<>> /\ duplicated = [t \in {} |-> <<>>]
  /\ step = 0 /\ phase = "check"

Count(t) == Cardinality({i \in DOMAIN sequence : sequence[i] = t})

\* rearrange_presentation: every index is checked before any slide is touched.
CheckIndices ==
  /\ phase = "check"
  /\ phase' = IF \E i \in DOMAIN sequence : sequence[i] >= Len(deck) THEN "rejected" ELSE "duplicate"
  /\ UNCHANGED <<template, sequence, deck, slideMap, duplicated, step, output>>

(* Step 1: the first occurrence of a repeated slide makes all its copies at the   *)
(* end of the deck, and later occurrences take them in turn.                    *)
DuplicateStep ==
  /\ phase = "duplicate" /\ step < Len(sequence)
  /\ LET t == sequence[step + 1]
         waiting == t \in DOMAIN duplicated /\ duplicated[t] # <<>>
         first == t \notin DOMAIN duplicated /\ Count(t) > 1
         copies == [c \in 1..(Count(t) - 1) |-> DuplicateSlide(deck[t + 1])]
     IN /\ slideMap' = Append(slideMap, IF waiting THEN Head(duplicated[t]) ELSE t)
        /\ duplicated' = IF waiting THEN [duplicated EXCEPT ![t] = Tail(@)]
                         ELSE IF first
                         THEN [s \in DOMAIN duplicated \cup {t} |->
                                 IF s = t THEN [c \in 1..(Count(t) - 1) |-> Len(deck) + c - 1]
                                 ELSE duplicated[s]]
                         ELSE duplicated
        /\ deck' = IF first THEN deck \o copies ELSE deck
  /\ step' = step + 1
  /\ UNCHANGED <<template, sequence, phase, output>>

StartDeleting ==
  /\ phase = "duplicate" /\ step = Len(sequence)
  /\ phase' = "delete" /\ step' = Len(deck) - 1
  /\ UNCHANGED <<template, sequence, deck, slideMap, duplicated, output>>

\* slide_map after the slide at i is gone.
MapWithout(i) ==
  [k \in DOMAIN slideMap |-> IF slideMap[k] > i THEN slideMap[k] - 1 ELSE slideMap[k]]

\* delete_slide
DeleteSlide(i) == RemoveAt(deck, i + 1)

(* Step 2: from the last slide to the first, those nobody wants go.  Below the    *)
(* slides already visited the map holds what it held when the pass began.        *)
DeleteStep ==
  /\ phase = "delete" /\ step >= 0
  /\ IF step \in {slideMap[k] : k \in DOMAIN slideMap}
     THEN UNCHANGED <<deck, slideMap>>
     ELSE deck' = DeleteSlide(step) /\ slideMap' = MapWithout(step)
  /\ step' = step - 1
  /\ UNCHANGED <<template, sequence, duplicated, phase, output>>

StartReordering ==
  /\ phase = "delete" /\ step = -1
  /\ phase' = "reorder" /\ step' = 0
  /\ UNCHANGED <<template, sequence, deck, slideMap, duplicated, output>>

\* reorder_slides
Moved(from, to) == InsertAt(RemoveAt(deck, from + 1), to + 1, deck[from + 1])

\* Step 3: the slide wanted at each position is moved there, and the map follows.
ReorderStep ==
  /\ phase = "reorder" /\ step < Len(slideMap)
  /\ LET from == slideMap[step + 1]
         Shifted(p) == IF p > from /\ p <= step THEN p - 1
                       ELSE IF p < from /\ p >= step THEN p + 1 ELSE p
     IN IF from = step THEN UNCHANGED <<deck, slideMap>>
        ELSE /\ deck' = Moved(from, step)
             /\ slideMap' = [k \in DOMAIN slideMap |->
                               IF k = step + 1 THEN step ELSE Shifted(slideMap[k])]
  /\ step' = step + 1
  /\ UNCHANGED <<template, sequence, duplicated, phase, output>>

Arrange ==
  /\ phase = "reorder" /\ step = Len(slideMap)
  /\ phase' = "arranged"
  /\ UNCHANGED <<template, sequence, deck, slideMap, duplicated, step, output>>

-----------------------------------------------------------------------------
\* is_valid_shape
IsValidShape(s) ==
  /\ s.kind # "picture" /\ s.text.lines > 0
  /\ s.kind # "number" /\ ~(s.kind = "footer" /\ s.text.digits)

\* collect_shapes_with_absolute_positions: the offsets of the groups around it.
AbsoluteLeft(s) == FoldLeft(LAMBDA a, g : a + g.left, s.left, s.groups)
AbsoluteTop(s) == FoldLeft(LAMBDA a, g : a + g.top, s.top, s.groups)

RowHeight == 2

Positions(slide) ==
  [i \in DOMAIN slide.shapes |->
     [top |-> AbsoluteTop(slide.shapes[i]), left |-> AbsoluteLeft(slide.shapes[i])]]

LexLess(u, v) == \E k \in DOMAIN u : u[k] < v[k] /\ \A l \in 1..(k - 1) : u[l] = v[l]

ByTop(at, ids) ==
  SortSeq(ids, LAMBDA i, j : LexLess(<<at[i].top, at[i].left, i>>, <<at[j].top, at[j].left, j>>))

ByLeft(at, row) ==
  SortSeq(row, LAMBDA i, j : LexLess(<<at[i].left, at[i].top, i>>, <<at[j].left, at[j].top, j>>))

Rows(at, ids) ==
  FoldLeft(LAMBDA rows, i :
             IF rows # <<>> /\ at[i].top - at[Head(Last(rows))].top <= RowHeight
             THEN Append(Front(rows), Append(Last(rows), i))
             ELSE Append(rows, <<i>>), <<>>, ByTop(at, ids))

InRows(at, ids) == FoldLeft(LAMBDA sorted, row : sorted \o ByLeft(at, row), <<>>, Rows(at, ids))

(* sort_shapes_by_position: by top and left, then rows within half an inch of     *)
(* their first shape, each by left; sorts are stable.  The result is the           *)
(* inventory of a slide: shape-k is the shape at its k+1st element.             *)
Inventory(slide) ==
  InRows(Positions(slide),
         SelectSeq([i \in DOMAIN slide.shapes |-> i], LAMBDA i : IsValidShape(slide.shapes[i])))

\* _estimate_frame_overflow
Overflow(s) == IF s.text.lines > s.room THEN s.text.lines - s.room ELSE 0

Blank == [lines |-> 0, digits |-> FALSE, bullet |-> FALSE]

\* detect_frame_overflow, shape_overflows.get(key, 0.0)
OverflowAt(slide, k) ==
  LET ids == Inventory(slide) IN IF k \in DOMAIN ids THEN Overflow(slide.shapes[ids[k]]) ELSE 0

\* validate_replacements
KeysKnown(replacements) ==
  \A key \in DOMAIN replacements :
    key[1] < Len(deck) /\ key[2] < Len(Inventory(deck[key[1] + 1]))

\* Every shape of the inventory is cleared, and filled if it has a replacement.
Filled(replacements, n) ==
  LET slide == deck[n]
      ids == Inventory(slide)
      TextOf(k) == IF <<n - 1, k - 1>> \in DOMAIN replacements
                   THEN replacements[<<n - 1, k - 1>>] ELSE Blank
  IN [slide EXCEPT !.shapes = [i \in DOMAIN slide.shapes |->
        IF \E k \in DOMAIN ids : ids[k] = i
        THEN [slide.shapes[i] EXCEPT !.text = TextOf(CHOOSE k \in DOMAIN ids : ids[k] = i)]
        ELSE slide.shapes[i]]]

\* Mutant: a shape that did not overflow before is not compared.
WorsenedIfOverflowing(before, after) ==
  \E k \in DOMAIN Inventory(after) :
    OverflowAt(before, k) > 0 /\ OverflowAt(after, k) > OverflowAt(before, k)

\* The comparison goes by the ids of the two inventories.
Worsened(before, after) ==
  \E k \in DOMAIN Inventory(after) : OverflowAt(after, k) > OverflowAt(before, k)

\* ShapeData.warnings: a bullet typed as text.
Warned(slide) == \E i \in Range(Inventory(slide)) : slide.shapes[i].text.bullet

\* apply_replacements: the replacement file is written from an inventory of the deck.
Replace(replacements) ==
  /\ phase = "arranged"
  /\ LET filled == [n \in DOMAIN deck |-> Filled(replacements, n)]
         accepted == /\ KeysKnown(replacements)
                     /\ \A n \in DOMAIN deck : ~Worsened(deck[n], filled[n]) /\ ~Warned(filled[n])
     IN /\ phase' = IF accepted THEN "saved" ELSE "refused"
        /\ output' = IF accepted THEN filled ELSE <<>>
  /\ UNCHANGED <<template, sequence, deck, slideMap, duplicated, step>>

SlidesNext ==
  \/ CheckIndices \/ DuplicateStep \/ StartDeleting \/ DeleteStep
  \/ StartReordering \/ ReorderStep \/ Arrange
  \/ \E used \in SUBSET ShapeKeys : \E replacements \in [used -> Texts] : Replace(replacements)

SlidesSpec == SlidesInit /\ [][SlidesNext]_slideVars

-----------------------------------------------------------------------------
\* What a slide shows: its shapes, each with the picture its reference leads to.
Shown(slide) ==
  [i \in DOMAIN slide.shapes |->
     [shape |-> [slide.shapes[i] EXCEPT !.blip = 0],
      picture |-> IF slide.shapes[i].blip \in DOMAIN slide.rels
                  THEN slide.rels[slide.shapes[i].blip].target ELSE 0]]

(* However slides repeat, are left out or change places, the deck ends as the     *)
(* sequence said: as many slides, each showing what the template's showed, its      *)
(* pictures included, though a copy's relationships are its own.  Charts and        *)
(* links of a copied slide are not remapped by the script and are left out here.    *)
RearrangedInOrder ==
  phase \in {"arranged", "saved", "refused"} =>
    /\ Len(deck) = Len(sequence)
    /\ \A i \in DOMAIN sequence : Shown(deck[i]) = Shown(template[sequence[i] + 1])

(* A deck replace.py saves has no text that overflows more than the text it          *)
(* replaced, as long as the shapes of its slide kept a text: the script compares     *)
(* the shapes of two inventories by their numbers, and a shape without text is in    *)
(* the first only.                                                             *)
AcceptedNeverWorse ==
  phase = "saved" =>
    \A n \in DOMAIN output :
      Inventory(output[n]) = Inventory(deck[n]) =>
        \A i \in DOMAIN output[n].shapes :
          Overflow(output[n].shapes[i]) <= Overflow(deck[n].shapes[i])

=============================================================================
