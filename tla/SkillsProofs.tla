----------------------------- MODULE SkillsProofs -----------------------------
(***************************************************************************)
(* Proofs about the scripts of the pptx and docx skills, for any documents    *)
(* and any edits: the deck rearrange.py ends with and the overflow of the     *)
(* decks replace.py saves, and that tracked changes leave a Word document     *)
(* the validators accept.                                                    *)
(***************************************************************************)
EXTENDS Slides, Redlines, FiniteSetTheorems, SequenceTheorems, WellFoundedInduction, TLAPS

LEMMA LeastNatural ==
  ASSUME NEW S \in SUBSET Nat, S # {}
  PROVE  \E x \in S : \A y \in S : x <= y
<1>1. PICK x \in S : \A y \in S : ~(<<y, x>> \in OpToRel(<, Nat))
  BY NatLessThanWellFounded, WFMin
<1>2. ASSUME NEW y \in S, y < x
      PROVE  FALSE
  <2>1. <<y, x>> \in Nat \X Nat /\ <<y, x>>[1] < <<y, x>>[2]
    BY <1>2
  <2>2. <<y, x>> \in OpToRel(<, Nat)
    BY <2>1 DEF OpToRel
  <2> QED BY <1>1, <2>2
<1> QED BY <1>2

-----------------------------------------------------------------------------
(* Lists.                                                                      *)
LEMMA Sliced ==
  ASSUME NEW S, NEW m \in Seq(S), NEW c \in Nat, NEW d \in Nat, c <= d, d <= Len(m)
  PROVE  /\ SubSeq(m, c + 1, d) \in Seq(S) /\ Len(SubSeq(m, c + 1, d)) = d - c
         /\ \A i \in 1..(d - c) : SubSeq(m, c + 1, d)[i] = m[c + i]
<1> DEFINE s == SubSeq(m, c + 1, d)
<1>1. \A i \in (c + 1)..d : m[i] \in S
  OBVIOUS
<1>2. c + 1 \in Int /\ d \in Int
  OBVIOUS
<1>3. /\ s \in Seq(S) /\ Len(s) = IF c + 1 <= d THEN d - (c + 1) + 1 ELSE 0
      /\ \A i \in 1..(d - (c + 1) + 1) : s[i] = m[(c + 1) + i - 1]
  BY <1>1, <1>2, SubSeqProperties
<1> HIDE DEF s
<1>4. Len(s) = d - c
  BY <1>3
<1>5. ASSUME NEW i \in 1..(d - c)
      PROVE  s[i] = m[c + i]
  <2>1. (c + 1) + i - 1 = c + i /\ i \in 1..(d - (c + 1) + 1)
    OBVIOUS
  <2> QED BY <1>3, <2>1
<1> QED BY <1>3, <1>4, <1>5 DEF s

JoinOf(w, u, v) ==
  /\ Len(w) = Len(u) + Len(v)
  /\ \A i \in 1..Len(u) : w[i] = u[i]
  /\ \A i \in 1..Len(v) : w[Len(u) + i] = v[i]

LEMMA Joined ==
  ASSUME NEW S, NEW u \in Seq(S), NEW v \in Seq(S)
  PROVE  u \o v \in Seq(S) /\ JoinOf(u \o v, u, v)
<1> DEFINE w == u \o v
           p == Len(u)
           q == Len(v)
<1>0. p \in Nat /\ q \in Nat
  OBVIOUS
<1>1. /\ w \in Seq(S) /\ Len(w) = p + q
      /\ \A i \in 1..p + q : w[i] = IF i <= p THEN u[i] ELSE v[i - p]
  BY ConcatProperties
<1> HIDE DEF w, p, q
<1>2. ASSUME NEW i \in 1..p
      PROVE  w[i] = u[i]
  BY <1>0, <1>1
<1>3. ASSUME NEW i \in 1..q
      PROVE  w[p + i] = v[i]
  <2>1. p + i \in 1..p + q /\ ~(p + i <= p) /\ (p + i) - p = i
    BY <1>0
  <2> QED BY <1>1, <2>1
<1> QED BY <1>1, <1>2, <1>3 DEF w, p, q, JoinOf

LEMMA RemovedAt ==
  ASSUME NEW S, NEW s \in Seq(S), NEW i \in 1..Len(s)
  PROVE  /\ RemoveAt(s, i) \in Seq(S) /\ Len(RemoveAt(s, i)) = Len(s) - 1
         /\ \A j \in 1..(Len(s) - 1) : RemoveAt(s, i)[j] = IF j < i THEN s[j] ELSE s[j + 1]
<1> DEFINE n == Len(s)
           u == SubSeq(s, 1, i - 1)
           v == SubSeq(s, i + 1, n)
           w == u \o v
<1>0. n \in Nat /\ i \in 1..n
  OBVIOUS
<1>1. u \in Seq(S) /\ Len(u) = i - 1 /\ \A j \in 1..(i - 1) : u[j] = s[j]
  <2>1. 0 \in Nat /\ i - 1 \in Nat /\ 0 <= i - 1 /\ i - 1 <= Len(s) /\ 0 + 1 = 1 /\ (i - 1) - 0 = i - 1
        /\ \A j \in 1..(i - 1) : 0 + j = j
    OBVIOUS
  <2> QED BY <2>1, Sliced
<1>2. v \in Seq(S) /\ Len(v) = n - i /\ \A j \in 1..(n - i) : v[j] = s[i + j]
  <2>1. i \in Nat /\ n \in Nat /\ i <= n /\ n <= Len(s)
    OBVIOUS
  <2> QED BY <2>1, Sliced
<1>3. w \in Seq(S) /\ JoinOf(w, u, v)
  <2> HIDE DEF u, v
  <2> QED BY <1>1, <1>2, Joined
<1>4. RemoveAt(s, i) = w
  BY DEF RemoveAt
<1> HIDE DEF u, v, w, n
<1>5. Len(w) = n - 1
  BY <1>0, <1>1, <1>2, <1>3 DEF JoinOf
<1>6. ASSUME NEW j \in 1..(n - 1)
      PROVE  w[j] = IF j < i THEN s[j] ELSE s[j + 1]
  <2>1. CASE j < i
    <3>1. j \in 1..(i - 1)
      BY <1>0, <2>1
    <3> QED BY <1>1, <1>3, <2>1, <3>1 DEF JoinOf
  <2>2. CASE ~(j < i)
    <3> DEFINE h == j - (i - 1)
    <3>1. h \in 1..(n - i) /\ (i - 1) + h = j /\ i + h = j + 1
      BY <1>0, <2>2
    <3> HIDE DEF h
    <3>2. w[Len(u) + h] = v[h]
      BY <1>2, <1>3, <3>1 DEF JoinOf
    <3> QED BY <1>1, <1>2, <2>2, <3>1, <3>2
  <2> QED BY <2>1, <2>2
<1> QED BY <1>3, <1>4, <1>5, <1>6 DEF n

LEMMA InsertedAt ==
  ASSUME NEW S, NEW s \in Seq(S), NEW i \in 1..(Len(s) + 1), NEW e \in S
  PROVE  /\ InsertAt(s, i, e) \in Seq(S) /\ Len(InsertAt(s, i, e)) = Len(s) + 1
         /\ \A j \in 1..(Len(s) + 1) :
              InsertAt(s, i, e)[j] = IF j < i THEN s[j] ELSE IF j = i THEN e ELSE s[j - 1]
<1> DEFINE n == Len(s)
           u == SubSeq(s, 1, i - 1)
           v == SubSeq(s, i, n)
           x == <<e>>
           ux == u \o x
           w == ux \o v
<1>0. n \in Nat /\ i \in 1..(n + 1)
  OBVIOUS
<1>1. u \in Seq(S) /\ Len(u) = i - 1 /\ \A j \in 1..(i - 1) : u[j] = s[j]
  <2>1. 0 \in Nat /\ i - 1 \in Nat /\ 0 <= i - 1 /\ i - 1 <= Len(s) /\ 0 + 1 = 1 /\ (i - 1) - 0 = i - 1
        /\ \A j \in 1..(i - 1) : 0 + j = j
    OBVIOUS
  <2> QED BY <2>1, Sliced
<1>2. v \in Seq(S) /\ Len(v) = n - (i - 1) /\ \A j \in 1..(n - (i - 1)) : v[j] = s[(i - 1) + j]
  <2>1. i - 1 \in Nat /\ n \in Nat /\ i - 1 <= n /\ n <= Len(s) /\ (i - 1) + 1 = i
    OBVIOUS
  <2> HIDE DEF n
  <2> QED BY <2>1, Sliced
<1>3. x \in Seq(S) /\ Len(x) = 1 /\ x[1] = e
  OBVIOUS
<1>4. InsertAt(s, i, e) = w
  BY DEF InsertAt
<1> HIDE DEF u, v, x, n
<1>5. ux \in Seq(S) /\ JoinOf(ux, u, x)
  BY <1>1, <1>3, Joined
<1> HIDE DEF ux
<1>6. w \in Seq(S) /\ JoinOf(w, ux, v)
  BY <1>2, <1>5, Joined
<1> HIDE DEF w
<1>7. Len(ux) = i
  BY <1>0, <1>1, <1>3, <1>5 DEF JoinOf
<1>8. Len(w) = n + 1
  BY <1>0, <1>2, <1>6, <1>7 DEF JoinOf
<1>9. ASSUME NEW j \in 1..(n + 1)
      PROVE  w[j] = IF j < i THEN s[j] ELSE IF j = i THEN e ELSE s[j - 1]
  <2>1. CASE j < i
    <3>1. j \in 1..(i - 1) /\ j \in 1..i
      BY <1>0, <2>1
    <3>2. w[j] = ux[j] /\ ux[j] = u[j]
      BY <1>1, <1>5, <1>6, <1>7, <3>1 DEF JoinOf
    <3> QED BY <1>1, <2>1, <3>1, <3>2
  <2>2. CASE j = i
    <3>1. i \in 1..i /\ (i - 1) + 1 = i /\ 1 \in 1..1
      BY <1>0
    <3>2. w[i] = ux[i] /\ ux[(i - 1) + 1] = x[1]
      BY <1>1, <1>3, <1>5, <1>6, <1>7, <3>1 DEF JoinOf
    <3> QED BY <1>0, <1>3, <2>2, <3>1, <3>2
  <2>3. CASE i < j
    <3> DEFINE h == j - i
    <3>1. h \in 1..(n - (i - 1)) /\ i + h = j /\ (i - 1) + h = j - 1
      BY <1>0, <2>3
    <3> HIDE DEF h
    <3>2. w[i + h] = v[h]
      BY <1>2, <1>6, <1>7, <3>1 DEF JoinOf
    <3>3. w[j] = s[j - 1]
      BY <1>2, <3>1, <3>2
    <3>4. ~(j < i) /\ j # i
      BY <1>0, <2>3
    <3> QED BY <3>3, <3>4
  <2> QED BY <1>0, <2>1, <2>2, <2>3
<1> QED BY <1>4, <1>6, <1>8, <1>9 DEF n

LEMMA EntryOf ==
  ASSUME NEW S, NEW q \in Seq(S), NEW i \in 1..Len(q)
  PROVE  q[i] \in S
OBVIOUS

LEMMA ListOf ==
  ASSUME NEW S, NEW n \in Nat, NEW f \in [1..n -> S]
  PROVE  f \in Seq(S) /\ Len(f) = n
OBVIOUS

-----------------------------------------------------------------------------
(* Copies of slides.  get_or_add numbers the images of the source by their     *)
(* first use, so that each has a relationship of the copy.                     *)
First(source, image) == Min(Uses(source, image))

LEMMA FirstIsUse ==
  ASSUME NEW source, IsSlide(source), NEW image \in Images(source)
  PROVE  First(source, image) \in Uses(source, image) /\ First(source, image) \in Nat
<1> DEFINE S == Uses(source, image)
<1>1. S \in SUBSET Nat
  <2>1. Len(source.shapes) \in Nat /\ DOMAIN source.shapes \subseteq Nat
    BY DEF IsSlide
  <2>2. RelIds(source.rels, image) \subseteq Nat
    BY DEF IsSlide, RelIds
  <2> QED BY <2>1, <2>2 DEF Uses
<1>2. S # {}
  <2>1. RelIds(source.rels, image) # {}
    BY DEF Images, ImageIds, RelIds
  <2> QED BY <2>1 DEF Uses
<1> HIDE DEF S
<1>3. Min(S) \in S
  BY <1>1, <1>2, LeastNatural DEF Min
<1> QED BY <1>1, <1>3 DEF S, First

\* A shape or a relationship uses one image.
LEMMA UsedOnce ==
  ASSUME NEW source, IsSlide(source),
         NEW a \in Images(source), NEW b \in Images(source),
         NEW u \in Uses(source, a), u \in Uses(source, b)
  PROVE  a = b
<1> DEFINE n == Len(source.shapes)
<1>1. n \in Nat /\ DOMAIN source.shapes = 1..n
  BY DEF IsSlide
<1>2. \A image : RelIds(source.rels, image) \subseteq Nat \ {0}
  BY DEF IsSlide, RelIds
<1>3. CASE u \in DOMAIN source.shapes
  <2>1. \A x \in Nat \ {0} : u # n + x
    BY <1>1, <1>3
  <2> QED BY <1>2, <2>1 DEF Uses
<1>4. CASE u \notin DOMAIN source.shapes
  <2>1. PICK x \in RelIds(source.rels, a) : u = n + x
    BY <1>4 DEF Uses
  <2>2. PICK y \in RelIds(source.rels, b) : u = n + y
    BY <1>4 DEF Uses
  <2>3. x = y
    BY <1>1, <1>2, <2>1, <2>2
  <2> QED BY <2>1, <2>2, <2>3 DEF RelIds
<1> QED BY <1>3, <1>4

LEMMA ImagesFinite ==
  ASSUME NEW source, IsSlide(source)
  PROVE  IsFiniteSet(Images(source)) /\ Cardinality(Images(source)) \in Nat
<1>1. IsFiniteSet(ImageIds(source.rels))
  <2>1. ImageIds(source.rels) \subseteq DOMAIN source.rels
    BY DEF ImageIds
  <2> QED BY <2>1, FS_Subset DEF IsSlide
<1> DEFINE f == [n \in ImageIds(source.rels) |-> source.rels[n]]
<1>2. f \in Surjection(ImageIds(source.rels), Images(source))
  BY DEF Surjection, Images
<1> HIDE DEF f
<1>3. IsFiniteSet(Images(source))
  BY <1>1, <1>2, FS_Surjection
<1> QED BY <1>3, FS_CardinalityType

\* The numbers are 0, 1, ... below the number of images, one each.
LEMMA EarlierNumbers ==
  ASSUME NEW source, IsSlide(source), NEW a \in Images(source)
  PROVE  /\ Cardinality(Earlier(source, a)) \in Nat
         /\ Cardinality(Earlier(source, a)) < Cardinality(Images(source))
         /\ \A b \in Images(source) :
              Cardinality(Earlier(source, a)) = Cardinality(Earlier(source, b)) => a = b
<1> DEFINE I == Images(source)
           E(x) == Earlier(source, x)
<1>1. \A x : E(x) = {y \in I : First(source, y) < First(source, x)}
  BY DEF Earlier, First
<1>2. \A x \in I : First(source, x) \in Nat
  BY FirstIsUse
<1>3. \A x, y \in I : First(source, x) = First(source, y) => x = y
  BY FirstIsUse, UsedOnce
<1>4. \A x \in I : E(x) \subseteq I \ {x}
  BY <1>1, <1>2
<1>5. IsFiniteSet(I) /\ Cardinality(I) \in Nat
  BY ImagesFinite
<1> HIDE DEF E, I
<1>6. \A x \in I : IsFiniteSet(E(x)) /\ Cardinality(E(x)) \in Nat
  <2> SUFFICES ASSUME NEW x \in I
               PROVE  IsFiniteSet(E(x)) /\ Cardinality(E(x)) \in Nat
    OBVIOUS
  <2>1. E(x) \in SUBSET I
    BY <1>4
  <2>2. IsFiniteSet(E(x))
    BY <1>5, <2>1, FS_Subset
  <2> QED BY <2>2, FS_CardinalityType
<1>7. \A x \in I : Cardinality(E(x)) < Cardinality(I)
  <2> SUFFICES ASSUME NEW x \in I
               PROVE  Cardinality(E(x)) < Cardinality(I)
    OBVIOUS
  <2>1. IsFiniteSet(I \ {x}) /\ Cardinality(I \ {x}) = Cardinality(I) - 1
    BY <1>5, FS_RemoveElement
  <2>2. E(x) \in SUBSET (I \ {x})
    BY <1>4
  <2>3. Cardinality(E(x)) <= Cardinality(I \ {x})
    BY <2>1, <2>2, FS_Subset
  <2> QED BY <1>5, <1>6, <2>1, <2>3
<1>8. \A x, y \in I : First(source, x) < First(source, y) => Cardinality(E(x)) < Cardinality(E(y))
  <2> SUFFICES ASSUME NEW x \in I, NEW y \in I, First(source, x) < First(source, y)
               PROVE  Cardinality(E(x)) < Cardinality(E(y))
    OBVIOUS
  <2>1. x \notin E(x) /\ E(x) \cup {x} \subseteq E(y)
    BY <1>1, <1>2, <1>4
  <2>2. IsFiniteSet(E(x) \cup {x}) /\ Cardinality(E(x) \cup {x}) = Cardinality(E(x)) + 1
    BY <1>6, <2>1, FS_AddElement
  <2>3. E(x) \cup {x} \in SUBSET E(y)
    BY <2>1
  <2>4. Cardinality(E(x) \cup {x}) <= Cardinality(E(y))
    BY <1>6, <2>3, FS_Subset
  <2> QED BY <1>6, <2>2, <2>4
<1>9. \A x, y \in I : Cardinality(E(x)) = Cardinality(E(y)) => x = y
  <2> SUFFICES ASSUME NEW x \in I, NEW y \in I, Cardinality(E(x)) = Cardinality(E(y)), x # y
               PROVE  FALSE
    OBVIOUS
  <2>1. First(source, x) < First(source, y) \/ First(source, y) < First(source, x)
    BY <1>2, <1>3
  <2>2. Cardinality(E(x)) < Cardinality(E(y)) \/ Cardinality(E(y)) < Cardinality(E(x))
    BY <1>8, <2>1
  <2> QED BY <1>6, <2>2
<1> QED BY <1>6, <1>7, <1>9 DEF E, I

\* Every image of the source has a relationship of the copy.
LEMMA CopyHasImage ==
  ASSUME NEW source, IsSlide(source), NEW image \in Images(source)
  PROVE  RelIds(CopiedRels(source), image) # {}
<1> DEFINE rels == CopiedRels(source)
           c == Cardinality(Images(source))
           e == Cardinality(Earlier(source, image))
           n == e + 2
<1>1. c \in Nat /\ e \in Nat /\ e < c
  BY ImagesFinite, EarlierNumbers
<1>2. n \in 1..(c + 1) /\ n # 1 /\ n - 2 = e
  <2> HIDE DEF c, e
  <2> QED BY <1>1
<1>3. (CHOOSE x \in Images(source) : Cardinality(Earlier(source, x)) = e) = image
  BY EarlierNumbers
<1>4. DOMAIN rels = 1..(c + 1)
  BY DEF CopiedRels
<1>5. rels[n] = CHOOSE x \in Images(source) : Cardinality(Earlier(source, x)) = n - 2
  <2> HIDE DEF n, e
  <2> QED BY <1>2 DEF CopiedRels
<1>6. rels[n] = image
  <2> HIDE DEF rels
  <2> QED BY <1>2, <1>3, <1>5
<1> QED BY <1>2, <1>4, <1>6 DEF RelIds

\* A copy shows what its source shows.
LEMMA CopyShows ==
  ASSUME NEW source, IsSlide(source)
  PROVE  Shown(DuplicateSlide(source)) = Shown(source)
<1> DEFINE copy == DuplicateSlide(source)
           rels == CopiedRels(source)
<1>1. DOMAIN copy.shapes = DOMAIN source.shapes /\ copy.rels = rels
  BY DEF DuplicateSlide
<1>2. ASSUME NEW i \in DOMAIN source.shapes
      PROVE  Shown(copy)[i] = Shown(source)[i]
  <2> DEFINE s == source.shapes[i]
             new == CHOOSE n \in RelIds(rels, source.rels[s.blip]) : TRUE
  <2>1. s \in Shape /\ s.blip \in {0} \cup ImageIds(source.rels)
    BY DEF IsSlide
  <2>2. DOMAIN s = {"kind", "left", "top", "groups", "text", "room", "blip"}
    BY <2>1 DEF Shape
  <2>3. copy.shapes[i] = IF s.blip \in ImageIds(source.rels) THEN [s EXCEPT !.blip = new] ELSE s
    BY DEF DuplicateSlide
  <2>4. /\ Shown(copy)[i] = [shape |-> [copy.shapes[i] EXCEPT !.blip = 0],
                             picture |-> IF copy.shapes[i].blip \in DOMAIN rels
                                         THEN rels[copy.shapes[i].blip].target ELSE 0]
        /\ Shown(source)[i] = [shape |-> [s EXCEPT !.blip = 0],
                               picture |-> IF s.blip \in DOMAIN source.rels
                                           THEN source.rels[s.blip].target ELSE 0]
    BY <1>1 DEF Shown
  <2>5. CASE s.blip \in ImageIds(source.rels)
    <3>1. source.rels[s.blip] \in Images(source) /\ s.blip \in DOMAIN source.rels
      BY <2>5 DEF Images, ImageIds
    <3>2. new \in RelIds(rels, source.rels[s.blip])
      BY <3>1, CopyHasImage
    <3>3. new \in DOMAIN rels /\ rels[new] = source.rels[s.blip]
      BY <3>2 DEF RelIds
    <3> HIDE DEF new
    <3>4. copy.shapes[i] = [s EXCEPT !.blip = new]
      BY <2>3, <2>5
    <3> HIDE DEF copy, s, rels
    <3>5. copy.shapes[i].blip = new /\ [copy.shapes[i] EXCEPT !.blip = 0] = [s EXCEPT !.blip = 0]
      BY <2>2, <3>4
    <3> QED BY <2>4, <3>1, <3>3, <3>5
  <2>6. CASE s.blip \notin ImageIds(source.rels)
    <3>1. s.blip = 0 /\ copy.shapes[i] = s
      BY <2>1, <2>3, <2>6
    <3>2. 0 \notin DOMAIN rels /\ 0 \notin DOMAIN source.rels
      <4>1. Cardinality(Images(source)) \in Nat
        BY ImagesFinite
      <4>2. 0 \notin 1..(Cardinality(Images(source)) + 1)
        BY <4>1
      <4> QED BY <4>2 DEF CopiedRels, IsSlide
    <3> HIDE DEF copy, s, rels
    <3> QED BY <2>4, <3>1, <3>2
  <2> QED BY <2>5, <2>6
<1>3. DOMAIN Shown(copy) = DOMAIN source.shapes /\ DOMAIN Shown(source) = DOMAIN source.shapes
  BY <1>1 DEF Shown
<1>4. Shown(copy) = [i \in DOMAIN Shown(copy) |-> Shown(copy)[i]]
  BY DEF Shown
<1>5. Shown(source) = [i \in DOMAIN Shown(source) |-> Shown(source)[i]]
  BY DEF Shown
<1> HIDE DEF copy
<1> QED BY <1>2, <1>3, <1>4, <1>5 DEF copy

-----------------------------------------------------------------------------
(* Rearranging.  Each pass keeps what the map has placed so far: an entry leads *)
(* to a slide that shows what the sequence asked for, and no two to one slide.  *)

TemplateSlides == UNION {Range(slides) : slides \in Templates}
DeckSlides == TemplateSlides \cup {DuplicateSlide(s) : s \in TemplateSlides}

\* The first n entries of map m over deck d.
Placed(d, m, n) ==
  /\ d \in Seq(DeckSlides) /\ m \in Seq(Nat) /\ Len(m) = n
  /\ \A k \in 1..n : m[k] < Len(d) /\ Shown(d[m[k] + 1]) = Shown(template[sequence[k] + 1])
  /\ \A k, l \in 1..n : m[k] = m[l] => k = l

\* Where slide t is still wanted after the first s of the sequence.
Left(t, s) == {i \in DOMAIN sequence : i > s /\ sequence[i] = t}

\* The unused copies of slide t: one for each time it is still wanted.
CopiesOf(t, copies, s) ==
  /\ copies \in Seq(Nat)
  /\ Len(copies) = Cardinality(Left(t, s))
  /\ \A c \in 1..Len(copies) : /\ Len(template) <= copies[c] /\ copies[c] < Len(deck)
                               /\ Shown(deck[copies[c] + 1]) = Shown(template[t + 1])

\* An original serves the first time its slide is wanted.
Served(k) ==
  /\ slideMap[k] < Len(template) => slideMap[k] = sequence[k]
  /\ \/ sequence[k] \in DOMAIN duplicated
     \/ \A l \in DOMAIN sequence : sequence[l] = sequence[k] => l = k

\* No copy is given out twice.
CopiesApart ==
  \A t, u \in DOMAIN duplicated :
    \A c \in 1..Len(duplicated[t]), e \in 1..Len(duplicated[u]) :
      duplicated[t][c] = duplicated[u][e] => t = u /\ c = e
CopiesUnused ==
  \A t \in DOMAIN duplicated : \A c \in 1..Len(duplicated[t]), k \in 1..step :
    duplicated[t][c] # slideMap[k]

Duplicating ==
  /\ step \in 0..Len(sequence)
  /\ \A i \in DOMAIN sequence : sequence[i] < Len(template)
  /\ Placed(deck, slideMap, step)
  /\ Len(template) <= Len(deck) /\ \A t \in 1..Len(template) : deck[t] = template[t]
  /\ DOMAIN duplicated \subseteq Nat
  /\ \A t \in DOMAIN duplicated : CopiesOf(t, duplicated[t], step)
  /\ CopiesApart /\ CopiesUnused
  /\ \A k \in 1..step : Served(k)

\* From the slide the pass has reached on, every slide is wanted.
Deleting ==
  /\ step \in -1..(Len(deck) - 1)
  /\ Placed(deck, slideMap, Len(sequence))
  /\ \A p \in 0..(Len(deck) - 1) : p > step => \E k \in 1..Len(sequence) : slideMap[k] = p

\* Up to the position the pass has reached, every slide is in its place.
Reordering ==
  /\ step \in 0..Len(sequence)
  /\ Placed(deck, slideMap, Len(sequence))
  /\ Len(deck) = Len(sequence)
  /\ \A k \in 1..step : slideMap[k] = k - 1

SlidesInv ==
  /\ template \in Templates
  /\ sequence \in Seq(Nat)
  /\ phase \in {"check", "rejected", "duplicate", "delete", "reorder", "arranged", "saved", "refused"}
  /\ phase = "check" => deck = template /\ slideMap = <<>> /\ duplicated = [t \in {} |-> <<>>] /\ step = 0
  /\ phase = "duplicate" => Duplicating
  /\ phase = "delete" => Deleting
  /\ phase = "reorder" => Reordering
  /\ phase \in {"arranged", "saved", "refused"} => deck \in Seq(DeckSlides)
  /\ RearrangedInOrder

LEMMA TemplateIs ==
  ASSUME template \in Templates
  PROVE  /\ template \in Seq(DeckSlides) /\ Len(template) \in Nat
         /\ \A t \in 1..Len(template) : IsSlide(template[t]) /\ DuplicateSlide(template[t]) \in DeckSlides
<1>1. template \in Seq(Range(template)) /\ \A t \in DOMAIN template : IsSlide(template[t])
  BY TemplatesAssumption
<1>2. \A t \in DOMAIN template : template[t] \in TemplateSlides
  BY DEF Range, TemplateSlides
<1>3. Len(template) \in Nat /\ DOMAIN template = 1..Len(template)
  BY <1>1
<1>4. template \in [1..Len(template) -> DeckSlides]
  BY <1>1, <1>2, <1>3 DEF DeckSlides
<1> QED BY <1>1, <1>2, <1>3, <1>4 DEF DeckSlides

LEMMA LeftNext ==
  ASSUME sequence \in Seq(Nat), NEW s \in Nat, s < Len(sequence), NEW t
  PROVE  /\ Cardinality(Left(t, s)) \in Nat /\ Cardinality(Left(t, s + 1)) \in Nat
         /\ sequence[s + 1] = t => Cardinality(Left(t, s)) = Cardinality(Left(t, s + 1)) + 1
         /\ sequence[s + 1] # t => Left(t, s) = Left(t, s + 1)
<1>1. DOMAIN sequence = 1..Len(sequence) /\ Len(sequence) \in Nat
  OBVIOUS
<1>2. \A r : IsFiniteSet(Left(t, r)) /\ Cardinality(Left(t, r)) \in Nat
  <2> SUFFICES ASSUME NEW r
               PROVE  IsFiniteSet(Left(t, r)) /\ Cardinality(Left(t, r)) \in Nat
    OBVIOUS
  <2>1. IsFiniteSet(1..Len(sequence))
    BY <1>1, FS_Interval
  <2>2. Left(t, r) \in SUBSET (1..Len(sequence))
    BY <1>1 DEF Left
  <2>3. IsFiniteSet(Left(t, r))
    BY <2>1, <2>2, FS_Subset
  <2> QED BY <2>3, FS_CardinalityType
<1>3. s + 1 \in DOMAIN sequence /\ \A i \in DOMAIN sequence : i > s <=> i > s + 1 \/ i = s + 1
  BY <1>1
<1>4. CASE sequence[s + 1] = t
  <2>1. Left(t, s) = Left(t, s + 1) \cup {s + 1} /\ s + 1 \notin Left(t, s + 1)
    BY <1>3, <1>4 DEF Left
  <2>2. Cardinality(Left(t, s + 1) \cup {s + 1}) = Cardinality(Left(t, s + 1)) + 1
    BY <1>2, <2>1, FS_AddElement
  <2> QED BY <1>2, <1>4, <2>1, <2>2
<1>5. CASE sequence[s + 1] # t
  BY <1>2, <1>3, <1>5 DEF Left
<1> QED BY <1>4, <1>5

\* Step 1 has come to slide t, which is step + 1 in the sequence.
LEMMA NextWanted ==
  ASSUME template \in Templates, sequence \in Seq(Nat), Duplicating, step < Len(sequence),
         NEW t, t = sequence[step + 1]
  PROVE  /\ t \in Nat /\ t < Len(template) /\ t + 1 \in 1..Len(template)
         /\ t \in DOMAIN duplicated => /\ duplicated[t] \in Seq(Nat) /\ duplicated[t] # <<>>
                                       /\ Len(duplicated[t]) = Cardinality(Left(t, step + 1)) + 1
         /\ t \notin DOMAIN duplicated => /\ \A k \in 1..step : sequence[k] # t /\ slideMap[k] # t
                                          /\ Left(t, 0) = Left(t, step)
                                          /\ Count(t) = Cardinality(Left(t, step + 1)) + 1
<1>1. /\ step \in Nat /\ step + 1 \in 1..Len(sequence) /\ DOMAIN sequence = 1..Len(sequence)
      /\ Len(sequence) \in Nat
  BY DEF Duplicating
<1>2. t \in Nat /\ t < Len(template) /\ t + 1 \in 1..Len(template)
  <2>1. t \in Nat /\ t < Len(template) /\ Len(template) \in Nat
    BY <1>1, TemplateIs DEF Duplicating
  <2> QED BY <2>1
<1>3. /\ Cardinality(Left(t, step)) \in Nat /\ Cardinality(Left(t, step + 1)) \in Nat
      /\ Cardinality(Left(t, step)) = Cardinality(Left(t, step + 1)) + 1
  BY <1>1, LeftNext
<1>4. ASSUME t \in DOMAIN duplicated
      PROVE  /\ duplicated[t] \in Seq(Nat) /\ duplicated[t] # <<>>
             /\ Len(duplicated[t]) = Cardinality(Left(t, step + 1)) + 1
  <2>1. duplicated[t] \in Seq(Nat) /\ Len(duplicated[t]) = Cardinality(Left(t, step + 1)) + 1
    BY <1>3, <1>4 DEF Duplicating, CopiesOf
  <2>2. Len(duplicated[t]) # 0
    BY <1>3, <2>1
  <2> QED BY <2>1, <2>2
<1>5. ASSUME t \notin DOMAIN duplicated
      PROVE  /\ \A k \in 1..step : sequence[k] # t /\ slideMap[k] # t
             /\ Left(t, 0) = Left(t, step)
             /\ Count(t) = Cardinality(Left(t, step + 1)) + 1
  <2>1. ASSUME NEW k \in 1..step
        PROVE  sequence[k] # t /\ slideMap[k] # t
    <3>1. Served(k) /\ k # step + 1 /\ k \in DOMAIN sequence
      BY <1>1 DEF Duplicating
    <3>2. sequence[k] # t
      BY <1>1, <1>5, <3>1 DEF Served
    <3> QED BY <1>2, <3>1, <3>2 DEF Served
  <2>2. Left(t, 0) = Left(t, step)
    <3>1. \A i \in DOMAIN sequence : i > 0 /\ (i > step \/ i \in 1..step)
      BY <1>1
    <3> QED BY <2>1, <3>1 DEF Left
  <2>3. Left(t, 0) = {i \in DOMAIN sequence : sequence[i] = t}
    <3>1. \A i \in DOMAIN sequence : i > 0
      BY <1>1
    <3> QED BY <3>1 DEF Left
  <2> QED BY <1>3, <2>1, <2>2, <2>3 DEF Count
<1> QED BY <1>2, <1>4, <1>5

LEMMA HeadAndTail ==
  ASSUME NEW q \in Seq(Nat), Len(q) # 0
  PROVE  /\ Head(q) \in Nat /\ Head(q) = q[1] /\ 1 \in 1..Len(q) /\ Len(q) \in Nat
         /\ Tail(q) \in Seq(Nat) /\ Len(Tail(q)) = Len(q) - 1
         /\ \A c \in 1..(Len(q) - 1) : Tail(q)[c] = q[c + 1] /\ c + 1 \in 1..Len(q)
<1>1. Len(q) \in Nat /\ q # <<>>
  OBVIOUS
<1>2. /\ Head(q) = q[1] /\ 1 \in 1..Len(q) /\ q[1] \in Nat
      /\ Tail(q) \in Seq(Nat) /\ Len(Tail(q)) = Len(q) - 1
  BY <1>1
<1>3. \A c \in 1..(Len(q) - 1) : Tail(q)[c] = q[c + 1] /\ c + 1 \in 1..Len(q)
  BY <1>1
<1> QED BY <1>1, <1>2, <1>3

Grown(d, e) == Len(d) <= Len(e) /\ \A i \in 1..Len(d) : e[i] = d[i]
Free(m, n, p) == \A k \in 1..n : m[k] # p

\* Slide p of e is what the sequence asks for next, and no entry leads to it.
Unplaced(d, m, n, e, p) ==
  /\ n \in Nat /\ Placed(d, m, n) /\ e \in Seq(DeckSlides) /\ Grown(d, e)
  /\ p \in Nat /\ p < Len(e) /\ Free(m, n, p)
  /\ Shown(e[p + 1]) = Shown(template[sequence[n + 1] + 1])
OneMore(m, n, p, w) == w[n + 1] = p /\ \A k \in 1..n : w[k] = m[k]

\* One more entry of the map leads to a slide that no entry led to.
LEMMA PlacedOne ==
  ASSUME NEW d, NEW m, NEW n, NEW e, NEW p, Unplaced(d, m, n, e, p)
  PROVE  Placed(e, Append(m, p), n + 1) /\ OneMore(m, n, p, Append(m, p))
<1> DEFINE w == Append(m, p)
<1>0. /\ n \in Nat /\ Placed(d, m, n) /\ e \in Seq(DeckSlides) /\ Grown(d, e)
      /\ p \in Nat /\ p < Len(e) /\ Free(m, n, p)
      /\ Shown(e[p + 1]) = Shown(template[sequence[n + 1] + 1])
  BY DEF Unplaced
<1>1. /\ w \in Seq(Nat) /\ Len(w) = n + 1 /\ w[n + 1] = p /\ \A k \in 1..n : w[k] = m[k]
      /\ \A k \in 1..n : m[k] \in Nat
  BY <1>0 DEF Placed
<1>2. /\ Len(d) \in Nat /\ Len(e) \in Nat
      /\ Len(d) <= Len(e) /\ \A i \in 1..Len(d) : e[i] = d[i]
      /\ \A k \in 1..n : m[k] # p
  BY <1>0 DEF Placed, Grown, Free
<1>3. \A k \in 1..(n + 1) : k = n + 1 \/ k \in 1..n
  BY <1>0
<1> HIDE DEF w
<1>4. ASSUME NEW k \in 1..(n + 1)
      PROVE  w[k] < Len(e) /\ Shown(e[w[k] + 1]) = Shown(template[sequence[k] + 1])
  <2>1. CASE k = n + 1
    BY <1>0, <1>1, <2>1
  <2>2. CASE k \in 1..n
    <3>1. m[k] < Len(d) /\ Shown(d[m[k] + 1]) = Shown(template[sequence[k] + 1]) /\ w[k] = m[k]
      BY <1>0, <1>1, <2>2 DEF Placed
    <3>2. m[k] \in Nat /\ m[k] + 1 \in 1..Len(d) /\ m[k] < Len(e)
      <4>1. PICK v \in Nat : v = m[k]
        BY <1>1, <2>2
      <4> QED BY <1>2, <3>1, <4>1
    <3>3. e[m[k] + 1] = d[m[k] + 1]
      BY <1>2, <3>2
    <3> QED BY <3>1, <3>2, <3>3
  <2> QED BY <1>3, <2>1, <2>2
<1>5. \A k, l \in 1..(n + 1) : w[k] = w[l] => k = l
  <2>1. \A k \in 1..n : w[k] # p
    BY <1>1, <1>2
  <2>2. \A k, l \in 1..n : w[k] = w[l] => k = l
    BY <1>0, <1>1 DEF Placed
  <2> QED BY <1>1, <1>3, <2>1, <2>2
<1>6. Placed(e, w, n + 1)
  BY <1>0, <1>1, <1>4, <1>5 DEF Placed
<1>7. OneMore(m, n, p, w)
  BY <1>1 DEF OneMore
<1> QED BY <1>6, <1>7 DEF w

\* Another copy of the slide is waiting: it is taken.
LEMMA TakesCopy ==
  ASSUME template \in Templates, sequence \in Seq(Nat), Duplicating, step < Len(sequence),
         UNCHANGED <<template, sequence, deck>>, step' = step + 1,
         NEW t, t = sequence[step + 1], t \in DOMAIN duplicated, duplicated[t] # <<>>,
         slideMap' = Append(slideMap, Head(duplicated[t])),
         duplicated' = [duplicated EXCEPT ![t] = Tail(@)]
  PROVE  Duplicating'
<1> DEFINE p == Head(duplicated[t])
<1>1. /\ step \in Nat /\ step + 1 \in 1..Len(sequence) /\ DOMAIN sequence = 1..Len(sequence)
      /\ Len(sequence) \in Nat
  BY DEF Duplicating
<1>2. /\ t \in Nat /\ t < Len(template) /\ t + 1 \in 1..Len(template)
      /\ duplicated[t] \in Seq(Nat) /\ Len(duplicated[t]) \in Nat
      /\ Len(duplicated[t]) = Cardinality(Left(t, step + 1)) + 1
  BY NextWanted
<1>3. /\ p \in Nat /\ p = duplicated[t][1] /\ 1 \in 1..Len(duplicated[t])
      /\ Tail(duplicated[t]) \in Seq(Nat) /\ Len(Tail(duplicated[t])) = Len(duplicated[t]) - 1
      /\ \A c \in 1..(Len(duplicated[t]) - 1) : /\ Tail(duplicated[t])[c] = duplicated[t][c + 1]
                                                /\ c + 1 \in 1..Len(duplicated[t])
  <2>1. Len(duplicated[t]) # 0
    <3>1. Cardinality(Left(t, step + 1)) \in Nat
      BY <1>1, LeftNext
    <3> QED BY <1>2, <3>1
  <2> QED BY <1>2, <2>1, HeadAndTail
<1> HIDE DEF p
<1>0. CopiesApart /\ CopiesUnused /\ DOMAIN duplicated \subseteq Nat /\ Placed(deck, slideMap, step)
  BY DEF Duplicating
<1>4. Len(template) <= p /\ p < Len(deck) /\ Shown(deck[p + 1]) = Shown(template[t + 1])
  BY <1>3 DEF Duplicating, CopiesOf
<1>5. \A k \in 1..step : slideMap[k] # p
  <2>1. p = duplicated[t][1] /\ 1 \in 1..Len(duplicated[t])
    BY <1>3
  <2> QED BY <1>0, <2>1 DEF CopiesUnused
<1>6. /\ Placed(deck, Append(slideMap, p), step + 1)
      /\ \A k \in 1..step : Append(slideMap, p)[k] = slideMap[k]
      /\ Append(slideMap, p)[step + 1] = p
  <2>1. deck \in Seq(DeckSlides) /\ Len(deck) \in Nat
    BY <1>0 DEF Placed
  <2>2. Grown(deck, deck) /\ Free(slideMap, step, p)
    BY <1>5, <2>1 DEF Grown, Free
  <2>3. Shown(deck[p + 1]) = Shown(template[sequence[step + 1] + 1])
    BY <1>4
  <2>4. Unplaced(deck, slideMap, step, deck, p)
    BY <1>0, <1>1, <1>3, <1>4, <2>1, <2>2, <2>3 DEF Unplaced
  <2>5. Placed(deck, Append(slideMap, p), step + 1) /\ OneMore(slideMap, step, p, Append(slideMap, p))
    BY <2>4, PlacedOne
  <2> QED BY <2>5 DEF OneMore
<1>7. slideMap' = Append(slideMap, p)
  BY DEF p
<1>8. DOMAIN duplicated' = DOMAIN duplicated /\ DOMAIN duplicated \subseteq Nat
  BY DEF Duplicating
<1>9. /\ duplicated'[t] = Tail(duplicated[t])
      /\ \A u \in DOMAIN duplicated : u # t => duplicated'[u] = duplicated[u]
  OBVIOUS
<1>10. Len(duplicated'[t]) = Len(duplicated[t]) - 1
  BY <1>3, <1>9
<1>11. \A c \in 1..Len(duplicated'[t]) : /\ duplicated'[t][c] = duplicated[t][c + 1]
                                         /\ c + 1 \in 1..Len(duplicated[t])
  BY <1>3, <1>9, <1>10
<1>12. \A k \in 1..(step + 1) : k = step + 1 \/ k \in 1..step
  BY <1>1
<1>13. Placed(deck, slideMap, step)'
  <2>1. Placed(deck, slideMap', step + 1)
    BY <1>6, <1>7
  <2> QED BY <2>1 DEF Placed
<1>14. ASSUME NEW u \in DOMAIN duplicated
       PROVE  CopiesOf(u, duplicated[u], step)'
  <2>1. CopiesOf(u, duplicated[u], step)
    BY DEF Duplicating
  <2>2. CASE u = t
    <3>1. Len(duplicated'[t]) = Cardinality(Left(t, step + 1))
      <4>1. Cardinality(Left(t, step + 1)) \in Nat
        BY <1>1, LeftNext
      <4> QED BY <1>2, <1>10, <4>1
    <3>2. \A c \in 1..Len(duplicated'[t]) :
            /\ Len(template) <= duplicated'[t][c] /\ duplicated'[t][c] < Len(deck)
            /\ Shown(deck[duplicated'[t][c] + 1]) = Shown(template[t + 1])
      <4>1. \A c \in 1..Len(duplicated[t]) :
              /\ Len(template) <= duplicated[t][c] /\ duplicated[t][c] < Len(deck)
              /\ Shown(deck[duplicated[t][c] + 1]) = Shown(template[t + 1])
        BY <2>1, <2>2 DEF CopiesOf
      <4> SUFFICES ASSUME NEW c \in 1..Len(duplicated'[t])
                   PROVE  /\ Len(template) <= duplicated'[t][c] /\ duplicated'[t][c] < Len(deck)
                          /\ Shown(deck[duplicated'[t][c] + 1]) = Shown(template[t + 1])
        OBVIOUS
      <4>2. duplicated'[t][c] = duplicated[t][c + 1] /\ c + 1 \in 1..Len(duplicated[t])
        BY <1>11
      <4> QED BY <4>1, <4>2
    <3>3. Left(t, step)' = Left(t, step + 1)
      BY DEF Left
    <3> QED BY <1>3, <1>9, <2>2, <3>1, <3>2, <3>3 DEF CopiesOf
  <2>3. CASE u # t
    <3>1. Left(u, step)' = Left(u, step)
      <4>1. Left(u, step) = Left(u, step + 1)
        BY <1>1, <2>3, LeftNext
      <4> QED BY <4>1 DEF Left
    <3>2. duplicated'[u] = duplicated[u]
      BY <1>9, <2>3
    <3> QED BY <2>1, <3>1, <3>2 DEF CopiesOf
  <2> QED BY <2>2, <2>3
<1>15. CopiesApart' /\ CopiesUnused'
  <2> DEFINE at(u, c) == IF u = t THEN c + 1 ELSE c
  <2>1. \A u \in DOMAIN duplicated : \A c \in 1..Len(duplicated'[u]) :
          /\ at(u, c) \in 1..Len(duplicated[u]) /\ duplicated'[u][c] = duplicated[u][at(u, c)]
    BY <1>9, <1>11
  <2>2. \A u \in DOMAIN duplicated : \A c, e : c \in Nat /\ e \in Nat /\ at(u, c) = at(u, e) => c = e
    OBVIOUS
  <2>3. \A u \in DOMAIN duplicated : \A c \in 1..Len(duplicated'[u]) : c \in Nat
    OBVIOUS
  <2>4. \A c \in 1..Len(duplicated'[t]) : at(t, c) # 1
    OBVIOUS
  <2> HIDE DEF at
  <2>5. ASSUME NEW u \in DOMAIN duplicated, NEW v \in DOMAIN duplicated,
               NEW c \in 1..Len(duplicated'[u]), NEW e \in 1..Len(duplicated'[v]),
               duplicated'[u][c] = duplicated'[v][e]
        PROVE  u = v /\ c = e
    <3>1. u = v /\ at(u, c) = at(v, e)
      <4>1. /\ at(u, c) \in 1..Len(duplicated[u]) /\ at(v, e) \in 1..Len(duplicated[v])
            /\ duplicated[u][at(u, c)] = duplicated[v][at(v, e)]
        BY <2>1, <2>5
      <4> QED BY <1>0, <4>1 DEF CopiesApart
    <3> QED BY <2>2, <2>3, <3>1
  <2>6. ASSUME NEW u \in DOMAIN duplicated, NEW c \in 1..Len(duplicated'[u]), NEW k \in 1..(step + 1)
        PROVE  duplicated'[u][c] # slideMap'[k]
    <3>1. at(u, c) \in 1..Len(duplicated[u]) /\ duplicated'[u][c] = duplicated[u][at(u, c)]
      BY <2>1
    <3>2. CASE k \in 1..step
      <4>1. duplicated[u][at(u, c)] # slideMap[k]
        BY <1>0, <3>1, <3>2 DEF CopiesUnused
      <4> QED BY <1>6, <1>7, <3>1, <3>2, <4>1
    <3>3. CASE k = step + 1
      <4>1. duplicated'[u][c] = p => u = t /\ at(u, c) = 1
        <5>1. p = duplicated[t][1] /\ 1 \in 1..Len(duplicated[t])
          BY <1>3
        <5>2. /\ u \in DOMAIN duplicated /\ t \in DOMAIN duplicated
              /\ at(u, c) \in 1..Len(duplicated[u])
              /\ duplicated'[u][c] = duplicated[u][at(u, c)]
          BY <3>1
        <5>3. \A i \in 1..Len(duplicated[u]), j \in 1..Len(duplicated[t]) :
                duplicated[u][i] = duplicated[t][j] => u = t /\ i = j
          BY <1>0 DEF CopiesApart
        <5>4. duplicated[u][at(u, c)] = duplicated[t][1] => u = t /\ at(u, c) = 1
          BY ONLY <5>1, <5>2, <5>3
        <5> QED BY ONLY <5>1, <5>2, <5>4
      <4> QED BY <1>6, <1>7, <2>4, <3>3, <4>1
    <3> QED BY <1>12, <3>2, <3>3
  <2>7. step' = step + 1 /\ DOMAIN duplicated' = DOMAIN duplicated
    BY <1>8
  <2>8. CopiesApart'
    BY <2>5, <2>7 DEF CopiesApart
  <2>9. CopiesUnused'
    <3> SUFFICES ASSUME NEW u \in DOMAIN duplicated', NEW c \in 1..Len(duplicated'[u]), NEW k \in 1..step'
                 PROVE  duplicated'[u][c] # slideMap'[k]
      BY DEF CopiesUnused
    <3> QED BY <2>6, <2>7
  <2> QED BY <2>8, <2>9
<1>16. ASSUME NEW k \in 1..(step + 1)
       PROVE  Served(k)'
  <2>1. CASE k \in 1..step
    <3>1. Served(k) /\ slideMap'[k] = slideMap[k]
      BY <1>6, <1>7, <2>1 DEF Duplicating
    <3> QED BY <1>8, <3>1 DEF Served
  <2>2. CASE k = step + 1
    <3>1. slideMap'[k] = p /\ sequence[k] = t
      BY <1>6, <1>7, <2>2
    <3>2. ~(p < Len(template))
      <4>1. Len(template) \in Nat /\ p \in Nat /\ Len(template) <= p
        BY <1>3, <1>4, TemplateIs
      <4> QED BY ONLY <4>1
    <3> QED BY <1>8, <3>1, <3>2 DEF Served
  <2> QED BY <1>12, <2>1, <2>2
<1>17. /\ step' \in 0..Len(sequence)
       /\ \A i \in DOMAIN sequence : sequence[i] < Len(template)
       /\ Len(template) <= Len(deck) /\ \A i \in 1..Len(template) : deck[i] = template[i]
  BY <1>1 DEF Duplicating
<1>18. /\ step' = step + 1 /\ DOMAIN duplicated' = DOMAIN duplicated
       /\ template' = template /\ sequence' = sequence /\ deck' = deck
  BY <1>8
<1>19. \A u \in DOMAIN duplicated' : CopiesOf(u, duplicated[u], step)'
  BY <1>14, <1>18
<1>20. \A k \in 1..step' : Served(k)'
  BY <1>16, <1>18
<1> QED BY <1>8, <1>13, <1>15, <1>17, <1>18, <1>19, <1>20 DEF Duplicating

\* The slide itself is given out: what held of the copies made so far still does.
LEMMA GivesOriginal ==
  ASSUME template \in Templates, sequence \in Seq(Nat), Duplicating, step < Len(sequence),
         UNCHANGED <<template, sequence>>, step' = step + 1,
         NEW t, t = sequence[step + 1], t \notin DOMAIN duplicated,
         slideMap' = Append(slideMap, t), deck' \in Seq(DeckSlides), Grown(deck, deck'),
         \A u \in DOMAIN duplicated : u \in DOMAIN duplicated' /\ duplicated'[u] = duplicated[u]
  PROVE  /\ step' \in 0..Len(sequence) /\ Placed(deck, slideMap, step)'
         /\ Len(template) <= Len(deck') /\ \A i \in 1..Len(template) : deck'[i] = template[i]
         /\ slideMap'[step + 1] = t /\ \A k \in 1..(step + 1) : slideMap'[k] \in Nat /\ slideMap'[k] < Len(deck)
         /\ \A u \in DOMAIN duplicated : CopiesOf(u, duplicated[u], step)'
         /\ \A u \in DOMAIN duplicated : \A c \in 1..Len(duplicated[u]), k \in 1..(step + 1) :
              duplicated[u][c] # slideMap'[k]
         /\ \A k \in 1..step : Served(k)'
<1>1. /\ step \in Nat /\ step + 1 \in 1..Len(sequence) /\ DOMAIN sequence = 1..Len(sequence)
      /\ Len(sequence) \in Nat
  BY DEF Duplicating
<1>2. /\ t \in Nat /\ t < Len(template) /\ t + 1 \in 1..Len(template)
      /\ \A k \in 1..step : slideMap[k] # t
  BY NextWanted
<1>3. /\ Placed(deck, slideMap, step) /\ CopiesUnused
      /\ \A i \in 1..Len(template) : deck[i] = template[i]
      /\ \A u \in DOMAIN duplicated : CopiesOf(u, duplicated[u], step)
  BY DEF Duplicating
<1>4. /\ Len(template) \in Nat /\ Len(deck) \in Nat /\ Len(deck') \in Nat
      /\ Len(template) <= Len(deck) /\ Len(deck) <= Len(deck')
      /\ \A i \in 1..Len(deck) : deck'[i] = deck[i]
  <2>1. Len(template) \in Nat
    BY TemplateIs
  <2>2. Len(deck) \in Nat
    BY <1>3 DEF Placed
  <2> QED BY <2>1, <2>2 DEF Grown, Duplicating
<1>5. \A i \in 1..Len(template) : deck'[i] = template[i]
  <2>1. \A i \in 1..Len(template) : i \in 1..Len(deck)
    BY <1>4
  <2> QED BY <1>3, <1>4, <2>1
<1>6. Placed(deck', slideMap', step + 1) /\ OneMore(slideMap, step, t, slideMap')
  <2>1. t < Len(deck')
    BY <1>2, <1>4
  <2>2. Free(slideMap, step, t) /\ Shown(deck'[t + 1]) = Shown(template[sequence[step + 1] + 1])
    BY <1>2, <1>5 DEF Free
  <2>3. Unplaced(deck, slideMap, step, deck', t)
    BY <1>1, <1>2, <1>3, <2>1, <2>2 DEF Unplaced
  <2>4. Placed(deck', Append(slideMap, t), step + 1) /\ OneMore(slideMap, step, t, Append(slideMap, t))
    BY <2>3, PlacedOne
  <2> QED BY <2>4
<1>7. Placed(deck, slideMap, step)'
  BY <1>6 DEF Placed
<1>8. \A k \in 1..(step + 1) : k = step + 1 \/ k \in 1..step
  BY <1>1
<1>9. slideMap'[step + 1] = t /\ \A k \in 1..step : slideMap'[k] = slideMap[k]
  BY <1>6 DEF OneMore
<1>10. ASSUME NEW k \in 1..(step + 1)
       PROVE  slideMap'[k] \in Nat /\ slideMap'[k] < Len(deck)
  <2>1. CASE k \in 1..step
    <3>1. slideMap \in Seq(Nat) /\ k \in 1..Len(slideMap) /\ slideMap[k] < Len(deck)
      BY <1>3, <2>1 DEF Placed
    <3>2. slideMap[k] \in Nat
      BY ONLY <3>1, EntryOf
    <3> QED BY <1>9, <2>1, <3>1, <3>2
  <2>2. CASE k = step + 1
    <3>1. t \in Nat /\ t < Len(deck)
      BY <1>2, <1>4
    <3> QED BY <1>9, <2>2, <3>1
  <2> QED BY <1>8, <2>1, <2>2
<1>11. ASSUME NEW u \in DOMAIN duplicated
       PROVE  CopiesOf(u, duplicated[u], step)'
  <2>1. CopiesOf(u, duplicated[u], step) /\ duplicated'[u] = duplicated[u]
    BY <1>3
  <2>2. Left(u, step)' = Left(u, step)
    <3>1. Left(u, step) = Left(u, step + 1)
      BY <1>1, LeftNext
    <3> QED BY <3>1 DEF Left
  <2>3. ASSUME NEW c \in 1..Len(duplicated[u])
        PROVE  /\ Len(template) <= duplicated[u][c] /\ duplicated[u][c] < Len(deck')
               /\ Shown(deck'[duplicated[u][c] + 1]) = Shown(template[u + 1])
    <3>0. /\ duplicated[u] \in Seq(Nat)
          /\ Len(template) <= duplicated[u][c] /\ duplicated[u][c] < Len(deck)
          /\ Shown(deck[duplicated[u][c] + 1]) = Shown(template[u + 1])
      BY <2>1 DEF CopiesOf
    <3>1. /\ duplicated[u][c] \in Nat /\ Len(template) <= duplicated[u][c] /\ duplicated[u][c] < Len(deck)
          /\ Shown(deck[duplicated[u][c] + 1]) = Shown(template[u + 1])
      BY <3>0, EntryOf
    <3>2. PICK v \in Nat : v = duplicated[u][c]
      BY <3>1
    <3>3. v < Len(deck) /\ Len(template) <= v
      BY <3>1, <3>2
    <3>4. v + 1 \in 1..Len(deck) /\ v < Len(deck')
      BY <1>4, <3>3
    <3>5. deck'[v + 1] = deck[v + 1]
      BY <1>4, <3>4
    <3> QED BY <3>1, <3>2, <3>4, <3>5
  <2>4. duplicated[u] \in Seq(Nat) /\ Len(duplicated[u]) = Cardinality(Left(u, step))
    BY <2>1 DEF CopiesOf
  <2> QED BY <2>1, <2>2, <2>3, <2>4 DEF CopiesOf
<1>12. ASSUME NEW u \in DOMAIN duplicated, NEW c \in 1..Len(duplicated[u]), NEW k \in 1..(step + 1)
       PROVE  duplicated[u][c] # slideMap'[k]
  <2>1. CASE k \in 1..step
    <3>1. duplicated[u][c] # slideMap[k]
      BY <1>3, <2>1 DEF CopiesUnused
    <3> QED BY <1>9, <2>1, <3>1
  <2>2. CASE k = step + 1
    <3>0. duplicated[u] \in Seq(Nat) /\ Len(template) <= duplicated[u][c]
      BY <1>3 DEF CopiesOf
    <3>1. duplicated[u][c] \in Nat /\ Len(template) <= duplicated[u][c]
      BY <3>0, EntryOf
    <3>2. PICK v \in Nat : v = duplicated[u][c]
      BY <3>1
    <3>3. v # t
      BY <1>2, <1>4, <3>1, <3>2
    <3> QED BY <1>9, <2>2, <3>2, <3>3
  <2> QED BY <1>8, <2>1, <2>2
<1>13. ASSUME NEW k \in 1..step
       PROVE  Served(k)'
  <2>1. Served(k) /\ slideMap'[k] = slideMap[k]
    BY <1>9 DEF Duplicating
  <2> QED BY <2>1 DEF Served
<1>14. step' \in 0..Len(sequence) /\ Len(template) <= Len(deck')
  BY <1>1, <1>4
<1> QED BY <1>5, <1>7, <1>9, <1>10, <1>11, <1>12, <1>13, <1>14

\* The slide comes once more at least: its copies are made at the end of the deck.
LEMMA MakesCopies ==
  ASSUME template \in Templates, sequence \in Seq(Nat), Duplicating, step < Len(sequence),
         UNCHANGED <<template, sequence>>, step' = step + 1,
         NEW t, t = sequence[step + 1], t \notin DOMAIN duplicated,
         slideMap' = Append(slideMap, t),
         NEW n, n = Count(t) - 1,
         deck' = deck \o [c \in 1..n |-> DuplicateSlide(deck[t + 1])],
         duplicated' = [s \in DOMAIN duplicated \cup {t} |->
                          IF s = t THEN [c \in 1..n |-> Len(deck) + c - 1] ELSE duplicated[s]]
  PROVE  Duplicating'
<1> DEFINE new == [c \in 1..n |-> DuplicateSlide(deck[t + 1])]
           made == [c \in 1..n |-> Len(deck) + c - 1]
<1>1. /\ step \in Nat /\ step + 1 \in 1..Len(sequence) /\ DOMAIN sequence = 1..Len(sequence)
      /\ Len(sequence) \in Nat
  BY DEF Duplicating
<1>2. /\ t \in Nat /\ t < Len(template) /\ t + 1 \in 1..Len(template)
      /\ Count(t) = Cardinality(Left(t, step + 1)) + 1
  BY NextWanted
<1>3. n = Cardinality(Left(t, step + 1)) /\ n \in Nat
  <2>1. Cardinality(Left(t, step + 1)) \in Nat
    BY <1>1, LeftNext
  <2> QED BY <1>2, <2>1
<1>4. /\ DuplicateSlide(deck[t + 1]) \in DeckSlides
      /\ Shown(DuplicateSlide(deck[t + 1])) = Shown(template[t + 1])
  <2>1. deck[t + 1] = template[t + 1]
    BY <1>2 DEF Duplicating
  <2>2. IsSlide(template[t + 1]) /\ DuplicateSlide(template[t + 1]) \in DeckSlides
    BY <1>2, TemplateIs
  <2> QED BY <2>1, <2>2, CopyShows
<1>5. deck \in Seq(DeckSlides) /\ Len(deck) \in Nat
  BY DEF Duplicating, Placed
<1>6. new \in Seq(DeckSlides) /\ Len(new) = n /\ \A c \in 1..n : new[c] = DuplicateSlide(deck[t + 1])
  <2>1. new \in [1..n -> DeckSlides] /\ \A c \in 1..n : new[c] = DuplicateSlide(deck[t + 1])
    BY <1>4
  <2> HIDE DEF new
  <2> QED BY <1>3, <2>1, ListOf
<1>7. deck' \in Seq(DeckSlides) /\ JoinOf(deck', deck, new)
  <2> HIDE DEF new
  <2>1. deck \o new \in Seq(DeckSlides) /\ JoinOf(deck \o new, deck, new)
    BY <1>5, <1>6, Joined
  <2>2. deck' = deck \o new
    BY DEF new
  <2> QED BY <2>1, <2>2
<1>8. made \in Seq(Nat) /\ Len(made) = n /\ \A c \in 1..n : made[c] = Len(deck) + c - 1
  <2>1. made \in [1..n -> Nat] /\ \A c \in 1..n : made[c] = Len(deck) + c - 1
    BY <1>3, <1>5
  <2> HIDE DEF made
  <2> QED BY <1>3, <2>1, ListOf
<1>9. /\ DOMAIN duplicated' = DOMAIN duplicated \cup {t} /\ duplicated'[t] = made
      /\ \A u \in DOMAIN duplicated : u # t /\ u \in DOMAIN duplicated' /\ duplicated'[u] = duplicated[u]
  OBVIOUS
<1> HIDE DEF new, made
<1>10. Len(deck') = Len(deck) + n /\ Grown(deck, deck')
       /\ \A c \in 1..n : deck'[Len(deck) + c] = DuplicateSlide(deck[t + 1])
  BY <1>3, <1>5, <1>6, <1>7 DEF JoinOf, Grown
<1>11. /\ step' \in 0..Len(sequence) /\ Placed(deck, slideMap, step)'
       /\ Len(template) <= Len(deck') /\ \A i \in 1..Len(template) : deck'[i] = template[i]
       /\ slideMap'[step + 1] = t /\ \A k \in 1..(step + 1) : slideMap'[k] \in Nat /\ slideMap'[k] < Len(deck)
       /\ \A u \in DOMAIN duplicated : CopiesOf(u, duplicated[u], step)'
       /\ \A u \in DOMAIN duplicated : \A c \in 1..Len(duplicated[u]), k \in 1..(step + 1) :
            duplicated[u][c] # slideMap'[k]
       /\ \A k \in 1..step : Served(k)'
  BY <1>7, <1>9, <1>10, GivesOriginal
<1>12. Len(template) \in Nat /\ Len(template) <= Len(deck)
  BY TemplateIs DEF Duplicating
<1>13. CopiesOf(t, duplicated[t], step)'
  <2>1. Left(t, step)' = Left(t, step + 1)
    BY DEF Left
  <2>2. ASSUME NEW c \in 1..n
        PROVE  /\ Len(template) <= made[c] /\ made[c] < Len(deck')
               /\ Shown(deck'[made[c] + 1]) = Shown(template[t + 1])
    <3>1. made[c] + 1 = Len(deck) + c
      BY <1>5, <1>8
    <3>2. deck'[made[c] + 1] = DuplicateSlide(deck[t + 1])
      BY <1>10, <3>1
    <3>3. Len(template) <= made[c] /\ made[c] < Len(deck')
      <4>1. /\ Len(template) \in Nat /\ Len(deck) \in Nat /\ n \in Nat /\ c \in 1..n
            /\ Len(template) <= Len(deck) /\ made[c] = Len(deck) + c - 1 /\ Len(deck') = Len(deck) + n
        BY <1>3, <1>5, <1>8, <1>10, <1>12
      <4> QED BY ONLY <4>1
    <3> QED BY <1>4, <3>2, <3>3
  <2> QED BY <1>3, <1>8, <1>9, <2>1, <2>2 DEF CopiesOf
<1>14. \A u \in DOMAIN duplicated' : CopiesOf(u, duplicated[u], step)'
  BY <1>9, <1>11, <1>13
<1>15. \A u \in DOMAIN duplicated : \A c \in 1..Len(duplicated[u]) :
         duplicated[u][c] \in Nat /\ duplicated[u][c] < Len(deck)
  <2>1. \A u \in DOMAIN duplicated : CopiesOf(u, duplicated[u], step)
    BY DEF Duplicating
  <2>2. ASSUME NEW u \in DOMAIN duplicated, NEW c \in 1..Len(duplicated[u])
        PROVE  duplicated[u][c] \in Nat /\ duplicated[u][c] < Len(deck)
    <3>1. CopiesOf(u, duplicated[u], step)
      BY <2>1
    <3>2. duplicated[u] \in Seq(Nat) /\ duplicated[u][c] < Len(deck)
      BY <3>1 DEF CopiesOf
    <3>3. duplicated[u][c] \in Nat
      BY <3>2, EntryOf
    <3> QED BY <3>2, <3>3
  <2> QED BY <2>2
<1>16. \A c \in 1..n : made[c] \in Nat /\ made[c] >= Len(deck)
  <2>1. Len(deck) \in Nat /\ n \in Nat /\ \A c \in 1..n : made[c] = Len(deck) + c - 1
    BY <1>3, <1>5, <1>8
  <2> QED BY ONLY <2>1
<1>17. CopiesApart'
  <2>1. \A u \in DOMAIN duplicated : \A c \in 1..Len(duplicated[u]), e \in 1..n :
          duplicated[u][c] # made[e]
    <3> SUFFICES ASSUME NEW u \in DOMAIN duplicated, NEW c \in 1..Len(duplicated[u]), NEW e \in 1..n,
                        duplicated[u][c] = made[e]
                 PROVE  FALSE
      OBVIOUS
    <3>1. Len(deck) \in Nat /\ made[e] \in Nat /\ made[e] < Len(deck) /\ made[e] >= Len(deck)
      BY <1>5, <1>15, <1>16
    <3> QED BY ONLY <3>1
  <2>2. \A c, e \in 1..n : made[c] = made[e] => c = e
    BY <1>5, <1>8
  <2>3. CopiesApart
    BY DEF Duplicating
  <2>4. ASSUME NEW u \in DOMAIN duplicated', NEW v \in DOMAIN duplicated',
               NEW c \in 1..Len(duplicated'[u]), NEW e \in 1..Len(duplicated'[v]),
               duplicated'[u][c] = duplicated'[v][e]
        PROVE  u = v /\ c = e
    <3>0. /\ u # t => u \in DOMAIN duplicated /\ duplicated'[u] = duplicated[u]
          /\ v # t => v \in DOMAIN duplicated /\ duplicated'[v] = duplicated[v]
          /\ u = t => duplicated'[u] = made /\ c \in 1..n
          /\ v = t => duplicated'[v] = made /\ e \in 1..n
      BY <1>8, <1>9
    <3>1. CASE u = t /\ v = t
      <4>1. made[c] = made[e]
        BY <2>4, <3>0, <3>1
      <4> QED BY <2>2, <3>0, <3>1, <4>1
    <3>2. CASE u # t /\ v = t
      <4>1. u \in DOMAIN duplicated /\ c \in 1..Len(duplicated[u]) /\ e \in 1..n
        BY <3>0, <3>2
      <4>2. duplicated[u][c] = made[e]
        BY <2>4, <3>0, <3>2
      <4> QED BY <2>1, <4>1, <4>2
    <3>3. CASE u = t /\ v # t
      <4>1. v \in DOMAIN duplicated /\ e \in 1..Len(duplicated[v]) /\ c \in 1..n
        BY <3>0, <3>3
      <4>2. duplicated[v][e] = made[c]
        BY <2>4, <3>0, <3>3
      <4> QED BY <2>1, <4>1, <4>2
    <3>4. CASE u # t /\ v # t
      <4>1. /\ u \in DOMAIN duplicated /\ c \in 1..Len(duplicated[u])
            /\ v \in DOMAIN duplicated /\ e \in 1..Len(duplicated[v])
            /\ duplicated[u][c] = duplicated[v][e]
        BY <2>4, <3>0, <3>4
      <4> QED BY <2>3, <4>1 DEF CopiesApart
    <3> QED BY <3>1, <3>2, <3>3, <3>4
  <2> QED BY <2>4 DEF CopiesApart
<1>18. CopiesUnused'
  <2> SUFFICES ASSUME NEW u \in DOMAIN duplicated', NEW c \in 1..Len(duplicated'[u]), NEW k \in 1..step'
               PROVE  duplicated'[u][c] # slideMap'[k]
    BY DEF CopiesUnused
  <2>0. k \in 1..(step + 1)
    OBVIOUS
  <2>1. PICK v \in Nat : v = slideMap'[k] /\ v < Len(deck)
    BY <1>11, <2>0
  <2>2. CASE u = t
    <3>0. duplicated'[u][c] = made[c] /\ c \in 1..n
      BY <1>8, <1>9, <2>2
    <3>1. PICK w \in Nat : w = made[c] /\ w >= Len(deck) /\ duplicated'[u][c] = w
      BY <1>16, <3>0
    <3>2. w # v
      <4>1. Len(deck) \in Nat /\ w >= Len(deck) /\ v < Len(deck)
        BY <1>5, <2>1, <3>1
      <4> QED BY ONLY <4>1
    <3> QED BY <2>1, <3>1, <3>2
  <2>3. CASE u # t
    <3>1. u \in DOMAIN duplicated /\ c \in 1..Len(duplicated[u]) /\ duplicated'[u] = duplicated[u]
      BY <1>9, <2>3
    <3> QED BY <1>11, <2>0, <3>1
  <2> QED BY <2>2, <2>3
<1>19. \A k \in 1..step' : Served(k)'
  <2>1. \A k \in 1..step' : k = step + 1 \/ k \in 1..step
    BY <1>1
  <2>2. ASSUME NEW k, k = step + 1
        PROVE  Served(k)'
    <3>1. slideMap'[k] = t /\ sequence'[k] = t /\ t \in DOMAIN duplicated'
      BY <1>9, <1>11, <2>2
    <3> QED BY <3>1 DEF Served
  <2> QED BY <1>11, <2>1, <2>2
<1>20. /\ template' = template /\ sequence' = sequence /\ DOMAIN duplicated' \subseteq Nat
       /\ \A i \in DOMAIN sequence : sequence[i] < Len(template)
  BY <1>2, <1>9 DEF Duplicating
<1> QED BY <1>11, <1>14, <1>17, <1>18, <1>19, <1>20 DEF Duplicating

\* The slide is wanted this once: no copy is made.
LEMMA WantedOnce ==
  ASSUME template \in Templates, sequence \in Seq(Nat), Duplicating, step < Len(sequence),
         UNCHANGED <<template, sequence, deck, duplicated>>, step' = step + 1,
         NEW t, t = sequence[step + 1], t \notin DOMAIN duplicated, ~(Count(t) > 1),
         slideMap' = Append(slideMap, t)
  PROVE  Duplicating'
<1>1. /\ step \in Nat /\ step + 1 \in 1..Len(sequence) /\ DOMAIN sequence = 1..Len(sequence)
      /\ Len(sequence) \in Nat
  BY DEF Duplicating
<1>2. /\ Count(t) = Cardinality(Left(t, step + 1)) + 1
      /\ \A k \in 1..step : sequence[k] # t
  BY NextWanted
<1>3. deck' \in Seq(DeckSlides) /\ Grown(deck, deck')
  <2>1. deck \in Seq(DeckSlides) /\ Len(deck) \in Nat
    BY DEF Duplicating, Placed
  <2> QED BY <2>1 DEF Grown
<1>4. /\ step' \in 0..Len(sequence) /\ Placed(deck, slideMap, step)'
      /\ Len(template) <= Len(deck') /\ \A i \in 1..Len(template) : deck'[i] = template[i]
      /\ slideMap'[step + 1] = t /\ \A k \in 1..(step + 1) : slideMap'[k] \in Nat /\ slideMap'[k] < Len(deck)
      /\ \A u \in DOMAIN duplicated : CopiesOf(u, duplicated[u], step)'
      /\ \A u \in DOMAIN duplicated : \A c \in 1..Len(duplicated[u]), k \in 1..(step + 1) :
           duplicated[u][c] # slideMap'[k]
      /\ \A k \in 1..step : Served(k)'
  BY <1>3, GivesOriginal
<1>5. Left(t, step + 1) = {}
  <2>0. \A i, j \in Int : IsFiniteSet(i..j)
    BY FS_Interval
  <2>1. Left(t, step + 1) \in SUBSET (1..Len(sequence)) /\ IsFiniteSet(1..Len(sequence))
    <3>1. 1 \in Int /\ Len(sequence) \in Int
      BY <1>1
    <3>2. IsFiniteSet(1..Len(sequence))
      BY ONLY <2>0, <3>1
    <3>3. Left(t, step + 1) \in SUBSET DOMAIN sequence
      BY DEF Left
    <3> QED BY <1>1, <3>2, <3>3
  <2>2. IsFiniteSet(Left(t, step + 1)) /\ Cardinality(Left(t, step + 1)) \in Nat
    BY <2>1, FS_Subset, FS_CardinalityType
  <2>3. Cardinality(Left(t, step + 1)) = 0
    BY <1>2, <2>2
  <2> QED BY <2>2, <2>3, FS_EmptySet
<1>6. ASSUME NEW k, k = step + 1
      PROVE  Served(k)'
  <2>1. ASSUME NEW l \in DOMAIN sequence, sequence[l] = t
        PROVE  l = step + 1
    <3>1. l > step + 1 \/ l = step + 1 \/ l \in 1..step
      BY <1>1
    <3> QED BY <1>2, <1>5, <2>1, <3>1 DEF Left
  <2>2. slideMap'[k] = t /\ sequence[k] = t
    BY <1>4, <1>6
  <2> QED BY <1>6, <2>1, <2>2 DEF Served
<1>7. \A k \in 1..step' : Served(k)'
  <2>1. \A k \in 1..step' : k = step + 1 \/ k \in 1..step
    BY <1>1
  <2> QED BY <1>4, <1>6, <2>1
<1>8. CopiesApart' /\ CopiesUnused'
  <2>1. CopiesApart'
    BY DEF Duplicating, CopiesApart
  <2>2. ASSUME NEW u \in DOMAIN duplicated', NEW c \in 1..Len(duplicated'[u]), NEW k \in 1..step'
        PROVE  duplicated'[u][c] # slideMap'[k]
    <3>1. u \in DOMAIN duplicated /\ c \in 1..Len(duplicated[u]) /\ k \in 1..(step + 1)
      OBVIOUS
    <3> QED BY <1>4, <3>1
  <2> QED BY <2>1, <2>2 DEF CopiesUnused
<1>9. /\ template' = template /\ sequence' = sequence /\ duplicated' = duplicated
      /\ DOMAIN duplicated \subseteq Nat /\ \A i \in DOMAIN sequence : sequence[i] < Len(template)
  BY DEF Duplicating
<1> QED BY <1>4, <1>7, <1>8, <1>9 DEF Duplicating

LEMMA DuplicateKeeps ==
  ASSUME template \in Templates, sequence \in Seq(Nat), Duplicating, DuplicateStep
  PROVE  Duplicating'
<1> DEFINE t == sequence[step + 1]
<1>1. step < Len(sequence) /\ step' = step + 1 /\ UNCHANGED <<template, sequence>>
  BY DEF DuplicateStep
<1>2. CASE t \in DOMAIN duplicated
  <2>1. duplicated[t] # <<>>
    BY <1>1, <1>2, NextWanted
  <2>2. /\ slideMap' = Append(slideMap, Head(duplicated[t])) /\ deck' = deck
        /\ duplicated' = [duplicated EXCEPT ![t] = Tail(@)]
    BY <1>2, <2>1 DEF DuplicateStep
  <2> HIDE DEF t
  <2>3. t = sequence[step + 1]
    BY DEF t
  <2> QED BY <1>1, <1>2, <2>1, <2>2, <2>3, TakesCopy
<1>3. CASE t \notin DOMAIN duplicated /\ Count(t) > 1
  <2> DEFINE n == Count(t) - 1
  <2>1. /\ slideMap' = Append(slideMap, t)
        /\ deck' = deck \o [c \in 1..n |-> DuplicateSlide(deck[t + 1])]
        /\ duplicated' = [s \in DOMAIN duplicated \cup {t} |->
                            IF s = t THEN [c \in 1..n |-> Len(deck) + c - 1] ELSE duplicated[s]]
    BY <1>3 DEF DuplicateStep
  <2>2. t = sequence[step + 1] /\ n = Count(t) - 1
    OBVIOUS
  <2> HIDE DEF t, n
  <2> QED BY <1>1, <1>3, <2>1, <2>2, MakesCopies
<1>4. CASE t \notin DOMAIN duplicated /\ ~(Count(t) > 1)
  <2>1. slideMap' = Append(slideMap, t) /\ deck' = deck /\ duplicated' = duplicated
    BY <1>4 DEF DuplicateStep
  <2>2. t = sequence[step + 1]
    OBVIOUS
  <2> HIDE DEF t
  <2> QED BY <1>1, <1>4, <2>1, <2>2, WantedOnce
<1> QED BY <1>2, <1>3, <1>4

\* What an entry becomes when the slide at p has gone from d, or has moved to q.
Kept(d, v, e, w) == v \in Nat /\ w \in Nat /\ v < Len(d) /\ w < Len(e) /\ e[w + 1] = d[v + 1]

Follows(d, m, n, e, w) ==
  /\ n \in Nat /\ Placed(d, m, n) /\ e \in Seq(DeckSlides) /\ w \in Seq(Nat) /\ Len(w) = n
  /\ \A k \in 1..n : Kept(d, m[k], e, w[k])
  /\ \A k, l \in 1..n : w[k] = w[l] => m[k] = m[l]

LEMMA StillPlaced ==
  ASSUME NEW d, NEW m, NEW n, NEW e, NEW w, Follows(d, m, n, e, w)
  PROVE  Placed(e, w, n)
<1>0. /\ n \in Nat /\ Placed(d, m, n) /\ e \in Seq(DeckSlides) /\ w \in Seq(Nat) /\ Len(w) = n
      /\ \A k \in 1..n : Kept(d, m[k], e, w[k])
      /\ \A k, l \in 1..n : w[k] = w[l] => m[k] = m[l]
  BY DEF Follows
<1>1. ASSUME NEW k \in 1..n
      PROVE  w[k] < Len(e) /\ Shown(e[w[k] + 1]) = Shown(template[sequence[k] + 1])
  <2>1. w[k] < Len(e) /\ e[w[k] + 1] = d[m[k] + 1]
    BY <1>0 DEF Kept
  <2>2. Shown(d[m[k] + 1]) = Shown(template[sequence[k] + 1])
    BY <1>0 DEF Placed
  <2> QED BY <2>1, <2>2
<1>2. \A k, l \in 1..n : m[k] = m[l] => k = l
  BY <1>0 DEF Placed
<1>3. \A k, l \in 1..n : w[k] = w[l] => k = l
  BY <1>0, <1>2
<1> QED BY <1>0, <1>1, <1>3 DEF Placed

LEMMA DeleteKeeps ==
  ASSUME sequence \in Seq(Nat), Deleting, DeleteStep
  PROVE  Deleting'
<1> DEFINE n == Len(sequence)
           e == RemoveAt(deck, step + 1)
           w == MapWithout(step)
<1>1. /\ n \in Nat /\ deck \in Seq(DeckSlides) /\ slideMap \in Seq(Nat) /\ Len(deck) \in Nat
      /\ Len(slideMap) = n /\ DOMAIN slideMap = 1..n
      /\ step \in Nat /\ step < Len(deck) /\ step + 1 \in 1..Len(deck)
      /\ step' = step - 1 /\ n' = n
  BY DEF Deleting, Placed, DeleteStep
<1>2. /\ Placed(deck, slideMap, n)
      /\ \A p \in 0..(Len(deck) - 1) : p > step => \E k \in 1..n : slideMap[k] = p
  BY DEF Deleting
<1>3. CASE step \in {slideMap[k] : k \in DOMAIN slideMap}
  <2>1. deck' = deck /\ slideMap' = slideMap /\ UNCHANGED <<template, sequence>>
    BY <1>3 DEF DeleteStep
  <2>2. ASSUME NEW p \in 0..(Len(deck) - 1), p > step - 1
        PROVE  \E k \in 1..n : slideMap[k] = p
    <3>1. p = step \/ p > step
      BY <1>1, <2>2
    <3> QED BY <1>1, <1>2, <1>3, <3>1
  <2>3. Placed(deck, slideMap, n)'
    BY <1>1, <1>2, <2>1 DEF Placed
  <2>4. step' \in -1..(Len(deck') - 1)
    BY <1>1, <2>1
  <2> QED BY <1>1, <2>1, <2>2, <2>3, <2>4 DEF Deleting
<1>4. CASE step \notin {slideMap[k] : k \in DOMAIN slideMap}
  <2>1. deck' = e /\ slideMap' = w /\ UNCHANGED <<template, sequence>>
    BY <1>4 DEF DeleteStep, DeleteSlide
  <2>2. /\ e \in Seq(DeckSlides) /\ Len(e) = Len(deck) - 1
        /\ \A j \in 1..(Len(deck) - 1) : e[j] = IF j < step + 1 THEN deck[j] ELSE deck[j + 1]
    BY <1>1, RemovedAt
  <2>3. \A k \in 1..n : slideMap[k] \in Nat /\ slideMap[k] < Len(deck) /\ slideMap[k] # step
    <3>1. \A k \in 1..n : slideMap[k] < Len(deck)
      BY <1>2 DEF Placed
    <3>2. \A k \in 1..n : slideMap[k] # step
      BY <1>1, <1>4
    <3> QED BY <1>1, <3>1, <3>2, EntryOf
  <2>4. /\ DOMAIN w = 1..n
        /\ \A k \in 1..n : w[k] = IF slideMap[k] > step THEN slideMap[k] - 1 ELSE slideMap[k]
    BY <1>1 DEF MapWithout
  <2> HIDE DEF e, w, n
  <2>5. \A k \in 1..n : w[k] \in Nat
    <3> SUFFICES ASSUME NEW k \in 1..n
                 PROVE  w[k] \in Nat
      OBVIOUS
    <3>1. PICK v \in Nat : v = slideMap[k]
      BY <2>3
    <3> QED BY <1>1, <2>4, <3>1
  <2>6. w \in Seq(Nat) /\ Len(w) = n
    <3>1. w \in [1..n -> Nat]
      <4>1. w = [k \in 1..n |-> IF slideMap[k] > step THEN slideMap[k] - 1 ELSE slideMap[k]]
        BY <1>1 DEF w, MapWithout
      <4> QED BY <2>4, <2>5, <4>1
    <3> QED BY <1>1, <3>1, ListOf
  <2>7. ASSUME NEW k \in 1..n
        PROVE  Kept(deck, slideMap[k], e, w[k])
    <3>1. PICK v \in Nat : v = slideMap[k] /\ v < Len(deck) /\ v # step
      BY <2>3
    <3>0. /\ step \in Nat /\ Len(deck) \in Nat /\ v \in Nat /\ v < Len(deck) /\ v # step
          /\ step < Len(deck) /\ Len(e) = Len(deck) - 1
      BY <1>1, <2>2, <3>1
    <3>2. CASE v > step
      <4>1. w[k] = v - 1
        BY <2>4, <3>1, <3>2
      <4>2. v \in 1..(Len(deck) - 1) /\ ~(v < step + 1) /\ v - 1 \in Nat /\ v - 1 < Len(e) /\ v - 1 + 1 = v
        BY ONLY <3>0, <3>2
      <4>3. e[v] = deck[v + 1]
        BY <2>2, <4>2
      <4> QED BY <3>0, <3>1, <4>1, <4>2, <4>3 DEF Kept
    <3>3. CASE ~(v > step)
      <4>1. w[k] = v
        BY <2>4, <3>1, <3>3
      <4>2. v + 1 \in 1..(Len(deck) - 1) /\ v + 1 < step + 1 /\ v < Len(e)
        BY ONLY <3>0, <3>3
      <4>3. e[v + 1] = deck[v + 1]
        BY <2>2, <4>2
      <4> QED BY <3>0, <3>1, <4>1, <4>2, <4>3 DEF Kept
    <3> QED BY <3>2, <3>3
  <2>8. ASSUME NEW k \in 1..n, NEW l \in 1..n, w[k] = w[l]
        PROVE  slideMap[k] = slideMap[l]
    <3>1. PICK u \in Nat : u = slideMap[k] /\ u # step
      BY <2>3
    <3>2. PICK v \in Nat : v = slideMap[l] /\ v # step
      BY <2>3
    <3>3. (IF u > step THEN u - 1 ELSE u) = (IF v > step THEN v - 1 ELSE v)
      BY <2>4, <2>8, <3>1, <3>2
    <3>4. u = v
      <4>1. step \in Nat /\ u \in Nat /\ v \in Nat /\ u # step /\ v # step
        BY <1>1, <3>1, <3>2
      <4> QED BY ONLY <3>3, <4>1
    <3> QED BY <3>1, <3>2, <3>4
  <2>9. Placed(e, w, n)
    <3>1. Follows(deck, slideMap, n, e, w)
      BY <1>1, <1>2, <2>2, <2>6, <2>7, <2>8 DEF Follows
    <3> QED BY <3>1, StillPlaced
  <2>10. Placed(deck, slideMap, n)'
    BY <1>1, <2>1, <2>9 DEF Placed
  <2>11. ASSUME NEW p \in 0..(Len(e) - 1), p > step - 1
         PROVE  \E k \in 1..n : w[k] = p
    <3>1. p + 1 \in 0..(Len(deck) - 1) /\ p + 1 > step /\ p \in Nat
      BY <1>1, <2>2, <2>11
    <3>2. PICK k \in 1..n : slideMap[k] = p + 1
      BY <1>2, <3>1 DEF n
    <3>3. w[k] = p
      BY <2>4, <3>1, <3>2
    <3> QED BY <3>3
  <2>12. step' \in -1..(Len(deck') - 1)
    BY <1>1, <2>1, <2>2
  <2> QED BY <1>1, <2>1, <2>10, <2>11, <2>12 DEF Deleting, n
<1> QED BY <1>3, <1>4

\* When every slide is wanted, by one entry each, there are as many as entries.
LEMMA AsManySlides ==
  ASSUME sequence \in Seq(Nat), Deleting, step = -1
  PROVE  Len(deck) = Len(sequence)
<1> DEFINE n == Len(sequence)
           S == 1..n
           T == 0..(Len(deck) - 1)
           f == [k \in S |-> slideMap[k]]
<1>1. n \in Nat /\ Len(deck) \in Nat
  BY DEF Deleting, Placed
<1>2. \A k \in S : slideMap[k] \in Nat /\ slideMap[k] < Len(deck)
  BY DEF Deleting, Placed
<1>3. f \in [S -> T]
  <2>1. ASSUME NEW k \in S
        PROVE  slideMap[k] \in T
    <3>1. PICK v \in Nat : v = slideMap[k] /\ v < Len(deck)
      BY <1>2
    <3> QED BY <1>1, <3>1
  <2> QED BY <2>1
<1>4. \A k, l \in S : f[k] = f[l] => k = l
  BY DEF Deleting, Placed
<1>5. \A p \in T : \E k \in S : f[k] = p
  <2>1. \A p \in T : p > step
    OBVIOUS
  <2>2. \A p \in T : p > step => \E k \in S : slideMap[k] = p
    BY DEF Deleting
  <2> QED BY <2>1, <2>2
<1> HIDE DEF f
<1>6. f \in Bijection(S, T)
  BY <1>3, <1>4, <1>5 DEF Bijection, Injection, Surjection, IsInjective
<1>0. \A i, j \in Int : IsFiniteSet(i..j) /\ Cardinality(i..j) = IF i > j THEN 0 ELSE j - i + 1
  BY FS_Interval
<1> HIDE DEF n
<1>7. IsFiniteSet(S) /\ Cardinality(S) = n /\ IsFiniteSet(T) /\ Cardinality(T) = Len(deck)
  <2>1. 1 \in Int /\ n \in Int /\ 0 \in Int /\ Len(deck) - 1 \in Int
    BY <1>1
  <2>2. IsFiniteSet(1..n) /\ Cardinality(1..n) = IF 1 > n THEN 0 ELSE n - 1 + 1
    BY ONLY <1>0, <2>1
  <2>3. /\ IsFiniteSet(0..(Len(deck) - 1))
        /\ Cardinality(0..(Len(deck) - 1)) = IF 0 > Len(deck) - 1 THEN 0 ELSE Len(deck) - 1 - 0 + 1
    BY ONLY <1>0, <2>1
  <2>4. (IF 1 > n THEN 0 ELSE n - 1 + 1) = n
    BY <1>1
  <2>5. (IF 0 > Len(deck) - 1 THEN 0 ELSE Len(deck) - 1 - 0 + 1) = Len(deck)
    BY <1>1
  <2> QED BY <2>2, <2>3, <2>4, <2>5
<1>8. Cardinality(T) = Cardinality(S)
  BY <1>6, <1>7, FS_Bijection DEF ExistsBijection
<1> QED BY <1>7, <1>8 DEF n

LEMMA ReorderKeeps ==
  ASSUME sequence \in Seq(Nat), Reordering, ReorderStep
  PROVE  Reordering'
<1> DEFINE n == Len(sequence)
           from == slideMap[step + 1]
           rest == RemoveAt(deck, from + 1)
           e == InsertAt(rest, step + 1, deck[from + 1])
           Shifted(p) == IF p > from /\ p <= step THEN p - 1
                         ELSE IF p < from /\ p >= step THEN p + 1 ELSE p
           w == [k \in DOMAIN slideMap |-> IF k = step + 1 THEN step ELSE Shifted(slideMap[k])]
<1>1. /\ n \in Nat /\ deck \in Seq(DeckSlides) /\ slideMap \in Seq(Nat) /\ Len(deck) = n
      /\ Len(slideMap) = n /\ DOMAIN slideMap = 1..n
      /\ step \in Nat /\ step < n /\ step + 1 \in 1..n /\ step' = step + 1
  BY DEF Reordering, Placed, ReorderStep
<1>2. /\ Placed(deck, slideMap, n) /\ \A k \in 1..step : slideMap[k] = k - 1
      /\ \A k \in 1..n : slideMap[k] < n
      /\ \A k, l \in 1..n : slideMap[k] = slideMap[l] => k = l
  BY DEF Reordering, Placed
<1>3. \A k \in 1..n : slideMap[k] \in Nat
  BY <1>1, EntryOf
<1>4. from \in Nat /\ from < n /\ from + 1 \in 1..n
  <2>1. from \in Nat /\ from < n
    BY <1>1, <1>2, <1>3
  <2> HIDE DEF from
  <2> QED BY <1>1, <2>1
<1>5. step <= from
  <2>1. ASSUME from < step
        PROVE  FALSE
    <3>1. from + 1 \in 1..step
      <4> HIDE DEF from
      <4> QED BY <1>1, <1>4, <2>1
    <3>2. slideMap[from + 1] = from
      <4> HIDE DEF from
      <4>1. PICK i \in 1..step : i = from + 1
        BY <3>1
      <4>2. slideMap[i] = i - 1
        BY <1>2
      <4>3. i - 1 = from
        BY <1>4, <4>1
      <4> QED BY <4>1, <4>2, <4>3
    <3>3. from + 1 = step + 1
      BY <1>1, <1>2, <1>4, <3>2
    <3> HIDE DEF from
    <3> QED BY <1>1, <1>4, <2>1, <3>3
  <2> HIDE DEF from
  <2> QED BY <1>1, <1>4, <2>1
<1>6. UNCHANGED <<template, sequence>> /\ n' = n
  BY DEF ReorderStep
<1>7. CASE from = step
  <2>1. deck' = deck /\ slideMap' = slideMap
    BY <1>7 DEF ReorderStep
  <2>2. Placed(deck, slideMap, n)'
    BY <1>1, <1>2, <1>6, <2>1 DEF Placed
  <2>3. ASSUME NEW k \in 1..(step + 1)
        PROVE  slideMap[k] = k - 1
    <3>1. k = step + 1 \/ k \in 1..step
      BY <1>1
    <3>2. CASE k = step + 1
      <4>1. k - 1 = step /\ slideMap[k] = step
        BY <1>1, <1>7, <3>2
      <4> QED BY <4>1
    <3>3. CASE k \in 1..step
      BY <1>2, <3>3
    <3> QED BY <3>1, <3>2, <3>3
  <2> QED BY <1>1, <1>6, <2>1, <2>2, <2>3 DEF Reordering
<1>8. CASE from # step
  <2>1. deck' = e /\ slideMap' = w
    BY <1>8 DEF ReorderStep, Moved
  <2>2. /\ DOMAIN w = 1..n /\ w[step + 1] = step
        /\ \A k \in 1..n : k # step + 1 => w[k] = Shifted(slideMap[k])
    BY <1>1
  <2>3. deck[from + 1] \in DeckSlides
    BY <1>1, <1>4, EntryOf
  <2> HIDE DEF from
  <2>4. from > step
    BY <1>1, <1>4, <1>5, <1>8
  <2>5. /\ rest \in Seq(DeckSlides) /\ Len(rest) = n - 1
        /\ \A j \in 1..(n - 1) : rest[j] = IF j < from + 1 THEN deck[j] ELSE deck[j + 1]
    BY <1>1, <1>4, RemovedAt
  <2> HIDE DEF rest
  <2>6. /\ e \in Seq(DeckSlides) /\ Len(e) = n
        /\ \A j \in 1..n : e[j] = IF j < step + 1 THEN rest[j]
                                  ELSE IF j = step + 1 THEN deck[from + 1] ELSE rest[j - 1]
    <3>1. step + 1 \in 1..(Len(rest) + 1) /\ Len(rest) + 1 = n
      BY <1>1, <2>5
    <3> DEFINE x == deck[from + 1]
    <3>2. /\ e \in Seq(DeckSlides) /\ Len(e) = Len(rest) + 1
          /\ \A j \in 1..(Len(rest) + 1) : e[j] = IF j < step + 1 THEN rest[j]
                                                  ELSE IF j = step + 1 THEN x ELSE rest[j - 1]
      <4>1. x \in DeckSlides /\ rest \in Seq(DeckSlides) /\ e = InsertAt(rest, step + 1, x)
        BY <2>3, <2>5
      <4> DEFINE i == step + 1
      <4>2. i \in 1..(Len(rest) + 1)
        BY <3>1
      <4> HIDE DEF x, e, i
      <4>3. /\ InsertAt(rest, i, x) \in Seq(DeckSlides) /\ Len(InsertAt(rest, i, x)) = Len(rest) + 1
            /\ \A j \in 1..(Len(rest) + 1) :
                 InsertAt(rest, i, x)[j] = IF j < i THEN rest[j] ELSE IF j = i THEN x ELSE rest[j - 1]
        BY ONLY <4>1, <4>2, InsertedAt
      <4> QED BY <4>1, <4>3 DEF i
    <3> QED BY <3>1, <3>2
  <2>7. ASSUME NEW k \in 1..n, k # step + 1
        PROVE  \E v \in Nat : /\ v = slideMap[k] /\ v < n /\ v # from
                              /\ w[k] = IF step <= v /\ v < from THEN v + 1 ELSE v
    <3>1. PICK v \in Nat : v = slideMap[k] /\ v < n
      BY <1>2, <1>3
    <3>2. v # from
      BY <1>1, <1>2, <2>7, <3>1 DEF from
    <3>3. Shifted(v) = IF step <= v /\ v < from THEN v + 1 ELSE v
      <4>1. Shifted(v) = IF v > from /\ v <= step THEN v - 1
                         ELSE IF v < from /\ v >= step THEN v + 1 ELSE v
        OBVIOUS
      <4> HIDE DEF Shifted
      <4>2. ~(v > from /\ v <= step) /\ (v < from /\ v >= step <=> step <= v /\ v < from)
        <5>1. step \in Nat /\ from \in Nat /\ v \in Nat /\ from > step
          BY <1>1, <1>4, <2>4
        <5> QED BY ONLY <5>1
      <4> QED BY <4>1, <4>2
    <3> QED BY <2>2, <2>7, <3>1, <3>2, <3>3
  <2> HIDE DEF e, w, n, Shifted
  <2>8. \A k \in 1..n : w[k] \in Nat
    <3> SUFFICES ASSUME NEW k \in 1..n
                 PROVE  w[k] \in Nat
      OBVIOUS
    <3>1. CASE k = step + 1
      BY <1>1, <2>2, <3>1
    <3>2. CASE k # step + 1
      <4>1. PICK v \in Nat : w[k] = IF step <= v /\ v < from THEN v + 1 ELSE v
        BY <2>7, <3>2
      <4> QED BY <4>1
    <3> QED BY <3>1, <3>2
  <2>9. w \in Seq(Nat) /\ Len(w) = n
    <3>1. w \in [1..n -> Nat]
      <4>1. w = [k \in 1..n |-> w[k]]
        BY <1>1 DEF w
      <4> QED BY <2>8, <4>1
    <3> QED BY <1>1, <3>1, ListOf
  <2>10. ASSUME NEW k \in 1..n
         PROVE  Kept(deck, slideMap[k], e, w[k])
    <3>1. CASE k = step + 1
      <4>1. e[step + 1] = deck[from + 1]
        BY <1>1, <2>6
      <4>2. slideMap[k] = from /\ w[k] = step
        BY <2>2, <3>1 DEF from
      <4> QED BY <1>1, <1>4, <2>6, <4>1, <4>2 DEF Kept
    <3>2. CASE k # step + 1
      <4>1. PICK v \in Nat : /\ v = slideMap[k] /\ v < n /\ v # from
                             /\ w[k] = IF step <= v /\ v < from THEN v + 1 ELSE v
        BY <2>7, <3>2
      <4>0. /\ step \in Nat /\ from \in Nat /\ v \in Nat /\ n \in Nat /\ v < n /\ v # from
            /\ from < n /\ step < n /\ from > step /\ Len(deck) = n /\ Len(e) = n
        BY <1>1, <1>4, <2>4, <2>6, <4>1
      <4>2. CASE v < step
        <5>1. v + 1 \in 1..n /\ v + 1 < step + 1 /\ v + 1 \in 1..(n - 1) /\ v + 1 < from + 1 /\ ~(step <= v)
          BY ONLY <4>0, <4>2
        <5>2. e[v + 1] = rest[v + 1] /\ rest[v + 1] = deck[v + 1]
          BY <2>5, <2>6, <5>1
        <5>3. w[k] = v
          BY <4>1, <5>1
        <5> QED BY <4>0, <4>1, <5>2, <5>3 DEF Kept
      <4>3. CASE step <= v /\ v < from
        <5>1. /\ v + 2 \in 1..n /\ ~(v + 2 < step + 1) /\ v + 2 # step + 1 /\ v + 2 - 1 = v + 1
              /\ v + 1 \in 1..(n - 1) /\ v + 1 < from + 1 /\ v + 1 < n /\ v + 1 + 1 = v + 2
          BY ONLY <4>0, <4>3
        <5>2. e[v + 2] = rest[v + 1] /\ rest[v + 1] = deck[v + 1]
          BY <2>5, <2>6, <5>1
        <5>3. w[k] = v + 1
          BY <4>1, <4>3
        <5>4. v + 1 \in Nat /\ w[k] + 1 = v + 2
          BY <4>0, <5>1, <5>3
        <5> QED BY <4>0, <4>1, <5>1, <5>2, <5>3, <5>4 DEF Kept
      <4>4. CASE v > from
        <5>1. /\ v + 1 \in 1..n /\ ~(v + 1 < step + 1) /\ v + 1 # step + 1 /\ v + 1 - 1 = v
              /\ v \in 1..(n - 1) /\ ~(v < from + 1) /\ ~(v < from)
          BY ONLY <4>0, <4>4
        <5>2. e[v + 1] = rest[v] /\ rest[v] = deck[v + 1]
          BY <2>5, <2>6, <5>1
        <5>3. w[k] = v
          BY <4>1, <5>1
        <5> QED BY <4>0, <4>1, <5>2, <5>3 DEF Kept
      <4> QED BY <4>0, <4>2, <4>3, <4>4
    <3> QED BY <3>1, <3>2
  <2>11. ASSUME NEW k \in 1..n, NEW l \in 1..n, w[k] = w[l]
         PROVE  slideMap[k] = slideMap[l]
    <3>1. ASSUME NEW i \in 1..n, i # step + 1
          PROVE  w[i] # step
      <4>1. PICK v \in Nat : w[i] = IF step <= v /\ v < from THEN v + 1 ELSE v
        BY <2>7, <3>1
      <4> QED BY <1>1, <1>4, <2>4, <4>1
    <3>2. CASE k = step + 1
      <4>1. l = step + 1
        BY <2>2, <2>11, <3>1, <3>2
      <4> QED BY <3>2, <4>1
    <3>3. CASE k # step + 1
      <4>1. l # step + 1
        BY <2>2, <2>11, <3>1, <3>3
      <4>2. PICK u \in Nat : u = slideMap[k] /\ u # from /\ w[k] = IF step <= u /\ u < from THEN u + 1 ELSE u
        BY <2>7, <3>3
      <4>3. PICK v \in Nat : v = slideMap[l] /\ v # from /\ w[l] = IF step <= v /\ v < from THEN v + 1 ELSE v
        BY <2>7, <4>1
      <4>4. (IF step <= u /\ u < from THEN u + 1 ELSE u) = (IF step <= v /\ v < from THEN v + 1 ELSE v)
        BY <2>11, <4>2, <4>3
      <4>5. u = v
        <5>1. step \in Nat /\ from \in Nat /\ u \in Nat /\ v \in Nat /\ from > step /\ u # from /\ v # from
          BY <1>1, <1>4, <2>4, <4>2, <4>3
        <5> QED BY ONLY <4>4, <5>1
      <4> QED BY <4>2, <4>3, <4>5
    <3> QED BY <3>2, <3>3
  <2>12. Placed(e, w, n)
    <3>1. Follows(deck, slideMap, n, e, w)
      BY <1>1, <1>2, <2>6, <2>9, <2>10, <2>11 DEF Follows
    <3> QED BY <3>1, StillPlaced
  <2>13. Placed(deck, slideMap, n)'
    BY <1>1, <1>6, <2>1, <2>12 DEF Placed
  <2>14. ASSUME NEW k \in 1..(step + 1)
         PROVE  w[k] = k - 1
    <3>1. CASE k = step + 1
      <4>1. k - 1 = step /\ w[k] = step
        BY <1>1, <2>2, <3>1
      <4> QED BY <4>1
    <3>2. CASE k \in 1..step
      <4>1. slideMap[k] = k - 1 /\ k \in 1..n /\ k # step + 1
        BY <1>1, <1>2, <3>2
      <4>2. PICK v \in Nat : v = slideMap[k] /\ w[k] = IF step <= v /\ v < from THEN v + 1 ELSE v
        BY <2>7, <4>1
      <4>3. v < step
        BY <1>1, <3>2, <4>1, <4>2
      <4> QED BY <1>1, <4>1, <4>2, <4>3
    <3>3. k = step + 1 \/ k \in 1..step
      BY <1>1
    <3> QED BY <3>1, <3>2, <3>3
  <2> QED BY <1>1, <1>6, <2>1, <2>6, <2>13, <2>14 DEF Reordering, n
<1> QED BY <1>7, <1>8

LEMMA ArrangedAsAsked ==
  ASSUME sequence \in Seq(Nat), Reordering, step = Len(slideMap)
  PROVE  /\ deck \in Seq(DeckSlides) /\ Len(deck) = Len(sequence)
         /\ \A i \in DOMAIN sequence : Shown(deck[i]) = Shown(template[sequence[i] + 1])
<1>1. /\ deck \in Seq(DeckSlides) /\ Len(deck) = Len(sequence) /\ DOMAIN sequence = 1..Len(sequence)
      /\ Len(slideMap) = Len(sequence) /\ Len(sequence) \in Nat
      /\ \A k \in 1..Len(sequence) : slideMap[k] = k - 1
      /\ \A k \in 1..Len(sequence) : Shown(deck[slideMap[k] + 1]) = Shown(template[sequence[k] + 1])
  BY DEF Reordering, Placed
<1>2. \A k \in 1..Len(sequence) : slideMap[k] + 1 = k
  BY <1>1
<1> QED BY <1>1, <1>2

LEMMA SlidesStart ==
  ASSUME SlidesInit
  PROVE  SlidesInv
<1>1. PICK n \in 1..MaxSequence : sequence \in [1..n -> 0..Len(template)]
  BY DEF SlidesInit
<1>2. n \in Nat /\ Len(template) \in Nat
  BY SlidesAssumption, TemplateIs DEF SlidesInit
<1>3. sequence \in [1..n -> Nat]
  BY <1>1, <1>2
<1>4. sequence \in Seq(Nat)
  BY <1>2, <1>3, ListOf
<1> QED BY <1>4 DEF SlidesInit, SlidesInv, RearrangedInOrder

\* Every index is one of a slide of the template: rebuilding the deck begins.
LEMMA ChecksIndices ==
  ASSUME SlidesInv, CheckIndices
  PROVE  SlidesInv'
<1>1. /\ template \in Templates /\ sequence \in Seq(Nat)
      /\ deck = template /\ slideMap = <<>> /\ duplicated = [t \in {} |-> <<>>] /\ step = 0
      /\ UNCHANGED <<template, sequence, deck, slideMap, duplicated, step, output>>
  BY DEF SlidesInv, CheckIndices
<1>2. CASE phase' = "rejected"
  BY <1>1, <1>2 DEF SlidesInv, RearrangedInOrder
<1>3. CASE phase' = "duplicate"
  <2>1. /\ template \in Seq(DeckSlides) /\ Len(template) \in Nat /\ Len(sequence) \in Nat
        /\ DOMAIN sequence = 1..Len(sequence)
    BY <1>1, TemplateIs
  <2>2. ASSUME NEW i \in DOMAIN sequence
        PROVE  sequence[i] < Len(template)
    <3>1. ~(sequence[i] >= Len(template))
      BY <1>1, <1>3 DEF CheckIndices
    <3>2. sequence[i] \in Nat
      BY <1>1, <2>1, EntryOf
    <3> QED BY <2>1, <3>1, <3>2
  <2>3. Placed(deck, slideMap, 0)
    <3>1. slideMap \in Seq(Nat) /\ Len(slideMap) = 0
      BY <1>1
    <3> QED BY <1>1, <2>1, <3>1 DEF Placed
  <2>4. DOMAIN duplicated = {}
    BY <1>1
  <2>5. CopiesApart /\ CopiesUnused
    BY <2>4 DEF CopiesApart, CopiesUnused
  <2>6. Duplicating
    BY <1>1, <2>1, <2>2, <2>3, <2>4, <2>5 DEF Duplicating
  <2>7. Duplicating'
    BY <1>1, <2>6 DEF Duplicating, Placed, CopiesApart, CopiesUnused, CopiesOf, Served, Left
  <2> QED BY <1>1, <1>3, <2>7 DEF SlidesInv, RearrangedInOrder
<1> QED BY <1>2, <1>3 DEF CheckIndices

LEMMA DeletingStarts ==
  ASSUME sequence \in Seq(Nat), Duplicating, StartDeleting
  PROVE  Deleting'
<1>1. /\ Placed(deck, slideMap, Len(sequence)) /\ Len(deck) \in Nat
      /\ step' = Len(deck) - 1 /\ UNCHANGED <<template, sequence, deck, slideMap>>
  BY DEF Duplicating, StartDeleting, Placed
<1>2. step' \in -1..(Len(deck) - 1) /\ \A p \in 0..(Len(deck) - 1) : ~(p > step')
  BY <1>1
<1>3. Placed(deck, slideMap, Len(sequence))'
  BY <1>1 DEF Placed
<1> QED BY <1>1, <1>2, <1>3 DEF Deleting

LEMMA ReorderingStarts ==
  ASSUME sequence \in Seq(Nat), Deleting, StartReordering
  PROVE  Reordering'
<1>1. /\ Placed(deck, slideMap, Len(sequence)) /\ Len(deck) = Len(sequence) /\ Len(sequence) \in Nat
      /\ step' = 0 /\ UNCHANGED <<template, sequence, deck, slideMap>>
  BY AsManySlides DEF Deleting, StartReordering
<1>2. Placed(deck, slideMap, Len(sequence))'
  BY <1>1 DEF Placed
<1> QED BY <1>1, <1>2 DEF Reordering

LEMMA SlidesStep ==
  ASSUME SlidesInv, [SlidesNext]_slideVars
  PROVE  SlidesInv'
<1>1. template \in Templates /\ sequence \in Seq(Nat)
  BY DEF SlidesInv
<1>2. CASE CheckIndices
  BY <1>2, ChecksIndices
<1>3. CASE DuplicateStep
  <2>1. Duplicating'
    BY <1>1, <1>3, DuplicateKeeps DEF SlidesInv, DuplicateStep
  <2>2. phase' = "duplicate" /\ UNCHANGED <<template, sequence>>
    BY <1>3 DEF DuplicateStep
  <2> QED BY <1>1, <2>1, <2>2 DEF SlidesInv, RearrangedInOrder
<1>4. CASE StartDeleting
  <2>1. Deleting'
    BY <1>1, <1>4, DeletingStarts DEF SlidesInv, StartDeleting
  <2>2. phase' = "delete" /\ UNCHANGED <<template, sequence>>
    BY <1>4 DEF StartDeleting
  <2> QED BY <1>1, <2>1, <2>2 DEF SlidesInv, RearrangedInOrder
<1>5. CASE DeleteStep
  <2>1. Deleting'
    BY <1>1, <1>5, DeleteKeeps DEF SlidesInv, DeleteStep
  <2>2. phase' = "delete" /\ UNCHANGED <<template, sequence>>
    BY <1>5 DEF DeleteStep
  <2> QED BY <1>1, <2>1, <2>2 DEF SlidesInv, RearrangedInOrder
<1>6. CASE StartReordering
  <2>1. Reordering'
    BY <1>1, <1>6, ReorderingStarts DEF SlidesInv, StartReordering
  <2>2. phase' = "reorder" /\ UNCHANGED <<template, sequence>>
    BY <1>6 DEF StartReordering
  <2> QED BY <1>1, <2>1, <2>2 DEF SlidesInv, RearrangedInOrder
<1>7. CASE ReorderStep
  <2>1. Reordering'
    BY <1>1, <1>7, ReorderKeeps DEF SlidesInv, ReorderStep
  <2>2. phase' = "reorder" /\ UNCHANGED <<template, sequence>>
    BY <1>7 DEF ReorderStep
  <2> QED BY <1>1, <2>1, <2>2 DEF SlidesInv, RearrangedInOrder
<1>8. CASE Arrange
  <2>1. Reordering /\ step = Len(slideMap)
    BY <1>8 DEF SlidesInv, Arrange
  <2>2. /\ deck \in Seq(DeckSlides) /\ Len(deck) = Len(sequence)
        /\ \A i \in DOMAIN sequence : Shown(deck[i]) = Shown(template[sequence[i] + 1])
    BY <1>1, <2>1, ArrangedAsAsked
  <2>3. phase' = "arranged" /\ UNCHANGED <<template, sequence, deck>>
    BY <1>8 DEF Arrange
  <2> QED BY <1>1, <2>2, <2>3 DEF SlidesInv, RearrangedInOrder
<1>9. ASSUME NEW replacements, Replace(replacements)
      PROVE  SlidesInv'
  <2>1. /\ phase = "arranged" /\ phase' \in {"saved", "refused"}
        /\ UNCHANGED <<template, sequence, deck, slideMap, duplicated, step>>
    BY <1>9 DEF Replace
  <2> QED BY <2>1 DEF SlidesInv, RearrangedInOrder
<1>10. CASE UNCHANGED slideVars
  <2>1. /\ UNCHANGED <<template, sequence, deck, slideMap, duplicated, step, phase>>
    BY <1>10 DEF slideVars
  <2>2. /\ Duplicating' <=> Duplicating
        /\ Deleting' <=> Deleting
        /\ Reordering' <=> Reordering
    BY <2>1 DEF Duplicating, Deleting, Reordering, Placed, CopiesApart, CopiesUnused, CopiesOf, Served, Left
  <2> QED BY <2>1, <2>2 DEF SlidesInv, RearrangedInOrder
<1> QED BY <1>2, <1>3, <1>4, <1>5, <1>6, <1>7, <1>8, <1>9, <1>10 DEF SlidesNext

(* However slides repeat, are left out or change places, the deck               *)
(* rearrange.py ends with is the one the sequence asked for.                     *)
THEOREM RearrangedInOrderAlways == SlidesSpec => []RearrangedInOrder
<1>1. SlidesInit => SlidesInv
  BY SlidesStart
<1>2. SlidesInv /\ [SlidesNext]_slideVars => SlidesInv'
  BY SlidesStep
<1>3. SlidesInv => RearrangedInOrder
  BY DEF SlidesInv
<1> QED BY <1>1, <1>2, <1>3, PTL DEF SlidesSpec

-----------------------------------------------------------------------------
(* Replacing texts.  What replace.py compares are the inventory's shapes of one *)
(* number, before and after; a shape that is in no inventory keeps its text.    *)

HasTexts(slide) ==
  /\ "shapes" \in DOMAIN slide
  /\ \A i \in DOMAIN slide.shapes : /\ "text" \in DOMAIN slide.shapes[i]
                                    /\ slide.shapes[i].text.lines \in Nat
                                    /\ slide.shapes[i].room \in Nat

LEMMA SlidesHaveTexts ==
  ASSUME NEW slide \in DeckSlides
  PROVE  HasTexts(slide)
<1>1. ASSUME NEW s \in TemplateSlides
      PROVE  HasTexts(s) /\ HasTexts(DuplicateSlide(s))
  <2>1. IsSlide(s)
    BY TemplatesAssumption DEF TemplateSlides, Range
  <2>2. s.shapes \in Seq(Shape) /\ "shapes" \in DOMAIN s
    BY <2>1 DEF IsSlide
  <2>3. ASSUME NEW i \in DOMAIN s.shapes
        PROVE  /\ "text" \in DOMAIN s.shapes[i] /\ "blip" \in DOMAIN s.shapes[i]
               /\ s.shapes[i].text.lines \in Nat /\ s.shapes[i].room \in Nat
    <3>1. s.shapes[i] \in Shape
      BY <2>2
    <3> QED BY <3>1 DEF Shape, Text
  <2>4. HasTexts(s)
    BY <2>2, <2>3 DEF HasTexts
  <2> DEFINE copy == DuplicateSlide(s)
  <2>5. "shapes" \in DOMAIN copy /\ DOMAIN copy.shapes = DOMAIN s.shapes
    BY DEF DuplicateSlide
  <2>6. ASSUME NEW i \in DOMAIN s.shapes
        PROVE  \E b : \/ copy.shapes[i] = s.shapes[i]
                      \/ copy.shapes[i] = [s.shapes[i] EXCEPT !.blip = b]
    BY DEF DuplicateSlide
  <2> HIDE DEF copy
  <2>7. ASSUME NEW i \in DOMAIN s.shapes
        PROVE  /\ "text" \in DOMAIN copy.shapes[i]
               /\ copy.shapes[i].text.lines \in Nat /\ copy.shapes[i].room \in Nat
    <3> DEFINE old == s.shapes[i]
               new == copy.shapes[i]
    <3>1. "text" \in DOMAIN old /\ "blip" \in DOMAIN old /\ old.text.lines \in Nat /\ old.room \in Nat
      BY <2>3
    <3>2. PICK b : new = old \/ new = [old EXCEPT !.blip = b]
      BY <2>6
    <3> HIDE DEF old, new
    <3>3. CASE new = old
      BY <3>1, <3>3 DEF old, new
    <3>4. CASE new = [old EXCEPT !.blip = b]
      <4>1. "text" \in DOMAIN new /\ new.text = old.text /\ new.room = old.room
        BY <3>1, <3>4
      <4> QED BY <3>1, <4>1 DEF new
    <3> QED BY <3>2, <3>3, <3>4
  <2>8. HasTexts(copy)
    BY <2>5, <2>7 DEF HasTexts
  <2> QED BY <2>4, <2>8 DEF copy
<1> QED BY <1>1 DEF DeckSlides

LEMMA OverflowIsNat ==
  ASSUME NEW s, s.text.lines \in Nat, s.room \in Nat
  PROVE  Overflow(s) \in Nat
BY DEF Overflow

LEMMA AcceptedIsNoWorse ==
  ASSUME NEW replacements, \A key \in DOMAIN replacements : replacements[key] \in Text,
         NEW n, HasTexts(deck[n]), ~Worsened(deck[n], Filled(replacements, n)),
         Inventory(Filled(replacements, n)) = Inventory(deck[n]),
         NEW i \in DOMAIN Filled(replacements, n).shapes
  PROVE  Overflow(Filled(replacements, n).shapes[i]) <= Overflow(deck[n].shapes[i])
<1> DEFINE slide == deck[n]
           ids == Inventory(slide)
           TextOf(k) == IF <<n - 1, k - 1>> \in DOMAIN replacements
                        THEN replacements[<<n - 1, k - 1>>] ELSE Blank
           filled == Filled(replacements, n)
           old == slide.shapes[i]
           new == filled.shapes[i]
<1>1. /\ DOMAIN filled.shapes = DOMAIN slide.shapes
      /\ new = IF \E k \in DOMAIN ids : ids[k] = i
               THEN [old EXCEPT !.text = TextOf(CHOOSE k \in DOMAIN ids : ids[k] = i)]
               ELSE old
  BY DEF Filled, HasTexts
<1>2. "text" \in DOMAIN old /\ old.text.lines \in Nat /\ old.room \in Nat
  BY <1>1 DEF HasTexts
<1>3. Overflow(old) \in Nat
  BY <1>2, OverflowIsNat
<1>4. \A k : TextOf(k).lines \in Nat
  BY DEF Text, Blank
<1>5. Inventory(filled) = ids /\ \A k \in DOMAIN ids : ~(OverflowAt(filled, k) > OverflowAt(slide, k))
  BY DEF Worsened
<1>6. \A k \in DOMAIN ids : /\ OverflowAt(filled, k) = Overflow(filled.shapes[ids[k]])
                            /\ OverflowAt(slide, k) = Overflow(slide.shapes[ids[k]])
  BY <1>5 DEF OverflowAt
<1> HIDE DEF ids, TextOf, filled, slide
<1>7. CASE \E k \in DOMAIN ids : ids[k] = i
  <2>1. PICK k \in DOMAIN ids : ids[k] = i
    BY <1>7
  <2>2. ~(Overflow(new) > Overflow(old))
    BY <1>5, <1>6, <2>1
  <2>3. PICK j : new = [old EXCEPT !.text = TextOf(j)]
    BY <1>1, <1>7
  <2>4. new.text.lines \in Nat /\ new.room \in Nat
    BY <1>2, <1>4, <2>3
  <2>5. Overflow(new) \in Nat
    BY <2>4, OverflowIsNat
  <2> HIDE DEF new, old
  <2>6. Overflow(new) <= Overflow(old)
    BY <1>3, <2>2, <2>5
  <2> QED BY <2>6 DEF new, old, filled, slide
<1>8. CASE ~\E k \in DOMAIN ids : ids[k] = i
  <2>1. new = old
    BY <1>1, <1>8
  <2> HIDE DEF new, old
  <2>2. Overflow(new) <= Overflow(old)
    BY <1>3, <2>1
  <2> QED BY <2>2 DEF new, old, filled, slide
<1> QED BY <1>7, <1>8

LEMMA ReplaceAcceptsNoWorse ==
  ASSUME SlidesInv, NEW used, NEW replacements \in [used -> Texts], Replace(replacements)
  PROVE  AcceptedNeverWorse'
<1>1. CASE phase' = "saved"
  <2>1. /\ output' = [n \in DOMAIN deck |-> Filled(replacements, n)] /\ deck' = deck
        /\ \A n \in DOMAIN deck : ~Worsened(deck[n], Filled(replacements, n))
    BY <1>1 DEF Replace
  <2>2. \A key \in DOMAIN replacements : replacements[key] \in Text
    BY SlidesAssumption
  <2>3. deck \in Seq(DeckSlides)
    BY DEF SlidesInv, Replace
  <2>4. ASSUME NEW n \in DOMAIN deck
        PROVE  HasTexts(deck[n])
    <3>1. deck[n] \in DeckSlides
      BY <2>3
    <3> QED BY <3>1, SlidesHaveTexts
  <2>5. ASSUME NEW n \in DOMAIN deck, Inventory(Filled(replacements, n)) = Inventory(deck[n]),
               NEW i \in DOMAIN Filled(replacements, n).shapes
        PROVE  Overflow(Filled(replacements, n).shapes[i]) <= Overflow(deck[n].shapes[i])
    BY <2>1, <2>2, <2>4, <2>5, AcceptedIsNoWorse
  <2>6. DOMAIN output' = DOMAIN deck /\ \A n \in DOMAIN deck : output'[n] = Filled(replacements, n)
    BY <2>1
  <2>7. ASSUME NEW n \in DOMAIN output', Inventory(output'[n]) = Inventory(deck'[n]),
               NEW i \in DOMAIN output'[n].shapes
        PROVE  Overflow(output'[n].shapes[i]) <= Overflow(deck'[n].shapes[i])
    <3>1. n \in DOMAIN deck /\ output'[n] = Filled(replacements, n) /\ deck'[n] = deck[n]
      BY <2>1, <2>6
    <3>2. Overflow(Filled(replacements, n).shapes[i]) <= Overflow(deck[n].shapes[i])
      BY <2>5, <2>7, <3>1
    <3> QED BY <3>1, <3>2
  <2> QED BY <2>7 DEF AcceptedNeverWorse
<1>2. CASE phase' # "saved"
  BY <1>2 DEF AcceptedNeverWorse
<1> QED BY <1>1, <1>2

(* replace.py saves no deck in which a text overflows more than the one it       *)
(* replaced, as long as the inventory of its slide is the same.                  *)
THEOREM AcceptedNeverWorseAlways == SlidesSpec => []AcceptedNeverWorse
<1> DEFINE Inv == SlidesInv /\ AcceptedNeverWorse
<1>1. SlidesInit => Inv
  BY SlidesStart DEF SlidesInit, AcceptedNeverWorse
<1>2. Inv /\ [SlidesNext]_slideVars => Inv'
  <2> SUFFICES ASSUME SlidesInv, AcceptedNeverWorse, [SlidesNext]_slideVars
               PROVE  SlidesInv' /\ AcceptedNeverWorse'
    OBVIOUS
  <2>1. SlidesInv'
    BY SlidesStep
  <2>2. ASSUME NEW used \in SUBSET ShapeKeys, NEW replacements \in [used -> Texts], Replace(replacements)
        PROVE  AcceptedNeverWorse'
    BY <2>2, ReplaceAcceptsNoWorse
  <2>3. CASE CheckIndices \/ DuplicateStep \/ StartDeleting \/ DeleteStep
             \/ StartReordering \/ ReorderStep \/ Arrange
    <3>1. phase' # "saved"
      BY <2>3 DEF CheckIndices, DuplicateStep, StartDeleting, DeleteStep, StartReordering, ReorderStep, Arrange
    <3> QED BY <2>1, <3>1 DEF AcceptedNeverWorse
  <2>4. CASE UNCHANGED slideVars
    <3>1. phase' = phase /\ output' = output /\ deck' = deck
      BY <2>4 DEF slideVars
    <3> QED BY <2>1, <3>1 DEF AcceptedNeverWorse
  <2> QED BY <2>1, <2>2, <2>3, <2>4 DEF SlidesNext
<1>3. Inv => AcceptedNeverWorse
  OBVIOUS
<1> QED BY <1>1, <1>2, <1>3, PTL DEF SlidesSpec

-----------------------------------------------------------------------------
(* Entries of a list picked by their positions.                                *)

\* The positions of a finite set are numbered without a gap.
LEMMA Ranked ==
  ASSUME NEW S \in SUBSET Nat, IsFiniteSet(S)
  PROVE  /\ Cardinality(S) \in Nat
         /\ \A i \in S : Cardinality(Before(S, i)) \in 0..(Cardinality(S) - 1)
         /\ \A i, j \in S : Cardinality(Before(S, i)) = Cardinality(Before(S, j)) => i = j
         /\ \A n \in 1..Cardinality(S) : \E i \in S : Cardinality(Before(S, i)) = n - 1
<1> DEFINE B(i) == Before(S, i)
           c == Cardinality(S)
           f == [i \in S |-> Cardinality(B(i))]
           T == 0..(c - 1)
<1>1. c \in Nat
  BY FS_CardinalityType
<1>2. \A i \in S : B(i) \subseteq S \ {i}
  BY DEF Before
<1>3. \A i, j \in S : i < j => i \notin B(i) /\ B(i) \cup {i} \subseteq B(j)
  <2> SUFFICES ASSUME NEW i \in S, NEW j \in S, i < j
               PROVE  i \notin B(i) /\ B(i) \cup {i} \subseteq B(j)
    OBVIOUS
  <2>1. ~(i < i) /\ \A k \in S : k < i => k < j
    OBVIOUS
  <2> QED BY <2>1 DEF Before
<1> HIDE DEF B, c
<1>4. ASSUME NEW i \in S
      PROVE  IsFiniteSet(B(i)) /\ Cardinality(B(i)) \in Nat /\ Cardinality(B(i)) < c
  <2>1. IsFiniteSet(S \ {i}) /\ Cardinality(S \ {i}) = c - 1
    BY FS_RemoveElement DEF c
  <2>2. B(i) \in SUBSET (S \ {i})
    BY <1>2
  <2>3. IsFiniteSet(B(i)) /\ Cardinality(B(i)) <= Cardinality(S \ {i})
    BY <2>1, <2>2, FS_Subset
  <2>4. Cardinality(B(i)) \in Nat
    BY <2>3, FS_CardinalityType
  <2> QED BY <1>1, <2>1, <2>3, <2>4
<1>5. ASSUME NEW i \in S, NEW j \in S, i < j
      PROVE  Cardinality(B(i)) < Cardinality(B(j))
  <2>1. i \notin B(i) /\ B(i) \cup {i} \in SUBSET B(j)
    BY <1>3, <1>5
  <2>2. Cardinality(B(i) \cup {i}) = Cardinality(B(i)) + 1
    BY <1>4, <2>1, FS_AddElement
  <2>3. Cardinality(B(i) \cup {i}) <= Cardinality(B(j))
    BY <1>4, <2>1, FS_Subset
  <2>4. Cardinality(B(i)) \in Nat /\ Cardinality(B(j)) \in Nat
    BY <1>4
  <2> QED BY ONLY <2>2, <2>3, <2>4
<1>6. ASSUME NEW i \in S, NEW j \in S, Cardinality(B(i)) = Cardinality(B(j))
      PROVE  i = j
  <2>1. i < j \/ j < i \/ i = j
    OBVIOUS
  <2>2. ~(i < j) /\ ~(j < i)
    BY <1>4, <1>5, <1>6
  <2> QED BY <2>1, <2>2
<1>7. f \in [S -> T] /\ \A i \in S : f[i] = Cardinality(B(i))
  <2>1. ASSUME NEW i \in S
        PROVE  Cardinality(B(i)) \in T
    BY <1>1, <1>4
  <2> QED BY <2>1
<1> HIDE DEF f
<1>8. f \in Injection(S, T)
  BY <1>6, <1>7 DEF Injection, IsInjective
<1>9. IsFiniteSet(T) /\ Cardinality(T) = c
  <2>0. \A i, j \in Int : IsFiniteSet(i..j) /\ Cardinality(i..j) = IF i > j THEN 0 ELSE j - i + 1
    BY FS_Interval
  <2>1. 0 \in Int /\ c - 1 \in Int
    BY <1>1
  <2>2. IsFiniteSet(0..(c - 1)) /\ Cardinality(0..(c - 1)) = IF 0 > c - 1 THEN 0 ELSE c - 1 - 0 + 1
    BY ONLY <2>0, <2>1
  <2>3. (IF 0 > c - 1 THEN 0 ELSE c - 1 - 0 + 1) = c
    BY <1>1
  <2> QED BY <2>2, <2>3
<1> HIDE DEF T
<1>10. f \in Surjection(S, T)
  BY <1>8, <1>9, FS_Injection DEF c
<1>11. \A t \in T : \E i \in S : Cardinality(B(i)) = t
  BY <1>7, <1>10 DEF Surjection
<1>12. \A n \in 1..c : n - 1 \in T
  BY <1>1 DEF T
<1>13. \A i \in S : Cardinality(B(i)) \in T
  BY <1>1, <1>4 DEF T
<1> QED BY <1>1, <1>6, <1>11, <1>12, <1>13 DEF B, c, T

\* f leads from the positions S to T in order, and s to the same entries as u.
InOrder(f, S, T) ==
  /\ S \in SUBSET Nat /\ IsFiniteSet(S) /\ T \in SUBSET Nat
  /\ f \in [S -> T] /\ \A t \in T : \E i \in S : f[i] = t
  /\ \A i, j \in S : i < j => f[i] < f[j]
SameAlong(f, s, S, u) == \A i \in S : u[f[i]] = s[i]

LEMMA OrderKeepsRank ==
  ASSUME NEW S, NEW T, NEW f, InOrder(f, S, T)
  PROVE  /\ IsFiniteSet(T) /\ Cardinality(T) = Cardinality(S)
         /\ \A i \in S : Cardinality(Before(T, f[i])) = Cardinality(Before(S, i))
<1>1. /\ S \in SUBSET Nat /\ IsFiniteSet(S) /\ T \in SUBSET Nat
      /\ f \in [S -> T] /\ \A t \in T : \E i \in S : f[i] = t
      /\ \A i, j \in S : i < j => f[i] < f[j]
  BY DEF InOrder
<1>2. \A i, j \in S : (f[i] < f[j] <=> i < j) /\ (f[i] = f[j] => i = j)
  <2> SUFFICES ASSUME NEW i \in S, NEW j \in S
               PROVE  (f[i] < f[j] <=> i < j) /\ (f[i] = f[j] => i = j)
    OBVIOUS
  <2>1. /\ i \in Nat /\ j \in Nat /\ f[i] \in Nat /\ f[j] \in Nat
        /\ i < j => f[i] < f[j]
        /\ j < i => f[j] < f[i]
    BY <1>1
  <2>2. CASE i < j
    BY <2>1, <2>2
  <2>3. CASE j < i
    BY <2>1, <2>3
  <2>4. CASE i = j
    BY <2>1, <2>4
  <2>5. i < j \/ j < i \/ i = j
    BY <2>1
  <2> QED BY <2>2, <2>3, <2>4, <2>5
<1>3. f \in Bijection(S, T)
  BY <1>1, <1>2 DEF Bijection, Injection, Surjection, IsInjective
<1>4. IsFiniteSet(T) /\ Cardinality(T) = Cardinality(S)
  BY <1>1, <1>3, FS_Bijection DEF ExistsBijection
<1>5. ASSUME NEW i \in S
      PROVE  Cardinality(Before(T, f[i])) = Cardinality(Before(S, i))
  <2> DEFINE A == Before(S, i)
             C == Before(T, f[i])
             g == [j \in A |-> f[j]]
  <2>1. A \in SUBSET S /\ \A j \in S : j \in A <=> j < i
    BY DEF Before
  <2>2. C \in SUBSET T /\ \A t \in T : t \in C <=> t < f[i]
    <3>1. \A x : Before(T, x) \in SUBSET T /\ \A t \in T : t \in Before(T, x) <=> t < x
      BY DEF Before
    <3> QED BY ONLY <3>1
  <2>3. IsFiniteSet(A)
    BY <1>1, <2>1, FS_Subset
  <2> HIDE DEF A, C
  <2>4. g \in [A -> C]
    <3>1. \A j \in A : f[j] \in C
      BY <1>1, <1>2, <2>1, <2>2
    <3> QED BY <3>1
  <2>5. \A j, k \in A : g[j] = g[k] => j = k
    BY <1>2, <2>1
  <2>6. \A t \in C : \E j \in A : g[j] = t
    <3> SUFFICES ASSUME NEW t \in C
                 PROVE  \E j \in A : g[j] = t
      OBVIOUS
    <3>1. PICK j \in S : f[j] = t
      BY <1>1, <2>2
    <3>2. j \in A
      BY <1>2, <2>1, <2>2, <3>1
    <3> QED BY <3>1, <3>2
  <2> HIDE DEF g
  <2>7. g \in Bijection(A, C)
    BY <2>4, <2>5, <2>6 DEF Bijection, Injection, Surjection, IsInjective
  <2>8. Cardinality(C) = Cardinality(A)
    BY <2>3, <2>7, FS_Bijection DEF ExistsBijection
  <2> QED BY <2>8 DEF A, C
<1> QED BY <1>4, <1>5

\* What is picked in the same order is the same.
LEMMA SameSelected ==
  ASSUME NEW S, NEW T, NEW f, InOrder(f, S, T), NEW s, NEW u, SameAlong(f, s, S, u)
  PROVE  Selected(u, T) = Selected(s, S)
<1> DEFINE N(X, n) == CHOOSE i \in X : Cardinality(Before(X, i)) = n - 1
<1>1. /\ S \in SUBSET Nat /\ IsFiniteSet(S) /\ T \in SUBSET Nat /\ IsFiniteSet(T)
      /\ Cardinality(T) = Cardinality(S) /\ \A i \in S : f[i] \in T
  BY OrderKeepsRank DEF InOrder
<1>2. ASSUME NEW n \in 1..Cardinality(S)
      PROVE  u[N(T, n)] = s[N(S, n)]
  <2>1. \E i \in S : Cardinality(Before(S, i)) = n - 1
    BY <1>1, Ranked
  <2>2. N(S, n) \in S /\ Cardinality(Before(S, N(S, n))) = n - 1
    BY <2>1
  <2>3. f[N(S, n)] \in T /\ Cardinality(Before(T, f[N(S, n)])) = n - 1
    <3>1. \A i \in S : Cardinality(Before(T, f[i])) = Cardinality(Before(S, i))
      BY OrderKeepsRank
    <3> HIDE DEF N
    <3> QED BY <1>1, <2>2, <3>1
  <2>4. N(T, n) \in T /\ Cardinality(Before(T, N(T, n))) = n - 1
    BY <2>3
  <2>5. \A i, j \in T : Cardinality(Before(T, i)) = Cardinality(Before(T, j)) => i = j
    BY <1>1, Ranked
  <2> HIDE DEF N
  <2>6. N(T, n) = f[N(S, n)]
    BY <2>3, <2>4, <2>5
  <2> QED BY <2>2, <2>6 DEF SameAlong
<1> QED BY <1>1, <1>2 DEF Selected

\* T and w are S and v with d positions more after the k-th, none of them in T.
Spread(n, k, d, S, T, v, w) ==
  /\ n \in Nat /\ k \in 0..n /\ d \in Nat /\ S \in SUBSET (1..n) /\ T \in SUBSET (1..(n + d))
  /\ \A i \in 1..k : (i \in T <=> i \in S) /\ w[i] = v[i]
  /\ \A i \in (k + 1)..n : (i + d \in T <=> i \in S) /\ w[i + d] = v[i]
  /\ \A j \in (k + 1)..(k + d) : j \notin T

LEMMA SpreadSelected ==
  ASSUME NEW n, NEW k, NEW d, NEW S, NEW T, NEW v, NEW w, Spread(n, k, d, S, T, v, w)
  PROVE  Selected(w, T) = Selected(v, S) /\ (T = {} <=> S = {})
<1> DEFINE f == [i \in S |-> IF i <= k THEN i ELSE i + d]
<1>1. /\ n \in Nat /\ k \in Nat /\ k <= n /\ d \in Nat /\ S \in SUBSET (1..n) /\ T \in SUBSET (1..(n + d))
      /\ \A i \in 1..k : (i \in T <=> i \in S) /\ w[i] = v[i]
      /\ \A i \in (k + 1)..n : (i + d \in T <=> i \in S) /\ w[i + d] = v[i]
      /\ \A j \in (k + 1)..(k + d) : j \notin T
  BY DEF Spread
<1>2. \A i \in S : i \in Nat /\ (i <= k => i \in 1..k) /\ (~(i <= k) => i \in (k + 1)..n)
  BY <1>1
<1>3. \A i \in S : f[i] = IF i <= k THEN i ELSE i + d
  OBVIOUS
<1>4. f \in [S -> T]
  <2>1. ASSUME NEW i \in S
        PROVE  (IF i <= k THEN i ELSE i + d) \in T
    BY <1>1, <1>2
  <2> QED BY <2>1
<1> HIDE DEF f
<1>5. \A t \in T : \E i \in S : f[i] = t
  <2> SUFFICES ASSUME NEW t \in T
               PROVE  \E i \in S : f[i] = t
    OBVIOUS
  <2>1. t \in 1..k \/ t \in (k + 1)..(k + d) \/ t - d \in (k + 1)..n
    BY <1>1
  <2>2. CASE t \in 1..k
    <3>1. t \in S /\ t <= k
      BY <1>1, <2>2
    <3> QED BY <1>3, <3>1
  <2>3. CASE t - d \in (k + 1)..n
    <3>1. t - d + d = t /\ ~(t - d <= k)
      BY <1>1, <2>3
    <3>2. t - d \in S
      BY <1>1, <2>3, <3>1
    <3> QED BY <1>3, <3>1, <3>2
  <2> QED BY <1>1, <2>1, <2>2, <2>3
<1>6. \A i, j \in S : i < j => f[i] < f[j]
  <2> SUFFICES ASSUME NEW i \in S, NEW j \in S, i < j
               PROVE  f[i] < f[j]
    OBVIOUS
  <2>1. i \in Nat /\ j \in Nat /\ k \in Nat /\ d \in Nat
    BY <1>1, <1>2
  <2>2. (IF i <= k THEN i ELSE i + d) < (IF j <= k THEN j ELSE j + d)
    BY ONLY <2>1, i < j
  <2> QED BY <1>3, <2>2
<1>7. S \in SUBSET Nat /\ IsFiniteSet(S) /\ T \in SUBSET Nat
  <2>0. \A i, j \in Int : IsFiniteSet(i..j)
    BY FS_Interval
  <2>1. IsFiniteSet(1..n)
    BY <1>1, <2>0
  <2>2. IsFiniteSet(S)
    BY <1>1, <2>1, FS_Subset
  <2>3. 1..n \in SUBSET Nat /\ 1..(n + d) \in SUBSET Nat
    BY <1>1
  <2> QED BY <1>1, <2>2, <2>3
<1>8. InOrder(f, S, T)
  BY <1>4, <1>5, <1>6, <1>7 DEF InOrder
<1>9. SameAlong(f, v, S, w)
  <2> SUFFICES ASSUME NEW i \in S
               PROVE  w[f[i]] = v[i]
    BY DEF SameAlong
  <2>1. CASE i <= k
    BY <1>1, <1>2, <1>3, <2>1
  <2>2. CASE ~(i <= k)
    BY <1>1, <1>2, <1>3, <2>2
  <2> QED BY <2>1, <2>2
<1>10. Selected(w, T) = Selected(v, S)
  BY <1>8, <1>9, SameSelected
<1>11. T = {} <=> S = {}
  BY <1>4, <1>5
<1> QED BY <1>10, <1>11

-----------------------------------------------------------------------------
(* Tracked changes of a document.  An edit keeps what is left of the text once  *)
(* the author's changes are taken away: run by run, or because the runs and     *)
(* paragraphs it puts in do not count.                                          *)

LEMMA SameRuns ==
  ASSUME NEW a, NEW b, DOMAIN a = DOMAIN b,
         \A i \in DOMAIN a : (Counts(b[i]) <=> Counts(a[i])) /\ b[i].text = a[i].text
  PROVE  ParagraphText(b) = ParagraphText(a) /\ Counting(b) = Counting(a)
<1>1. Counting(b) = Counting(a)
  BY DEF Counting
<1>2. [i \in DOMAIN b |-> b[i].text] = [i \in DOMAIN a |-> a[i].text]
  OBVIOUS
<1> QED BY <1>1, <1>2 DEF ParagraphText

LEMMA SameParagraphs ==
  ASSUME NEW a, NEW b, DOMAIN a = DOMAIN b,
         \A p \in DOMAIN a : /\ ParagraphText(b[p]) = ParagraphText(a[p])
                             /\ Counting(b[p]) = {} <=> Counting(a[p]) = {}
  PROVE  TextWithout(b) = TextWithout(a)
<1>1. {p \in DOMAIN b : Counting(b[p]) # {}} = {p \in DOMAIN a : Counting(a[p]) # {}}
  OBVIOUS
<1>2. [p \in DOMAIN b |-> ParagraphText(b[p])] = [p \in DOMAIN a |-> ParagraphText(a[p])]
  OBVIOUS
<1> QED BY <1>1, <1>2 DEF TextWithout

\* List b is a with d entries more after the k-th.
Widened(a, b, k, d) ==
  /\ Len(a) \in Nat /\ DOMAIN a = 1..Len(a) /\ k \in 0..Len(a) /\ d \in Nat
  /\ DOMAIN b = 1..(Len(a) + d)
  /\ \A i \in 1..k : b[i] = a[i]
  /\ \A i \in (k + 1)..Len(a) : b[i + d] = a[i]

LEMMA WidenedPlaces ==
  ASSUME NEW a, NEW b, NEW k, NEW d, Widened(a, b, k, d)
  PROVE  /\ \A i \in 1..k : i \in DOMAIN a /\ i \in DOMAIN b /\ b[i] = a[i]
         /\ \A i \in (k + 1)..Len(a) : i \in DOMAIN a /\ i + d \in DOMAIN b /\ b[i + d] = a[i]
         /\ \A j \in DOMAIN b : \/ j \in 1..k \/ j \in (k + 1)..(k + d)
                                \/ \E i \in (k + 1)..Len(a) : j = i + d
<1>1. /\ Len(a) \in Nat /\ DOMAIN a = 1..Len(a) /\ k \in Nat /\ k <= Len(a) /\ d \in Nat
      /\ DOMAIN b = 1..(Len(a) + d)
      /\ \A i \in 1..k : b[i] = a[i]
      /\ \A i \in (k + 1)..Len(a) : b[i + d] = a[i]
  BY DEF Widened
<1>2. ASSUME NEW j \in DOMAIN b, j \notin 1..k, j \notin (k + 1)..(k + d)
      PROVE  \E i \in (k + 1)..Len(a) : j = i + d
  <2>1. j - d \in (k + 1)..Len(a) /\ j = (j - d) + d
    BY <1>1, <1>2
  <2> QED BY <2>1
<1>3. \A i \in 1..k : i \in DOMAIN a /\ i \in DOMAIN b
  BY <1>1
<1>4. \A i \in (k + 1)..Len(a) : i \in DOMAIN a /\ i + d \in DOMAIN b
  BY <1>1
<1> QED BY <1>1, <1>2, <1>3, <1>4

LEMMA InsertedRuns ==
  ASSUME NEW a, NEW b, NEW k, NEW d, Widened(a, b, k, d),
         \A j \in (k + 1)..(k + d) : ~Counts(b[j])
  PROVE  ParagraphText(b) = ParagraphText(a) /\ (Counting(b) = {} <=> Counting(a) = {})
<1> DEFINE n == Len(a)
           S == Counting(a)
           T == Counting(b)
           v == [i \in DOMAIN a |-> a[i].text]
           w == [i \in DOMAIN b |-> b[i].text]
<1>1. n \in Nat /\ k \in 0..n /\ d \in Nat /\ DOMAIN a = 1..n /\ DOMAIN b = 1..(n + d)
  BY DEF Widened
<1>2. S \in SUBSET (1..n) /\ T \in SUBSET (1..(n + d))
  BY <1>1 DEF Counting
<1>3. \A i \in 1..k : (i \in T <=> i \in S) /\ w[i] = v[i]
  BY WidenedPlaces DEF Counting
<1>4. \A i \in (k + 1)..n : (i + d \in T <=> i \in S) /\ w[i + d] = v[i]
  BY WidenedPlaces DEF Counting
<1>5. \A j \in (k + 1)..(k + d) : j \notin T
  BY DEF Counting
<1> HIDE DEF n, S, T, v, w
<1>6. Spread(n, k, d, S, T, v, w)
  BY <1>1, <1>2, <1>3, <1>4, <1>5 DEF Spread
<1>7. Selected(w, T) = Selected(v, S) /\ (T = {} <=> S = {})
  BY <1>6, SpreadSelected
<1> QED BY <1>7 DEF S, T, v, w, ParagraphText

LEMMA InsertedParagraphs ==
  ASSUME NEW a, NEW b, NEW k, NEW d, Widened(a, b, k, d),
         \A j \in (k + 1)..(k + d) : Counting(b[j]) = {}
  PROVE  TextWithout(b) = TextWithout(a)
<1> DEFINE n == Len(a)
           S == {p \in DOMAIN a : Counting(a[p]) # {}}
           T == {p \in DOMAIN b : Counting(b[p]) # {}}
           v == [p \in DOMAIN a |-> ParagraphText(a[p])]
           w == [p \in DOMAIN b |-> ParagraphText(b[p])]
<1>1. n \in Nat /\ k \in 0..n /\ d \in Nat /\ DOMAIN a = 1..n /\ DOMAIN b = 1..(n + d)
  BY DEF Widened
<1>2. S \in SUBSET (1..n) /\ T \in SUBSET (1..(n + d))
  BY <1>1
<1>3. \A i \in 1..k : (i \in T <=> i \in S) /\ w[i] = v[i]
  BY WidenedPlaces
<1>4. \A i \in (k + 1)..n : (i + d \in T <=> i \in S) /\ w[i + d] = v[i]
  BY WidenedPlaces
<1>5. \A j \in (k + 1)..(k + d) : j \notin T
  OBVIOUS
<1> HIDE DEF n, S, T, v, w
<1>6. Spread(n, k, d, S, T, v, w)
  BY <1>1, <1>2, <1>3, <1>4, <1>5 DEF Spread
<1>7. Selected(w, T) = Selected(v, S) /\ (T = {} <=> S = {})
  BY <1>6, SpreadSelected
<1> QED BY <1>7 DEF S, T, v, w, TextWithout

\* The text of a run is marked as deleted exactly when it is, which is once.
GoodRun(r) ==
  /\ IsRun(r)
  /\ r.tag = "delText" <=> Deletions(r) # {}
  /\ \A d, e \in Deletions(r) : d = e
GoodRuns(runs) == IsSeq(runs) /\ \A i \in DOMAIN runs : GoodRun(runs[i])
GoodDoc(doc) == IsSeq(doc) /\ \A p \in DOMAIN doc : GoodRuns(doc[p])

LEMMA GoodDocument ==
  ASSUME NEW doc
  PROVE  /\ IsDocument(doc) /\ DeletedOnce(doc) => GoodDoc(doc)
         /\ GoodDoc(doc) => TagsFit(doc)
<1>1. \A r : r \in Runs(doc) <=> \E p \in DOMAIN doc : \E i \in DOMAIN doc[p] : r = doc[p][i]
  BY DEF Runs, ToSet
<1>2. ASSUME IsDocument(doc), DeletedOnce(doc)
      PROVE  GoodDoc(doc)
  <2>1. ASSUME NEW p \in DOMAIN doc, NEW i \in DOMAIN doc[p]
        PROVE  GoodRun(doc[p][i])
    <3>1. doc[p][i] \in Runs(doc)
      BY <1>1
    <3> QED BY <1>2, <3>1 DEF GoodRun, IsDocument, DeletedOnce
  <2> QED BY <1>2, <2>1 DEF GoodDoc, GoodRuns, IsDocument
<1>3. ASSUME GoodDoc(doc)
      PROVE  TagsFit(doc)
  <2>1. ASSUME NEW r \in Runs(doc)
        PROVE  r.tag = "delText" <=> Deletions(r) # {}
    <3>1. PICK p \in DOMAIN doc : \E i \in DOMAIN doc[p] : r = doc[p][i]
      BY <1>1
    <3>2. PICK i \in DOMAIN doc[p] : r = doc[p][i]
      BY <3>1
    <3>3. GoodRun(r)
      BY <1>3, <3>2 DEF GoodDoc, GoodRuns
    <3> QED BY <3>3 DEF GoodRun
  <2> QED BY <2>1 DEF TagsFit
<1> QED BY <1>2, <1>3

LEMMA SeqDomain ==
  ASSUME NEW s, IsSeq(s)
  PROVE  /\ Len(s) \in Nat /\ DOMAIN s = 1..Len(s) /\ s \in Seq(ToSet(s))
         /\ s = [i \in 1..Len(s) |-> s[i]]
BY DEF IsSeq

LEMMA OfSeq ==
  ASSUME NEW S, NEW s \in Seq(S)
  PROVE  IsSeq(s) /\ DOMAIN s = 1..Len(s) /\ Len(s) \in Nat
<1>1. DOMAIN s = 1..Len(s) /\ Len(s) \in Nat
  OBVIOUS
<1>2. s \in [1..Len(s) -> ToSet(s)]
  BY DEF ToSet
<1>3. s \in Seq(ToSet(s))
  <2> DEFINE X == ToSet(s)
  <2>1. s \in [1..Len(s) -> X]
    BY <1>2
  <2> HIDE DEF X
  <2>2. s \in Seq(X)
    BY <1>1, <2>1, ListOf
  <2> QED BY <2>2 DEF X
<1>4. IsSeq(s)
  BY <1>3 DEF IsSeq
<1> QED BY <1>1, <1>4

LEMMA FunctionIsSeq ==
  ASSUME NEW n \in Nat, NEW s, s = [i \in 1..n |-> s[i]]
  PROVE  IsSeq(s) /\ DOMAIN s = 1..n /\ Len(s) = n
<1>1. DOMAIN s = 1..n
  OBVIOUS
<1>2. s \in [1..n -> ToSet(s)]
  BY <1>1 DEF ToSet
<1>3. s \in Seq(ToSet(s)) /\ Len(s) = n
  BY <1>2, ListOf
<1> QED BY <1>1, <1>3 DEF IsSeq

LEMMA ByIs ==
  ASSUME NEW r, NEW kind
  PROVE  By(r, kind) <=> \E d \in DOMAIN r.within : r.within[d].kind = kind /\ r.within[d].author = Author
BY DEF By, ToSet

\* The changes around x are those around r and one more, at place m.
OneMoreAround(r, x, m, change) ==
  /\ Len(r.within) \in Nat /\ DOMAIN r.within = 1..Len(r.within)
  /\ IsSeq(x.within) /\ DOMAIN x.within = 1..(Len(r.within) + 1) /\ m \in 1..(Len(r.within) + 1)
  /\ \A d \in 1..(Len(r.within) + 1) :
       x.within[d] = IF d < m THEN r.within[d] ELSE IF d = m THEN change ELSE r.within[d - 1]

LEMMA InsertedAround ==
  ASSUME NEW r, IsSeq(r.within), NEW x, NEW m \in 1..(Len(r.within) + 1), NEW change,
         x.within = InsertAt(r.within, m, change)
  PROVE  OneMoreAround(r, x, m, change)
<1> DEFINE w == r.within
           S == ToSet(w) \cup {change}
<1>1. Len(w) \in Nat /\ DOMAIN w = 1..Len(w) /\ w \in Seq(ToSet(w))
  BY SeqDomain
<1>2. w \in Seq(S) /\ change \in S /\ m \in 1..(Len(w) + 1)
  <2>1. w \in [1..Len(w) -> S]
    BY <1>1 DEF ToSet
  <2> HIDE DEF S
  <2>2. w \in Seq(S)
    BY <1>1, <2>1, ListOf
  <2> QED BY <2>2 DEF S
<1> DEFINE y == InsertAt(w, m, change)
<1> HIDE DEF w, S
<1>3. /\ y \in Seq(S) /\ Len(y) = Len(w) + 1
      /\ \A d \in 1..(Len(w) + 1) : y[d] = IF d < m THEN w[d] ELSE IF d = m THEN change ELSE w[d - 1]
  BY <1>2, InsertedAt
<1>4. x.within = y
  BY DEF w
<1> HIDE DEF y
<1>5. IsSeq(y) /\ DOMAIN y = 1..(Len(w) + 1)
  <2>1. IsSeq(y) /\ DOMAIN y = 1..Len(y)
    BY <1>3, OfSeq
  <2> QED BY <1>3, <2>1
<1> QED BY <1>1, <1>2, <1>3, <1>4, <1>5 DEF w, OneMoreAround

LEMMA AppendedAround ==
  ASSUME NEW r, IsSeq(r.within), NEW x, NEW change, x.within = Append(r.within, change)
  PROVE  OneMoreAround(r, x, Len(r.within) + 1, change)
<1> DEFINE w == r.within
           y == Append(w, change)
           S == ToSet(w) \cup {change}
<1>1. Len(w) \in Nat /\ DOMAIN w = 1..Len(w) /\ w \in Seq(ToSet(w))
  BY SeqDomain
<1>2. w \in Seq(S) /\ change \in S
  <2>1. w \in [1..Len(w) -> S]
    BY <1>1 DEF ToSet
  <2> HIDE DEF S
  <2>2. w \in Seq(S)
    BY <1>1, <2>1, ListOf
  <2> QED BY <2>2 DEF S
<1> HIDE DEF w, S
<1>3. /\ y \in Seq(S) /\ Len(y) = Len(w) + 1 /\ y[Len(w) + 1] = change
      /\ \A d \in 1..Len(w) : y[d] = w[d]
  BY <1>2
<1> HIDE DEF y
<1>4. IsSeq(y) /\ DOMAIN y = 1..(Len(w) + 1)
  <2>1. IsSeq(y) /\ DOMAIN y = 1..Len(y)
    BY <1>3, OfSeq
  <2> QED BY <1>3, <2>1
<1>5. ASSUME NEW d \in 1..(Len(w) + 1)
      PROVE  y[d] = IF d < Len(w) + 1 THEN w[d] ELSE IF d = Len(w) + 1 THEN change ELSE w[d - 1]
  <2>1. d = Len(w) + 1 \/ (d \in 1..Len(w) /\ d < Len(w) + 1)
    BY <1>1
  <2>2. ~(Len(w) + 1 < Len(w) + 1)
    BY <1>1
  <2> QED BY <1>3, <2>1, <2>2
<1>6. Len(w) + 1 \in 1..(Len(w) + 1)
  BY <1>1
<1>7. x.within = y
  BY DEF w, y
<1> QED BY <1>1, <1>4, <1>5, <1>6, <1>7 DEF w, OneMoreAround

\* A run that is deleted by the author: what was text counts as it did.
LEMMA RunDeleted ==
  ASSUME NEW r, GoodRun(r), r.tag = "t", NEW x, NEW m, NEW change,
         OneMoreAround(r, x, m, change), change.kind = "del", change.author = Author,
         DOMAIN x = {"text", "tag", "within"}, x.tag = "delText", x.text = r.text
  PROVE  GoodRun(x) /\ (Counts(x) <=> Counts(r))
<1> DEFINE n == Len(r.within)
<1>1. /\ n \in Nat /\ DOMAIN r.within = 1..n /\ IsSeq(x.within) /\ DOMAIN x.within = 1..(n + 1)
      /\ m \in 1..(n + 1)
      /\ \A d \in 1..(n + 1) :
           x.within[d] = IF d < m THEN r.within[d] ELSE IF d = m THEN change ELSE r.within[d - 1]
  BY DEF OneMoreAround
<1>2. \A d \in 1..n : r.within[d].kind # "del"
  BY <1>1 DEF GoodRun, Deletions
<1> HIDE DEF n
<1>3. \A d \in 1..(n + 1) : (d < m /\ d \in 1..n) \/ d = m \/ (~(d < m) /\ d # m /\ d - 1 \in 1..n)
  BY <1>1
<1>4. ASSUME NEW d \in 1..(n + 1)
      PROVE  x.within[d] = change \/ \E e \in 1..n : x.within[d] = r.within[e]
  BY <1>1, <1>3
<1>5. x.within[m] = change
  <2>1. ~(m < m)
    BY <1>1
  <2> QED BY <1>1, <2>1
<1>6. ASSUME NEW e \in 1..n
      PROVE  \E d \in 1..(n + 1) : x.within[d] = r.within[e]
  <2>1. CASE e < m
    <3>1. e \in 1..(n + 1)
      BY <1>1
    <3> QED BY <1>1, <2>1, <3>1
  <2>2. CASE ~(e < m)
    <3>1. e + 1 \in 1..(n + 1) /\ ~(e + 1 < m) /\ e + 1 # m /\ e + 1 - 1 = e
      BY <1>1, <2>2
    <3>2. x.within[e + 1] = r.within[e + 1 - 1]
      BY <1>1, <3>1
    <3> QED BY <3>1, <3>2
  <2> QED BY <2>1, <2>2
<1>7. Deletions(x) = {m}
  <2>1. ASSUME NEW d \in 1..(n + 1), d # m
        PROVE  x.within[d].kind # "del"
    BY <1>1, <1>2, <1>3, <2>1
  <2> QED BY <1>1, <1>5, <2>1 DEF Deletions
<1>8. GoodRun(x)
  BY <1>1, <1>7 DEF GoodRun, IsRun
<1>9. By(x, "del")
  BY <1>1, <1>5, ByIs
<1>10. By(x, "ins") <=> By(r, "ins")
  <2>1. ASSUME NEW d \in 1..(n + 1), x.within[d].kind = "ins", x.within[d].author = Author
        PROVE  \E e \in 1..n : r.within[e].kind = "ins" /\ r.within[e].author = Author
    <3>1. x.within[d] # change
      BY <2>1
    <3> QED BY <1>4, <2>1, <3>1
  <2>2. ASSUME NEW e \in 1..n, r.within[e].kind = "ins", r.within[e].author = Author
        PROVE  \E d \in 1..(n + 1) : x.within[d].kind = "ins" /\ x.within[d].author = Author
    <3>1. PICK d \in 1..(n + 1) : x.within[d] = r.within[e]
      BY <1>6
    <3> QED BY <2>2, <3>1
  <2> QED BY <1>1, <2>1, <2>2, ByIs
<1> QED BY <1>8, <1>9, <1>10 DEF Counts

LEMMA WithinIsSeq ==
  ASSUME NEW r, GoodRun(r)
  PROVE  IsSeq(r.within)
BY DEF GoodRun, IsRun

LEMMA Depth ==
  ASSUME NEW r, NEW c, Around(r, c)
  PROVE  DepthOf(r, c) \in DOMAIN r.within /\ r.within[DepthOf(r, c)] = c
BY DEF Around, ToSet, DepthOf

\* What RevertInsertion and the two deletions do to a run.
LEMMA RunWrapped ==
  ASSUME NEW r, GoodRun(r), r.tag = "t", NEW c, Around(r, c),
         NEW del, del.kind = "del", del.author = Author, NEW x,
         DOMAIN x = {"text", "tag", "within"}, x.tag = "delText", x.text = r.text,
         x.within = InsertAt(r.within, DepthOf(r, c) + 1, del)
  PROVE  GoodRun(x) /\ (Counts(x) <=> Counts(r))
<1> DEFINE m == DepthOf(r, c) + 1
<1>1. IsSeq(r.within)
  BY WithinIsSeq
<1>2. m \in 1..(Len(r.within) + 1)
  <2>1. DepthOf(r, c) \in 1..Len(r.within) /\ Len(r.within) \in Nat
    BY <1>1, Depth, SeqDomain
  <2> QED BY <2>1
<1>3. x.within = InsertAt(r.within, m, del)
  OBVIOUS
<1> HIDE DEF m
<1>4. OneMoreAround(r, x, m, del)
  BY <1>1, <1>2, <1>3, InsertedAround
<1> QED BY <1>4, RunDeleted

LEMMA RunDeletedOnce ==
  ASSUME NEW r, GoodRun(r), r.tag = "t", NEW id
  PROVE  GoodRun(Deleted(r, id)) /\ (Counts(Deleted(r, id)) <=> Counts(r)) /\ Deleted(r, id).text = r.text
<1> DEFINE del == Change("del", Author, id)
           x == Deleted(r, id)
           y == Append(r.within, del)
<1>1. IsSeq(r.within)
  BY WithinIsSeq
<1>2. del.kind = "del" /\ del.author = Author
  BY DEF Change
<1>3. x = [r EXCEPT !.tag = "delText", !.within = y]
  BY DEF Deleted, GoodRun, IsRun
<1> HIDE DEF del, x
<1>4. DOMAIN x = {"text", "tag", "within"} /\ x.tag = "delText" /\ x.within = y /\ x.text = r.text
  <2> HIDE DEF y
  <2>1. DOMAIN r = {"text", "tag", "within"}
    BY DEF GoodRun, IsRun
  <2> QED BY ONLY <1>3, <2>1
<1>5. OneMoreAround(r, x, Len(r.within) + 1, del)
  BY <1>1, <1>4, AppendedAround
<1>6. GoodRun(x) /\ (Counts(x) <=> Counts(r)) /\ x.text = r.text
  BY <1>2, <1>4, <1>5, RunDeleted
<1> QED BY <1>6 DEF x

\* A run that the author inserts does not count.
LEMMA RunInserted ==
  ASSUME NEW x, DOMAIN x = {"text", "tag", "within"}, x.tag = "t", IsSeq(x.within),
         \A d \in DOMAIN x.within : x.within[d].kind # "del",
         \E d \in DOMAIN x.within : x.within[d].kind = "ins" /\ x.within[d].author = Author
  PROVE  GoodRun(x) /\ ~Counts(x)
<1>1. Deletions(x) = {}
  BY DEF Deletions
<1>2. By(x, "ins")
  BY ByIs
<1> QED BY <1>1, <1>2 DEF GoodRun, IsRun, Counts

LEMMA NewRunInserted == GoodRun(NewRun) /\ ~Counts(NewRun)
<1> DEFINE ins == Change("ins", Author, NextChangeId(body))
           w == <<ins>>
           x == NewRun
<1>1. ins.kind = "ins" /\ ins.author = Author
  BY DEF Change
<1>2. x = [text |-> NewText, tag |-> "t", within |-> w]
  BY DEF NewRun, Plain
<1> HIDE DEF ins, x
<1>3. w \in Seq({ins}) /\ DOMAIN w = {1} /\ w[1] = ins
  OBVIOUS
<1>4. IsSeq(w)
  BY <1>3, OfSeq
<1> HIDE DEF w
<1>5. DOMAIN x = {"text", "tag", "within"} /\ x.tag = "t" /\ x.within = w
  BY <1>2
<1>6. GoodRun(x) /\ ~Counts(x)
  <2>1. \A d \in DOMAIN x.within : x.within[d] = ins
    BY <1>3, <1>5
  <2>2. 1 \in DOMAIN x.within
    BY <1>3, <1>5
  <2>3. "ins" # "del"
    OBVIOUS
  <2> QED BY <1>1, <1>4, <1>5, <2>1, <2>2, <2>3, RunInserted
<1> QED BY <1>6 DEF x

\* What RevertDeletion makes of a deleted run.
LEMMA RunCopied ==
  ASSUME NEW r, GoodRun(r), NEW c, Around(r, c), c.kind = "del",
         NEW ins, ins.kind = "ins", ins.author = Author, NEW x,
         x = [text |-> r.text, tag |-> "t",
              within |-> Append(SubSeq(r.within, 1, DepthOf(r, c) - 1), ins)]
  PROVE  GoodRun(x) /\ ~Counts(x)
<1> DEFINE w == r.within
           S == ToSet(w) \cup {ins}
           m == DepthOf(r, c)
           u == SubSeq(w, 1, m - 1)
           y == Append(u, ins)
<1>1. IsSeq(r.within)
  BY WithinIsSeq
<1>2. Len(w) \in Nat /\ DOMAIN w = 1..Len(w) /\ w \in Seq(ToSet(w))
  BY <1>1, SeqDomain
<1>3. m \in 1..Len(w) /\ w[m] = c
  BY <1>2, Depth
<1>4. \A d \in 1..(m - 1) : w[d].kind # "del"
  <2> SUFFICES ASSUME NEW d \in 1..(m - 1), w[d].kind = "del"
               PROVE  FALSE
    OBVIOUS
  <2>1. d \in Deletions(r) /\ m \in Deletions(r)
    <3> HIDE DEF m
    <3>1. d \in DOMAIN w /\ m \in DOMAIN w
      BY <1>2, <1>3
    <3> QED BY <1>3, <3>1 DEF Deletions
  <2>2. d = m
    BY <2>1 DEF GoodRun
  <2> HIDE DEF m
  <2> QED BY <1>2, <1>3, <2>2
<1>5. w \in Seq(S) /\ ins \in S
  <2>1. w \in [1..Len(w) -> S]
    BY <1>2 DEF ToSet
  <2> HIDE DEF S
  <2>2. w \in Seq(S)
    BY <1>2, <2>1, ListOf
  <2> QED BY <2>2 DEF S
<1>6. x = [text |-> r.text, tag |-> "t", within |-> y]
  OBVIOUS
<1> HIDE DEF w, S, m
<1>7. u \in Seq(S) /\ Len(u) = m - 1 /\ \A d \in 1..(m - 1) : u[d] = w[d]
  <2>1. 0 \in Nat /\ m - 1 \in Nat /\ 0 <= m - 1 /\ m - 1 <= Len(w) /\ 0 + 1 = 1 /\ (m - 1) - 0 = m - 1
        /\ \A j \in 1..(m - 1) : 0 + j = j
    BY <1>2, <1>3
  <2> QED BY <1>5, <2>1, Sliced
<1> HIDE DEF u
<1>8. y \in Seq(S) /\ DOMAIN y = 1..m /\ y[m] = ins /\ \A d \in 1..(m - 1) : y[d] = w[d]
  <2>0. m \in Nat /\ m - 1 + 1 = m
    BY <1>2, <1>3
  <2>1. y \in Seq(S) /\ Len(y) = Len(u) + 1 /\ y[Len(u) + 1] = ins /\ \A d \in 1..Len(u) : y[d] = u[d]
    BY <1>5, <1>7
  <2>2. DOMAIN y = 1..Len(y)
    BY <2>1
  <2> HIDE DEF y
  <2> QED BY <1>7, <2>0, <2>1, <2>2
<1> HIDE DEF y
<1>9. IsSeq(y)
  BY <1>8, OfSeq
<1>10. \A d \in 1..m : d = m \/ d \in 1..(m - 1)
  BY <1>2, <1>3
<1>11. DOMAIN x = {"text", "tag", "within"} /\ x.tag = "t" /\ x.within = y
  BY ONLY <1>6
<1>12. \A d \in DOMAIN x.within : x.within[d].kind # "del"
  <2>1. ASSUME NEW d \in 1..m
        PROVE  y[d].kind # "del"
    BY <1>4, <1>8, <1>10, ins.kind = "ins"
  <2> QED BY ONLY <1>8, <1>11, <2>1
<1>13. m \in DOMAIN x.within
  <2>1. m \in 1..m
    BY <1>2, <1>3
  <2> QED BY ONLY <1>8, <1>11, <2>1
<1> QED BY <1>8, <1>9, <1>11, <1>12, <1>13, RunInserted

-----------------------------------------------------------------------------
(* The edits.                                                                  *)
KeepsText(a, b) == GoodDoc(b) /\ TextWithout(b) = TextWithout(a)

\* Runs of the same number, one by one.
RunByRun(a, b) ==
  /\ b = [i \in DOMAIN a |-> b[i]]
  /\ \A i \in DOMAIN a : GoodRun(b[i]) /\ (Counts(b[i]) <=> Counts(a[i])) /\ b[i].text = a[i].text

LEMMA RunByRunKeeps ==
  ASSUME NEW a, NEW b, GoodDoc(a), b = [p \in DOMAIN a |-> b[p]],
         \A p \in DOMAIN a : RunByRun(a[p], b[p])
  PROVE  KeepsText(a, b)
<1>1. IsSeq(a) /\ \A p \in DOMAIN a : GoodRuns(a[p])
  BY DEF GoodDoc
<1>2. DOMAIN b = DOMAIN a /\ IsSeq(b)
  <2>1. Len(a) \in Nat /\ DOMAIN a = 1..Len(a)
    BY <1>1, SeqDomain
  <2>2. b = [p \in 1..Len(a) |-> b[p]]
    BY <2>1
  <2>3. IsSeq(b) /\ DOMAIN b = 1..Len(a)
    BY ONLY <2>1, <2>2, FunctionIsSeq
  <2> QED BY <2>1, <2>3
<1>3. ASSUME NEW p \in DOMAIN a
      PROVE  /\ GoodRuns(b[p])
             /\ ParagraphText(b[p]) = ParagraphText(a[p])
             /\ Counting(b[p]) = {} <=> Counting(a[p]) = {}
  <2> DEFINE s == a[p]
             t == b[p]
  <2>1. IsSeq(s)
    BY <1>1 DEF GoodRuns
  <2>2. /\ t = [i \in DOMAIN s |-> t[i]]
        /\ \A i \in DOMAIN s : GoodRun(t[i]) /\ (Counts(t[i]) <=> Counts(s[i])) /\ t[i].text = s[i].text
    BY DEF RunByRun
  <2> HIDE DEF s, t
  <2>3. Len(s) \in Nat /\ DOMAIN s = 1..Len(s)
    BY <2>1, SeqDomain
  <2>4. t = [i \in 1..Len(s) |-> t[i]]
    BY <2>2, <2>3
  <2>5. IsSeq(t) /\ DOMAIN t = DOMAIN s
    <3>1. IsSeq(t) /\ DOMAIN t = 1..Len(s)
      BY ONLY <2>3, <2>4, FunctionIsSeq
    <3> QED BY <2>3, <3>1
  <2>6. GoodRuns(t)
    BY <2>2, <2>5 DEF GoodRuns
  <2>7. ParagraphText(t) = ParagraphText(s) /\ Counting(t) = Counting(s)
    BY <2>2, <2>5, SameRuns
  <2> QED BY <2>6, <2>7 DEF s, t
<1>4. GoodDoc(b)
  BY <1>2, <1>3 DEF GoodDoc
<1>5. TextWithout(b) = TextWithout(a)
  BY <1>2, <1>3, SameParagraphs
<1> QED BY <1>4, <1>5 DEF KeepsText

\* Runs that are left as they are.
LEMMA RunsAlike ==
  ASSUME NEW a, GoodRuns(a)
  PROVE  RunByRun(a, a)
<1>1. a = [i \in DOMAIN a |-> a[i]]
  BY SeqDomain DEF GoodRuns
<1> QED BY <1>1 DEF RunByRun, GoodRuns

\* One entry more after the k-th.
LEMMA InsertedWidens ==
  ASSUME NEW a, IsSeq(a), NEW m \in 1..(Len(a) + 1), NEW e
  PROVE  /\ IsSeq(InsertAt(a, m, e)) /\ Widened(a, InsertAt(a, m, e), m - 1, 1)
         /\ InsertAt(a, m, e)[m] = e
         /\ \A j \in DOMAIN InsertAt(a, m, e) :
              InsertAt(a, m, e)[j] = e \/ \E i \in DOMAIN a : InsertAt(a, m, e)[j] = a[i]
<1> DEFINE b == InsertAt(a, m, e)
           S == ToSet(a) \cup {e}
           n == Len(a)
<1>1. n \in Nat /\ DOMAIN a = 1..n /\ a \in Seq(ToSet(a)) /\ m \in 1..(n + 1)
  BY SeqDomain
<1>2. a \in Seq(S) /\ e \in S
  <2>1. a \in [1..n -> S]
    BY <1>1 DEF ToSet
  <2> HIDE DEF S, n
  <2>2. a \in Seq(S)
    BY <1>1, <2>1, ListOf
  <2> QED BY <2>2 DEF S
<1> HIDE DEF S
<1>3. /\ b \in Seq(S) /\ Len(b) = n + 1
      /\ \A j \in 1..(n + 1) : b[j] = IF j < m THEN a[j] ELSE IF j = m THEN e ELSE a[j - 1]
  <2>1. m \in 1..(Len(a) + 1)
    OBVIOUS
  <2>2. /\ b \in Seq(S) /\ Len(b) = Len(a) + 1
        /\ \A j \in 1..(Len(a) + 1) : b[j] = IF j < m THEN a[j] ELSE IF j = m THEN e ELSE a[j - 1]
    BY ONLY <1>2, <2>1, InsertedAt
  <2> QED BY <2>2
<1> HIDE DEF b
<1>4. IsSeq(b) /\ DOMAIN b = 1..(n + 1)
  <2>1. IsSeq(b) /\ DOMAIN b = 1..Len(b)
    BY <1>3, OfSeq
  <2> QED BY <1>3, <2>1
<1> HIDE DEF n
<1>5. \A i \in 1..(m - 1) : b[i] = a[i]
  <2> SUFFICES ASSUME NEW i \in 1..(m - 1)
               PROVE  b[i] = a[i]
    OBVIOUS
  <2>1. i \in 1..(n + 1) /\ i < m
    BY <1>1
  <2> QED BY <1>3, <2>1
<1>6. \A i \in (m - 1 + 1)..n : b[i + 1] = a[i]
  <2> SUFFICES ASSUME NEW i \in (m - 1 + 1)..n
               PROVE  b[i + 1] = a[i]
    OBVIOUS
  <2>1. i + 1 \in 1..(n + 1) /\ ~(i + 1 < m) /\ i + 1 # m /\ i + 1 - 1 = i
    BY <1>1
  <2>2. b[i + 1] = a[i + 1 - 1]
    BY <1>3, <2>1
  <2> QED BY <2>1, <2>2
<1>7. b[m] = e
  <2>1. ~(m < m)
    BY <1>1
  <2> QED BY <1>1, <1>3, <2>1
<1>8. Widened(a, b, m - 1, 1)
  <2>1. m - 1 \in 0..n /\ 1 \in Nat
    BY <1>1
  <2> QED BY <1>1, <1>4, <1>5, <1>6, <2>1 DEF Widened, n
<1>9. ASSUME NEW j \in DOMAIN b
      PROVE  b[j] = e \/ \E i \in DOMAIN a : b[j] = a[i]
  <2>1. j \in 1..(n + 1) /\ (j < m => j \in 1..n) /\ (~(j < m) /\ j # m => j - 1 \in 1..n)
    BY <1>1, <1>4
  <2> QED BY <1>1, <1>3, <2>1
<1> QED BY <1>4, <1>7, <1>8, <1>9 DEF b

\* The entries of v after the k-th of a.
Spliced(a, v, k) == SubSeq(a, 1, k) \o v \o SubSeq(a, k + 1, Len(a))

HoldsBoth(b, a, v, k) ==
  /\ IsSeq(b) /\ Widened(a, b, k, Len(v))
  /\ \A j \in (k + 1)..(k + Len(v)) : \E i \in DOMAIN v : b[j] = v[i]
  /\ \A j \in DOMAIN b : (\E i \in DOMAIN v : b[j] = v[i]) \/ (\E i \in DOMAIN a : b[j] = a[i])

LEMMA SplicedWidens ==
  ASSUME NEW a, IsSeq(a), NEW v, IsSeq(v), NEW k \in 0..Len(a), NEW b, b = Spliced(a, v, k)
  PROVE  HoldsBoth(b, a, v, k)
<1> DEFINE n == Len(a)
           d == Len(v)
           S == ToSet(a) \cup ToSet(v)
           x == SubSeq(a, 1, k)
           y == SubSeq(a, k + 1, n)
           xv == x \o v
<1>1. n \in Nat /\ DOMAIN a = 1..n /\ d \in Nat /\ DOMAIN v = 1..d /\ k \in Nat /\ k <= n
  BY SeqDomain
<1>2. a \in Seq(S) /\ v \in Seq(S)
  <2>1. a \in [1..n -> S] /\ v \in [1..d -> S]
    BY <1>1, SeqDomain DEF ToSet
  <2> HIDE DEF S, n, d
  <2>2. a \in Seq(S) /\ v \in Seq(S)
    BY <1>1, <2>1, ListOf
  <2> QED BY <2>2 DEF S
<1> HIDE DEF S
<1>3. x \in Seq(S) /\ Len(x) = k /\ \A i \in 1..k : x[i] = a[i]
  <2>1. 0 \in Nat /\ k \in Nat /\ 0 <= k /\ k <= Len(a) /\ 0 + 1 = 1 /\ k - 0 = k /\ \A i \in 1..k : 0 + i = i
    BY <1>1
  <2> QED BY <1>2, <2>1, Sliced
<1>4. y \in Seq(S) /\ Len(y) = n - k /\ \A i \in 1..(n - k) : y[i] = a[k + i]
  <2>1. n \in Nat /\ n <= Len(a)
    BY <1>1
  <2> HIDE DEF n
  <2> QED BY <1>1, <1>2, <2>1, Sliced
<1>5. b = xv \o y
  BY DEF Spliced
<1> HIDE DEF n, d, x, y
<1>6. xv \in Seq(S) /\ JoinOf(xv, x, v)
  BY <1>2, <1>3, Joined
<1> HIDE DEF xv
<1>7. b \in Seq(S) /\ JoinOf(b, xv, y)
  BY <1>4, <1>5, <1>6, Joined
<1>8. Len(xv) = k + d /\ Len(b) = n + d
  <2>1. Len(xv) = k + d
    BY <1>3, <1>6 DEF JoinOf, d
  <2>2. Len(b) = k + d + (n - k)
    BY <1>4, <1>7, <2>1 DEF JoinOf
  <2>3. n \in Nat /\ d \in Nat /\ k \in Nat
    BY <1>1
  <2>4. k + d + (n - k) = n + d
    BY ONLY <2>3
  <2> QED BY ONLY <2>1, <2>2, <2>4
<1>9. IsSeq(b) /\ DOMAIN b = 1..(n + d)
  BY <1>7, <1>8, OfSeq
<1>10. ASSUME NEW i \in 1..k
       PROVE  b[i] = a[i]
  <2>1. i \in 1..Len(xv) /\ i \in 1..Len(x)
    BY <1>1, <1>3, <1>8
  <2> QED BY <1>3, <1>6, <1>7, <2>1 DEF JoinOf
<1>11. ASSUME NEW i \in (k + 1)..n
       PROVE  b[i + d] = a[i]
  <2> DEFINE h == i - k
  <2>1. h \in 1..(n - k) /\ (k + d) + h = i + d /\ k + h = i
    BY <1>1
  <2> HIDE DEF h
  <2>2. b[(k + d) + h] = y[h]
    BY <1>4, <1>7, <1>8, <2>1 DEF JoinOf
  <2> QED BY <1>4, <2>1, <2>2
<1>12. ASSUME NEW j \in (k + 1)..(k + d)
       PROVE  j - k \in DOMAIN v /\ b[j] = v[j - k]
  <2> DEFINE h == j - k
  <2>1. h \in 1..d /\ k + h = j /\ j \in 1..(k + d)
    BY <1>1
  <2> HIDE DEF h
  <2>2. b[j] = xv[j] /\ xv[k + h] = v[h]
    BY <1>3, <1>6, <1>7, <1>8, <2>1 DEF JoinOf, d
  <2> QED BY <1>1, <2>1, <2>2 DEF h
<1>13. Widened(a, b, k, d)
  BY <1>1, <1>9, <1>10, <1>11 DEF Widened, n
<1>14. ASSUME NEW j \in DOMAIN b
       PROVE  (\E i \in DOMAIN v : b[j] = v[i]) \/ (\E i \in DOMAIN a : b[j] = a[i])
  <2>1. j \in 1..k \/ j \in (k + 1)..(k + d) \/ \E i \in (k + 1)..n : j = i + d
    <3>1. j \in 1..k \/ j \in (k + 1)..(k + d) \/ \E i \in (k + 1)..Len(a) : j = i + d
      BY ONLY <1>13, <1>14, WidenedPlaces
    <3> QED BY ONLY <3>1 DEF n
  <2>2. 1..k \subseteq DOMAIN a /\ (k + 1)..n \subseteq DOMAIN a
    BY <1>1
  <2> QED BY <1>10, <1>11, <1>12, <2>1, <2>2
<1> QED BY <1>9, <1>12, <1>13, <1>14 DEF d, HoldsBoth

LEMMA RevertInsertionKeeps ==
  ASSUME NEW c, GoodDoc(body), RevertInsertion(c), ~nested'
  PROVE  KeepsText(body, body')
<1> DEFINE del == Change("del", Author, NextChangeId(body))
           wrap(r) == IF ~Around(r, c) THEN r
                      ELSE [r EXCEPT !.tag = "delText",
                                     !.within = InsertAt(r.within, DepthOf(r, c) + 1, del)]
           b == body'
<1>1. /\ b = [p \in DOMAIN body |-> [i \in DOMAIN body[p] |-> wrap(body[p][i])]]
      /\ nested' = (nested \/ \E r \in Runs(body) : Around(r, c) /\ r.tag = "delText")
  BY DEF RevertInsertion, Edited
<1>2. del.kind = "del" /\ del.author = Author
  BY DEF Change
<1> HIDE DEF del
<1>3. ASSUME NEW p \in DOMAIN body, NEW i \in DOMAIN body[p]
      PROVE  /\ GoodRun(wrap(body[p][i]))
             /\ Counts(wrap(body[p][i])) <=> Counts(body[p][i])
             /\ wrap(body[p][i]).text = body[p][i].text
  <2> DEFINE r == body[p][i]
             x == wrap(r)
  <2>1. GoodRun(r)
    BY DEF GoodDoc, GoodRuns
  <2>2. CASE ~Around(r, c)
    BY <2>1, <2>2
  <2>3. CASE Around(r, c)
    <3>1. r \in Runs(body)
      BY DEF Runs, ToSet
    <3>2. r.tag # "delText"
      BY <1>1, <2>3, <3>1
    <3>3. r.tag = "t"
      BY <2>1, <3>2 DEF GoodRun, IsRun
    <3> DEFINE w == InsertAt(r.within, DepthOf(r, c) + 1, del)
    <3>4. x = [r EXCEPT !.tag = "delText", !.within = w]
      BY <2>3
    <3>5. w = InsertAt(r.within, DepthOf(r, c) + 1, del)
      OBVIOUS
    <3> HIDE DEF r, x, w
    <3>6. DOMAIN r = {"text", "tag", "within"}
      BY <2>1 DEF GoodRun, IsRun
    <3>7. DOMAIN x = {"text", "tag", "within"} /\ x.tag = "delText" /\ x.text = r.text /\ x.within = w
      BY ONLY <3>4, <3>6
    <3>8. GoodRun(x) /\ (Counts(x) <=> Counts(r))
      BY <1>2, <2>1, <2>3, <3>3, <3>5, <3>7, RunWrapped
    <3> QED BY <3>7, <3>8 DEF r, x
  <2> QED BY <2>2, <2>3
<1> HIDE DEF wrap, b
<1>4. DOMAIN b = DOMAIN body /\ b = [p \in DOMAIN body |-> b[p]]
  BY <1>1
<1>5. ASSUME NEW p \in DOMAIN body
      PROVE  RunByRun(body[p], b[p])
  <2>1. b[p] = [i \in DOMAIN body[p] |-> wrap(body[p][i])]
    BY <1>1
  <2>2. \A i \in DOMAIN body[p] : b[p][i] = wrap(body[p][i])
    BY <2>1
  <2>3. b[p] = [i \in DOMAIN body[p] |-> b[p][i]]
    BY <2>1
  <2> QED BY <1>3, <2>2, <2>3 DEF RunByRun
<1>6. KeepsText(body, b)
  BY <1>4, <1>5, RunByRunKeeps
<1> QED BY <1>6 DEF b

\* Runs of one paragraph, the others left alone.
LEMMA OneParagraph ==
  ASSUME NEW a, GoodDoc(a), NEW p \in DOMAIN a, NEW t, RunByRun(a[p], t)
  PROVE  KeepsText(a, [a EXCEPT ![p] = t])
<1> DEFINE b == [a EXCEPT ![p] = t]
<1>1. a = [q \in DOMAIN a |-> a[q]]
  BY SeqDomain DEF GoodDoc
<1>2. DOMAIN b = DOMAIN a /\ b = [q \in DOMAIN a |-> b[q]] /\ \A q \in DOMAIN a : b[q] = IF q = p THEN t ELSE a[q]
  BY <1>1
<1> HIDE DEF b
<1>3. ASSUME NEW q \in DOMAIN a
      PROVE  RunByRun(a[q], b[q])
  <2>1. GoodRuns(a[q])
    BY DEF GoodDoc
  <2>2. CASE q = p
    BY <1>2, <2>2
  <2>3. CASE q # p
    BY <1>2, <2>1, <2>3, RunsAlike
  <2> QED BY <2>2, <2>3
<1>4. KeepsText(a, b)
  BY <1>2, <1>3, RunByRunKeeps
<1> QED BY <1>4 DEF b

LEMMA SuggestRunDeletionKeeps ==
  ASSUME NEW p \in DOMAIN body, NEW i \in DOMAIN body[p], GoodDoc(body), SuggestRunDeletion(p, i)
  PROVE  KeepsText(body, body')
<1> DEFINE s == body[p]
           id == NextChangeId(body)
           t == [s EXCEPT ![i] = Deleted(s[i], id)]
<1>1. body' = [body EXCEPT ![p] = t] /\ s[i].tag = "t"
  BY DEF SuggestRunDeletion, Edited
<1>2. GoodRuns(s)
  BY DEF GoodDoc
<1>3. s = [j \in DOMAIN s |-> s[j]] /\ i \in DOMAIN s
  BY <1>2, SeqDomain DEF GoodRuns
<1> HIDE DEF s, id
<1>4. t = [j \in DOMAIN s |-> t[j]] /\ \A j \in DOMAIN s : t[j] = IF j = i THEN Deleted(s[i], id) ELSE s[j]
  BY <1>3
<1> HIDE DEF t
<1>5. ASSUME NEW j \in DOMAIN s
      PROVE  GoodRun(t[j]) /\ (Counts(t[j]) <=> Counts(s[j])) /\ t[j].text = s[j].text
  <2>1. GoodRun(s[j])
    BY <1>2 DEF GoodRuns
  <2>2. CASE j = i
    <3>1. GoodRun(s[i]) /\ s[i].tag = "t"
      BY <1>1, <2>1, <2>2
    <3>2. /\ GoodRun(Deleted(s[i], id)) /\ (Counts(Deleted(s[i], id)) <=> Counts(s[i]))
          /\ Deleted(s[i], id).text = s[i].text
      BY <3>1, RunDeletedOnce
    <3> QED BY <1>4, <2>2, <3>2
  <2>3. CASE j # i
    BY <1>4, <2>1, <2>3
  <2> QED BY <2>2, <2>3
<1>6. RunByRun(s, t)
  BY <1>4, <1>5 DEF RunByRun
<1> QED BY <1>1, <1>6, OneParagraph DEF s

LEMMA SuggestParagraphDeletionKeeps ==
  ASSUME NEW p \in DOMAIN body, GoodDoc(body), SuggestParagraphDeletion(p)
  PROVE  KeepsText(body, body')
<1> DEFINE s == body[p]
           id == NextChangeId(body)
           t == [i \in DOMAIN s |-> Deleted(s[i], id)]
<1>1. body' = [body EXCEPT ![p] = t] /\ \A i \in DOMAIN s : s[i].within = <<>>
  BY DEF SuggestParagraphDeletion, Edited
<1>2. GoodRuns(s)
  BY DEF GoodDoc
<1> HIDE DEF s, id
<1>3. t = [i \in DOMAIN s |-> t[i]] /\ \A i \in DOMAIN s : t[i] = Deleted(s[i], id)
  OBVIOUS
<1> HIDE DEF t
<1>4. ASSUME NEW i \in DOMAIN s
      PROVE  GoodRun(t[i]) /\ (Counts(t[i]) <=> Counts(s[i])) /\ t[i].text = s[i].text
  <2>1. GoodRun(s[i]) /\ s[i].within = <<>>
    BY <1>1, <1>2 DEF GoodRuns
  <2>2. Deletions(s[i]) = {}
    BY <2>1 DEF Deletions
  <2>3. s[i].tag = "t"
    BY <2>1, <2>2 DEF GoodRun, IsRun
  <2>4. /\ GoodRun(Deleted(s[i], id)) /\ (Counts(Deleted(s[i], id)) <=> Counts(s[i]))
        /\ Deleted(s[i], id).text = s[i].text
    BY <2>1, <2>3, RunDeletedOnce
  <2> QED BY <1>3, <2>4
<1>5. RunByRun(s, t)
  BY <1>3, <1>4 DEF RunByRun
<1> QED BY <1>1, <1>5, OneParagraph DEF s

LEMMA SuggestParagraphKeeps ==
  ASSUME NEW p \in DOMAIN body, GoodDoc(body), SuggestParagraph(p)
  PROVE  KeepsText(body, body')
<1> DEFINE e == <<NewRun>>
           b == InsertAt(body, p + 1, e)
<1>1. body' = b
  BY DEF SuggestParagraph, Edited
<1>2. GoodRuns(e) /\ Counting(e) = {}
  <2> DEFINE r == NewRun
  <2>1. GoodRun(r) /\ ~Counts(r)
    BY NewRunInserted
  <2> HIDE DEF r
  <2>2. <<r>> \in Seq({r}) /\ DOMAIN <<r>> = {1} /\ <<r>>[1] = r
    OBVIOUS
  <2>3. IsSeq(<<r>>)
    BY <2>2, OfSeq
  <2>4. GoodRuns(<<r>>) /\ Counting(<<r>>) = {}
    BY <2>1, <2>2, <2>3 DEF GoodRuns, Counting
  <2> QED BY <2>4 DEF r
<1> HIDE DEF e, b
<1>3. IsSeq(body) /\ \A q \in DOMAIN body : GoodRuns(body[q])
  BY DEF GoodDoc
<1>4. p + 1 \in 1..(Len(body) + 1) /\ p \in Nat /\ p + 1 - 1 = p
  <2>1. Len(body) \in Nat /\ p \in 1..Len(body)
    BY <1>3, SeqDomain
  <2> QED BY <2>1
<1>5. /\ IsSeq(b) /\ Widened(body, b, p + 1 - 1, 1) /\ b[p + 1] = e
      /\ \A j \in DOMAIN b : b[j] = e \/ \E i \in DOMAIN body : b[j] = body[i]
  BY <1>3, <1>4, InsertedWidens DEF b
<1>6. GoodDoc(b)
  BY <1>2, <1>3, <1>5 DEF GoodDoc
<1>7. \A j \in (p + 1)..(p + 1) : Counting(b[j]) = {}
  <2>1. \A j \in (p + 1)..(p + 1) : j = p + 1
    BY <1>4
  <2> QED BY <1>2, <1>5, <2>1
<1>8. TextWithout(b) = TextWithout(body)
  BY <1>4, <1>5, <1>7, InsertedParagraphs
<1> QED BY <1>1, <1>6, <1>8 DEF KeepsText

\* Paragraphs of which each keeps its text.
LEMMA ParagraphsKeep ==
  ASSUME NEW a, NEW b, GoodDoc(a), b = [p \in DOMAIN a |-> b[p]],
         \A p \in DOMAIN a : /\ GoodRuns(b[p]) /\ ParagraphText(b[p]) = ParagraphText(a[p])
                             /\ Counting(b[p]) = {} <=> Counting(a[p]) = {}
  PROVE  KeepsText(a, b)
<1>1. Len(a) \in Nat /\ DOMAIN a = 1..Len(a)
  BY SeqDomain DEF GoodDoc
<1>2. b = [p \in 1..Len(a) |-> b[p]]
  BY <1>1
<1>3. IsSeq(b) /\ DOMAIN b = DOMAIN a
  <2>1. IsSeq(b) /\ DOMAIN b = 1..Len(a)
    BY ONLY <1>1, <1>2, FunctionIsSeq
  <2> QED BY <1>1, <2>1
<1>4. GoodDoc(b)
  BY <1>3 DEF GoodDoc
<1>5. TextWithout(b) = TextWithout(a)
  BY <1>3, SameParagraphs
<1> QED BY <1>4, <1>5 DEF KeepsText

\* Runs put in that do not count.
LEMMA WidenedParagraph ==
  ASSUME NEW s, GoodRuns(s), NEW t, IsSeq(t), NEW k, NEW d, Widened(s, t, k, d),
         \A j \in (k + 1)..(k + d) : ~Counts(t[j]),
         \A j \in DOMAIN t : GoodRun(t[j]) \/ \E i \in DOMAIN s : t[j] = s[i]
  PROVE  /\ GoodRuns(t) /\ ParagraphText(t) = ParagraphText(s)
         /\ Counting(t) = {} <=> Counting(s) = {}
<1>1. GoodRuns(t)
  BY DEF GoodRuns
<1>2. ParagraphText(t) = ParagraphText(s) /\ (Counting(t) = {} <=> Counting(s) = {})
  BY InsertedRuns
<1> QED BY <1>1, <1>2

LEMMA InsertTrackedKeeps ==
  ASSUME NEW p \in DOMAIN body, NEW i \in DOMAIN body[p], GoodDoc(body), InsertTracked(p, i)
  PROVE  KeepsText(body, body')
<1> DEFINE s == body[p]
           e == NewRun
           t == InsertAt(s, i, e)
           b == body'
<1>1. b = [body EXCEPT ![p] = t]
  BY DEF InsertTracked, Edited
<1>2. GoodRun(e) /\ ~Counts(e)
  BY NewRunInserted
<1>3. GoodRuns(s) /\ IsSeq(s) /\ i \in DOMAIN s
  BY DEF GoodDoc, GoodRuns
<1> HIDE DEF s, e, t, b
<1>4. i \in 1..(Len(s) + 1) /\ i \in Nat /\ i - 1 + 1 = i
  <2>1. Len(s) \in Nat /\ i \in 1..Len(s)
    BY <1>3, SeqDomain
  <2> QED BY <2>1
<1>5. /\ IsSeq(t) /\ Widened(s, t, i - 1, 1) /\ t[i] = e
      /\ \A j \in DOMAIN t : t[j] = e \/ \E h \in DOMAIN s : t[j] = s[h]
  BY <1>3, <1>4, InsertedWidens DEF t
<1>6. \A j \in (i - 1 + 1)..(i - 1 + 1) : ~Counts(t[j])
  <2>1. \A j \in (i - 1 + 1)..(i - 1 + 1) : j = i
    BY <1>4
  <2> QED BY <1>2, <1>5, <2>1
<1>7. \A j \in DOMAIN t : GoodRun(t[j]) \/ \E h \in DOMAIN s : t[j] = s[h]
  BY <1>2, <1>5
<1>8. /\ GoodRuns(t) /\ ParagraphText(t) = ParagraphText(s)
      /\ Counting(t) = {} <=> Counting(s) = {}
  BY <1>3, <1>5, <1>6, <1>7, WidenedParagraph
<1>9. body = [q \in DOMAIN body |-> body[q]] /\ \A q \in DOMAIN body : GoodRuns(body[q])
  BY SeqDomain DEF GoodDoc
<1>10. b = [q \in DOMAIN body |-> b[q]] /\ \A q \in DOMAIN body : b[q] = IF q = p THEN t ELSE body[q]
  BY <1>1, <1>9
<1>11. \A q \in DOMAIN body : /\ GoodRuns(b[q]) /\ ParagraphText(b[q]) = ParagraphText(body[q])
                              /\ Counting(b[q]) = {} <=> Counting(body[q]) = {}
  BY <1>8, <1>9, <1>10 DEF s
<1>12. KeepsText(body, b)
  BY <1>10, <1>11, ParagraphsKeep
<1> QED BY <1>12 DEF b

LEMMA SelectedFrom ==
  ASSUME NEW s, NEW S \in SUBSET Nat, IsFiniteSet(S)
  PROVE  /\ Cardinality(S) \in Nat /\ DOMAIN Selected(s, S) = 1..Cardinality(S)
         /\ \A n \in 1..Cardinality(S) : \E i \in S : Selected(s, S)[n] = s[i]
<1> DEFINE N(n) == CHOOSE i \in S : Cardinality(Before(S, i)) = n - 1
<1>1. Cardinality(S) \in Nat /\ \A n \in 1..Cardinality(S) : \E i \in S : Cardinality(Before(S, i)) = n - 1
  BY Ranked
<1>2. \A n \in 1..Cardinality(S) : N(n) \in S
  BY <1>1
<1>3. Selected(s, S) = [n \in 1..Cardinality(S) |-> s[N(n)]]
  BY DEF Selected
<1> HIDE DEF N
<1>4. \A n \in 1..Cardinality(S) : Selected(s, S)[n] = s[N(n)]
  BY <1>3
<1> QED BY <1>1, <1>2, <1>3, <1>4

LEMMA LastOf ==
  ASSUME NEW n \in Nat, NEW S \in SUBSET (1..n), S # {}
  PROVE  Max(S) \in S
<1> DEFINE T == {n - i : i \in S}
<1>1. T \in SUBSET Nat /\ T # {}
  <2>1. \A i \in S : n - i \in Nat
    OBVIOUS
  <2> QED BY <2>1
<1> HIDE DEF T
<1>2. PICK x \in T : \A y \in T : x <= y
  BY <1>1, LeastNatural
<1>3. PICK i \in S : x = n - i
  BY DEF T
<1>4. \A j \in S : i >= j
  <2> SUFFICES ASSUME NEW j \in S
               PROVE  i >= j
    OBVIOUS
  <2>1. n - j \in T
    BY DEF T
  <2>2. n - i <= n - j /\ i \in Nat /\ j \in Nat
    BY <1>2, <1>3, <2>1
  <2> QED BY ONLY <2>2, n \in Nat
<1> QED BY <1>4 DEF Max

LEMMA RevertDeletionKeeps ==
  ASSUME NEW c, GoodDoc(body), RevertDeletion(c)
  PROVE  KeepsText(body, body')
<1> DEFINE ins == Change("ins", Author, NextChangeId(body))
           copy(r) == [text |-> r.text, tag |-> "t",
                       within |-> Append(SubSeq(r.within, 1, DepthOf(r, c) - 1), ins)]
           copies(p) == [i \in DOMAIN Inside(p, c) |-> copy(Inside(p, c)[i])]
           last(p) == Max(InsideOf(p, c))
           restored(p) ==
             SubSeq(body[p], 1, last(p)) \o copies(p) \o SubSeq(body[p], last(p) + 1, Len(body[p]))
           b == body'
<1>1. c.kind = "del" /\ b = [p \in DOMAIN body |-> IF InsideOf(p, c) = {} THEN body[p] ELSE restored(p)]
  BY DEF RevertDeletion, Edited
<1>2. ins.kind = "ins" /\ ins.author = Author
  BY DEF Change
<1> HIDE DEF ins
<1>3. ASSUME NEW r, GoodRun(r), Around(r, c)
      PROVE  GoodRun(copy(r)) /\ ~Counts(copy(r))
  <2> DEFINE x == copy(r)
  <2>1. x = [text |-> r.text, tag |-> "t",
             within |-> Append(SubSeq(r.within, 1, DepthOf(r, c) - 1), ins)]
    OBVIOUS
  <2> HIDE DEF x
  <2>2. GoodRun(x) /\ ~Counts(x)
    BY <1>1, <1>2, <1>3, <2>1, RunCopied
  <2> QED BY <2>2 DEF x
<1> HIDE DEF copy
<1>4. ASSUME NEW p \in DOMAIN body, InsideOf(p, c) # {}
      PROVE  /\ GoodRuns(restored(p)) /\ ParagraphText(restored(p)) = ParagraphText(body[p])
             /\ Counting(restored(p)) = {} <=> Counting(body[p]) = {}
  <2> DEFINE s == body[p]
             I == InsideOf(p, c)
             u == Inside(p, c)
             v == copies(p)
             k == last(p)
             t == restored(p)
             m == Cardinality(I)
  <2>1. GoodRuns(s) /\ IsSeq(s)
    BY DEF GoodDoc, GoodRuns
  <2>2. Len(s) \in Nat /\ DOMAIN s = 1..Len(s)
    BY <2>1, SeqDomain
  <2>3. I \in SUBSET DOMAIN s /\ \A i \in I : Around(s[i], c)
    BY DEF InsideOf
  <2>4. I \in SUBSET Nat /\ IsFiniteSet(I)
    <3>0. \A i, j \in Int : IsFiniteSet(i..j)
      BY FS_Interval
    <3> HIDE DEF I, s
    <3>1. IsFiniteSet(1..Len(s)) /\ 1..Len(s) \in SUBSET Nat
      BY <2>2, <3>0
    <3>2. IsFiniteSet(I)
      BY <2>2, <2>3, <3>1, FS_Subset
    <3> QED BY <2>2, <2>3, <3>1, <3>2
  <2>5. v = [i \in DOMAIN u |-> copy(u[i])] /\ u = Selected(s, I)
    BY DEF Inside
  <2>6. k = Max(I) /\ t = SubSeq(s, 1, k) \o v \o SubSeq(s, k + 1, Len(s)) /\ I # {}
    BY <1>4
  <2> HIDE DEF s, I, u, v, k, t
  <2>7. m \in Nat /\ DOMAIN u = 1..m /\ \A n \in 1..m : \E i \in I : u[n] = s[i]
    BY <2>4, <2>5, SelectedFrom
  <2> HIDE DEF m
  <2>8. IsSeq(v) /\ DOMAIN v = 1..m
    <3>1. v = [i \in 1..m |-> v[i]]
      BY <2>5, <2>7
    <3> QED BY ONLY <2>7, <3>1, FunctionIsSeq
  <2>9. ASSUME NEW i \in DOMAIN v
        PROVE  GoodRun(v[i]) /\ ~Counts(v[i])
    <3>1. PICK j \in I : u[i] = s[j]
      BY <2>7, <2>8
    <3>2. GoodRun(s[j]) /\ Around(s[j], c)
      BY <2>1, <2>3 DEF GoodRuns
    <3>3. v[i] = copy(s[j])
      BY <2>5, <2>7, <2>8, <3>1
    <3> QED BY <1>3, <3>2, <3>3
  <2>10. k \in 0..Len(s)
    <3>1. I \in SUBSET (1..Len(s))
      BY <2>2, <2>3
    <3>2. k \in I
      BY <2>2, <2>6, <3>1, LastOf
    <3> QED BY <2>2, <3>1, <3>2
  <2>11. HoldsBoth(t, s, v, k)
    <3>1. t = Spliced(s, v, k)
      BY ONLY <2>6 DEF Spliced
    <3>2. IsSeq(s) /\ IsSeq(v)
      BY <2>1, <2>8
    <3> QED BY ONLY <2>10, <3>1, <3>2, SplicedWidens
  <2>12. \A j \in (k + 1)..(k + Len(v)) : ~Counts(t[j])
    BY <2>9, <2>11 DEF HoldsBoth
  <2>13. \A j \in DOMAIN t : GoodRun(t[j]) \/ \E i \in DOMAIN s : t[j] = s[i]
    BY <2>9, <2>11 DEF HoldsBoth
  <2>14. /\ GoodRuns(t) /\ ParagraphText(t) = ParagraphText(s)
         /\ Counting(t) = {} <=> Counting(s) = {}
    BY <2>1, <2>11, <2>12, <2>13, WidenedParagraph DEF HoldsBoth
  <2> QED BY <2>14 DEF s, t
<1> HIDE DEF restored, b
<1>5. b = [p \in DOMAIN body |-> b[p]]
      /\ \A p \in DOMAIN body : b[p] = IF InsideOf(p, c) = {} THEN body[p] ELSE restored(p)
  BY <1>1
<1>6. \A p \in DOMAIN body : GoodRuns(body[p])
  BY DEF GoodDoc
<1>7. \A p \in DOMAIN body : /\ GoodRuns(b[p]) /\ ParagraphText(b[p]) = ParagraphText(body[p])
                             /\ Counting(b[p]) = {} <=> Counting(body[p]) = {}
  BY <1>4, <1>5, <1>6
<1>8. KeepsText(body, b)
  BY <1>5, <1>7, ParagraphsKeep
<1> QED BY <1>8 DEF b

-----------------------------------------------------------------------------
\* As long as every edit is tracked and no insertion with a deletion in it was
\* rejected, the document is one the validators accept.
TextKept ==
  /\ original \in Originals
  /\ ~untracked /\ ~nested =>
       GoodDoc(body) /\ TextWithout(body) = TextWithout(original) /\ saved # "refused"

LEMMA TextKeptStart == RedlinesInit => TextKept
<1> SUFFICES ASSUME RedlinesInit
             PROVE  TextKept
  OBVIOUS
<1>1. GoodDoc(original)
  BY OriginalsAssumption, GoodDocument DEF RedlinesInit
<1> QED BY <1>1 DEF RedlinesInit, TextKept

LEMMA TextKeptStep == TextKept /\ [RedlinesNext]_redlineVars => TextKept'
<1> SUFFICES ASSUME TextKept, [RedlinesNext]_redlineVars
             PROVE  TextKept'
  OBVIOUS
\* An edit that is tracked.
<1> DEFINE Tracked ==
      /\ original' = original /\ saved' = saved /\ untracked' = untracked
      /\ ~nested' => ~nested /\ (GoodDoc(body) => KeepsText(body, body'))
<1>1. ASSUME Tracked
      PROVE  TextKept'
  BY <1>1 DEF TextKept, KeepsText
<1> HIDE DEF Tracked
<1>2. ASSUME NEW c \in Changes(body), RevertInsertion(c)
      PROVE  TextKept'
  <2>1. /\ original' = original /\ saved' = saved /\ untracked' = untracked /\ (~nested' => ~nested)
    BY <1>2 DEF RevertInsertion, Edited
  <2>2. ~nested' /\ GoodDoc(body) => KeepsText(body, body')
    BY <1>2, RevertInsertionKeeps
  <2> QED BY <1>1, <2>1, <2>2 DEF Tracked
<1>3. ASSUME NEW c \in Changes(body), RevertDeletion(c)
      PROVE  TextKept'
  <2>1. /\ original' = original /\ saved' = saved /\ untracked' = untracked /\ nested' = nested
    BY <1>3 DEF RevertDeletion, Edited
  <2> QED BY <1>1, <1>3, <2>1, RevertDeletionKeeps DEF Tracked
<1>4. ASSUME NEW p \in DOMAIN body, SuggestParagraphDeletion(p)
      PROVE  TextKept'
  <2>1. /\ original' = original /\ saved' = saved /\ untracked' = untracked /\ nested' = nested
    BY <1>4 DEF SuggestParagraphDeletion, Edited
  <2> QED BY <1>1, <1>4, <2>1, SuggestParagraphDeletionKeeps DEF Tracked
<1>5. ASSUME NEW p \in DOMAIN body, SuggestParagraph(p)
      PROVE  TextKept'
  <2>1. /\ original' = original /\ saved' = saved /\ untracked' = untracked /\ nested' = nested
    BY <1>5 DEF SuggestParagraph, Edited
  <2> QED BY <1>1, <1>5, <2>1, SuggestParagraphKeeps DEF Tracked
<1>6. ASSUME NEW p \in DOMAIN body, NEW i \in DOMAIN body[p], SuggestRunDeletion(p, i)
      PROVE  TextKept'
  <2>1. /\ original' = original /\ saved' = saved /\ untracked' = untracked /\ nested' = nested
    BY <1>6 DEF SuggestRunDeletion, Edited
  <2> QED BY <1>1, <1>6, <2>1, SuggestRunDeletionKeeps DEF Tracked
<1>7. ASSUME NEW p \in DOMAIN body, NEW i \in DOMAIN body[p], InsertTracked(p, i)
      PROVE  TextKept'
  <2>1. /\ original' = original /\ saved' = saved /\ untracked' = untracked /\ nested' = nested
    BY <1>7 DEF InsertTracked, Edited
  <2> QED BY <1>1, <1>7, <2>1, InsertTrackedKeeps DEF Tracked
<1>8. ASSUME NEW p \in DOMAIN body, NEW i \in DOMAIN body[p], EditText(p, i)
      PROVE  TextKept'
  <2>1. original' = original /\ untracked'
    BY <1>8 DEF EditText, Edited
  <2> QED BY <2>1 DEF TextKept
<1>9. ASSUME SaveTracked
      PROVE  TextKept'
  <2>1. /\ saved' = IF TagsFit(body) /\ Redlined(body) THEN "saved" ELSE "refused"
        /\ UNCHANGED <<original, body, edits, untracked, nested>>
    BY <1>9 DEF SaveTracked
  <2>2. GoodDoc(body) /\ TextWithout(body) = TextWithout(original) => saved' # "refused"
    BY <2>1, GoodDocument DEF Redlined
  <2> QED BY <2>1, <2>2 DEF TextKept
<1>10. ASSUME UNCHANGED redlineVars
       PROVE  TextKept'
  BY <1>10 DEF redlineVars, TextKept
<1> QED BY <1>2, <1>3, <1>4, <1>5, <1>6, <1>7, <1>8, <1>9, <1>10 DEF RedlinesNext

\* Whatever documents are opened and however many edits are made, the edits of
\* document.py that are tracked leave a document that save accepts, except after
\* the rejection of an insertion that holds a deletion.
THEOREM TrackedEditsValidateAlways == RedlinesSpec => []TrackedEditsValidate
<1>1. TextKept => TrackedEditsValidate
  BY DEF TextKept, TrackedEditsValidate
<1> QED BY <1>1, TextKeptStart, TextKeptStep, PTL DEF RedlinesSpec

=============================================================================
