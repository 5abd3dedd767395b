--------------------------- MODULE SignLkProofs ---------------------------
(***************************************************************************)
(* Two results, for every value of the constants.                          *)
(*                                                                         *)
(* elfio::save() lays out every object it can be given without an overlap: *)
(* for any number of sections and segments, in whatever order and however  *)
(* they share sections, any sizes, alignments and addresses.  LayInv       *)
(* follows the layout section by section: what was placed lies between the *)
(* tables and the current position; a section is placed at the position or *)
(* behind it; and at the end everything was placed, because the ordering   *)
(* loses no segment.                                                       *)
(*                                                                         *)
(* What signlk signs has the segments of the input, the hash table matches *)
(* them, and the pointers lead to it, in exactly the cases SignLk names.   *)
(* SignInv follows a file through the whole program: what is read from it, *)
(* the object that grows by a section and a segment for each one copied,   *)
(* the layout, in which every segment has one section and stays where it   *)
(* is in the order, and the bytes that are written at their places and     *)
(* found there again, those the script puts over them apart.               *)
(***************************************************************************)
EXTENDS SignLk, SequenceTheorems, FiniteSetTheorems, NaturalsInduction,
        WellFoundedInduction, TLAPS

Sections == DOMAIN obj.secs
Segments == DOMAIN obj.segs
HasPlace(k) == HasBytes(obj.secs[k])

Ordering == {"front", "order"}
Segmenting == {"segment", "place"}
Laying == Ordering \cup Segmenting \cup {"loose", "write", "saved"}

(* Every segment is still to be ordered or in the order.                   *)
Queued ==
    /\ ordered \in Seq(Segments)
    /\ pc \in Ordering =>
          made = {} /\ Segments \subseteq Range(work) \cup Range(ordered)
    /\ pc = "front" => /\ work \in [Segments -> Segments]
                       /\ cur \in Nat /\ nth \in 1..cur
    /\ pc = "order" => work \in Seq(Segments) /\ cur = 1
    /\ pc \notin Ordering => Segments \subseteq Range(ordered)

(* The sections save() has passed have a place.                            *)
Reached ==
    /\ pc \in Segmenting =>
          /\ cur \in Nat \ {0}
          /\ \A k \in DOMAIN ordered : k < cur =>
                Members(obj.segs[ordered[k]]) \subseteq made
    /\ pc = "place" =>
          /\ cur \in DOMAIN ordered /\ nth \in Nat \ {0} /\ start \in Int
          /\ \A k \in DOMAIN Seg.secs : k < nth => Seg.secs[k] \in made
    /\ pc = "loose" =>
          /\ cur \in Nat \ {0}
          /\ \A k \in Sections :
                k < cur \/ ~is_section_without_segment(obj, k) => k \in made
    /\ pc \in {"write", "saved"} => made = Sections

(* What has a place lies between the tables and the position, and apart.   *)
Between(k) == TablesEnd <= obj.secs[k].offset /\ Behind(obj.secs[k]) <= pos

Placed ==
    /\ TablesEnd <= pos
    /\ \A k \in made : HasPlace(k) => Between(k)
    /\ \A k, l \in made : k # l /\ HasPlace(k) /\ HasPlace(l) =>
          Apart(obj.secs[k].offset, Behind(obj.secs[k]),
                obj.secs[l].offset, Behind(obj.secs[l]))

LayInv ==
    /\ pc = "save" => Saveable(obj)
    /\ pc \in Laying =>
          /\ Saveable(obj)
          /\ pos \in Int /\ made \subseteq Sections
          /\ Queued /\ Reached
          /\ back \/ Placed

-----------------------------------------------------------------------------
(* Arithmetic.                                                             *)
LEMMA Remainder ==
    ASSUME NEW a \in Int, NEW n \in Nat \ {0}
    PROVE  a % n \in Nat
OBVIOUS

LEMMA Pads ==
    ASSUME NEW p \in Int, NEW n \in Nat \ {0}
    PROVE  Padding(p, n) \in Nat
<1>1. n - (p % n) \in Int
  BY Remainder
<1> QED
  BY <1>1, Remainder DEF Padding

LEMMA Tables ==
    ASSUME Saveable(obj)
    PROVE  TablesEnd \in Nat
<1>1. Len(obj.segs) \in Nat
  BY DEF Saveable
<1>2. EhdrSize(obj.hdr.class) \in Nat /\ PhdrSize(obj.hdr.class) \in Nat
  BY SizesAssumption DEF Saveable
<1>3. PhdrSize(obj.hdr.class) * Len(obj.segs) \in Nat
  BY <1>1, <1>2
<1> QED
  BY <1>2, <1>3 DEF TablesEnd, PhdrsSize

-----------------------------------------------------------------------------
(* Sequences.                                                              *)
LEMMA OfRange ==
    ASSUME NEW S, NEW seq \in Seq(S)
    PROVE  seq \in Seq(Range(seq))
<1>1. /\ Len(seq) \in Nat /\ seq \in [1..Len(seq) -> S]
      /\ DOMAIN seq = 1..Len(seq)
  BY LenProperties
<1>2. seq \in [1..Len(seq) -> Range(seq)]
  BY <1>1 DEF Range
<1> QED
  BY <1>1, <1>2

LEMMA OneChanged ==
    ASSUME NEW q, q \in Seq(Range(q)), NEW k \in DOMAIN q, NEW e
    PROVE  /\ [q EXCEPT ![k] = e] \in Seq(Range([q EXCEPT ![k] = e]))
           /\ Len([q EXCEPT ![k] = e]) = Len(q)
<1> DEFINE S == Range(q) \cup {e}
           r == [q EXCEPT ![k] = e]
<1>1. q \in Seq(S) /\ k \in 1..Len(q) /\ e \in S
  BY SeqMonotonic, LenProperties
<1>2. r \in Seq(S) /\ Len(r) = Len(q)
  BY <1>1, ExceptSeq
<1> HIDE DEF S, r
<1>3. r \in Seq(Range(r)) /\ Len(r) = Len(q)
  BY <1>2, OfRange
<1> QED
  BY <1>3 DEF r

-----------------------------------------------------------------------------
(* What a step may change of the object: where a section is ...            *)
Placeable(s, old) ==
    /\ DOMAIN s = DOMAIN NewSection
    /\ s.type = old.type /\ s.size = old.size /\ s.align = old.align
    /\ s.addr \in Int /\ s.offset \in Int

LEMMA SectionChanged ==
    ASSUME Saveable(obj), NEW k \in Sections, NEW s,
           Placeable(s, obj.secs[k]),
           obj' = [obj EXCEPT !.secs = [obj.secs EXCEPT ![k] = s]]
    PROVE  /\ Saveable(obj')
           /\ Sections' = Sections
           /\ obj'.segs = obj.segs /\ obj'.hdr = obj.hdr
           /\ obj'.secs[k] = s
           /\ \A l \in Sections : l # k => obj'.secs[l] = obj.secs[l]
<1>1. /\ obj'.segs = obj.segs /\ obj'.hdr = obj.hdr
      /\ obj'.secs = [obj.secs EXCEPT ![k] = s]
      /\ DOMAIN obj' = {"hdr", "secs", "segs"}
  BY DEF Saveable
<1>2. /\ Sections' = Sections /\ obj'.secs[k] = s
      /\ \A l \in Sections : l # k => obj'.secs[l] = obj.secs[l]
  BY <1>1 DEF Sections
<1>3. obj'.secs \in Seq(Range(obj'.secs))
  <2>1. obj.secs \in Seq(Range(obj.secs))
    BY DEF Saveable
  <2>2. QED
    BY <1>1, <2>1, OneChanged DEF Sections
<1>4. \A l \in DOMAIN obj'.secs :
         /\ DOMAIN obj'.secs[l] = DOMAIN NewSection
         /\ obj'.secs[l].size \in Nat /\ obj'.secs[l].align \in Nat
         /\ obj'.secs[l].addr \in Int /\ obj'.secs[l].offset \in Int
  BY <1>2 DEF Saveable, Placeable, Sections
<1>5. 1 \in DOMAIN obj'.secs => obj'.secs[1].type = "NULL"
  BY <1>2 DEF Saveable, Placeable, Sections
<1>6. \A g \in DOMAIN obj'.segs : obj'.segs[g].secs \in Seq(DOMAIN obj'.secs)
  BY <1>1, <1>2 DEF Saveable, Sections
<1> QED
  BY <1>1, <1>2, <1>3, <1>4, <1>5, <1>6 DEF Saveable

(* ... and, when a segment is closed, where that is.                       *)
LEMMA SegmentChanged ==
    ASSUME Saveable(obj), NEW k \in Segments, NEW g,
           DOMAIN g = DOMAIN NewSegment, g.secs = obj.segs[k].secs,
           g.align = obj.segs[k].align, g.vaddr = obj.segs[k].vaddr,
           g.offset \in Int,
           obj' = [obj EXCEPT !.segs = [obj.segs EXCEPT ![k] = g]]
    PROVE  /\ Saveable(obj')
           /\ Segments' = Segments
           /\ obj'.secs = obj.secs /\ obj'.hdr = obj.hdr
           /\ Len(obj'.segs) = Len(obj.segs)
           /\ \A l \in Segments : obj'.segs[l].secs = obj.segs[l].secs
<1>1. /\ obj'.secs = obj.secs /\ obj'.hdr = obj.hdr
      /\ obj'.segs = [obj.segs EXCEPT ![k] = g]
      /\ DOMAIN obj' = {"hdr", "secs", "segs"}
  BY DEF Saveable
<1>2. /\ Segments' = Segments /\ obj'.segs[k] = g
      /\ \A l \in Segments : l # k => obj'.segs[l] = obj.segs[l]
  BY <1>1 DEF Segments
<1>0. obj.segs \in Seq(Range(obj.segs))
  BY DEF Saveable
<1>3. obj'.segs \in Seq(Range(obj'.segs)) /\ Len(obj'.segs) = Len(obj.segs)
  BY <1>0, <1>1, OneChanged DEF Segments
<1>4. \A l \in DOMAIN obj'.segs :
         /\ DOMAIN obj'.segs[l] = DOMAIN NewSegment
         /\ obj'.segs[l].secs \in Seq(DOMAIN obj'.secs)
         /\ obj'.segs[l].align \in Nat /\ obj'.segs[l].vaddr \in Int
         /\ obj'.segs[l].offset \in Int
  <2> SUFFICES ASSUME NEW l \in Segments
               PROVE  /\ DOMAIN obj'.segs[l] = DOMAIN NewSegment
                      /\ obj'.segs[l].secs \in Seq(DOMAIN obj'.secs)
                      /\ obj'.segs[l].align \in Nat /\ obj'.segs[l].vaddr \in Int
                      /\ obj'.segs[l].offset \in Int
    BY <1>2 DEF Segments
  <2>1. \A m \in Segments :
           /\ DOMAIN obj.segs[m] = DOMAIN NewSegment
           /\ obj.segs[m].secs \in Seq(DOMAIN obj.secs)
           /\ obj.segs[m].align \in Nat /\ obj.segs[m].vaddr \in Int
           /\ obj.segs[m].offset \in Int
    BY Zenon DEF Saveable, Segments
  <2>2. CASE l = k
    BY <1>1, <1>2, <2>1, <2>2
  <2>3. CASE l # k
    BY <1>1, <1>2, <2>1, <2>3, Zenon
  <2> QED
    BY <2>2, <2>3
<1>5. /\ DOMAIN obj'.hdr = DOMAIN Header(32, "LSB") /\ obj'.hdr.class \in {32, 64}
      /\ obj'.secs \in Seq(Range(obj'.secs))
  BY <1>1, Zenon DEF Saveable
<1>6. Saveable(obj')
  <2>1. /\ \A m \in DOMAIN obj.secs :
             /\ DOMAIN obj.secs[m] = DOMAIN NewSection
             /\ obj.secs[m].size \in Nat /\ obj.secs[m].align \in Nat
             /\ obj.secs[m].addr \in Int /\ obj.secs[m].offset \in Int
        /\ 1 \in DOMAIN obj.secs => obj.secs[1].type = "NULL"
    BY Zenon DEF Saveable
  <2> QED
    BY <1>1, <1>3, <1>4, <1>5, <2>1, Zenon DEF Saveable
<1> QED
  BY <1>1, <1>2, <1>3, <1>6, Zenon

(* A section goes to the position or behind it, where nothing else is.     *)
LEMMA PlacedOneMore ==
    ASSUME Saveable(obj), pos \in Int, made \subseteq Sections, Placed,
           NEW k \in Sections, NEW s, NEW p \in Int, pos <= p,
           Placeable(s, obj.secs[k]), k # 1 => s.offset = p,
           obj' = [obj EXCEPT !.secs = [obj.secs EXCEPT ![k] = s]],
           pos' = IF HasPlace(k) THEN p + s.size ELSE p,
           made' = made \cup {k}
    PROVE  Placed'
<1>1. /\ Sections' = Sections
      /\ obj'.segs = obj.segs /\ obj'.hdr = obj.hdr
      /\ obj'.secs[k] = s
      /\ \A l \in Sections : l # k => obj'.secs[l] = obj.secs[l]
  BY SectionChanged
<1>2. /\ s.size \in Nat /\ TablesEnd \in Int /\ TablesEnd' = TablesEnd
      /\ p <= pos' /\ pos' \in Int
  <2>1. s.size \in Nat
    BY Zenon DEF Saveable, Placeable, Sections
  <2>2. TablesEnd \in Int
    BY Tables
  <2>3. TablesEnd' = TablesEnd
    BY <1>1, Zenon DEF TablesEnd, PhdrsSize
  <2>4. p <= pos' /\ pos' \in Int
    <3>1. pos' = p + s.size \/ pos' = p
      BY Zenon
    <3> QED
      BY <2>1, <3>1
  <2> QED
    BY <2>1, <2>2, <2>3, <2>4
<1>3. \A l \in Sections : HasPlace(l)' <=> HasPlace(l)
  BY <1>1 DEF HasPlace, HasBytes, Placeable
<1>4. HasPlace(k) => k # 1 /\ s.offset = p /\ pos' = p + s.size
  BY DEF HasPlace, HasBytes, Saveable, Sections
<1>5. \A l \in Sections : obj.secs[l].offset \in Int /\ obj.secs[l].size \in Nat
  BY DEF Saveable, Sections
<1>6. \A l \in made : l # k /\ HasPlace(l) =>
         /\ TablesEnd <= obj'.secs[l].offset
         /\ Behind(obj'.secs[l]) <= p
  BY <1>1, <1>5 DEF Placed, Between, Behind
<1>7. HasPlace(k) => TablesEnd <= s.offset /\ Behind(s) = pos'
  BY <1>2, <1>4 DEF Placed, Behind
<1>8. \A l \in made' : HasPlace(l)' => Between(l)'
  <2> SUFFICES ASSUME NEW l \in made', HasPlace(l)' PROVE Between(l)'
    OBVIOUS
  <2>1. CASE l = k
    BY <1>1, <1>2, <1>3, <1>7, <2>1 DEF Between
  <2>2. CASE l # k
    <3>1. Behind(obj'.secs[l]) \in Int
      BY <1>1, <1>5, <2>2 DEF Behind
    <3> QED
      BY <1>2, <1>3, <1>6, <2>2, <3>1 DEF Between
  <2> QED
    BY <2>1, <2>2
<1>9. \A l \in made : l # k /\ HasPlace(l) /\ HasPlace(k) =>
         Behind(obj'.secs[l]) <= s.offset
  BY <1>4, <1>6
<1>10. \A j, l \in made' : j # l /\ HasPlace(j)' /\ HasPlace(l)' =>
          Apart(obj'.secs[j].offset, Behind(obj'.secs[j]),
                obj'.secs[l].offset, Behind(obj'.secs[l]))
  <2> SUFFICES ASSUME NEW j \in made', NEW l \in made', j # l,
                      HasPlace(j)', HasPlace(l)'
               PROVE  Apart(obj'.secs[j].offset, Behind(obj'.secs[j]),
                            obj'.secs[l].offset, Behind(obj'.secs[l]))
    OBVIOUS
  <2>0. j \in Sections /\ l \in Sections /\ HasPlace(j) /\ HasPlace(l)
    BY <1>3
  <2>1. CASE j = k
    BY <1>1, <1>9, <2>0, <2>1 DEF Apart
  <2>2. CASE l = k
    BY <1>1, <1>9, <2>0, <2>2 DEF Apart
  <2>3. CASE j # k /\ l # k
    BY <1>1, <2>0, <2>3 DEF Placed
  <2> QED
    BY <2>1, <2>2, <2>3
<1>11. (TablesEnd <= pos)'
  BY <1>2 DEF Placed
<1> QED
  BY <1>8, <1>10, <1>11 DEF Placed

-----------------------------------------------------------------------------
(* The order of the segments.                                              *)
LEMMA SaveBegins ==
    ASSUME LayInv, save
    PROVE  LayInv'
<1>1. Saveable(obj) /\ Len(obj.segs) \in Nat /\ Segments = 1..Len(obj.segs)
  BY DEF LayInv, save, Saveable, Segments
<1>2. /\ obj' = obj /\ pc' = "front" /\ pos' = TablesEnd /\ made' = {}
      /\ cur' = 1 /\ nth' = 1 /\ back' = FALSE /\ ordered' = <<>>
      /\ work' = [k \in 1..Len(obj.segs) |-> k]
  BY DEF save, Goto, Numbers
<1>3. /\ Segments' = Segments /\ Sections' = Sections
      /\ Saveable(obj') /\ TablesEnd' = TablesEnd /\ TablesEnd \in Nat
  BY <1>1, <1>2, Tables DEF Segments, Sections, TablesEnd, PhdrsSize
<1>4. Queued'
  <2>1. work' \in [Segments -> Segments] /\ ordered' \in Seq(Segments)
    BY <1>1, <1>2
  <2>2. Segments \subseteq Range(work')
    BY <1>1, <1>2 DEF Range
  <2> QED
    BY <1>2, <1>3, <2>1, <2>2 DEF Queued, Ordering
<1>5. Placed'
  BY <1>2, <1>3 DEF Placed
<1>6. Reached'
  BY <1>2 DEF Reached, Segmenting
<1>7. pos' \in Int /\ made' \subseteq Sections'
  BY <1>2, <1>3
<1> QED
  BY <1>2, <1>3, <1>4, <1>5, <1>6, <1>7 DEF LayInv

(* A step that leaves the object and what was placed as they are.          *)
LEMMA KeepsPlaces ==
    ASSUME LayInv, pc \in Laying,
           obj' = obj, pos' = pos, made' = made, back' = back,
           Queued', Reached'
    PROVE  LayInv'
<1>1. /\ Saveable(obj) /\ pos \in Int
      /\ made \subseteq Sections
      /\ back \/ Placed
  BY DEF LayInv
<1>2. Placed' <=> Placed
  BY DEF Placed, Between, HasPlace, TablesEnd, PhdrsSize
<1>3. /\ Saveable(obj') /\ pos' \in Int
      /\ made' \subseteq Sections'
  BY <1>1 DEF Sections
<1> QED
  BY <1>1, <1>2, <1>3 DEF LayInv

LEMMA SwapKeeps ==
    ASSUME NEW S, NEW w \in [S -> S], NEW j \in S, NEW k \in S
    PROVE  /\ Swap(w, j, k) \in [S -> S]
           /\ Range(w) \subseteq Range(Swap(w, j, k))
<1>1. Swap(w, j, k) \in [S -> S]
  BY DEF Swap
<1>2. /\ Swap(w, j, k)[k] = w[j] /\ Swap(w, j, k)[j] = w[k]
      /\ \A l \in S : l # j /\ l # k => Swap(w, j, k)[l] = w[l]
  BY DEF Swap
<1>3. ASSUME NEW l \in S PROVE w[l] \in Range(Swap(w, j, k))
  BY <1>1, <1>2 DEF Range
<1> QED
  BY <1>1, <1>3 DEF Range

LEMMA FrontKeeps ==
    ASSUME LayInv, bring_to_front \/ in_front
    PROVE  LayInv'
<1>1. /\ pc = "front" /\ pc \in Laying /\ Saveable(obj) /\ Queued
  BY DEF LayInv, bring_to_front, in_front, Laying, Ordering
<1>2. /\ Segments = 1..Len(obj.segs) /\ Len(obj.segs) \in Nat
      /\ made = {} /\ cur \in Nat /\ nth \in 1..cur
      /\ work \in [Segments -> Segments] /\ ordered \in Seq(Segments)
      /\ Segments \subseteq Range(work) \cup Range(ordered)
  BY <1>1 DEF Queued, Saveable, Segments, Ordering
<1>3. /\ obj' = obj /\ pos' = pos /\ made' = made /\ back' = back
      /\ ordered' = ordered /\ Segments' = Segments
  BY DEF bring_to_front, in_front, Segments
<1>4. CASE bring_to_front
  <2>1. pc' = "front" /\ cur' = cur + 1 /\ cur \in Segments
    BY <1>1, <1>2, <1>4 DEF bring_to_front
  <2>2. /\ work' \in [Segments -> Segments] /\ nth' \in 1..cur'
        /\ Range(work) \subseteq Range(work')
    <3>1. CASE work' = Swap(work, cur, nth) /\ nth' = nth + 1 /\ cur # nth
      <4>1. nth \in Segments /\ nth' \in 1..cur'
        BY <1>2, <2>1, <3>1
      <4> QED
        BY <1>2, <2>1, <3>1, <4>1, SwapKeeps
    <3>2. CASE work' = work /\ nth' = nth
      BY <1>2, <2>1, <3>2
    <3> QED
      BY <1>4, <3>1, <3>2 DEF bring_to_front
  <2>3. Queued'
    BY <1>2, <1>3, <2>1, <2>2 DEF Queued, Ordering
  <2>4. Reached'
    BY <2>1 DEF Reached, Segmenting
  <2> QED
    BY <1>1, <1>3, <2>3, <2>4, KeepsPlaces
<1>5. CASE in_front
  <2>1. pc' = "order" /\ cur' = 1 /\ work' = work
    BY <1>5 DEF in_front, Goto
  <2>2. work \in Seq(Segments)
    BY <1>2
  <2>3. Queued'
    BY <1>2, <1>3, <2>1, <2>2 DEF Queued, Ordering
  <2>4. Reached'
    BY <2>1 DEF Reached, Segmenting
  <2> QED
    BY <1>1, <1>3, <2>3, <2>4, KeepsPlaces
<1> QED
  BY <1>4, <1>5

(* A segment that waits goes to the end of the queue, one that does not to *)
(* the end of the order.                                                   *)
LEMMA HeadMoves ==
    ASSUME NEW S, NEW w \in Seq(S), w # <<>>, NEW q \in Seq(S)
    PROVE  /\ Head(w) \in S /\ Tail(w) \in Seq(S)
           /\ Append(q, Head(w)) \in Seq(S)
           /\ Range(w) \subseteq Range(Tail(w)) \cup {Head(w)}
           /\ Range(Append(q, Head(w))) = Range(q) \cup {Head(w)}
<1>1. /\ Head(w) = w[1] /\ Head(w) \in S /\ Tail(w) \in Seq(S)
      /\ Len(w) \in Nat \ {0} /\ Len(Tail(w)) = Len(w) - 1
      /\ DOMAIN w = 1..Len(w) /\ DOMAIN Tail(w) = 1..(Len(w) - 1)
      /\ \A k \in 1..(Len(w) - 1) : Tail(w)[k] = w[k + 1]
  OBVIOUS
<1>2. ASSUME NEW k \in 1..Len(w)
      PROVE  w[k] \in Range(Tail(w)) \cup {Head(w)}
  <2>1. CASE k = 1
    BY <1>1, <2>1
  <2>2. CASE k # 1
    <3>1. k - 1 \in DOMAIN Tail(w) /\ Tail(w)[k - 1] = w[k]
      BY <1>1, <2>2
    <3> QED
      BY <3>1 DEF Range
  <2> QED
    BY <2>1, <2>2
<1>3. Range(w) \subseteq Range(Tail(w)) \cup {Head(w)}
  BY <1>1, <1>2 DEF Range
<1> DEFINE a == Append(q, Head(w))
<1>4. /\ a \in Seq(S) /\ DOMAIN a = 1..(Len(q) + 1) /\ Len(q) \in Nat
      /\ DOMAIN q = 1..Len(q)
      /\ a[Len(q) + 1] = Head(w)
      /\ \A k \in 1..Len(q) : a[k] = q[k]
  BY <1>1
<1> HIDE DEF a
<1>5. Range(a) = Range(q) \cup {Head(w)}
  <2>1. \A k \in DOMAIN a : k \in DOMAIN q \/ k = Len(q) + 1
    BY <1>4
  <2>2. Range(a) \subseteq Range(q) \cup {Head(w)}
    BY <1>4, <2>1 DEF Range
  <2>3. \A k \in DOMAIN q : k \in DOMAIN a /\ a[k] = q[k]
    BY <1>4
  <2>4. Len(q) + 1 \in DOMAIN a
    BY <1>4
  <2> QED
    BY <1>4, <2>2, <2>3, <2>4 DEF Range
<1> QED
  BY <1>1, <1>3, <1>4, <1>5 DEF a

LEMMA OrderKeeps ==
    ASSUME LayInv, get_ordered_segments
    PROVE  LayInv'
<1>1. /\ pc = "order" /\ pc \in Laying /\ Saveable(obj) /\ Queued
  BY DEF LayInv, get_ordered_segments, Laying, Ordering
<1>2. /\ work \in Seq(Segments) /\ ordered \in Seq(Segments)
      /\ made = {} /\ cur = 1
      /\ Segments \subseteq Range(work) \cup Range(ordered)
  BY <1>1 DEF Queued, Ordering
<1>3. /\ obj' = obj /\ pos' = pos /\ made' = made /\ back' = back
      /\ cur' = cur /\ Segments' = Segments
  BY DEF get_ordered_segments, Segments
<1>4. CASE work = <<>>
  <2>1. pc' = "segment" /\ work' = work /\ ordered' = ordered
    BY <1>4 DEF get_ordered_segments, Goto
  <2>2. Range(work) = {}
    BY <1>4 DEF Range
  <2>3. Queued'
    BY <1>2, <1>3, <2>1, <2>2 DEF Queued, Ordering
  <2>4. Reached'
    <3>1. \A k \in DOMAIN ordered : ~(k < 1)
      BY <1>2
    <3> QED
      BY <1>2, <1>3, <2>1, <3>1 DEF Reached, Segmenting
  <2> QED
    BY <1>1, <1>3, <2>3, <2>4, KeepsPlaces
<1>5. CASE work # <<>>
  <2>1. pc' = "order"
    BY <1>5 DEF get_ordered_segments, Goto
  <2>2. \/ work' = Append(Tail(work), Head(work)) /\ ordered' = ordered
        \/ work' = Tail(work) /\ ordered' = Append(ordered, Head(work))
    BY <1>5 DEF get_ordered_segments
  <2>3. /\ work' \in Seq(Segments) /\ ordered' \in Seq(Segments)
        /\ Segments \subseteq Range(work') \cup Range(ordered')
    <3>1. CASE work' = Append(Tail(work), Head(work)) /\ ordered' = ordered
      <4>1. Tail(work) \in Seq(Segments)
            /\ Range(work) \subseteq Range(Tail(work)) \cup {Head(work)}
        BY <1>2, <1>5, HeadMoves
      <4>2. /\ work' \in Seq(Segments)
            /\ Range(work') = Range(Tail(work)) \cup {Head(work)}
        BY <1>2, <1>5, <3>1, <4>1, HeadMoves
      <4> QED
        BY <1>2, <3>1, <4>1, <4>2
    <3>2. CASE work' = Tail(work) /\ ordered' = Append(ordered, Head(work))
      <4>1. /\ work' \in Seq(Segments) /\ ordered' \in Seq(Segments)
            /\ Range(work) \subseteq Range(work') \cup {Head(work)}
            /\ Range(ordered') = Range(ordered) \cup {Head(work)}
        BY <1>2, <1>5, <3>2, HeadMoves
      <4> QED
        BY <1>2, <4>1
    <3> QED
      BY <2>2, <3>1, <3>2
  <2>4. Queued'
    BY <1>2, <1>3, <2>1, <2>3 DEF Queued, Ordering
  <2>5. Reached'
    BY <2>1 DEF Reached, Segmenting
  <2> QED
    BY <1>1, <1>3, <2>4, <2>5, KeepsPlaces
<1> QED
  BY <1>4, <1>5

-----------------------------------------------------------------------------
(* One segment.                                                            *)
LEMMA PosGrows ==
    ASSUME Saveable(obj), made \subseteq Sections, Placed, pos \in Int,
           obj' = obj, made' = made, pos' \in Int, pos <= pos'
    PROVE  Placed'
<1>1. \A k \in Sections : obj.secs[k].offset \in Int /\ obj.secs[k].size \in Nat
  BY DEF Saveable, Sections
<1>2. TablesEnd' = TablesEnd /\ TablesEnd \in Int /\ TablesEnd <= pos'
  BY Tables DEF TablesEnd, PhdrsSize, Placed
<1>3. \A k \in made : HasPlace(k) =>
         TablesEnd <= obj.secs[k].offset /\ Behind(obj.secs[k]) <= pos'
  BY <1>1 DEF Placed, Between, Behind
<1> QED
  BY <1>2, <1>3 DEF Placed, Between, HasPlace

(* The segment save() is at.                                               *)
LEMMA SegmentHere ==
    ASSUME LayInv, pc \in Segmenting, cur \in DOMAIN ordered
    PROVE  /\ pc \in Laying /\ Saveable(obj) /\ Queued /\ Reached
           /\ pos \in Int /\ made \subseteq Sections /\ (back \/ Placed)
           /\ ordered[cur] \in Segments
           /\ Seg.secs \in Seq(Sections)
           /\ Seg.align \in Nat /\ Seg.vaddr \in Int
           /\ cur \in Nat
<1>1. /\ pc \in Laying /\ Saveable(obj) /\ Queued /\ Reached
      /\ pos \in Int /\ made \subseteq Sections /\ (back \/ Placed)
  BY DEF LayInv, Laying
<1>2. ordered \in Seq(Segments)
  BY <1>1 DEF Queued
<1>3. ordered[cur] \in Segments /\ cur \in Nat
  BY <1>2
<1> QED
  BY <1>1, <1>3 DEF Saveable, Sections, Segments, Seg

LEMMA OpenKeeps ==
    ASSUME LayInv, open_segment
    PROVE  LayInv'
<1>1. pc = "segment" /\ pc \in Segmenting /\ cur \in DOMAIN ordered
  BY DEF open_segment, Segmenting
<1>2. /\ pc \in Laying /\ Saveable(obj) /\ Queued /\ Reached
      /\ pos \in Int /\ made \subseteq Sections /\ (back \/ Placed)
      /\ Seg.secs \in Seq(Sections)
      /\ Seg.align \in Nat /\ Seg.vaddr \in Int
  BY <1>1, SegmentHere
<1>3. /\ obj' = obj /\ made' = made /\ cur' = cur /\ ordered' = ordered
      /\ back' = back /\ nth' = 1 /\ pc' = "place"
  BY DEF open_segment, Goto
<1>4. pos' \in Int /\ pos <= pos' /\ start' \in Int
  <2>1. CASE PhdrSegment
    <3>1. PhdrsOffset \in Int
      <4>1. obj.hdr.class \in {32, 64}
        BY <1>2, Zenon DEF Saveable
      <4>2. EhdrSize(obj.hdr.class) \in Nat
        BY <4>1, SizesAssumption, Zenon
      <4> QED
        BY <4>2 DEF PhdrsOffset
    <3> QED
      BY <1>2, <2>1, <3>1 DEF PhdrSegment
  <2>2. CASE FileHeaderSegment
    BY <1>2, <2>2 DEF FileHeaderSegment
  <2>3. CASE AlignedSegment
    <3> DEFINE v == Seg.vaddr % Seg.align
               q == pos % Seg.align
    <3>1. Seg.align \in Nat \ {0}
      BY <1>2, <2>3 DEF AlignedSegment
    <3>2. v \in Nat /\ q \in Nat
      BY <1>2, <3>1, Remainder
    <3> HIDE DEF v, q
    <3>3. (v - q) % Seg.align \in Nat
      BY <3>1, <3>2, Remainder
    <3>4. pos' = pos + ((v - q) % Seg.align) /\ start' = pos'
      BY <2>3 DEF AlignedSegment, v, q
    <3> QED
      BY <1>2, <3>3, <3>4
  <2>4. CASE NestedSegment
    <3>1. Seg.secs[1] \in Sections
      BY <1>2, <2>4 DEF NestedSegment
    <3>2. Sec(1).offset \in Int
      BY <1>2, <3>1 DEF Saveable, Sections, Sec
    <3> QED
      BY <1>2, <2>4, <3>2 DEF NestedSegment
  <2>5. CASE EmptySegment
    BY <1>2, <2>5 DEF EmptySegment
  <2> QED
    BY <2>1, <2>2, <2>3, <2>4, <2>5 DEF open_segment
<1>5. Queued'
  BY <1>1, <1>2, <1>3 DEF Queued, Ordering, Segments
<1>6. Reached'
  <2>1. \A k \in DOMAIN Seg.secs : ~(k < 1)
    BY <1>2
  <2> QED
    BY <1>1, <1>2, <1>3, <1>4, <2>1 DEF Reached, Segmenting, Seg
<1>7. back' \/ Placed'
  BY <1>2, <1>3, <1>4, PosGrows
<1>8. Saveable(obj') /\ made' \subseteq Sections'
  BY <1>2, <1>3 DEF Sections
<1> QED
  BY <1>3, <1>4, <1>5, <1>6, <1>7, <1>8 DEF LayInv

(* A section is passed: it has a place, or takes none.                     *)
LEMMA SectionHere ==
    ASSUME LayInv, Placing
    PROVE  /\ pc = "place" /\ cur \in DOMAIN ordered
           /\ nth \in DOMAIN Seg.secs /\ nth \in Nat /\ start \in Int
           /\ Seg.secs[nth] \in Sections
           /\ Sec(nth) = obj.secs[Seg.secs[nth]]
<1>1. pc = "place" /\ pc \in Segmenting /\ pc \in Laying
      /\ nth \in DOMAIN Seg.secs
  BY DEF Placing, Segmenting, Laying
<1>2. cur \in DOMAIN ordered /\ start \in Int /\ nth \in Nat
  BY <1>1 DEF LayInv, Reached
<1>3. Seg.secs \in Seq(Sections)
  BY <1>1, <1>2, SegmentHere
<1> QED
  BY <1>1, <1>2, <1>3 DEF Sec

LEMMA Passes ==
    ASSUME LayInv, Placing,
           pc' = "place", cur' = cur, ordered' = ordered, start' = start,
           nth' = nth + 1, obj'.segs = obj.segs, Sections' = Sections,
           made \cup {Seg.secs[nth]} \subseteq made'
    PROVE  Queued' /\ Reached'
<1>1. /\ pc = "place" /\ cur \in DOMAIN ordered /\ pc \in Segmenting
      /\ nth \in DOMAIN Seg.secs /\ nth \in Nat /\ start \in Int
  BY SectionHere DEF Segmenting
<1>2. Queued /\ Reached /\ Seg.secs \in Seq(Sections)
  BY <1>1, SegmentHere
<1>3. Seg' = Seg /\ Segments' = Segments
  BY DEF Seg, Segments
<1>4. Queued'
  BY <1>1, <1>2, <1>3 DEF Queued, Ordering
<1>5. \A k \in DOMAIN Seg.secs : k < nth + 1 => Seg.secs[k] \in made'
  <2>1. \A k \in DOMAIN Seg.secs : k < nth + 1 => k < nth \/ k = nth
    BY <1>1, <1>2
  <2> QED
    BY <1>1, <1>2, <2>1 DEF Reached
<1>6. \A k \in DOMAIN ordered : k < cur =>
         Members(obj'.segs[ordered[k]]) \subseteq made'
  BY <1>1, <1>2 DEF Reached
<1>7. Reached'
  BY <1>1, <1>2, <1>3, <1>5, <1>6 DEF Reached, Segmenting
<1> QED
  BY <1>4, <1>7

LEMMA NullKeeps ==
    ASSUME LayInv, null_section
    PROVE  LayInv'
<1>1. Placing /\ Sec(nth).type = "NULL"
  BY DEF null_section
<1>2. /\ pc = "place" /\ pc \in Segmenting /\ cur \in DOMAIN ordered
      /\ Seg.secs[nth] \in Sections
      /\ Sec(nth) = obj.secs[Seg.secs[nth]]
  BY <1>1, SectionHere DEF Segmenting
<1>3. /\ Saveable(obj) /\ pos \in Int /\ made \subseteq Sections
      /\ (back \/ Placed)
  BY <1>2, SegmentHere
<1>4. /\ obj' = obj /\ pos' = pos /\ made' = made \cup {Seg.secs[nth]}
      /\ back' = back /\ nth' = nth + 1 /\ pc' = "place" /\ cur' = cur
      /\ ordered' = ordered /\ start' = start
      /\ Sections' = Sections
  BY <1>2 DEF null_section, Sections
<1>5. Queued' /\ Reached'
  BY <1>1, <1>4, Passes
<1>6. ASSUME Placed PROVE Placed'
  <2>1. ~HasPlace(Seg.secs[nth])
    BY <1>1, <1>2 DEF HasPlace, HasBytes
  <2>2. \A k \in made' : HasPlace(k) => k \in made
    BY <1>4, <2>1
  <2> QED
    BY <1>4, <1>6, <2>2 DEF Placed, Between, HasPlace, TablesEnd, PhdrsSize
<1> QED
  BY <1>2, <1>3, <1>4, <1>5, <1>6 DEF LayInv

LEMMA MadeKeeps ==
    ASSUME LayInv, made_section
    PROVE  LayInv'
<1>1. Placing /\ Seg.secs[nth] \in made
  BY DEF made_section
<1>2. pc = "place" /\ pc \in Laying
  BY <1>1, SectionHere DEF Laying, Segmenting
<1>3. /\ obj' = obj /\ pos' = pos /\ made' = made /\ back' = back
      /\ nth' = nth + 1 /\ pc' = "place" /\ cur' = cur
      /\ ordered' = ordered /\ start' = start /\ Sections' = Sections
  BY <1>2 DEF made_section, Sections
<1>4. Queued' /\ Reached'
  BY <1>1, <1>3, Passes
<1> QED
  BY <1>2, <1>3, <1>4, KeepsPlaces

(* The section takes the place it gets, behind the position.               *)
LEMMA PlaceKeeps ==
    ASSUME LayInv, place_section
    PROVE  LayInv'
<1> DEFINE k == Seg.secs[nth]
           s == Sec(nth)
           p == pos + Shift(s)
           t == [s EXCEPT !.offset = IF k = 1 THEN @ ELSE p,
                          !.addr = IF s.addrSet THEN @ ELSE Seg.vaddr + p - start,
                          !.addrSet = TRUE]
<1>1. Placing /\ s.type # "NULL" /\ k \notin made
  BY DEF place_section
<1>2. /\ pc = "place" /\ pc \in Segmenting /\ cur \in DOMAIN ordered
      /\ k \in Sections /\ s = obj.secs[k] /\ start \in Int
  BY <1>1, SectionHere DEF Segmenting
<1>3. /\ Saveable(obj) /\ pos \in Int /\ made \subseteq Sections
      /\ (back \/ Placed) /\ Seg.vaddr \in Int
  BY <1>2, SegmentHere
<1>4. /\ DOMAIN s = DOMAIN NewSection
      /\ s.size \in Nat /\ s.align \in Nat /\ s.addr \in Int /\ s.offset \in Int
  <2> HIDE DEF k, s
  <2> QED
    BY <1>2, <1>3 DEF Saveable, Sections
<1>5. Shift(s) \in Int
  <2>1. Padding(pos, IF s.align = 0 THEN 1 ELSE s.align) \in Nat
    BY <1>3, <1>4, Pads
  <2>2. (s.addr - Seg.vaddr) - (pos - start) \in Int
    BY <1>2, <1>3, <1>4
  <2> QED
    BY <2>1, <2>2 DEF Shift
<1>6. p \in Int /\ Seg.vaddr + p - start \in Int
  BY <1>2, <1>3, <1>5
<1>7. /\ obj' = [obj EXCEPT !.secs = [obj.secs EXCEPT ![k] = t]]
      /\ pos' = IF HasPlace(k) THEN p + s.size ELSE p
      /\ back' = (back \/ p < pos) /\ made' = made \cup {k}
      /\ nth' = nth + 1 /\ pc' = "place" /\ cur' = cur
      /\ ordered' = ordered /\ start' = start
  BY <1>2 DEF place_section, HasPlace
<1>8. /\ DOMAIN t = DOMAIN NewSection /\ t.type = s.type /\ t.size = s.size
      /\ t.align = s.align
      /\ t.addr = IF s.addrSet THEN s.addr ELSE Seg.vaddr + p - start
      /\ t.offset = IF k = 1 THEN s.offset ELSE p
  <2> HIDE DEF s, p, k
  <2> QED
    BY <1>4 DEF NewSection
<1> HIDE DEF k, s, p, t
<1>9. Placeable(t, obj.secs[k])
  BY <1>2, <1>4, <1>6, <1>8 DEF Placeable
<1>10. /\ Saveable(obj') /\ Sections' = Sections
       /\ obj'.segs = obj.segs
  BY <1>2, <1>3, <1>7, <1>9, SectionChanged
<1>11. Queued' /\ Reached'
  BY <1>1, <1>7, <1>10, Passes DEF k
<1>12. pos' \in Int /\ made' \subseteq Sections'
  BY <1>2, <1>3, <1>4, <1>6, <1>7, <1>10
<1>13. back' \/ Placed'
  <2>1. CASE back \/ p < pos
    BY <1>7, <2>1
  <2>2. CASE ~back /\ ~(p < pos)
    <3>1. Placed /\ pos <= p /\ t.size = s.size /\ (k # 1 => t.offset = p)
      BY <1>3, <1>6, <1>8, <2>2
    <3> QED
      BY <1>2, <1>3, <1>6, <1>7, <1>9, <3>1, PlacedOneMore
  <2> QED
    BY <2>1, <2>2
<1> QED
  BY <1>7, <1>10, <1>11, <1>12, <1>13 DEF LayInv

(* Its segment has what its sections added up to.                          *)
LEMMA CloseKeeps ==
    ASSUME LayInv, close_segment
    PROVE  LayInv'
<1> DEFINE g == ordered[cur]
           h == [obj.segs[g] EXCEPT !.filesz = fsz, !.memsz = mem,
                                    !.offset = start, !.offsetSet = TRUE]
<1>1. pc = "place" /\ pc \in Segmenting /\ nth \notin DOMAIN Seg.secs
  BY DEF close_segment, Segmenting
<1>2. cur \in DOMAIN ordered /\ nth \in Nat \ {0} /\ start \in Int /\ Reached
  BY <1>1 DEF LayInv, Reached, Laying
<1>3. /\ Saveable(obj) /\ Queued /\ pos \in Int /\ made \subseteq Sections
      /\ (back \/ Placed) /\ g \in Segments /\ Seg.secs \in Seq(Sections)
      /\ cur \in Nat
  BY <1>1, <1>2, SegmentHere
<1>4. /\ obj' = [obj EXCEPT !.segs = [obj.segs EXCEPT ![g] = h]]
      /\ pos' = pos /\ made' = made /\ back' = back /\ ordered' = ordered
      /\ cur' = cur + 1 /\ pc' = "segment"
  BY DEF close_segment, Goto
<1>5. /\ DOMAIN h = DOMAIN NewSegment /\ h.secs = obj.segs[g].secs
      /\ h.align = obj.segs[g].align /\ h.vaddr = obj.segs[g].vaddr
      /\ h.offset = start
  <2>1. DOMAIN obj.segs[g] = DOMAIN NewSegment
    BY <1>3 DEF Saveable, Segments
  <2> HIDE DEF g
  <2> QED
    BY <2>1 DEF NewSegment
<1> HIDE DEF g, h
<1>6. /\ Saveable(obj') /\ Segments' = Segments
      /\ obj'.secs = obj.secs /\ obj'.hdr = obj.hdr
      /\ Len(obj'.segs) = Len(obj.segs)
      /\ \A l \in Segments : obj'.segs[l].secs = obj.segs[l].secs
  BY <1>2, <1>3, <1>4, <1>5, SegmentChanged
<1>7. Queued'
  BY <1>1, <1>3, <1>4, <1>6 DEF Queued, Ordering
<1>8. Members(obj.segs[g]) \subseteq made
  <2>1. \A k \in DOMAIN Seg.secs : k < nth
    BY <1>1, <1>2, <1>3
  <2> QED
    BY <1>1, <1>2, <2>1 DEF Reached, Members, Seg, g
<1>9. Reached'
  <2>1. ASSUME NEW k \in DOMAIN ordered, k < cur + 1
        PROVE  Members(obj'.segs[ordered[k]]) \subseteq made
    <3>1. ordered[k] \in Segments /\ k \in Nat
      BY <1>3 DEF Queued
    <3>2. Members(obj.segs[ordered[k]]) \subseteq made
      <4>1. CASE k = cur
        BY <1>8, <4>1 DEF g
      <4>2. CASE k # cur
        <5>1. k < cur
          BY <1>3, <2>1, <3>1, <4>2
        <5> QED
          BY <1>1, <1>2, <5>1 DEF Reached
      <4> QED
        BY <4>1, <4>2
    <3> QED
      BY <1>6, <3>1, <3>2 DEF Members
  <2> QED
    BY <1>3, <1>4, <2>1 DEF Reached, Segmenting
<1>10. Placed' <=> Placed
  BY <1>4, <1>6 DEF Placed, Between, HasPlace, TablesEnd, PhdrsSize
<1> QED
  BY <1>3, <1>4, <1>6, <1>7, <1>9, <1>10 DEF LayInv, Sections

(* Every segment was passed, so that only sections of none are left.       *)
LEMMA DoneKeeps ==
    ASSUME LayInv, segments_done
    PROVE  LayInv'
<1>1. pc = "segment" /\ pc \in Laying /\ cur \notin DOMAIN ordered
  BY DEF segments_done, Laying, Segmenting
<1>2. Saveable(obj) /\ Queued /\ Reached /\ made \subseteq Sections
  BY <1>1 DEF LayInv
<1>3. /\ obj' = obj /\ pos' = pos /\ made' = made /\ back' = back
      /\ ordered' = ordered /\ cur' = 1 /\ pc' = "loose"
  BY DEF segments_done, Goto
<1>4. Queued'
  BY <1>1, <1>2, <1>3 DEF Queued, Ordering, Segments
<1>5. \A k \in DOMAIN ordered : Members(obj.segs[ordered[k]]) \subseteq made
  <2>1. cur \in Nat \ {0} /\ DOMAIN ordered = 1..Len(ordered)
        /\ Len(ordered) \in Nat
    BY <1>1, <1>2 DEF Queued, Reached, Segmenting
  <2>2. \A k \in DOMAIN ordered : k < cur
    BY <1>1, <2>1
  <2> QED
    BY <1>1, <1>2, <2>2 DEF Reached, Segmenting
<1>6. \A g \in Segments : Members(obj.segs[g]) \subseteq made
  <2>1. Segments \subseteq Range(ordered)
    BY <1>1, <1>2 DEF Queued, Ordering
  <2> QED
    BY <1>5, <2>1 DEF Range
<1>7. \A k \in Sections : ~is_section_without_segment(obj, k) => k \in made
  BY <1>6 DEF is_section_without_segment, Members, Segments
<1>8. \A k \in Sections : ~(k < 1)
  BY <1>2 DEF Saveable, Sections
<1>9. Reached'
  BY <1>3, <1>7, <1>8 DEF Reached, Segmenting, Sections
<1> QED
  BY <1>1, <1>3, <1>4, <1>9, KeepsPlaces

-----------------------------------------------------------------------------
(* The sections without a segment, and the end.                            *)
LEMMA LooseKeeps ==
    ASSUME LayInv, layout_loose_section
    PROVE  LayInv'
<1> DEFINE s == obj.secs[cur]
           p == IF s.align > 1 THEN pos + Padding(pos, s.align) ELSE pos
           t == [s EXCEPT !.offset = IF cur = 1 THEN @ ELSE p]
<1>1. pc = "loose" /\ pc \in Laying /\ cur \in Sections
  BY DEF layout_loose_section, Laying, Sections
<1>2. /\ Saveable(obj) /\ pos \in Int /\ made \subseteq Sections
      /\ Queued /\ Reached /\ (back \/ Placed)
  BY <1>1 DEF LayInv
<1>3. /\ cur' = cur + 1 /\ cur \in Nat \ {0} /\ pc' = "loose"
      /\ ordered' = ordered /\ back' = back
  BY <1>1, <1>2 DEF layout_loose_section, Reached
<1>4. CASE is_section_without_segment(obj, cur)
  <2>1. /\ DOMAIN s = DOMAIN NewSection
        /\ s.size \in Nat /\ s.align \in Nat /\ s.addr \in Int
        /\ s.offset \in Int
    BY <1>1, <1>2 DEF Saveable, Sections
  <2>2. p \in Int /\ pos <= p
    <3>1. s.align > 1 => Padding(pos, s.align) \in Nat
      BY <1>2, <2>1, Pads
    <3> QED
      BY <1>2, <3>1
  <2>3. /\ DOMAIN t = DOMAIN NewSection /\ t.type = s.type /\ t.size = s.size
        /\ t.align = s.align /\ t.addr = s.addr
        /\ t.offset = IF cur = 1 THEN s.offset ELSE p
    <3> HIDE DEF s, p
    <3> QED
      BY <2>1 DEF NewSection
  <2>4. /\ obj' = [obj EXCEPT !.secs = [obj.secs EXCEPT ![cur] = t]]
        /\ pos' = IF HasPlace(cur) THEN p + s.size ELSE p
        /\ made' = made \cup {cur}
    <3>1. obj' = [obj EXCEPT !.secs[cur].offset = IF cur = 1 THEN @ ELSE p]
      BY <1>4 DEF layout_loose_section
    <3> QED
      BY <1>4, <3>1 DEF layout_loose_section, HasPlace
  <2> HIDE DEF s, p, t
  <2>5. Placeable(t, obj.secs[cur])
    BY <2>1, <2>2, <2>3 DEF Placeable, s
  <2>6. /\ Saveable(obj') /\ Sections' = Sections /\ obj'.segs = obj.segs
    BY <1>1, <1>2, <2>4, <2>5, SectionChanged
  <2>7. Queued'
    BY <1>1, <1>2, <1>3, <2>6 DEF Queued, Ordering, Segments
  <2>8. Reached'
    <3>1. \A k \in Sections :
             is_section_without_segment(obj', k)
                <=> is_section_without_segment(obj, k)
      BY <2>6 DEF is_section_without_segment
    <3>2. \A k \in Sections : k < cur + 1 => k < cur \/ k = cur
      BY <1>2, <1>3 DEF Saveable, Sections
    <3> QED
      BY <1>1, <1>2, <1>3, <2>4, <2>6, <3>1, <3>2 DEF Reached, Segmenting
  <2>9. back' \/ Placed'
    <3>1. CASE back
      BY <1>3, <3>1
    <3>2. CASE Placed
      <4>1. pos' = IF HasPlace(cur) THEN p + t.size ELSE p
        BY <2>3, <2>4
      <4>2. cur # 1 => t.offset = p
        BY <2>3
      <4> QED
        BY <1>1, <1>2, <2>2, <2>4, <2>5, <3>2, <4>1, <4>2, PlacedOneMore
    <3> QED
      BY <1>2, <3>1, <3>2
  <2>10. pos' \in Int /\ made' \subseteq Sections'
    BY <1>1, <1>2, <2>1, <2>2, <2>4, <2>6
  <2> QED
    BY <1>3, <2>6, <2>7, <2>8, <2>9, <2>10 DEF LayInv
<1>5. CASE ~is_section_without_segment(obj, cur)
  <2>1. obj' = obj /\ pos' = pos /\ made' = made
    BY <1>5 DEF layout_loose_section
  <2>2. Queued'
    BY <1>1, <1>2, <1>3, <2>1 DEF Queued, Ordering, Segments
  <2>3. Reached'
    <3>1. \A k \in Sections : k < cur + 1 => k < cur \/ k = cur
      BY <1>2, <1>3 DEF Saveable, Sections
    <3>2. \A k \in Sections :
             k < cur + 1 \/ ~is_section_without_segment(obj, k) => k \in made
      BY <1>1, <1>2, <1>5, <3>1 DEF Reached
    <3> QED
      BY <1>3, <2>1, <3>2 DEF Reached, Segmenting, Sections
  <2> QED
    BY <1>1, <1>3, <2>1, <2>2, <2>3, KeepsPlaces
<1> QED
  BY <1>4, <1>5

LEMMA TableKeeps ==
    ASSUME LayInv, layout_section_table
    PROVE  LayInv'
<1>1. pc = "loose" /\ pc \in Laying /\ cur \notin Sections
  BY DEF layout_section_table, Laying, Sections
<1>2. /\ Saveable(obj) /\ pos \in Int /\ made \subseteq Sections
      /\ Queued /\ Reached /\ (back \/ Placed)
  BY <1>1 DEF LayInv
<1>3. /\ obj' = obj /\ made' = made /\ back' = back /\ ordered' = ordered
      /\ pos' = pos + Padding(pos, 4) /\ pc' = "write"
  BY DEF layout_section_table, Goto
<1>4. pos' \in Int /\ pos <= pos'
  BY <1>2, <1>3, Pads
<1>5. made = Sections
  <2>1. Sections = 1..Len(obj.secs) /\ Len(obj.secs) \in Nat
        /\ cur \in Nat \ {0}
    BY <1>1, <1>2 DEF Saveable, Sections, Reached
  <2>2. \A k \in Sections : k < cur
    BY <1>1, <2>1
  <2> QED
    BY <1>1, <1>2, <2>2 DEF Reached
<1>6. Queued'
  BY <1>1, <1>2, <1>3 DEF Queued, Ordering, Segments
<1>7. Reached'
  BY <1>3, <1>5 DEF Reached, Segmenting, Sections
<1>8. back' \/ Placed'
  BY <1>2, <1>3, <1>4, PosGrows
<1> QED
  BY <1>2, <1>3, <1>4, <1>6, <1>7, <1>8 DEF LayInv, Sections

LEMMA WriteKeeps ==
    ASSUME LayInv, write_file
    PROVE  LayInv'
<1>1. pc = "write" /\ pc \in Laying
  BY DEF write_file, Laying
<1>2. Queued /\ Reached
  BY <1>1 DEF LayInv
<1>3. /\ obj' = obj /\ pos' = pos /\ made' = made /\ back' = back
      /\ ordered' = ordered /\ pc' = "saved"
  BY DEF write_file, Goto, layoutVars
<1>4. Queued' /\ Reached'
  BY <1>1, <1>2, <1>3 DEF Queued, Reached, Ordering, Segmenting, Segments,
                          Sections
<1> QED
  BY <1>1, <1>3, <1>4, KeepsPlaces

(* Elsewhere nothing is laid out.                                          *)
LEMMA NotLaying ==
    ASSUME pc' \notin Laying, pc' # "save"
    PROVE  LayInv'
BY DEF LayInv

LEMMA LayoutKeeps ==
    ASSUME LayInv, LayoutNext
    PROVE  LayInv'
<1>1. ASSUME crash_on_alignment PROVE LayInv'
  BY <1>1, NotLaying DEF crash_on_alignment, Goto, Laying, Ordering, Segmenting
<1> QED
  BY <1>1, SaveBegins, FrontKeeps, OrderKeeps, OpenKeeps, NullKeeps, MadeKeeps,
     PlaceKeeps, CloseKeeps, DoneKeeps, LooseKeeps, TableKeeps, WriteKeeps
  DEF LayoutNext

LEMMA LayStutters ==
    ASSUME LayInv, UNCHANGED <<obj, pc, file, layoutVars>>
    PROVE  LayInv'
BY DEF LayInv, Queued, Reached, Placed, Between, HasPlace, TablesEnd, PhdrsSize,
       Segments, Sections, Seg, layoutVars

LEMMA NothingOverlaps ==
    ASSUME LayInv
    PROVE  NoOverlap
<1> SUFFICES ASSUME LaidOut, ~back PROVE LayInv /\ made = Sections /\ Placed
  BY DEF NoOverlap, Placed, Between, HasPlace, Sections
<1>1. pc \in Laying /\ pc \in {"write", "saved"}
  BY DEF LaidOut, Laying
<1> QED
  BY <1>1 DEF LayInv, Reached

-----------------------------------------------------------------------------
(* save(), given an object and nothing more: whatever the sections and     *)
(* segments are, in the written file no two sections share a byte and none *)
(* lies over the tables, unless an address puts a section in front of what *)
(* was laid out before it.                                                 *)
SaveSpec ==
    /\ pc = "save" /\ Saveable(obj)
    /\ [][LayoutNext]_<<obj, pc, file, layoutVars>>

THEOREM SavedApart == SaveSpec => []NoOverlap
<1>1. pc = "save" /\ Saveable(obj) => LayInv
  BY DEF LayInv, Laying, Ordering, Segmenting
<1>2. LayInv /\ [LayoutNext]_<<obj, pc, file, layoutVars>> => LayInv'
  BY LayoutKeeps, LayStutters
<1>3. LayInv => NoOverlap
  BY NothingOverlaps
<1> QED
  BY <1>1, <1>2, <1>3, PTL DEF SaveSpec

-----------------------------------------------------------------------------
(* The same in signlk and in the tests' programs, where the object comes   *)
(* from a file or a program, and save() runs more than once.               *)
LEMMA SignLkKeeps ==
    ASSUME LayInv, TypeOK', [Next]_vars
    PROVE  LayInv'
<1> USE DEF Goto, Laying, Ordering, Segmenting
<1>1. CASE LayoutNext
  BY <1>1, LayoutKeeps
<1>2. CASE \/ load_input \/ create_writer \/ crash_on_max_seg
           \/ no_segment_files
  BY <1>2, NotLaying DEF load_input, create_writer, crash_on_max_seg,
                         no_segment_files, TypeOK, LayInv
<1>3. CASE copy_segment
  BY <1>3, NotLaying DEF copy_segment
<1>4. CASE header_segment \/ save_program \/ elfio_copy
  BY <1>4 DEF header_segment, save_program, elfio_copy, TypeOK, LayInv
<1>5. CASE assemble \/ load_again \/ sign_again
  BY <1>5, NotLaying DEF assemble, load_again, sign_again
<1>6. CASE UNCHANGED vars
  BY <1>6, LayStutters DEF vars
<1> QED
  BY <1>1, <1>2, <1>3, <1>4, <1>5, <1>6 DEF Next, Stopped

-----------------------------------------------------------------------------
(* Induction on a number.                                                  *)
LEMMA LeastNatural ==
    ASSUME NEW T, T \subseteq Nat, T # {}
    PROVE  \E n \in T : \A m \in T : n <= m
<1>1. \E n \in T : \A m \in T : ~(<<m, n>> \in OpToRel(<, Nat))
  BY NatLessThanWellFounded, WFMin
<1>2. PICK n \in T : \A m \in T : ~(<<m, n>> \in OpToRel(<, Nat))
  BY <1>1
<1>3. \A m \in T : ~(m < n)
  <2> SUFFICES ASSUME NEW m \in T, m < n PROVE FALSE
    OBVIOUS
  <2>1. <<m, n>> \in {ss \in Nat \X Nat : ss[1] < ss[2]}
    OBVIOUS
  <2>2. OpToRel(<, Nat) = {ss \in Nat \X Nat : ss[1] < ss[2]}
    BY DEF OpToRel
  <2>3. <<m, n>> \in OpToRel(<, Nat)
    BY <2>1, <2>2
  <2> QED
    BY <1>2, <2>3
<1>4. \A m \in T : n <= m
  BY <1>3
<1> QED
  BY <1>4

LEMMA UpTo ==
    ASSUME NEW T, 0 \in T, \A n \in Nat : n \in T => n + 1 \in T
    PROVE  \A n \in Nat : n \in T
<1> SUFFICES ASSUME Nat \ T # {} PROVE FALSE
  OBVIOUS
<1>1. PICK n \in Nat \ T : \A m \in Nat \ T : n <= m
  BY LeastNatural
<1>2. n # 0 /\ n - 1 \in Nat /\ n - 1 \in T
  BY <1>1
<1>3. n - 1 + 1 \in T
  BY <1>2
<1> QED
  BY <1>1, <1>3

-----------------------------------------------------------------------------
(* Contents.  An extent that reaches into [a, b), and what is left of it.  *)
Meets(e, a, b) == e.at < b /\ e.at + e.len > a
Low(e, a) == IF e.at < a THEN a ELSE e.at
High(e, b) == IF e.at + e.len > b THEN b ELSE e.at + e.len
Clip(e, a, b) ==
    Extent(Low(e, a), High(e, b) - Low(e, a), e.id, e.skip + Low(e, a) - e.at)

IsExtent(e) ==
    /\ e = Extent(e.at, e.len, e.id, e.skip)
    /\ e.at \in Nat /\ e.len \in Nat \ {0} /\ e.skip \in Nat

Within(c, n) == \A e \in c : e.at + e.len <= n

LEMMA PartOf ==
    ASSUME NEW c, NEW a, NEW b
    PROVE  Part(c, a, b) = {Clip(e, a, b) : e \in {x \in c : Meets(x, a, b)}}
BY DEF Part, Clip, Low, High, Meets

LEMMA Clipped ==
    ASSUME NEW e, IsExtent(e), NEW a \in Int, NEW b \in Int, a < b,
           Meets(e, a, b)
    PROVE  /\ IsExtent(Clip(e, a, b))
           /\ a <= Clip(e, a, b).at
           /\ Clip(e, a, b).at + Clip(e, a, b).len <= b
           /\ Clip(e, a, b).id = e.id
           /\ Clip(e, a, b).at = Low(e, a)
           /\ Clip(e, a, b).at + Clip(e, a, b).len = High(e, b)
           /\ Clip(e, a, b).skip = e.skip + Low(e, a) - e.at
<1>1. e.at \in Nat /\ e.len \in Nat \ {0} /\ e.skip \in Nat
  BY DEF IsExtent
<1>2. /\ Low(e, a) \in Nat /\ High(e, b) \in Nat /\ Low(e, a) < High(e, b)
      /\ a <= Low(e, a) /\ High(e, b) <= b /\ e.at <= Low(e, a)
  BY <1>1 DEF Low, High, Meets
<1>3. /\ Clip(e, a, b).at = Low(e, a)
      /\ Clip(e, a, b).len = High(e, b) - Low(e, a)
      /\ Clip(e, a, b).id = e.id
      /\ Clip(e, a, b).skip = e.skip + Low(e, a) - e.at
      /\ Clip(e, a, b) = Extent(Low(e, a), High(e, b) - Low(e, a), e.id,
                                e.skip + Low(e, a) - e.at)
  BY DEF Clip, Extent
<1>4. /\ High(e, b) - Low(e, a) \in Nat \ {0}
      /\ e.skip + Low(e, a) - e.at \in Nat
      /\ Low(e, a) + (High(e, b) - Low(e, a)) = High(e, b)
  BY <1>1, <1>2
<1> QED
  BY <1>2, <1>3, <1>4 DEF IsExtent

LEMMA ContentIs ==
    ASSUME NEW c
    PROVE  IsContent(c) <=> \A e \in c : IsExtent(e)
BY DEF IsContent, IsExtent

LEMMA PartKeeps ==
    ASSUME NEW c, IsContent(c), NEW a \in Int, NEW b \in Int, a < b
    PROVE  /\ IsContent(Part(c, a, b))
           /\ \A d \in Part(c, a, b) : a <= d.at /\ d.at + d.len <= b
<1>1. ASSUME NEW d \in Part(c, a, b)
      PROVE  IsExtent(d) /\ a <= d.at /\ d.at + d.len <= b
  <2>1. PICK e \in c : Meets(e, a, b) /\ d = Clip(e, a, b)
    BY PartOf
  <2>2. IsExtent(e)
    BY ContentIs
  <2> QED
    BY <2>1, <2>2, Clipped
<1> QED
  BY <1>1, ContentIs

LEMMA MovedKeeps ==
    ASSUME NEW c, IsContent(c), NEW by \in Int, \A e \in c : e.at + by >= 0
    PROVE  /\ IsContent(Moved(c, by))
           /\ \A d \in Moved(c, by) : \E e \in c :
                 /\ d = Extent(e.at + by, e.len, e.id, e.skip)
                 /\ d.at = e.at + by /\ d.len = e.len
                 /\ d.id = e.id /\ d.skip = e.skip
<1>1. ASSUME NEW d \in Moved(c, by)
      PROVE  IsExtent(d) /\ \E e \in c :
                 /\ d = Extent(e.at + by, e.len, e.id, e.skip)
                 /\ d.at = e.at + by /\ d.len = e.len
                 /\ d.id = e.id /\ d.skip = e.skip
  <2>1. PICK e \in c : d = [e EXCEPT !.at = @ + by]
    BY DEF Moved
  <2>2. IsExtent(e)
    BY ContentIs
  <2>3. e = [at |-> e.at, len |-> e.len, id |-> e.id, skip |-> e.skip]
    BY <2>2 DEF IsExtent, Extent
  <2>4. d = [at |-> e.at + by, len |-> e.len, id |-> e.id, skip |-> e.skip]
    BY <2>1, <2>3
  <2>5. /\ d.at = e.at + by /\ d.len = e.len /\ d.id = e.id /\ d.skip = e.skip
        /\ e.at + by \in Nat
    BY <2>2, <2>4 DEF IsExtent
  <2> QED
    BY <2>2, <2>4, <2>5 DEF IsExtent, Extent
<1> QED
  BY <1>1, ContentIs

(* What is in Moved.                                                       *)
LEMMA MovedHas ==
    ASSUME NEW c, NEW e \in c, IsExtent(e), NEW by
    PROVE  Extent(e.at + by, e.len, e.id, e.skip) \in Moved(c, by)
<1>1. e = [at |-> e.at, len |-> e.len, id |-> e.id, skip |-> e.skip]
  BY DEF IsExtent, Extent
<1>2. [e EXCEPT !.at = @ + by]
        = [at |-> e.at + by, len |-> e.len, id |-> e.id, skip |-> e.skip]
  BY <1>1
<1> QED
  BY <1>2 DEF Moved, Extent

LEMMA ReadKeeps ==
    ASSUME NEW c, IsContent(c), NEW a \in Int, NEW n \in Nat \ {0}
    PROVE  IsContent(Read(c, a, n)) /\ Within(Read(c, a, n), n)
<1> DEFINE P == Part(c, a, a + n)
<1>1. /\ a + n \in Int /\ a < a + n
  OBVIOUS
<1>2. IsContent(P) /\ \A d \in P : a <= d.at /\ d.at + d.len <= a + n
  BY <1>1, PartKeeps
<1> HIDE DEF P
<1>3. -a \in Int /\ \A d \in P : d.at + (-a) >= 0
  BY <1>2 DEF IsContent
<1>4. IsContent(Moved(P, -a))
  BY <1>2, <1>3, MovedKeeps
<1>5. ASSUME NEW d \in Moved(P, -a) PROVE d.at + d.len <= n
  <2>1. PICK e \in P : d.at = e.at + (-a) /\ d.len = e.len
    BY <1>2, <1>3, MovedKeeps
  <2>2. e.at \in Nat /\ e.len \in Nat /\ e.at + e.len <= a + n
    BY <1>2 DEF IsContent
  <2> QED
    BY <2>1, <2>2
<1> QED
  BY <1>4, <1>5 DEF Read, P, Within

(* An extent that lies in [a, b) is not clipped.                           *)
LEMMA ClipInside ==
    ASSUME NEW e, IsExtent(e), NEW a \in Int, NEW b \in Int,
           a <= e.at, e.at + e.len <= b
    PROVE  Meets(e, a, b) /\ Clip(e, a, b) = e
<1>1. e.at \in Nat /\ e.len \in Nat \ {0} /\ e.skip \in Nat
  BY DEF IsExtent
<1>2. /\ Low(e, a) = e.at /\ High(e, b) = e.at + e.len
      /\ Meets(e, a, b)
  BY <1>1 DEF Low, High, Meets
<1>3. Clip(e, a, b) = Extent(Low(e, a), High(e, b) - Low(e, a), e.id,
                             e.skip + Low(e, a) - e.at)
  BY DEF Clip
<1>4. /\ High(e, b) - Low(e, a) = e.len
      /\ e.skip + Low(e, a) - e.at = e.skip
  BY <1>1, <1>2
<1>5. Clip(e, a, b) = Extent(e.at, e.len, e.id, e.skip)
  BY <1>2, <1>3, <1>4
<1> QED
  BY <1>2, <1>5 DEF IsExtent

(* All of a content.                                                       *)
LEMMA WholePart ==
    ASSUME NEW c, IsContent(c), NEW a \in Int, NEW b \in Int,
           \A e \in c : a <= e.at /\ e.at + e.len <= b
    PROVE  Part(c, a, b) = c
<1>1. \A e \in c : IsExtent(e)
  BY ContentIs
<1>2. \A e \in c : Meets(e, a, b) /\ Clip(e, a, b) = e
  BY <1>1, ClipInside
<1> QED
  BY <1>2, PartOf

LEMMA PartWithin ==
    ASSUME NEW c, IsContent(c), NEW n \in Nat
    PROVE  IsContent(Part(c, 0, n)) /\ Within(Part(c, 0, n), n)
<1>1. CASE n = 0
  <2>1. Part(c, 0, n) = {}
    <3>1. \A e \in c : ~Meets(e, 0, 0)
      BY DEF IsContent, Meets
    <3> QED
      BY <1>1, <3>1, PartOf
  <2> QED
    BY <2>1 DEF IsContent, Within
<1>2. CASE n # 0
  <2>1. 0 \in Int /\ n \in Int /\ 0 < n
    BY <1>2
  <2> QED
    BY <2>1, PartKeeps DEF Within
<1> QED
  BY <1>1, <1>2

(* What is in a stream behind the bytes that are written.                  *)
Rest(c, a, n) == UNION {Part({e}, a + n, e.at + e.len) : e \in c}

LEMMA RestOf ==
    ASSUME NEW c, IsContent(c), NEW a \in Int, NEW n \in Nat
    PROVE  /\ \A d \in Rest(c, a, n) : \E e \in c :
                 /\ Meets(e, a + n, e.at + e.len)
                 /\ d = Clip(e, a + n, e.at + e.len)
                 /\ a + n < e.at + e.len
           /\ \A e \in c : Meets(e, a + n, e.at + e.len) =>
                 Clip(e, a + n, e.at + e.len) \in Rest(c, a, n)
<1>1. \A e \in c : Part({e}, a + n, e.at + e.len)
        = {Clip(x, a + n, e.at + e.len) :
             x \in {y \in {e} : Meets(y, a + n, e.at + e.len)}}
  BY PartOf
<1>2. ASSUME NEW d \in Rest(c, a, n)
      PROVE  \E e \in c : /\ Meets(e, a + n, e.at + e.len)
                          /\ d = Clip(e, a + n, e.at + e.len)
                          /\ a + n < e.at + e.len
  <2>1. PICK e \in c : d \in Part({e}, a + n, e.at + e.len)
    BY DEF Rest
  <2>2. /\ Meets(e, a + n, e.at + e.len)
        /\ d = Clip(e, a + n, e.at + e.len)
    BY <1>1, <2>1
  <2>3. e.at \in Nat /\ e.len \in Nat
    BY DEF IsContent
  <2>4. a + n < e.at + e.len
    BY <2>2, <2>3 DEF Meets
  <2> QED
    BY <2>2, <2>4
<1>3. ASSUME NEW e \in c, Meets(e, a + n, e.at + e.len)
      PROVE  Clip(e, a + n, e.at + e.len) \in Rest(c, a, n)
  <2>1. Clip(e, a + n, e.at + e.len) \in Part({e}, a + n, e.at + e.len)
    <3>1. e \in {y \in {e} : Meets(y, a + n, e.at + e.len)}
      BY <1>3, Zenon
    <3>2. Part({e}, a + n, e.at + e.len)
            = {Clip(x, a + n, e.at + e.len) :
                 x \in {y \in {e} : Meets(y, a + n, e.at + e.len)}}
      BY <1>1, Zenon
    <3> QED
      BY <3>1, <3>2, Zenon
  <2> QED
    BY <2>1 DEF Rest
<1> QED
  BY <1>2, <1>3

LEMMA RestKeeps ==
    ASSUME NEW c, IsContent(c), NEW a \in Int, NEW n \in Nat
    PROVE  /\ IsContent(Rest(c, a, n))
           /\ \A d \in Rest(c, a, n) : a + n <= d.at
<1>1. ASSUME NEW d \in Rest(c, a, n)
      PROVE  IsExtent(d) /\ a + n <= d.at
  <2>1. PICK e \in c : /\ Meets(e, a + n, e.at + e.len)
                       /\ d = Clip(e, a + n, e.at + e.len)
                       /\ a + n < e.at + e.len
    BY RestOf
  <2>2. IsExtent(e)
    BY ContentIs
  <2>3. a + n \in Int /\ e.at + e.len \in Int
    BY <2>2 DEF IsExtent
  <2> QED
    BY <2>1, <2>2, <2>3, Clipped
<1> QED
  BY <1>1, ContentIs

LEMMA FrontKeepsContent ==
    ASSUME NEW c, IsContent(c), NEW a \in Nat
    PROVE  /\ IsContent(Part(c, 0, a))
           /\ \A d \in Part(c, 0, a) : d.at + d.len <= a
BY PartWithin DEF Within

LEMMA OverwriteParts ==
    ASSUME NEW c, NEW a, NEW n, NEW d
    PROVE  Overwrite(c, a, n, d)
             = (Part(c, 0, a) \cup Rest(c, a, n)) \cup Moved(d, a)
BY DEF Overwrite, Rest

LEMMA OverwriteKeeps ==
    ASSUME NEW c, IsContent(c), NEW d, IsContent(d), NEW a \in Nat,
           NEW n \in Nat
    PROVE  IsContent(Overwrite(c, a, n, d))
<1>1. IsContent(Part(c, 0, a)) /\ IsContent(Rest(c, a, n))
  BY FrontKeepsContent, RestKeeps
<1>2. \A e \in d : e.at + a >= 0
  BY DEF IsContent
<1>3. IsContent(Moved(d, a))
  BY <1>2, MovedKeeps
<1>4. \A S, T : IsContent(S) /\ IsContent(T) => IsContent(S \cup T)
  BY DEF IsContent
<1> QED
  BY <1>1, <1>3, <1>4, OverwriteParts

(* The bytes that were written are read again.                             *)
LEMMA ReadBack ==
    ASSUME NEW c, IsContent(c), NEW d, IsContent(d), NEW a \in Nat,
           NEW n \in Nat \ {0}, Within(d, n)
    PROVE  Read(Overwrite(c, a, n, d), a, n) = d
<1> DEFINE A == Part(c, 0, a)
           B == Rest(c, a, n)
           M == Moved(d, a)
           O == (A \cup B) \cup M
<1>1. IsContent(A) /\ \A e \in A : e.at + e.len <= a
  BY FrontKeepsContent
<1>2. IsContent(B) /\ \A e \in B : a + n <= e.at
  BY RestKeeps
<1>3. \A e \in d : IsExtent(e)
  BY ContentIs
<1>4. /\ IsContent(M)
      /\ \A m \in M : \E e \in d :
                 /\ m = Extent(e.at + a, e.len, e.id, e.skip)
                 /\ m.at = e.at + a /\ m.len = e.len
                 /\ m.id = e.id /\ m.skip = e.skip
  <2>1. \A e \in d : e.at + a >= 0
    BY <1>3 DEF IsExtent
  <2> QED
    BY <2>1, MovedKeeps
<1> HIDE DEF A, B, M
<1>5. \A m \in M : a <= m.at /\ m.at + m.len <= a + n
  <2> SUFFICES ASSUME NEW m \in M PROVE a <= m.at /\ m.at + m.len <= a + n
    OBVIOUS
  <2>1. PICK e \in d : m.at = e.at + a /\ m.len = e.len
    BY <1>4
  <2>2. e.at \in Nat /\ e.len \in Nat /\ e.at + e.len <= n
    BY <1>3 DEF Within, IsExtent
  <2> QED
    BY <2>1, <2>2
<1>6. \A m \in M : Meets(m, a, a + n) /\ Clip(m, a, a + n) = m
  <2>1. \A m \in M : IsExtent(m)
    BY <1>4, ContentIs
  <2>2. a \in Int /\ a + n \in Int
    OBVIOUS
  <2> QED
    BY <1>5, <2>1, <2>2, ClipInside
<1>7. \A e \in A \cup B : ~Meets(e, a, a + n)
  <2>1. \A e \in A \cup B : e.at \in Nat /\ e.len \in Nat
    BY <1>1, <1>2 DEF IsContent
  <2> QED
    BY <1>1, <1>2, <2>1 DEF Meets
<1>8. Part(O, a, a + n) = M
  <2>1. {x \in O : Meets(x, a, a + n)} = M
    BY <1>6, <1>7
  <2>2. Part(O, a, a + n) = {Clip(e, a, a + n) : e \in M}
    BY <2>1, PartOf
  <2> QED
    BY <1>6, <2>2
<1>9. Moved(M, -a) = d
  <2>1. \A m \in M : m.at + (-a) >= 0
    <3>1. \A m \in M : m.at \in Nat
      BY <1>4 DEF IsContent
    <3> QED
      BY <1>5, <3>1
  <2>2. ASSUME NEW z \in Moved(M, -a) PROVE z \in d
    <3>1. PICK m \in M : z = Extent(m.at + (-a), m.len, m.id, m.skip)
      BY <1>4, <2>1, MovedKeeps
    <3>2. PICK e \in d : /\ m.at = e.at + a /\ m.len = e.len
                         /\ m.id = e.id /\ m.skip = e.skip
      BY <1>4
    <3>3. IsExtent(e) /\ e.at \in Nat
      BY <1>3 DEF IsExtent
    <3>4. m.at + (-a) = e.at
      BY <3>2, <3>3
    <3>5. z = Extent(e.at, e.len, e.id, e.skip)
      BY <3>1, <3>2, <3>4
    <3> QED
      BY <3>3, <3>5 DEF IsExtent
  <2>3. ASSUME NEW e \in d PROVE e \in Moved(M, -a)
    <3> DEFINE m == Extent(e.at + a, e.len, e.id, e.skip)
    <3>1. m \in M /\ IsExtent(e)
      BY <1>3, MovedHas DEF M
    <3>2. IsExtent(m)
      BY <1>4, <3>1, ContentIs
    <3>3. Extent(m.at + (-a), m.len, m.id, m.skip) \in Moved(M, -a)
      BY <3>1, <3>2, MovedHas
    <3>4. /\ m.at = e.at + a /\ m.len = e.len /\ m.id = e.id /\ m.skip = e.skip
          /\ e.at \in Nat
      BY <3>1 DEF Extent, IsExtent
    <3> HIDE DEF m
    <3>5. m.at + (-a) = e.at
      BY <3>4
    <3>6. Extent(e.at, e.len, e.id, e.skip) \in Moved(M, -a)
      BY <3>3, <3>4, <3>5
    <3> QED
      BY <3>1, <3>6 DEF IsExtent
  <2> QED
    BY <2>2, <2>3
<1> QED
  BY <1>8, <1>9, OverwriteParts DEF Read, A, B, M

(* Clipping twice is clipping once, where the first cut is not seen.       *)
LEMMA ClipTwice ==
    ASSUME NEW e, IsExtent(e), NEW a \in Int, NEW b \in Int, a < b,
           NEW x \in Int, NEW y \in Int, x < y,
           a <= x \/ a <= e.at, y <= b \/ e.at + e.len <= b,
           Meets(e, a, b)
    PROVE  /\ Meets(Clip(e, a, b), x, y) <=> Meets(e, x, y)
           /\ Meets(e, x, y) => Clip(Clip(e, a, b), x, y) = Clip(e, x, y)
<1> DEFINE z == Clip(e, a, b)
<1>1. /\ e.at \in Nat /\ e.len \in Nat \ {0} /\ e.skip \in Nat
  BY DEF IsExtent
<1>2. /\ z.at = Low(e, a) /\ z.at + z.len = High(e, b) /\ z.id = e.id
      /\ z.skip = e.skip + Low(e, a) - e.at
      /\ z.at \in Nat /\ z.len \in Nat
  BY Clipped DEF IsExtent
<1> HIDE DEF z
<1>3. Meets(z, x, y) <=> Meets(e, x, y)
  BY <1>1, <1>2 DEF Meets, Low, High
<1>4. ASSUME Meets(e, x, y)
      PROVE  /\ Low(z, x) = Low(e, x) /\ High(z, y) = High(e, y)
             /\ z.skip + Low(z, x) - z.at = e.skip + Low(e, x) - e.at
  <2>1. /\ e.at < y /\ e.at + e.len > x
        /\ e.at < b /\ e.at + e.len > a
    BY <1>4 DEF Meets
  <2>2. Low(z, x) = Low(e, x)
    BY <1>1, <1>2, <2>1 DEF Low
  <2>3. High(z, y) = High(e, y)
    BY <1>1, <1>2, <2>1 DEF High
  <2>4. Low(e, a) \in Int /\ Low(e, x) \in Int
    BY <1>1 DEF Low
  <2> QED
    BY <1>1, <1>2, <2>2, <2>3, <2>4
<1>5. Meets(e, x, y) => Clip(z, x, y) = Clip(e, x, y)
  BY <1>2, <1>4 DEF Clip
<1> QED
  BY <1>3, <1>5 DEF z

(* Where nothing is written the bytes stay.                                *)
LEMMA PartApart ==
    ASSUME NEW c, IsContent(c), NEW d, IsContent(d), NEW a \in Nat,
           NEW n \in Nat, Within(d, n),
           NEW x \in Nat, NEW y \in Nat, x < y, y <= a \/ a + n <= x
    PROVE  Part(Overwrite(c, a, n, d), x, y) = Part(c, x, y)
<1> DEFINE A == Part(c, 0, a)
           B == Rest(c, a, n)
           M == Moved(d, a)
           O == (A \cup B) \cup M
<1>0. \A e \in c : IsExtent(e)
  BY ContentIs
<1>1. IsContent(A) /\ \A e \in A : e.at + e.len <= a
  BY FrontKeepsContent
<1>2. IsContent(B) /\ \A e \in B : a + n <= e.at
  BY RestKeeps
<1>3. \A m \in M : m.at \in Nat /\ m.len \in Nat /\ a <= m.at
                   /\ m.at + m.len <= a + n
  <2> SUFFICES ASSUME NEW m \in M
               PROVE  m.at \in Nat /\ m.len \in Nat /\ a <= m.at
                      /\ m.at + m.len <= a + n
    OBVIOUS
  <2>1. \A e \in d : e.at + a >= 0
    BY DEF IsContent
  <2>2. PICK e \in d : m.at = e.at + a /\ m.len = e.len
    BY <2>1, MovedKeeps
  <2>3. e.at \in Nat /\ e.len \in Nat /\ e.at + e.len <= n
    BY DEF Within, IsContent
  <2> QED
    BY <2>2, <2>3
<1>4. \A e \in A : \E z \in c : Meets(z, 0, a) /\ e = Clip(z, 0, a)
  BY PartOf
<1>5. \A z \in c : Meets(z, 0, a) => Clip(z, 0, a) \in A
  BY PartOf
<1>6. /\ \A e \in B : \E z \in c : /\ Meets(z, a + n, z.at + z.len)
                                   /\ e = Clip(z, a + n, z.at + z.len)
                                   /\ a + n < z.at + z.len
      /\ \A z \in c : Meets(z, a + n, z.at + z.len) =>
            Clip(z, a + n, z.at + z.len) \in B
  BY RestOf
<1> HIDE DEF A, B, M
<1>7. \A e \in M : ~Meets(e, x, y)
  BY <1>3 DEF Meets
<1>8. a # 0 => \A z \in c : Meets(z, 0, a) /\ (y <= a \/ z.at + z.len <= a) =>
         /\ Meets(Clip(z, 0, a), x, y) <=> Meets(z, x, y)
         /\ Meets(z, x, y) => Clip(Clip(z, 0, a), x, y) = Clip(z, x, y)
  BY <1>0, ClipTwice
<1>9. \A z \in c : Meets(z, a + n, z.at + z.len) /\ a + n <= x =>
         /\ Meets(Clip(z, a + n, z.at + z.len), x, y) <=> Meets(z, x, y)
         /\ Meets(z, x, y) =>
              Clip(Clip(z, a + n, z.at + z.len), x, y) = Clip(z, x, y)
  <2> SUFFICES ASSUME NEW z \in c, Meets(z, a + n, z.at + z.len), a + n <= x
               PROVE  /\ Meets(Clip(z, a + n, z.at + z.len), x, y)
                           <=> Meets(z, x, y)
                      /\ Meets(z, x, y) =>
                           Clip(Clip(z, a + n, z.at + z.len), x, y)
                             = Clip(z, x, y)
    OBVIOUS
  <2>1. /\ IsExtent(z) /\ z.at + z.len \in Int /\ a + n \in Int
        /\ a + n < z.at + z.len
    BY <1>0 DEF IsExtent, Meets
  <2> QED
    BY <2>1, ClipTwice
<1>10. ASSUME NEW e \in O, Meets(e, x, y)
       PROVE  \E z \in c : Meets(z, x, y) /\ Clip(e, x, y) = Clip(z, x, y)
  <2>1. CASE e \in A
    <3>1. PICK z \in c : Meets(z, 0, a) /\ e = Clip(z, 0, a)
      BY <1>4, <2>1
    <3>2. e.at \in Nat /\ e.len \in Nat /\ e.at + e.len <= a
      BY <1>1, <2>1 DEF IsContent
    <3>3. y <= a /\ a # 0
      BY <1>10, <3>2 DEF Meets
    <3> QED
      BY <1>8, <1>10, <3>1, <3>3
  <2>2. CASE e \in B
    <3>1. PICK z \in c : /\ Meets(z, a + n, z.at + z.len)
                         /\ e = Clip(z, a + n, z.at + z.len)
      BY <1>6, <2>2
    <3>2. e.at \in Nat /\ e.len \in Nat /\ a + n <= e.at
      BY <1>2, <2>2 DEF IsContent
    <3>3. a + n <= x
      BY <1>10, <3>2 DEF Meets
    <3> QED
      BY <1>9, <1>10, <3>1, <3>3
  <2> QED
    BY <1>7, <1>10, <2>1, <2>2
<1>11. ASSUME NEW z \in c, Meets(z, x, y)
       PROVE  \E e \in O : Meets(e, x, y) /\ Clip(e, x, y) = Clip(z, x, y)
  <2>0. z.at \in Nat /\ z.len \in Nat \ {0}
    BY <1>0 DEF IsExtent
  <2>1. CASE y <= a
    <3>1. Meets(z, 0, a) /\ a # 0
      BY <1>11, <2>0, <2>1 DEF Meets
    <3> QED
      BY <1>5, <1>8, <1>11, <2>1, <3>1
  <2>2. CASE a + n <= x
    <3>1. Meets(z, a + n, z.at + z.len)
      BY <1>11, <2>0, <2>2 DEF Meets
    <3> QED
      BY <1>6, <1>9, <1>11, <2>2, <3>1
  <2> QED
    BY <2>1, <2>2
<1>12. {Clip(e, x, y) : e \in {v \in O : Meets(v, x, y)}}
         = {Clip(z, x, y) : z \in {v \in c : Meets(v, x, y)}}
  BY <1>10, <1>11
<1>13. Part(O, x, y) = Part(c, x, y)
  BY <1>12, PartOf
<1> QED
  BY <1>13, OverwriteParts DEF A, B, M

LEMMA ReadApart ==
    ASSUME NEW c, IsContent(c), NEW d, IsContent(d), NEW a \in Nat,
           NEW n \in Nat, Within(d, n),
           NEW x \in Nat, NEW m \in Nat \ {0}, Apart(x, x + m, a, a + n)
    PROVE  Read(Overwrite(c, a, n, d), x, m) = Read(c, x, m)
<1>1. x + m \in Nat /\ x < x + m /\ (x + m <= a \/ a + n <= x)
  BY DEF Apart
<1> QED
  BY <1>1, PartApart DEF Read

(* A piece of something.                                                   *)
LEMMA PieceKeeps ==
    ASSUME NEW id, NEW n \in Nat
    PROVE  IsContent(Piece(id, n)) /\ Within(Piece(id, n), n)
<1>1. CASE n = 0
  BY <1>1 DEF Piece, IsContent, Within
<1>2. CASE n # 0
  <2> DEFINE e == Extent(0, n, id, 0)
  <2>1. Piece(id, n) = {e}
    BY <1>2 DEF Piece
  <2>2. e.at = 0 /\ e.len = n /\ e.id = id /\ e.skip = 0
    BY DEF Extent
  <2> HIDE DEF e
  <2>3. e = Extent(e.at, e.len, e.id, e.skip)
    BY <2>2 DEF e
  <2> QED
    BY <1>2, <2>1, <2>2, <2>3 DEF IsContent, Within
<1> QED
  BY <1>1, <1>2

-----------------------------------------------------------------------------
(* Ascending sequences of numbers.                                         *)
IsAscending(s, n, S) ==
    /\ n \in Nat /\ DOMAIN s = 1..n
    /\ \A k \in 1..n : s[k] \in Nat /\ s[k] \in S
    /\ \A x \in S : \E k \in 1..n : s[k] = x
    /\ Ascending(s)

LEMMA AscendingIs ==
    ASSUME NEW s, NEW n, NEW S, IsAscending(s, n, S)
    PROVE  \A k \in 1..n : \A l \in 1..n : k < l <=> s[k] < s[l]
<1> SUFFICES ASSUME NEW k \in 1..n, NEW l \in 1..n PROVE k < l <=> s[k] < s[l]
  OBVIOUS
<1>1. n \in Nat /\ s[k] \in Nat /\ s[l] \in Nat
  BY DEF IsAscending
<1>2. (k < l => s[k] < s[l]) /\ (l < k => s[l] < s[k])
  BY DEF IsAscending, Ascending
<1>3. k = l => s[k] = s[l]
  OBVIOUS
<1> QED
  BY <1>1, <1>2, <1>3

(* A set has one.                                                          *)
LEMMA AscendingAgree ==
    ASSUME NEW S, NEW s, NEW m, NEW t, NEW n,
           IsAscending(s, m, S), IsAscending(t, n, S)
    PROVE  \A k \in 1..m : k \in 1..n /\ t[k] = s[k]
<1> DEFINE T == {k \in 1..m : ~(k \in 1..n /\ t[k] = s[k])}
<1> SUFFICES ASSUME T # {} PROVE FALSE
  OBVIOUS
<1>1. m \in Nat /\ n \in Nat
  BY DEF IsAscending
<1>2. T \subseteq Nat
  BY <1>1
<1>3. PICK k \in T : \A l \in T : k <= l
  BY <1>2, LeastNatural
<1>4. k \in 1..m /\ ~(k \in 1..n /\ t[k] = s[k])
  OBVIOUS
<1>5. \A l \in 1..m : l < k => l \in 1..n /\ t[l] = s[l]
  BY <1>1, <1>3
<1> HIDE DEF T
<1>6. PICK j \in 1..n : t[j] = s[k]
  BY <1>4 DEF IsAscending
<1>7. ~(j < k)
  <2> SUFFICES ASSUME j < k PROVE FALSE
    OBVIOUS
  <2>1. j \in 1..m
    BY <1>1, <1>4
  <2>2. s[j] = s[k] /\ s[j] < s[k]
    BY <1>4, <1>5, <1>6, <2>1, AscendingIs
  <2>3. s[k] \in Nat
    BY <1>4 DEF IsAscending
  <2> QED
    BY <2>2, <2>3
<1>8. k \in 1..n /\ j # k /\ k < j
  BY <1>1, <1>4, <1>6, <1>7
<1>9. t[k] < s[k]
  BY <1>6, <1>8, AscendingIs
<1>10. PICK h \in 1..m : s[h] = t[k]
  BY <1>8 DEF IsAscending
<1>11. h < k
  BY <1>4, <1>9, <1>10, AscendingIs
<1>12. t[h] = t[k] /\ h \in 1..n
  BY <1>5, <1>10, <1>11
<1>13. t[h] < t[k]
  BY <1>8, <1>11, <1>12, AscendingIs
<1>14. t[k] \in Nat
  BY <1>8 DEF IsAscending
<1> QED
  BY <1>12, <1>13, <1>14

LEMMA AscendingUnique ==
    ASSUME NEW S, NEW s, NEW m, NEW t, NEW n,
           IsAscending(s, m, S), IsAscending(t, n, S)
    PROVE  m = n /\ \A k \in 1..n : s[k] = t[k]
<1>1. m \in Nat /\ n \in Nat
  BY DEF IsAscending
<1>2. \A k \in 1..m : k \in 1..n /\ t[k] = s[k]
  BY AscendingAgree
<1>3. \A k \in 1..n : k \in 1..m /\ s[k] = t[k]
  BY AscendingAgree
<1>4. m <= n
  <2>1. CASE m = 0
    BY <1>1, <2>1
  <2>2. CASE m # 0
    <3>1. m \in 1..m
      BY <1>1, <2>2
    <3>2. m \in 1..n
      BY <1>2, <3>1
    <3> QED
      BY <1>1, <3>2
  <2> QED
    BY <2>1, <2>2
<1>5. n <= m
  <2>1. CASE n = 0
    BY <1>1, <2>1
  <2>2. CASE n # 0
    <3>1. n \in 1..n
      BY <1>1, <2>2
    <3>2. n \in 1..m
      BY <1>3, <3>1
    <3> QED
      BY <1>1, <3>2
  <2> QED
    BY <2>1, <2>2
<1> QED
  BY <1>1, <1>3, <1>4, <1>5

(* The least element of a set goes in front.                               *)
LEMMA LeastInFront ==
    ASSUME NEW S, S \subseteq Nat, NEW x \in S, \A y \in S : x <= y,
           NEW s, NEW n, IsAscending(s, n, S \ {x})
    PROVE  IsAscending([k \in 1..(n + 1) |-> IF k = 1 THEN x ELSE s[k - 1]],
                       n + 1, S)
<1> DEFINE t == [k \in 1..(n + 1) |-> IF k = 1 THEN x ELSE s[k - 1]]
<1>1. n \in Nat /\ x \in Nat /\ n + 1 \in Nat
  BY DEF IsAscending
<1>2. \A k \in 1..n : s[k] \in Nat /\ s[k] \in S /\ s[k] # x
  BY DEF IsAscending
<1>3. \A k \in 1..n : x < s[k]
  BY <1>1, <1>2
<1>4. /\ DOMAIN t = 1..(n + 1) /\ t[1] = x
      /\ \A k \in 1..(n + 1) : k # 1 => k - 1 \in 1..n /\ t[k] = s[k - 1]
  BY <1>1
<1>5. \A k \in 1..n : k + 1 \in 1..(n + 1) /\ t[k + 1] = s[k]
  BY <1>1
<1> HIDE DEF t
<1>6. \A k \in 1..(n + 1) : t[k] \in Nat /\ t[k] \in S
  BY <1>1, <1>2, <1>4
<1>7. ASSUME NEW y \in S PROVE \E k \in 1..(n + 1) : t[k] = y
  <2>1. CASE y = x
    <3>1. 1 \in 1..(n + 1)
      BY <1>1
    <3> QED
      BY <1>4, <2>1, <3>1
  <2>2. CASE y # x
    <3>1. PICK k \in 1..n : s[k] = y
      BY <2>2 DEF IsAscending
    <3> QED
      BY <1>5, <3>1
  <2> QED
    BY <2>1, <2>2
<1>8. ASSUME NEW k \in 1..(n + 1), NEW l \in 1..(n + 1), k < l
      PROVE  t[k] < t[l]
  <2>1. l # 1 /\ l - 1 \in 1..n /\ t[l] = s[l - 1]
    BY <1>1, <1>4, <1>8
  <2>2. CASE k = 1
    BY <1>3, <1>4, <2>1, <2>2
  <2>3. CASE k # 1
    <3>1. k - 1 \in 1..n /\ t[k] = s[k - 1] /\ k - 1 < l - 1
      BY <1>1, <1>4, <1>8, <2>3
    <3> QED
      BY <2>1, <3>1, AscendingIs
  <2> QED
    BY <2>2, <2>3
<1>9. Ascending(t)
  BY <1>4, <1>8 DEF Ascending
<1>10. IsAscending(t, n + 1, S)
  BY <1>1, <1>4, <1>6, <1>7, <1>9 DEF IsAscending
<1> QED
  BY <1>10 DEF t

LEMMA SortedExists ==
    ASSUME NEW S, S \subseteq Nat, IsFiniteSet(S)
    PROVE  \E s \in [1..Cardinality(S) -> S] : IsAscending(s, Cardinality(S), S)
<1> DEFINE T == {n \in Nat : \A X \in SUBSET S : Cardinality(X) = n =>
                                \E s : IsAscending(s, n, X)}
<1>1. 0 \in T
  <2> SUFFICES ASSUME NEW X \in SUBSET S, Cardinality(X) = 0
               PROVE  \E s : IsAscending(s, 0, X)
    OBVIOUS
  <2>1. X = {}
    BY FS_Subset, FS_EmptySet
  <2> DEFINE s == [k \in 1..0 |-> 0]
  <2>2. IsAscending(s, 0, X)
    BY <2>1 DEF IsAscending, Ascending
  <2> QED
    BY <2>2
<1>2. ASSUME NEW n \in Nat, n \in T PROVE n + 1 \in T
  <2> SUFFICES ASSUME NEW X \in SUBSET S, Cardinality(X) = n + 1
               PROVE  \E s : IsAscending(s, n + 1, X)
    BY <1>2
  <2>1. IsFiniteSet(X) /\ X \subseteq Nat
    BY FS_Subset
  <2>2. X # {}
    BY FS_EmptySet
  <2>3. PICK x \in X : \A y \in X : x <= y
    BY <2>1, <2>2, LeastNatural
  <2>4. Cardinality(X \ {x}) = n
    <3>1. Cardinality(X \ {x}) = Cardinality(X) - 1
      BY <2>1, FS_RemoveElement
    <3> QED
      BY <3>1
  <2>5. PICK s : IsAscending(s, n, X \ {x})
    BY <1>2, <2>4
  <2>6. IsAscending([k \in 1..(n + 1) |-> IF k = 1 THEN x ELSE s[k - 1]],
                    n + 1, X)
    BY <2>1, <2>3, <2>5, LeastInFront
  <2> QED
    BY <2>6
<1>3. Cardinality(S) \in Nat
  BY FS_CardinalityType
<1>4. Cardinality(S) \in T
  <2> HIDE DEF T
  <2> QED
    BY <1>1, <1>2, <1>3, UpTo
<1>5. PICK s : IsAscending(s, Cardinality(S), S)
  BY <1>4
<1> DEFINE n == Cardinality(S)
           t == [k \in 1..n |-> s[k]]
<1>6. /\ n \in Nat /\ DOMAIN t = 1..n /\ \A k \in 1..n : t[k] = s[k]
      /\ t \in [1..n -> S]
  BY <1>3, <1>5 DEF IsAscending
<1> HIDE DEF n, t
<1>7. IsAscending(s, n, S)
  BY <1>5 DEF n
<1>8. Ascending(t)
  <2>1. \A k, l \in 1..n : k < l => s[k] < s[l]
    BY <1>7 DEF IsAscending, Ascending
  <2> QED
    BY <1>6, <2>1 DEF Ascending
<1>9. IsAscending(t, n, S)
  BY <1>6, <1>7, <1>8 DEF IsAscending
<1> QED
  BY <1>6, <1>9 DEF n

(* Any ascending sequence as long as the set has all of it.                *)
LEMMA AscendingHasAll ==
    ASSUME NEW S, S \subseteq Nat, IsFiniteSet(S),
           NEW s \in [1..Cardinality(S) -> S], Ascending(s)
    PROVE  IsAscending(s, Cardinality(S), S)
<1> DEFINE n == Cardinality(S)
<1>1. n \in Nat /\ IsFiniteSet(1..n) /\ Cardinality(1..n) = n
  <2>1. n \in Nat
    BY FS_CardinalityType
  <2>2. IsFiniteSet(1..n) /\ Cardinality(1..n) = IF 1 > n THEN 0 ELSE n - 1 + 1
    BY <2>1, FS_Interval
  <2> QED
    BY <2>1, <2>2
<1>2. s \in [1..n -> S] /\ DOMAIN s = 1..n
  OBVIOUS
<1> HIDE DEF n
<1>3. ASSUME NEW k \in 1..n, NEW l \in 1..n, s[k] = s[l] PROVE k = l
  <2>0. s[k] \in S /\ s[l] \in S
    BY <1>2
  <2>1. s[k] \in Nat /\ s[l] \in Nat /\ k \in Nat /\ l \in Nat
    <3>1. s[k] \in Nat /\ s[l] \in Nat
      BY <2>0
    <3>2. n \in Nat
      BY <1>1
    <3> QED
      BY <3>1, <3>2
  <2>2. (k < l => s[k] < s[l]) /\ (l < k => s[l] < s[k])
    BY <1>2 DEF Ascending
  <2> QED
    BY <1>3, <2>1, <2>2
<1>4. s \in Injection(1..n, S)
  BY <1>2, <1>3 DEF Injection, IsInjective
<1>5. s \in Surjection(1..n, S)
  <2>1. Cardinality(1..n) = Cardinality(S)
    BY <1>1 DEF n
  <2> QED
    BY <1>4, <2>1, FS_Injection
<1>6. \A x \in S : \E k \in 1..n : s[k] = x
  BY <1>5 DEF Surjection
<1>7. \A k \in 1..n : s[k] \in Nat /\ s[k] \in S
  BY <1>2
<1>8. IsAscending(s, n, S)
  BY <1>1, <1>2, <1>6, <1>7 DEF IsAscending
<1> QED
  BY <1>8 DEF n

LEMMA SortedIs ==
    ASSUME NEW S, S \subseteq Nat, IsFiniteSet(S)
    PROVE  /\ IsAscending(Sorted(S), Cardinality(S), S)
           /\ Sorted(S) \in [1..Cardinality(S) -> S]
<1>1. PICK s \in [1..Cardinality(S) -> S] : IsAscending(s, Cardinality(S), S)
  BY SortedExists
<1>2. Ascending(s)
  BY <1>1 DEF IsAscending
<1>3. /\ Sorted(S) \in [1..Cardinality(S) -> S]
      /\ Ascending(Sorted(S))
  BY <1>2 DEF Sorted
<1>4. IsAscending(Sorted(S), Cardinality(S), S)
  BY <1>3, AscendingHasAll
<1> QED
  BY <1>3, <1>4

-----------------------------------------------------------------------------
(* The segments that are copied.                                           *)
Unskipped(n) == {k \in 1..n : ~Skipped(reader.segs[k])}

LEMMA AscendingAppended ==
    ASSUME NEW s \in Seq(Nat), NEW S, IsAscending(s, Len(s), S),
           NEW x \in Nat, \A y \in S : y < x
    PROVE  IsAscending(Append(s, x), Len(Append(s, x)), S \cup {x})
<1> DEFINE n == Len(s)
           t == Append(s, x)
<1>1. /\ n \in Nat /\ t \in Seq(Nat) /\ Len(t) = n + 1 /\ DOMAIN t = 1..(n + 1)
      /\ t[n + 1] = x /\ \A k \in 1..n : t[k] = s[k]
  <2>1. /\ n \in Nat /\ t \in Seq(Nat) /\ Len(t) = n + 1
        /\ t[n + 1] = x /\ \A k \in 1..n : t[k] = s[k]
    BY AppendProperties, LenProperties
  <2>2. DOMAIN t = 1..(n + 1)
    BY <2>1, LenProperties
  <2> QED
    BY <2>1, <2>2
<1>2. /\ \A k \in 1..n : s[k] \in Nat /\ s[k] \in S
      /\ \A y \in S : \E k \in 1..n : s[k] = y
  BY DEF IsAscending
<1> HIDE DEF n, t
<1>3. \A k \in 1..(n + 1) : k \in 1..n \/ k = n + 1
  BY <1>1
<1>4. \A k \in 1..(n + 1) : t[k] \in Nat /\ t[k] \in S \cup {x}
  BY <1>1, <1>2, <1>3
<1>5. \A y \in S \cup {x} : \E k \in 1..(n + 1) : t[k] = y
  <2>1. n + 1 \in 1..(n + 1) /\ \A k \in 1..n : k \in 1..(n + 1)
    BY <1>1
  <2> QED
    BY <1>1, <1>2, <2>1
<1>6. ASSUME NEW k \in 1..(n + 1), NEW l \in 1..(n + 1), k < l
      PROVE  t[k] < t[l]
  <2>1. k \in 1..n
    BY <1>1, <1>6
  <2>2. CASE l = n + 1
    BY <1>1, <1>2, <2>1, <2>2
  <2>3. CASE l \in 1..n
    <3>1. s[k] < s[l]
      BY <1>6, <2>1, <2>3 DEF IsAscending, Ascending, n
    <3> QED
      BY <1>1, <2>1, <2>3, <3>1
  <2> QED
    BY <1>3, <2>2, <2>3
<1>7. Ascending(t)
  BY <1>1, <1>6 DEF Ascending
<1>8. IsAscending(t, n + 1, S \cup {x})
  <2>1. n + 1 \in Nat
    BY <1>1
  <2> QED
    BY <1>1, <1>4, <1>5, <1>7, <2>1 DEF IsAscending
<1> QED
  BY <1>1, <1>8 DEF t

Listed(s, n) == /\ s \in Seq(Nat) /\ Len(s) <= n
                /\ IsAscending(s, Len(s), Unskipped(n))

LEMMA NoneListed == Listed(<<>>, 0)
<1>1. Unskipped(0) = {}
  BY DEF Unskipped
<1>2. <<>> \in Seq(Nat) /\ Len(<<>>) = 0
  BY EmptySeq
<1>3. DOMAIN <<>> = 1..0
  BY <1>2, LenProperties
<1>4. Ascending(<<>>)
  BY <1>3 DEF Ascending
<1>5. IsAscending(<<>>, 0, {})
  BY <1>3, <1>4 DEF IsAscending
<1> QED
  BY <1>1, <1>2, <1>5 DEF Listed

LEMMA OneMoreListed ==
    ASSUME NEW n \in Nat, NEW s, Listed(s, n)
    PROVE  Listed(IF Skipped(reader.segs[n + 1]) THEN s ELSE Append(s, n + 1),
                  n + 1)
<1>1. s \in Seq(Nat) /\ Len(s) <= n /\ IsAscending(s, Len(s), Unskipped(n))
      /\ Len(s) \in Nat
  BY LenProperties DEF Listed
<1>2. 1..(n + 1) = (1..n) \cup {n + 1}
  OBVIOUS
<1>3. CASE Skipped(reader.segs[n + 1])
  <2>1. Unskipped(n + 1) = Unskipped(n)
    BY <1>2, <1>3 DEF Unskipped
  <2>2. Len(s) <= n + 1
    BY <1>1
  <2> QED
    BY <1>1, <1>3, <2>1, <2>2 DEF Listed
<1>4. CASE ~Skipped(reader.segs[n + 1])
  <2>1. Unskipped(n + 1) = Unskipped(n) \cup {n + 1}
    BY <1>2, <1>4 DEF Unskipped
  <2>2. \A y \in Unskipped(n) : y < n + 1
    BY DEF Unskipped
  <2>3. n + 1 \in Nat
    OBVIOUS
  <2>4. IsAscending(Append(s, n + 1), Len(Append(s, n + 1)),
                    Unskipped(n) \cup {n + 1})
    BY <1>1, <2>2, <2>3, AscendingAppended
  <2>5. Append(s, n + 1) \in Seq(Nat) /\ Len(Append(s, n + 1)) = Len(s) + 1
    BY <1>1, <2>3, AppendProperties
  <2>6. Len(Append(s, n + 1)) <= n + 1
    BY <1>1, <2>5
  <2> QED
    BY <1>4, <2>1, <2>4, <2>5, <2>6 DEF Listed
<1> QED
  BY <1>3, <1>4

LEMMA CopiesListed ==
    ASSUME NEW n \in Nat
    PROVE  Listed(CopiedAmong(n), n)
<1> DEFINE Step(s, k) == IF Skipped(reader.segs[k]) THEN s ELSE Append(s, k)
           Rec(f, m) == f = [k \in 0..m |-> IF k = 0 THEN <<>>
                                            ELSE Step(f[k - 1], k)]
           F == CHOOSE f : Rec(f, n)
           T == {m \in Nat : \E f : Rec(f, m)}
           U == {m \in Nat : m <= n => Listed(F[m], m)}
<1>1. CopiedAmong(n) = F[n]
  BY DEF CopiedAmong
<1>2. \A m \in Nat : \A s : Listed(s, m) => Listed(Step(s, m + 1), m + 1)
  BY OneMoreListed
<1> HIDE DEF Step
<1>3. 0 \in T
  <2> DEFINE g == [k \in 0..0 |-> <<>>]
  <2>1. Rec(g, 0)
    OBVIOUS
  <2> QED
    BY <2>1
<1>4. ASSUME NEW m \in Nat, m \in T PROVE m + 1 \in T
  <2>1. PICK f : Rec(f, m)
    BY <1>4
  <2> DEFINE g == [k \in 0..(m + 1) |->
                     IF k = m + 1 THEN Step(f[m], m + 1) ELSE f[k]]
  <2>2. Rec(g, m + 1)
    <3>1. \A k \in 0..m : f[k] = IF k = 0 THEN <<>> ELSE Step(f[k - 1], k)
      BY <2>1
    <3>2. \A k \in 0..(m + 1) : g[k] = IF k = 0 THEN <<>> ELSE Step(g[k - 1], k)
      BY <3>1
    <3> QED
      BY <3>2
  <2> HIDE DEF g
  <2> QED
    BY <2>2
<1>5. n \in T
  <2> HIDE DEF T
  <2> QED
    BY <1>3, <1>4, UpTo
<1>6. Rec(F, n)
  <2>1. \E f : Rec(f, n)
    BY <1>5
  <2> QED
    BY <2>1
<1> HIDE DEF F
<1>7. F[0] = <<>>
  BY <1>6
<1>8. 0 \in U
  BY <1>7, NoneListed
<1>9. ASSUME NEW m \in Nat, m \in U PROVE m + 1 \in U
  <2> SUFFICES ASSUME m + 1 <= n PROVE Listed(F[m + 1], m + 1)
    OBVIOUS
  <2>1. Listed(F[m], m)
    BY <1>9
  <2>2. F[m + 1] = Step(F[m], m + 1)
    BY <1>6
  <2> QED
    BY <1>2, <2>1, <2>2
<1>10. n \in U
  <2> HIDE DEF U
  <2> QED
    BY <1>8, <1>9, UpTo
<1> QED
  BY <1>1, <1>10

LEMMA ListedUnique ==
    ASSUME NEW n \in Nat, NEW s, Listed(s, n), NEW t, Listed(t, n)
    PROVE  s = t
<1>1. /\ s \in Seq(Nat) /\ IsAscending(s, Len(s), Unskipped(n))
      /\ t \in Seq(Nat) /\ IsAscending(t, Len(t), Unskipped(n))
  BY DEF Listed
<1>2. Len(s) = Len(t) /\ \A k \in 1..Len(t) : s[k] = t[k]
  BY <1>1, AscendingUnique
<1> QED
  BY <1>1, <1>2, SeqEqual

LEMMA CopiesGrow ==
    /\ CopiedAmong(0) = <<>>
    /\ \A n \in Nat : CopiedAmong(n + 1) =
         IF Skipped(reader.segs[n + 1]) THEN CopiedAmong(n)
         ELSE Append(CopiedAmong(n), n + 1)
<1>1. CopiedAmong(0) = <<>>
  BY NoneListed, CopiesListed, ListedUnique
<1>2. ASSUME NEW n \in Nat
      PROVE  CopiedAmong(n + 1) =
               IF Skipped(reader.segs[n + 1]) THEN CopiedAmong(n)
               ELSE Append(CopiedAmong(n), n + 1)
  <2>1. n + 1 \in Nat
    OBVIOUS
  <2>2. Listed(CopiedAmong(n + 1), n + 1)
    BY <2>1, CopiesListed
  <2>3. Listed(IF Skipped(reader.segs[n + 1]) THEN CopiedAmong(n)
               ELSE Append(CopiedAmong(n), n + 1), n + 1)
    BY CopiesListed, OneMoreListed
  <2> QED
    BY <2>1, <2>2, <2>3, ListedUnique
<1> QED
  BY <1>1, <1>2

(* What the list holds.                                                    *)
LEMMA CopiesAre ==
    ASSUME NEW n \in Nat
    PROVE  /\ CopiedAmong(n) \in Seq(Nat)
           /\ Len(CopiedAmong(n)) \in 0..n
           /\ DOMAIN CopiedAmong(n) = 1..Len(CopiedAmong(n))
           /\ \A k \in 1..Len(CopiedAmong(n)) :
                 /\ CopiedAmong(n)[k] \in 1..n
                 /\ ~Skipped(reader.segs[CopiedAmong(n)[k]])
           /\ \A l \in 1..n : ~Skipped(reader.segs[l]) =>
                 \E k \in 1..Len(CopiedAmong(n)) : CopiedAmong(n)[k] = l
           /\ Ascending(CopiedAmong(n))
<1> DEFINE s == CopiedAmong(n)
<1>1. Listed(s, n)
  BY CopiesListed
<1> HIDE DEF s
<1>2. s \in Seq(Nat) /\ Len(s) \in 0..n /\ IsAscending(s, Len(s), Unskipped(n))
  BY <1>1, LenProperties DEF Listed
<1>3. /\ DOMAIN s = 1..Len(s) /\ Ascending(s)
      /\ \A k \in 1..Len(s) : s[k] \in Unskipped(n)
      /\ \A l \in Unskipped(n) : \E k \in 1..Len(s) : s[k] = l
  BY <1>2 DEF IsAscending
<1>4. \A k \in 1..Len(s) : s[k] \in 1..n /\ ~Skipped(reader.segs[s[k]])
  BY <1>3 DEF Unskipped
<1>5. \A l \in 1..n : ~Skipped(reader.segs[l]) => \E k \in 1..Len(s) : s[k] = l
  BY <1>3 DEF Unskipped
<1> QED
  BY <1>2, <1>3, <1>4, <1>5 DEF s

-----------------------------------------------------------------------------
(* What is loaded.                                                         *)
IsRecord(g) == g = [x \in DOMAIN g |-> g[x]]

IsLoaded(h, f, ph, n) ==
    /\ IsRecord(h)
    /\ DOMAIN h = DOMAIN NewSegment
    /\ h.type = ph.type /\ h.flags = ph.flags
    /\ h.vaddr = ph.vaddr /\ h.paddr = ph.paddr
    /\ h.filesz = ph.filesz /\ h.memsz = ph.memsz /\ h.offset = ph.offset
    /\ h.offsetSet = TRUE /\ h.align \in Nat /\ h.secs \in Seq(1..n)
    /\ h.data = IF HasData(ph) THEN Read(f.content, ph.offset, ph.filesz)
                ELSE {}

LEMMA IndexAdded ==
    ASSUME NEW h, NEW f, NEW ph, NEW n \in Nat, IsLoaded(h, f, ph, n),
           NEW k \in 1..n, NEW a \in Nat
    PROVE  IsLoaded(add_section_index(h, k, a), f, ph, n)
<1> DEFINE t == add_section_index(h, k, a)
<1>0. IsRecord(t)
  BY DEF IsRecord, add_section_index
<1>1. /\ DOMAIN h = DOMAIN NewSegment /\ h.align \in Nat /\ h.secs \in Seq(1..n)
  BY DEF IsLoaded
<1>2. /\ DOMAIN t = DOMAIN h
      /\ t.type = h.type /\ t.flags = h.flags
      /\ t.vaddr = h.vaddr /\ t.paddr = h.paddr
      /\ t.filesz = h.filesz /\ t.memsz = h.memsz /\ t.offset = h.offset
      /\ t.offsetSet = h.offsetSet /\ t.data = h.data
      /\ t.secs = Append(h.secs, k) /\ t.align = IF a > h.align THEN a ELSE h.align
  BY <1>1 DEF add_section_index, NewSegment
<1>3. Append(h.secs, k) \in Seq(1..n)
  BY <1>1, AppendProperties
<1>4. t.align \in Nat
  BY <1>1, <1>2
<1> HIDE DEF t
<1>5. IsLoaded(t, f, ph, n)
  BY <1>0, <1>1, <1>2, <1>3, <1>4 DEF IsLoaded
<1> QED
  BY <1>5 DEF t

LEMMA SegmentLoaded ==
    ASSUME NEW f, NEW secs, NEW ph, Len(secs) \in Nat,
           \A k \in 1..Len(secs) : secs[k].align \in Nat,
           DOMAIN ph = DOMAIN NewSegment, ph.align \in Nat
    PROVE  IsLoaded(LoadSegment(f, secs, ph), f, ph, Len(secs))
<1> DEFINE n == Len(secs)
           empty == [ph EXCEPT !.offsetSet = TRUE, !.secs = <<>>,
                               !.data = IF HasData(ph)
                                        THEN Read(f.content, ph.offset, ph.filesz)
                                        ELSE {}]
           Step(h, k) == IF Inside(secs[k], ph)
                         THEN add_section_index(h, k, secs[k].align) ELSE h
           Rec(g, m) == g = [k \in 0..m |-> IF k = 0 THEN empty
                                            ELSE Step(g[k - 1], k)]
           F == CHOOSE g : Rec(g, n)
           T == {m \in Nat : \E g : Rec(g, m)}
           U == {m \in Nat : m <= n => IsLoaded(F[m], f, ph, n)}
<1>1. LoadSegment(f, secs, ph) = F[n]
  BY DEF LoadSegment
<1>2. IsLoaded(empty, f, ph, n)
  <2>1. /\ DOMAIN empty = DOMAIN NewSegment
        /\ empty.type = ph.type /\ empty.flags = ph.flags
        /\ empty.vaddr = ph.vaddr /\ empty.paddr = ph.paddr
        /\ empty.filesz = ph.filesz /\ empty.memsz = ph.memsz
        /\ empty.offset = ph.offset /\ empty.align = ph.align
        /\ empty.offsetSet = TRUE /\ empty.secs = <<>>
        /\ empty.data = IF HasData(ph)
                        THEN Read(f.content, ph.offset, ph.filesz) ELSE {}
    BY DEF NewSegment
  <2>2. <<>> \in Seq(1..n)
    BY EmptySeq
  <2>3. IsRecord(empty)
    BY DEF IsRecord
  <2> HIDE DEF empty, n
  <2> QED
    BY <2>1, <2>2, <2>3 DEF IsLoaded
<1>3. \A m \in 0..(n - 1) : \A h : IsLoaded(h, f, ph, n) =>
         IsLoaded(Step(h, m + 1), f, ph, n)
  <2> SUFFICES ASSUME NEW m \in 0..(n - 1), NEW h, IsLoaded(h, f, ph, n)
               PROVE  IsLoaded(Step(h, m + 1), f, ph, n)
    OBVIOUS
  <2>1. m + 1 \in 1..n /\ n \in Nat
    OBVIOUS
  <2>2. secs[m + 1].align \in Nat
    BY <2>1
  <2>3. IsLoaded(add_section_index(h, m + 1, secs[m + 1].align), f, ph, n)
    BY <2>1, <2>2, IndexAdded
  <2> QED
    BY <2>3
<1>4. n \in Nat
  OBVIOUS
<1> HIDE DEF Step, empty, n
<1>5. 0 \in T
  <2> DEFINE g == [k \in 0..0 |-> empty]
  <2>1. Rec(g, 0)
    OBVIOUS
  <2> QED
    BY <2>1
<1>6. ASSUME NEW m \in Nat, m \in T PROVE m + 1 \in T
  <2>1. PICK g : Rec(g, m)
    BY <1>6
  <2> DEFINE h == [k \in 0..(m + 1) |->
                     IF k = m + 1 THEN Step(g[m], m + 1) ELSE g[k]]
  <2>2. Rec(h, m + 1)
    <3>1. \A k \in 0..m : g[k] = IF k = 0 THEN empty ELSE Step(g[k - 1], k)
      BY <2>1
    <3>2. \A k \in 0..(m + 1) : h[k] = IF k = 0 THEN empty ELSE Step(h[k - 1], k)
      BY <3>1
    <3> QED
      BY <3>2
  <2> HIDE DEF h, Rec
  <2> QED
    BY <2>2
<1>7. n \in T
  <2> HIDE DEF T
  <2> QED
    BY <1>4, <1>5, <1>6, UpTo
<1>8. Rec(F, n)
  <2>1. \E g : Rec(g, n)
    BY <1>7
  <2> QED
    BY <2>1
<1> HIDE DEF F
<1>9. 0 \in U
  <2>1. F[0] = empty
    BY <1>4, <1>8
  <2> QED
    BY <1>2, <2>1
<1>10. ASSUME NEW m \in Nat, m \in U PROVE m + 1 \in U
  <2> SUFFICES ASSUME m + 1 <= n PROVE IsLoaded(F[m + 1], f, ph, n)
    OBVIOUS
  <2>1. IsLoaded(F[m], f, ph, n) /\ m \in 0..(n - 1)
    BY <1>4, <1>10
  <2>2. F[m + 1] = Step(F[m], m + 1)
    BY <1>4, <1>8
  <2> QED
    BY <1>3, <2>1, <2>2
<1>11. n \in U
  <2> HIDE DEF U
  <2> QED
    BY <1>4, <1>9, <1>10, UpTo
<1> QED
  BY <1>1, <1>4, <1>11 DEF n

(* The sections of a file as load() leaves them.                           *)
LoadedSections(f) ==
    LET read == [k \in DOMAIN f.shs |-> LoadSection(f, f.shs[k])]
    IN  IF f.hdr.shstrndx \in DOMAIN read \ {1}
        THEN Named(read, f.hdr.shstrndx) ELSE read

SameTable(t, s) ==
    /\ DOMAIN t = DOMAIN NewSection
    /\ t.type = s.type /\ t.size = s.size /\ t.align = s.align
    /\ t.addr = s.addr /\ t.offset = s.offset

LEMMA SectionsLoaded ==
    ASSUME NEW f, Loadable(f)
    PROVE  /\ DOMAIN LoadedSections(f) = 1..Len(f.shs)
           /\ LoadedSections(f) \in Seq(Range(LoadedSections(f)))
           /\ Len(LoadedSections(f)) = Len(f.shs) /\ Len(f.shs) \in Nat
           /\ \A k \in 1..Len(f.shs) : SameTable(LoadedSections(f)[k], f.shs[k])
<1> DEFINE read == [k \in DOMAIN f.shs |-> LoadSection(f, f.shs[k])]
           secs == LoadedSections(f)
           n == Len(f.shs)
<1>1. /\ f.shs \in Seq(Range(f.shs)) /\ n \in Nat /\ DOMAIN f.shs = 1..n
      /\ \A k \in DOMAIN f.shs : DOMAIN f.shs[k] = DOMAIN NewSection
  <2>1. f.shs \in Seq(Range(f.shs))
    BY DEF Loadable, Saveable
  <2> QED
    BY <2>1, LenProperties DEF Loadable, Saveable
<1>2. \A k \in 1..n : SameTable(LoadSection(f, f.shs[k]), f.shs[k])
  BY <1>1 DEF SameTable, LoadSection, NewSection
<1>3. DOMAIN read = 1..n /\ \A k \in 1..n : SameTable(read[k], f.shs[k])
  BY <1>1, <1>2
<1> HIDE DEF read
<1>4. DOMAIN secs = 1..n /\ \A k \in 1..n : SameTable(secs[k], f.shs[k])
  <2>1. CASE f.hdr.shstrndx \in DOMAIN read \ {1}
    <3> DEFINE x == f.hdr.shstrndx
    <3>1. secs = Named(read, x)
      BY <2>1 DEF LoadedSections, read
    <3>2. DOMAIN Named(read, x) = DOMAIN read
      BY DEF Named
    <3>3. ASSUME NEW k \in 1..n PROVE SameTable(Named(read, x)[k], f.shs[k])
      <4> DEFINE names == get_string(read[x], read[k].nameAt)
      <4>1. Named(read, x)[k] = IF names = {} THEN read[k]
                ELSE [read[k] EXCEPT !.name = CHOOSE y \in names : TRUE]
        BY <1>3 DEF Named
      <4> HIDE DEF names
      <4>2. SameTable(read[k], f.shs[k])
        BY <1>3
      <4>3. \A y : SameTable([read[k] EXCEPT !.name = y], f.shs[k])
        BY <4>2 DEF SameTable, NewSection
      <4> QED
        BY <4>1, <4>2, <4>3
    <3> QED
      BY <1>3, <3>1, <3>2, <3>3
  <2>2. CASE f.hdr.shstrndx \notin DOMAIN read \ {1}
    BY <1>3, <2>2 DEF LoadedSections, read
  <2> QED
    BY <2>1, <2>2
<1> HIDE DEF secs, n
<1>5. secs \in [1..n -> Range(secs)]
  <2>1. \A k \in 1..n : secs[k] \in Range(secs)
    BY <1>4 DEF Range
  <2>2. secs = [k \in 1..n |-> secs[k]]
    <3>1. secs = [k \in DOMAIN secs |-> secs[k]]
      BY <1>4 DEF secs, LoadedSections, Named, read
    <3> QED
      BY <1>4, <3>1
  <2> QED
    BY <2>1, <2>2
<1>6. secs \in Seq(Range(secs)) /\ Len(secs) = n
  BY <1>1, <1>5
<1> QED
  BY <1>1, <1>4, <1>6 DEF secs, n

LoadedFrom(o, f) ==
    /\ Saveable(o) /\ o.hdr = f.hdr
    /\ Len(o.secs) = Len(f.shs) /\ Len(o.segs) = Len(f.phs)
    /\ Len(f.phs) \in Nat /\ Len(f.shs) \in Nat
    /\ DOMAIN o.segs = 1..Len(f.phs) /\ DOMAIN f.phs = 1..Len(f.phs)
    /\ DOMAIN o.secs = 1..Len(f.shs) /\ DOMAIN f.shs = 1..Len(f.shs)
    /\ \A g \in 1..Len(f.phs) : IsLoaded(o.segs[g], f, f.phs[g], Len(f.shs))
    /\ \A k \in 1..Len(f.shs) : SameTable(o.secs[k], f.shs[k])

LEMMA FileLoaded ==
    ASSUME NEW f, Loadable(f)
    PROVE  LoadedFrom(load(f), f)
<1> DEFINE secs == LoadedSections(f)
           segs == [k \in DOMAIN f.phs |-> LoadSegment(f, secs, f.phs[k])]
           n == Len(f.shs)
           m == Len(f.phs)
           o == load(f)
<1>1. o = [hdr |-> f.hdr, secs |-> secs, segs |-> segs]
  BY DEF load, LoadedSections
<1>2. /\ DOMAIN secs = 1..n /\ secs \in Seq(Range(secs)) /\ Len(secs) = n
      /\ n \in Nat /\ \A k \in 1..n : SameTable(secs[k], f.shs[k])
  BY SectionsLoaded
<1>3. /\ f.phs \in Seq(Range(f.phs)) /\ m \in Nat /\ DOMAIN f.phs = 1..m
      /\ DOMAIN f.shs = 1..n
  <2>1. f.phs \in Seq(Range(f.phs)) /\ f.shs \in Seq(Range(f.shs))
    BY DEF Loadable, Saveable
  <2> QED
    BY <2>1, LenProperties
<1>4. /\ DOMAIN f.hdr = DOMAIN Header(32, "LSB") /\ f.hdr.class \in {32, 64}
      /\ \A k \in 1..n : /\ f.shs[k].size \in Nat /\ f.shs[k].align \in Nat
                         /\ f.shs[k].addr \in Int /\ f.shs[k].offset \in Int
      /\ \A g \in 1..m :
            /\ DOMAIN f.phs[g] = DOMAIN NewSegment
            /\ f.phs[g].align \in Nat /\ f.phs[g].vaddr \in Int
            /\ f.phs[g].offset \in Int
      /\ 1 \in 1..n => f.shs[1].type = "NULL"
  BY <1>3 DEF Loadable, Saveable
<1> HIDE DEF secs, n, m
<1>5. \A k \in 1..n : secs[k].align \in Nat
  BY <1>2, <1>4 DEF SameTable
<1>6. \A g \in 1..m : IsLoaded(LoadSegment(f, secs, f.phs[g]), f, f.phs[g], n)
  BY <1>2, <1>4, <1>5, SegmentLoaded
<1>7. /\ DOMAIN segs = 1..m
      /\ \A g \in 1..m : IsLoaded(segs[g], f, f.phs[g], n)
  BY <1>3, <1>6
<1>8. segs \in Seq(Range(segs)) /\ Len(segs) = m
  <2>1. segs \in [1..m -> Range(segs)]
    BY <1>3 DEF Range
  <2> QED
    BY <1>3, <2>1
<1> HIDE DEF segs, o
<1>9. Saveable(o)
  <2>1. DOMAIN o = {"hdr", "secs", "segs"} /\ o.hdr = f.hdr /\ o.secs = secs
        /\ o.segs = segs
    BY <1>1
  <2>2. \A k \in 1..n : /\ DOMAIN secs[k] = DOMAIN NewSection
                        /\ secs[k].size \in Nat /\ secs[k].align \in Nat
                        /\ secs[k].addr \in Int /\ secs[k].offset \in Int
    BY <1>2, <1>4 DEF SameTable
  <2>3. \A g \in 1..m : /\ DOMAIN segs[g] = DOMAIN NewSegment
                        /\ segs[g].secs \in Seq(1..n)
                        /\ segs[g].align \in Nat /\ segs[g].vaddr \in Int
                        /\ segs[g].offset \in Int
    BY <1>4, <1>7 DEF IsLoaded
  <2>4. 1 \in 1..n => secs[1].type = "NULL"
    BY <1>2, <1>4 DEF SameTable
  <2> QED
    BY <1>2, <1>4, <1>7, <1>8, <2>1, <2>2, <2>3, <2>4 DEF Saveable
<1>10. LoadedFrom(o, f)
  <2>1. o.hdr = f.hdr /\ o.secs = secs /\ o.segs = segs
    BY <1>1
  <2> QED
    BY <1>2, <1>3, <1>7, <1>8, <1>9, <2>1 DEF LoadedFrom, n, m
<1> QED
  BY <1>10 DEF o

-----------------------------------------------------------------------------
(* What is written.                                                        *)
Bytes(s) == Part(s.data, 0, s.size)

ApartIn(secs, n) ==
    \A k \in 1..n : HasBytes(secs[k]) =>
        /\ secs[k].offset \in Nat
        /\ \A l \in 1..n : l # k /\ HasBytes(secs[l]) =>
              Apart(secs[k].offset, Behind(secs[k]),
                    secs[l].offset, Behind(secs[l]))

Holding(c, secs, n) ==
    /\ IsContent(c)
    /\ \A k \in 1..n : HasBytes(secs[k]) /\ secs[k].size # 0 =>
          Read(c, secs[k].offset, secs[k].size) = Bytes(secs[k])

LEMMA OneMoreWritten ==
    ASSUME NEW secs, NEW n \in Nat, NEW m \in 0..(n - 1),
           \A k \in 1..n : IsContent(secs[k].data) /\ secs[k].size \in Nat,
           ApartIn(secs, n), NEW c, Holding(c, secs, m)
    PROVE  Holding(IF HasBytes(secs[m + 1])
                   THEN Overwrite(c, secs[m + 1].offset, secs[m + 1].size,
                                  Bytes(secs[m + 1]))
                   ELSE c, secs, m + 1)
<1> DEFINE s == secs[m + 1]
           d == Overwrite(c, s.offset, s.size, Bytes(s))
<1>1. m + 1 \in 1..n /\ \A k \in 1..(m + 1) : k \in 1..m \/ k = m + 1
  OBVIOUS
<1>2. \A k \in 1..m : k \in 1..n /\ k # m + 1
  OBVIOUS
<1>3. CASE ~HasBytes(s)
  BY <1>1, <1>3 DEF Holding
<1>4. CASE HasBytes(s)
  <2>1. s.offset \in Nat /\ s.size \in Nat /\ IsContent(s.data)
    BY <1>1, <1>4 DEF ApartIn
  <2>2. IsContent(Bytes(s)) /\ Within(Bytes(s), s.size)
    BY <2>1, PartWithin DEF Bytes
  <2>3. IsContent(c)
    BY DEF Holding
  <2>4. IsContent(d)
    BY <2>1, <2>2, <2>3, OverwriteKeeps
  <2>5. s.size # 0 => Read(d, s.offset, s.size) = Bytes(s)
    BY <2>1, <2>2, <2>3, ReadBack
  <2>6. ASSUME NEW k \in 1..m, HasBytes(secs[k]), secs[k].size # 0
        PROVE  Read(d, secs[k].offset, secs[k].size) = Bytes(secs[k])
    <3>1. /\ secs[k].offset \in Nat /\ secs[k].size \in Nat \ {0}
          /\ Apart(secs[k].offset, Behind(secs[k]), s.offset, Behind(s))
      BY <1>1, <1>2, <1>4, <2>6 DEF ApartIn
    <3>2. Apart(secs[k].offset, secs[k].offset + secs[k].size,
                s.offset, s.offset + s.size)
      BY <3>1 DEF Behind
    <3>3. Read(d, secs[k].offset, secs[k].size)
            = Read(c, secs[k].offset, secs[k].size)
      <4> DEFINE data == Bytes(s)
                 x == secs[k].offset
                 z == secs[k].size
                 a == s.offset
                 b == s.size
      <4>1. /\ a \in Nat /\ b \in Nat /\ x \in Nat /\ z \in Nat \ {0}
            /\ IsContent(c) /\ IsContent(data) /\ Within(data, b)
            /\ Apart(x, x + z, a, a + b)
        BY <2>1, <2>2, <2>3, <3>1, <3>2, Zenon
      <4>2. d = Overwrite(c, a, b, data)
        OBVIOUS
      <4> HIDE DEF data, x, z, a, b, d, s
      <4>3. Read(Overwrite(c, a, b, data), x, z) = Read(c, x, z)
        BY <4>1, ReadApart
      <4>4. Read(d, x, z) = Read(c, x, z)
        BY <4>2, <4>3, Zenon
      <4> QED
        BY <4>4 DEF x, z
    <3> QED
      BY <2>6, <3>3 DEF Holding
  <2> HIDE DEF d
  <2>7. Holding(d, secs, m + 1)
    BY <1>1, <2>4, <2>5, <2>6 DEF Holding
  <2> QED
    BY <1>4, <2>7 DEF d
<1> QED
  BY <1>3, <1>4

LEMMA FileWritten ==
    ASSUME NEW o, Len(o.secs) \in Nat,
           \A k \in 1..Len(o.secs) : /\ IsContent(o.secs[k].data)
                                     /\ o.secs[k].size \in Nat,
           ApartIn(o.secs, Len(o.secs))
    PROVE  Holding(Written(o), o.secs, Len(o.secs))
<1> DEFINE n == Len(o.secs)
           secs == o.secs
           Step(c, k) == IF HasBytes(secs[k])
                         THEN Overwrite(c, secs[k].offset, secs[k].size,
                                        Part(secs[k].data, 0, secs[k].size))
                         ELSE c
           Rec(g, m) == g = [k \in 0..m |-> IF k = 0 THEN {}
                                            ELSE Step(g[k - 1], k)]
           F == CHOOSE g : Rec(g, n)
           T == {m \in Nat : \E g : Rec(g, m)}
           U == {m \in Nat : m <= n => Holding(F[m], secs, m)}
<1>1. Written(o) = F[n]
  BY DEF Written
<1>2. \A m \in 0..(n - 1) : \A c : Holding(c, secs, m) =>
         Holding(Step(c, m + 1), secs, m + 1)
  BY OneMoreWritten DEF Bytes
<1>3. n \in Nat
  OBVIOUS
<1> HIDE DEF Step, n
<1>4. 0 \in T
  <2> DEFINE g == [k \in 0..0 |-> {}]
  <2>1. Rec(g, 0)
    OBVIOUS
  <2> QED
    BY <2>1
<1>5. ASSUME NEW m \in Nat, m \in T PROVE m + 1 \in T
  <2>1. PICK g : Rec(g, m)
    BY <1>5
  <2> DEFINE h == [k \in 0..(m + 1) |->
                     IF k = m + 1 THEN Step(g[m], m + 1) ELSE g[k]]
  <2>2. Rec(h, m + 1)
    <3>1. \A k \in 0..m : g[k] = IF k = 0 THEN {} ELSE Step(g[k - 1], k)
      BY <2>1
    <3>2. \A k \in 0..(m + 1) : h[k] = IF k = 0 THEN {} ELSE Step(h[k - 1], k)
      BY <3>1
    <3> QED
      BY <3>2
  <2> HIDE DEF h
  <2> QED
    BY <2>2
<1>6. n \in T
  <2> HIDE DEF T
  <2> QED
    BY <1>3, <1>4, <1>5, UpTo
<1>7. Rec(F, n)
  <2>1. \E g : Rec(g, n)
    BY <1>6
  <2> QED
    BY <2>1
<1> HIDE DEF F
<1>8. 0 \in U
  <2>1. F[0] = {}
    BY <1>3, <1>7
  <2> QED
    BY <2>1 DEF Holding, IsContent
<1>9. ASSUME NEW m \in Nat, m \in U PROVE m + 1 \in U
  <2> SUFFICES ASSUME m + 1 <= n PROVE Holding(F[m + 1], secs, m + 1)
    OBVIOUS
  <2>1. Holding(F[m], secs, m) /\ m \in 0..(n - 1)
    BY <1>3, <1>9
  <2>2. F[m + 1] = Step(F[m], m + 1)
    <3>1. m + 1 \in 0..n /\ m + 1 # 0 /\ m + 1 - 1 = m
      BY <1>3
    <3>2. \A k \in 0..n : F[k] = IF k = 0 THEN {} ELSE Step(F[k - 1], k)
      BY <1>7
    <3>3. \A k \in 0..n : k # 0 => F[k] = Step(F[k - 1], k)
      BY <3>2
    <3>4. F[m + 1] = Step(F[m + 1 - 1], m + 1)
      BY <3>1, <3>3
    <3> QED
      BY <3>1, <3>4
  <2> QED
    BY <1>2, <2>1, <2>2
<1>10. n \in U
  <2> HIDE DEF U
  <2> QED
    BY <1>3, <1>8, <1>9, UpTo
<1> QED
  BY <1>1, <1>3, <1>10 DEF n

-----------------------------------------------------------------------------
(* An object that is built.  The section of names, when it gets another.   *)
IsSection(s) ==
    /\ DOMAIN s = DOMAIN NewSection
    /\ s.size \in Nat /\ s.align \in Nat /\ s.addr \in Int /\ s.offset \in Int

IsSegment(g, n) ==
    /\ DOMAIN g = DOMAIN NewSegment /\ g.secs \in Seq(1..n)
    /\ g.align \in Nat /\ g.vaddr \in Int /\ g.offset \in Int

HeldIn(t, s) ==
    /\ IsSection(t)
    /\ t.type = s.type /\ t.align = s.align /\ t.addr = s.addr
    /\ t.addrSet = s.addrSet /\ t.offset = s.offset /\ t.name = s.name
    /\ t.alloc = s.alloc /\ t.tls = s.tls
    /\ IsContent(s.data) => IsContent(t.data)

LEMMA DataAppended ==
    ASSUME NEW s, IsSection(s), NEW d, IsContent(d), NEW n \in Nat
    PROVE  HeldIn(append_data(s, d, n), s)
<1> DEFINE t == [s EXCEPT !.size = @ + n, !.data = @ \cup Moved(d, s.size)]
<1>1. HeldIn(s, s)
  BY DEF HeldIn
<1>2. /\ DOMAIN t = DOMAIN NewSection
      /\ t.type = s.type /\ t.align = s.align /\ t.addr = s.addr
      /\ t.addrSet = s.addrSet /\ t.offset = s.offset /\ t.name = s.name
      /\ t.alloc = s.alloc /\ t.tls = s.tls
      /\ t.size = s.size + n /\ t.data = s.data \cup Moved(d, s.size)
  BY DEF IsSection, NewSection
<1>3. s.size \in Nat
  BY DEF IsSection
<1>4. IsContent(Moved(d, s.size))
  <2>1. \A e \in d : e.at + s.size >= 0
    BY <1>3 DEF IsContent
  <2> QED
    BY <1>3, <2>1, MovedKeeps
<1> HIDE DEF t
<1>5. IsContent(s.data) => IsContent(t.data)
  BY <1>2, <1>4 DEF IsContent
<1>6. IsSection(t)
  BY <1>2, <1>3 DEF IsSection
<1>7. HeldIn(t, s)
  BY <1>2, <1>5, <1>6 DEF HeldIn
<1> QED
  BY <1>1, <1>7 DEF append_data, t

LEMMA StringAdded ==
    ASSUME NEW s, IsSection(s), NEW name, NameSize(name) \in Nat
    PROVE  HeldIn(add_string(s, name), s)
<1> DEFINE t == IF s.size = 0 THEN append_data(s, {}, 1) ELSE s
<1>1. IsContent({}) /\ 1 \in Nat
  BY DEF IsContent
<1>2. HeldIn(append_data(s, {}, 1), s) /\ HeldIn(s, s)
  BY <1>1, DataAppended DEF HeldIn
<1>3. HeldIn(t, s)
  BY <1>2
<1>4. IsContent(Piece(name, NameSize(name)))
  BY PieceKeeps
<1> HIDE DEF t
<1>5. HeldIn(append_data(t, Piece(name, NameSize(name)), NameSize(name)), t)
  BY <1>3, <1>4, DataAppended DEF HeldIn
<1>6. HeldIn(append_data(t, Piece(name, NameSize(name)), NameSize(name)), s)
  BY <1>3, <1>5 DEF HeldIn
<1> QED
  BY <1>6 DEF add_string, t

LEMMA SaveableIs ==
    ASSUME NEW o
    PROVE  Saveable(o) <=>
             /\ DOMAIN o = {"hdr", "secs", "segs"}
             /\ DOMAIN o.hdr = DOMAIN Header(32, "LSB")
             /\ o.hdr.class \in {32, 64}
             /\ o.secs \in Seq(Range(o.secs)) /\ o.segs \in Seq(Range(o.segs))
             /\ \A k \in 1..Len(o.secs) : IsSection(o.secs[k])
             /\ \A g \in 1..Len(o.segs) : IsSegment(o.segs[g], Len(o.secs))
             /\ 1 \in 1..Len(o.secs) => o.secs[1].type = "NULL"
<1>1. o.secs \in Seq(Range(o.secs)) => DOMAIN o.secs = 1..Len(o.secs)
  BY LenProperties
<1>2. o.segs \in Seq(Range(o.segs)) => DOMAIN o.segs = 1..Len(o.segs)
  BY LenProperties
<1>3. ASSUME o.secs \in Seq(Range(o.secs)), o.segs \in Seq(Range(o.segs))
      PROVE  /\ (\A k \in DOMAIN o.secs :
                    /\ DOMAIN o.secs[k] = DOMAIN NewSection
                    /\ o.secs[k].size \in Nat /\ o.secs[k].align \in Nat
                    /\ o.secs[k].addr \in Int /\ o.secs[k].offset \in Int)
                  <=> \A k \in 1..Len(o.secs) : IsSection(o.secs[k])
             /\ (\A g \in DOMAIN o.segs :
                    /\ DOMAIN o.segs[g] = DOMAIN NewSegment
                    /\ o.segs[g].secs \in Seq(DOMAIN o.secs)
                    /\ o.segs[g].align \in Nat /\ o.segs[g].vaddr \in Int
                    /\ o.segs[g].offset \in Int)
                  <=> \A g \in 1..Len(o.segs) : IsSegment(o.segs[g], Len(o.secs))
  <2>1. DOMAIN o.secs = 1..Len(o.secs) /\ DOMAIN o.segs = 1..Len(o.segs)
    BY <1>1, <1>2, <1>3
  <2>2. \A s : IsSection(s) <=>
           /\ DOMAIN s = DOMAIN NewSection
           /\ s.size \in Nat /\ s.align \in Nat
           /\ s.addr \in Int /\ s.offset \in Int
    BY Zenon DEF IsSection
  <2>3. \A g, n : IsSegment(g, n) <=>
           /\ DOMAIN g = DOMAIN NewSegment /\ g.secs \in Seq(1..n)
           /\ g.align \in Nat /\ g.vaddr \in Int /\ g.offset \in Int
    BY Zenon DEF IsSegment
  <2> QED
    BY <2>1, <2>2, <2>3, Zenon
<1> QED
  BY <1>1, <1>3, Zenon DEF Saveable

(* A sequence with one more element.                                       *)
LEMMA OneAppended ==
    ASSUME NEW q, q \in Seq(Range(q)), NEW e
    PROVE  /\ Append(q, e) \in Seq(Range(Append(q, e)))
           /\ Len(Append(q, e)) = Len(q) + 1 /\ Len(q) \in Nat
           /\ \A k \in 1..Len(q) : Append(q, e)[k] = q[k]
           /\ Append(q, e)[Len(q) + 1] = e
<1> DEFINE S == Range(q) \cup {e}
<1>1. q \in Seq(S) /\ e \in S
  BY SeqMonotonic
<1> HIDE DEF S
<1>2. /\ Append(q, e) \in Seq(S) /\ Len(Append(q, e)) = Len(q) + 1
      /\ \A k \in 1..Len(q) : Append(q, e)[k] = q[k]
      /\ Append(q, e)[Len(q) + 1] = e
  BY <1>1, AppendProperties
<1>3. Append(q, e) \in Seq(Range(Append(q, e)))
  BY <1>2, OfRange
<1>4. Len(q) \in Nat
  BY <1>1, LenProperties
<1> QED
  BY <1>2, <1>3, <1>4

AddedTo(p, o, s) ==
    /\ Saveable(p) /\ p.hdr = o.hdr /\ p.segs = o.segs
    /\ Len(p.secs) = Len(o.secs) + 1 /\ Len(o.secs) \in Nat \ {0}
    /\ o.hdr.shstrndx \in 1..Len(o.secs)
    /\ \A k \in 1..Len(o.secs) :
          k # o.hdr.shstrndx => p.secs[k] = o.secs[k]
    /\ HeldIn(p.secs[o.hdr.shstrndx], o.secs[o.hdr.shstrndx])
    /\ \E a : p.secs[Len(o.secs) + 1] = [s EXCEPT !.nameAt = a]

LEMMA SectionAdded ==
    ASSUME NEW o, Saveable(o), o.hdr.shstrndx \in DOMAIN o.secs,
           NEW s, IsSection(s), NameSize(s.name) \in Nat
    PROVE  AddedTo(AddSection(o, s), o, s)
<1> DEFINE n == Len(o.secs)
           k == o.hdr.shstrndx
           t == [s EXCEPT !.nameAt = StringPosition(o.secs[k])]
           q == Append(o.secs, t)
           u == add_string(q[k], s.name)
           r == [q EXCEPT ![k] = u]
           p == AddSection(o, s)
<1>1. p = [o EXCEPT !.secs = r]
  BY DEF AddSection
<1>2. /\ DOMAIN o = {"hdr", "secs", "segs"} /\ DOMAIN o.hdr = DOMAIN Header(32, "LSB")
      /\ o.hdr.class \in {32, 64}
      /\ o.secs \in Seq(Range(o.secs)) /\ o.segs \in Seq(Range(o.segs))
      /\ \A l \in 1..n : IsSection(o.secs[l])
      /\ \A g \in 1..Len(o.segs) : IsSegment(o.segs[g], n)
      /\ 1 \in 1..n => o.secs[1].type = "NULL"
  BY SaveableIs
<1>3. DOMAIN o.secs = 1..n /\ n \in Nat /\ k \in 1..n
  BY <1>2, LenProperties
<1> HIDE DEF n, k, p
<1>4. IsSection(t)
  BY DEF IsSection, NewSection
<1> HIDE DEF t
<1>5. /\ q \in Seq(Range(q)) /\ Len(q) = n + 1
      /\ \A l \in 1..n : q[l] = o.secs[l] /\ q[n + 1] = t
  BY <1>2, <1>3, OneAppended DEF n
<1>6. q[n + 1] = t
  BY <1>2, OneAppended DEF n
<1>7. DOMAIN q = 1..(n + 1)
  BY <1>5, LenProperties
<1> HIDE DEF q
<1>8. HeldIn(u, o.secs[k])
  BY <1>2, <1>3, <1>5, StringAdded
<1> HIDE DEF u
<1>9. /\ r \in Seq(Range(r)) /\ Len(r) = n + 1
      /\ r[k] = u /\ \A l \in 1..(n + 1) : l # k => r[l] = q[l]
  <2>1. k \in DOMAIN q
    BY <1>3, <1>7
  <2>2. r \in Seq(Range(r)) /\ Len(r) = Len(q)
    BY <1>5, <2>1, OneChanged
  <2>3. r[k] = u /\ \A l \in 1..(n + 1) : l # k => r[l] = q[l]
    BY <1>7, <2>1
  <2> QED
    BY <1>5, <2>2, <2>3
<1> HIDE DEF r
<1>10. /\ n + 1 # k /\ r[n + 1] = t
       /\ \A l \in 1..n : l # k => r[l] = o.secs[l]
  BY <1>3, <1>5, <1>6, <1>9
<1>11. \A l \in 1..(n + 1) : IsSection(r[l])
  <2> SUFFICES ASSUME NEW l \in 1..(n + 1) PROVE IsSection(r[l])
    OBVIOUS
  <2>1. CASE l = n + 1
    BY <1>4, <1>10, <2>1
  <2>2. CASE l = k
    BY <1>8, <1>9, <2>2 DEF HeldIn
  <2>3. CASE l # n + 1 /\ l # k
    <3>1. l \in 1..n
      BY <1>3, <2>3
    <3> QED
      BY <1>2, <1>10, <2>3, <3>1
  <2> QED
    BY <2>1, <2>2, <2>3
<1>12. /\ DOMAIN p = {"hdr", "secs", "segs"} /\ p.hdr = o.hdr
       /\ p.segs = o.segs /\ p.secs = r
  BY <1>1, <1>2
<1>13. r[1].type = "NULL"
  <2>1. 1 \in 1..n
    BY <1>3
  <2>2. CASE k = 1
    BY <1>2, <1>8, <1>9, <2>1, <2>2 DEF HeldIn
  <2>3. CASE k # 1
    BY <1>2, <1>10, <2>1, <2>3
  <2> QED
    BY <2>2, <2>3
<1>14. \A g \in 1..Len(o.segs) : IsSegment(o.segs[g], n + 1)
  <2> SUFFICES ASSUME NEW g \in 1..Len(o.segs)
               PROVE  IsSegment(o.segs[g], n + 1)
    OBVIOUS
  <2>1. IsSegment(o.segs[g], n)
    BY <1>2
  <2>2. 1..n \subseteq 1..(n + 1)
    BY <1>3
  <2>3. o.segs[g].secs \in Seq(1..(n + 1))
    BY <2>1, <2>2, SeqMonotonic DEF IsSegment
  <2> QED
    BY <2>1, <2>3 DEF IsSegment
<1>15. Saveable(p)
  BY <1>2, <1>9, <1>11, <1>12, <1>13, <1>14, SaveableIs
<1>16. AddedTo(p, o, s)
  <2>1. n \in Nat \ {0}
    BY <1>3
  <2> QED
    BY <1>3, <1>8, <1>9, <1>10, <1>12, <1>15, <2>1 DEF AddedTo, n, k, t
<1> QED
  BY <1>16 DEF p

MoreIn(p, o, g) ==
    /\ Saveable(p) /\ p.hdr = o.hdr /\ p.secs = o.secs
    /\ Len(p.segs) = Len(o.segs) + 1 /\ Len(o.segs) \in Nat
    /\ p.segs[Len(o.segs) + 1] = g
    /\ \A k \in 1..Len(o.segs) : p.segs[k] = o.segs[k]

LEMMA SegmentAdded ==
    ASSUME NEW o, Saveable(o), NEW g, IsSegment(g, Len(o.secs))
    PROVE  MoreIn(AddSegment(o, g), o, g)
<1> DEFINE p == AddSegment(o, g)
           q == Append(o.segs, g)
           m == Len(o.segs)
<1>1. /\ DOMAIN o = {"hdr", "secs", "segs"}
      /\ o.segs \in Seq(Range(o.segs))
      /\ \A k \in 1..m : IsSegment(o.segs[k], Len(o.secs))
  BY SaveableIs
<1>2. /\ DOMAIN p = {"hdr", "secs", "segs"} /\ p.hdr = o.hdr /\ p.secs = o.secs
      /\ p.segs = q
  BY <1>1 DEF AddSegment
<1>3. /\ q \in Seq(Range(q)) /\ Len(q) = m + 1 /\ m \in Nat
      /\ \A k \in 1..m : q[k] = o.segs[k]
      /\ q[m + 1] = g
  BY <1>1, OneAppended
<1> HIDE DEF p, q, m
<1>4. \A k \in 1..(m + 1) : k \in 1..m \/ k = m + 1
  BY <1>3
<1>5. \A k \in 1..Len(q) : IsSegment(q[k], Len(o.secs))
  BY <1>1, <1>3, <1>4
<1>6. Saveable(p)
  BY <1>2, <1>3, <1>5, SaveableIs
<1>7. MoreIn(p, o, g)
  BY <1>2, <1>3, <1>6 DEF MoreIn, m
<1> QED
  BY <1>7 DEF p

-----------------------------------------------------------------------------
(* A file signlk can sign.  The one it writes has a hash segment.          *)
GoodFile(f) ==
    /\ Readable(f) /\ HeadersFit(f, 2)
    /\ HeadersFit(f, 4) \/ \E g \in DOMAIN f.phs : IsHash(f.phs[g])

Reading == IsElf(input) /\ GoodFile(input) /\ reader = load(input)

(* The segment files, once the first n segments have been copied.          *)
Files ==
    /\ IsFiniteSet(DOMAIN tmp) /\ DOMAIN tmp \subseteq Nat
    /\ \A k \in DOMAIN tmp : tmp[k].size \in Nat \ {0}

Exports(n) ==
    \A k \in 1..n : ~Skipped(reader.segs[k]) /\ HasData(reader.segs[k]) =>
        /\ FileNumber(k) \in DOMAIN tmp
        /\ tmp[FileNumber(k)] = SegmentFile(reader.segs[k])

Numbered ==
    /\ HashSegments # {} \/ Highest # {}
    /\ hash_offset = IF HashSegments = {} THEN 2 ELSE 0
    /\ mi = [dest |-> ImageDest + MiHeaderSize,
             sig |-> ImageDest + MiHeaderSize + HASH_CODE_SIZE]

(* What save() does not change of the segments and their sections.         *)
HeadPart(h, k, s) ==
    /\ h.vaddr = 0 /\ h.paddr = 0 /\ h.align = 4 /\ h.secs = <<k>>
    /\ s.type = "NOBITS" /\ s.align = 1 /\ s.alloc

HashPart(h, s) ==
    /\ h.type = "NULL" /\ h.flags = HASH_SE_FLAG
    /\ h.vaddr = hash_segment_address /\ h.paddr = hash_segment_address
    /\ h.align = HASH_SE_ALIGN /\ h.secs = <<3>>
    /\ s.type = "PROC" /\ s.align = HASH_SE_ALIGN
    /\ s.size = MAX_CERT_CHAIN_SIZE /\ s.alloc

CopyPart(g, h, k, s) ==
    /\ h.type = g.type /\ h.flags = g.flags
    /\ h.vaddr = g.vaddr /\ h.paddr = g.paddr
    /\ h.align = (IF 1 > g.align THEN 1 ELSE g.align) /\ h.secs = <<k>>
    /\ s.type = "PROGBITS" /\ s.align = 1 /\ s.size = g.filesz /\ s.alloc
    /\ ~s.tls
    /\ HasData(g) => s.data = g.data

Parts(o, numbers) ==
    /\ Saveable(o)
    /\ o.hdr.magic /\ o.hdr.class = reader.hdr.class
    /\ HashPart(o.segs[2], o.secs[3])
    /\ \A k \in DOMAIN numbers :
         CopyPart(reader.segs[numbers[k]], o.segs[k + 2], k + 3, o.secs[k + 3])
    /\ \A k \in DOMAIN o.secs : IsContent(o.secs[k].data)

Fresh(o) ==
    /\ \A k \in DOMAIN o.secs : ~o.secs[k].addrSet
    /\ \A g \in DOMAIN o.segs : ~o.segs[g].offsetSet

Growing(o, numbers) ==
    /\ Parts(o, numbers) /\ Fresh(o)
    /\ Len(o.secs) = Len(numbers) + 3 /\ Len(o.segs) = Len(numbers) + 2
    /\ o.hdr.shstrndx = 2 /\ o.segs[1] = NewSegment

Copies == CopiedAmong(Len(reader.segs))
Count == Len(Copies)
SectionOf(g) == IF g = 1 THEN Count + 4 ELSE g + 1

Signing(o) ==
    /\ Parts(o, Copies)
    /\ Len(o.secs) = Count + 4 /\ Len(o.segs) = Count + 2
    /\ HeadPart(o.segs[1], Count + 4, o.secs[Count + 4])


-----------------------------------------------------------------------------
ReplacedIn(p, o, k, g) ==
    /\ Saveable(p) /\ p.hdr = o.hdr /\ p.secs = o.secs
    /\ Len(p.segs) = Len(o.segs) /\ p.segs[k] = g
    /\ \A l \in 1..Len(o.segs) : l # k => p.segs[l] = o.segs[l]

LEMMA SegmentReplaced ==
    ASSUME NEW o, Saveable(o), NEW k \in 1..Len(o.segs), NEW g,
           IsSegment(g, Len(o.secs))
    PROVE  ReplacedIn([o EXCEPT !.segs = [o.segs EXCEPT ![k] = g]], o, k, g)
<1> DEFINE p == [o EXCEPT !.segs = [o.segs EXCEPT ![k] = g]]
<1>1. /\ DOMAIN o = {"hdr", "secs", "segs"}
      /\ o.segs \in Seq(Range(o.segs))
      /\ \A l \in 1..Len(o.segs) : IsSegment(o.segs[l], Len(o.secs))
  BY SaveableIs
<1>2. /\ DOMAIN p = {"hdr", "secs", "segs"} /\ p.hdr = o.hdr /\ p.secs = o.secs
      /\ p.segs = [o.segs EXCEPT ![k] = g]
  BY <1>1
<1> HIDE DEF p
<1>3. DOMAIN o.segs = 1..Len(o.segs)
  BY <1>1, LenProperties
<1>4. p.segs \in Seq(Range(p.segs)) /\ Len(p.segs) = Len(o.segs)
  BY <1>1, <1>2, <1>3, OneChanged
<1>5. /\ p.segs[k] = g
      /\ \A l \in 1..Len(o.segs) : l # k => p.segs[l] = o.segs[l]
  BY <1>2, <1>3
<1>6. \A l \in 1..Len(p.segs) : IsSegment(p.segs[l], Len(o.secs))
  BY <1>1, <1>4, <1>5
<1>7. Saveable(p)
  BY <1>1, <1>2, <1>4, <1>6, SaveableIs
<1>8. ReplacedIn(p, o, k, g)
  BY <1>2, <1>4, <1>5, <1>7 DEF ReplacedIn
<1> QED
  BY <1>8 DEF p

(* A new object has the null section and the names of sections.            *)
NewObject(o, class, encoding) ==
    /\ Saveable(o) /\ o.hdr = Header(class, encoding)
    /\ Len(o.secs) = 2 /\ o.segs = <<>> /\ Len(o.segs) = 0
    /\ \A k \in 1..2 : ~o.secs[k].addrSet /\ IsContent(o.secs[k].data)

LEMMA Created ==
    ASSUME NEW class \in {32, 64}, NEW encoding
    PROVE  NewObject(create(class, encoding), class, encoding)
<1> DEFINE names == [NewSection EXCEPT !.name = ShstrtabName, !.nameAt = 1]
           empty == [hdr |-> Header(class, encoding),
                     secs |-> <<NewSection, names>>, segs |-> <<>>]
           t == add_string(names, ShstrtabName)
           u == [t EXCEPT !.type = "STRTAB", !.align = 1]
           o == create(class, encoding)
<1>1. o = [empty EXCEPT !.secs = [empty.secs EXCEPT ![2] = u]]
  BY DEF create
<1>2. /\ IsSection(NewSection) /\ NewSection.type = "NULL"
      /\ NewSection.addrSet = FALSE /\ IsContent(NewSection.data)
  BY DEF IsSection, NewSection, IsContent
<1>3. IsSection(names) /\ names.addrSet = FALSE /\ IsContent(names.data)
  BY DEF IsSection, NewSection, IsContent
<1> HIDE DEF names
<1>4. HeldIn(t, names)
  BY <1>3, NamesAssumption, StringAdded
<1> HIDE DEF t
<1>5. IsSection(u) /\ u.addrSet = FALSE /\ IsContent(u.data)
  <2>1. /\ IsSection(t) /\ t.addrSet = FALSE /\ IsContent(t.data)
    BY <1>3, <1>4 DEF HeldIn
  <2> QED
    BY <2>1 DEF IsSection, NewSection
<1> HIDE DEF u
<1>6. /\ o.hdr = Header(class, encoding) /\ o.segs = <<>>
      /\ o.secs = <<NewSection, u>> /\ DOMAIN o = {"hdr", "secs", "segs"}
  BY <1>1
<1> HIDE DEF o
<1>7. /\ o.secs \in Seq(Range(o.secs)) /\ Len(o.secs) = 2
      /\ o.secs[1] = NewSection /\ o.secs[2] = u
  <2>1. <<NewSection, u>> \in Seq({NewSection, u})
    OBVIOUS
  <2>2. <<NewSection, u>> \in Seq(Range(<<NewSection, u>>))
    BY <2>1, OfRange
  <2>3. Len(<<NewSection, u>>) = 2
    OBVIOUS
  <2> QED
    BY <1>6, <2>2, <2>3
<1>8. o.segs \in Seq(Range(o.segs)) /\ Len(o.segs) = 0
  BY <1>6, EmptySeq
<1>9. /\ DOMAIN o.hdr = DOMAIN Header(32, "LSB") /\ o.hdr.class \in {32, 64}
  BY <1>6 DEF Header
<1>10. 1..2 = {1, 2}
  OBVIOUS
<1>11. /\ \A k \in 1..Len(o.secs) : IsSection(o.secs[k])
       /\ 1 \in 1..Len(o.secs) => o.secs[1].type = "NULL"
  BY <1>2, <1>5, <1>7, <1>10
<1>12. \A g \in 1..Len(o.segs) : IsSegment(o.segs[g], Len(o.secs))
  BY <1>8
<1>13. Saveable(o)
  BY <1>6, <1>7, <1>8, <1>9, <1>11, <1>12, SaveableIs
<1>14. \A k \in 1..2 : ~o.secs[k].addrSet /\ IsContent(o.secs[k].data)
  BY <1>2, <1>5, <1>7, <1>10
<1>15. NewObject(o, class, encoding)
  BY <1>6, <1>7, <1>8, <1>13, <1>14 DEF NewObject
<1> QED
  BY <1>15 DEF o

-----------------------------------------------------------------------------
(* What signlk reads.                                                      *)
LEMMA FirstHashIs ==
    ASSUME Len(reader.segs) \in Nat, DOMAIN reader.segs = 1..Len(reader.segs),
           HashSegments # {}
    PROVE  FirstHash \in HashSegments
<1>1. HashSegments \subseteq Nat
  BY DEF HashSegments
<1>2. \E k \in HashSegments : \A l \in HashSegments : k <= l
  BY <1>1, LeastNatural
<1> QED
  BY <1>2 DEF FirstHash

SegmentRead(g) ==
    /\ IsRecord(g)
    /\ DOMAIN g = DOMAIN NewSegment
    /\ g.vaddr \in Nat /\ g.paddr \in Nat /\ g.filesz \in Nat /\ g.memsz \in Nat
    /\ g.align \in Nat /\ g.offset \in Int /\ g.offsetSet = TRUE
    /\ HasData(g) => IsContent(g.data) /\ Within(g.data, g.filesz)
    /\ ~HasData(g) => g.data = {}

ReaderRead ==
    /\ LoadedFrom(reader, input) /\ IsElf(input)
    /\ Len(reader.segs) \in Nat /\ DOMAIN reader.segs = 1..Len(reader.segs)
    /\ \A g \in 1..Len(reader.segs) : SegmentRead(reader.segs[g])
    /\ hash_segment_address \in Nat

LEMMA ReadingIs ==
    ASSUME Reading
    PROVE  ReaderRead
<1> DEFINE n == Len(reader.segs)
<1>1. /\ IsElf(input) /\ GoodFile(input) /\ Readable(input)
      /\ Loadable(input) /\ reader = load(input) /\ IsContent(input.content)
  BY DEF Reading, GoodFile, Readable
<1>2. LoadedFrom(reader, input)
  BY <1>1, FileLoaded
<1>3. /\ n \in Nat /\ DOMAIN reader.segs = 1..n /\ DOMAIN input.phs = 1..n
      /\ \A g \in 1..n : IsLoaded(reader.segs[g], input, input.phs[g],
                                  Len(input.shs))
  BY <1>2 DEF LoadedFrom
<1> HIDE DEF n
<1>4. \A g \in 1..n : /\ input.phs[g].vaddr \in Nat /\ input.phs[g].paddr \in Nat
                      /\ input.phs[g].filesz \in Nat
                      /\ input.phs[g].memsz \in Nat
                      /\ input.phs[g].offset \in Int
  BY <1>1, <1>3 DEF Readable, Loadable, Saveable
<1>5. ASSUME NEW g \in 1..n PROVE SegmentRead(reader.segs[g])
  <2> DEFINE h == reader.segs[g]
             ph == input.phs[g]
  <2>1. IsLoaded(h, input, ph, Len(input.shs))
    BY <1>3
  <2>2. /\ ph.vaddr \in Nat /\ ph.paddr \in Nat /\ ph.filesz \in Nat
        /\ ph.memsz \in Nat /\ ph.offset \in Int
    BY <1>4
  <2> HIDE DEF h, ph
  <2>3. HasData(h) <=> HasData(ph)
    BY <2>1 DEF HasData, IsLoaded
  <2>4. HasData(ph) => /\ IsContent(Read(input.content, ph.offset, ph.filesz))
                       /\ Within(Read(input.content, ph.offset, ph.filesz),
                                 ph.filesz)
    <3>1. HasData(ph) => ph.filesz \in Nat \ {0}
      BY <2>2 DEF HasData
    <3> QED
      BY <1>1, <2>2, <3>1, ReadKeeps
  <2>5. SegmentRead(h)
    BY <2>1, <2>2, <2>3, <2>4 DEF SegmentRead, IsLoaded
  <2> QED
    BY <2>5 DEF h
<1>6. hash_segment_address \in Nat
  <2>1. CASE HashSegments = {}
    BY <2>1 DEF hash_segment_address
  <2>2. CASE HashSegments # {}
    <3>1. FirstHash \in HashSegments
      BY <1>3, <2>2, FirstHashIs DEF n
    <3>2. FirstHash \in 1..n
      BY <1>3, <3>1 DEF HashSegments
    <3>3. SegmentRead(reader.segs[FirstHash])
      BY <1>5, <3>2
    <3> QED
      BY <2>2, <3>3 DEF hash_segment_address, SegmentRead
  <2> QED
    BY <2>1, <2>2
<1> QED
  BY <1>1, <1>2, <1>3, <1>5, <1>6 DEF ReaderRead, n

-----------------------------------------------------------------------------
(* What signlk builds.                                                     *)
LEMMA RenamedAt ==
    ASSUME NEW s, IsSection(s), NEW a
    PROVE  /\ IsSection([s EXCEPT !.nameAt = a])
           /\ [s EXCEPT !.nameAt = a].type = s.type
           /\ [s EXCEPT !.nameAt = a].size = s.size
           /\ [s EXCEPT !.nameAt = a].align = s.align
           /\ [s EXCEPT !.nameAt = a].alloc = s.alloc
           /\ [s EXCEPT !.nameAt = a].tls = s.tls
           /\ [s EXCEPT !.nameAt = a].addrSet = s.addrSet
           /\ [s EXCEPT !.nameAt = a].data = s.data
BY DEF IsSection, NewSection

LEMMA NewSegmentIs ==
    ASSUME NEW n \in Nat
    PROVE  IsSegment(NewSegment, n) /\ NewSegment.offsetSet = FALSE
<1>1. <<>> \in Seq(1..n)
  BY EmptySeq
<1> QED
  BY <1>1 DEF IsSegment, NewSegment

IsHashSegment(g) ==
    /\ g.offsetSet = FALSE /\ g.type = "NULL" /\ g.flags = HASH_SE_FLAG
    /\ g.vaddr = hash_segment_address /\ g.paddr = hash_segment_address
    /\ g.align = HASH_SE_ALIGN

LEMMA HashSegmentIs ==
    ASSUME NEW n \in Nat, hash_segment_address \in Nat
    PROVE  /\ IsSegment(HashSegment, n) /\ HashSegment.secs = <<>>
           /\ IsHashSegment(HashSegment)
<1>1. <<>> \in Seq(1..n)
  BY EmptySeq
<1>2. HASH_SE_ALIGN \in Nat
  BY DEF HASH_SE_ALIGN
<1> QED
  BY <1>1, <1>2 DEF IsSegment, HashSegment, NewSegment, IsHashSegment

LEMMA MiSectionIs ==
    /\ IsSection(MiSection) /\ MiSection.addrSet = FALSE
    /\ MiSection.type = "PROC" /\ MiSection.align = HASH_SE_ALIGN
    /\ MiSection.size = MAX_CERT_CHAIN_SIZE /\ MiSection.alloc
    /\ IsContent(MiSection.data) /\ NameSize(MiSection.name) \in Nat
<1>1. HASH_SE_ALIGN \in Nat /\ MAX_CERT_CHAIN_SIZE \in Nat
  BY DEF HASH_SE_ALIGN, MAX_CERT_CHAIN_SIZE
<1> DEFINE p == Piece("mi", MAX_CERT_CHAIN_SIZE)
           t == [NewSection EXCEPT !.name = ".mi", !.type = "PROC",
                                   !.alloc = TRUE, !.align = HASH_SE_ALIGN]
<1>2. IsContent(p)
  BY <1>1, PieceKeeps
<1> HIDE DEF p
<1>3. /\ DOMAIN t = DOMAIN NewSection /\ t.type = "PROC"
      /\ t.align = HASH_SE_ALIGN /\ t.alloc = TRUE /\ t.addrSet = FALSE
      /\ t.addr = 0 /\ t.offset = 0 /\ t.name = ".mi"
  BY DEF NewSection
<1> HIDE DEF t
<1>4. MiSection = [t EXCEPT !.size = MAX_CERT_CHAIN_SIZE, !.data = p]
  BY <1>3 DEF MiSection, set_data, t, p
<1>5. /\ DOMAIN MiSection = DOMAIN t /\ MiSection.type = t.type
      /\ MiSection.align = t.align /\ MiSection.alloc = t.alloc
      /\ MiSection.addrSet = t.addrSet /\ MiSection.addr = t.addr
      /\ MiSection.offset = t.offset /\ MiSection.name = t.name
      /\ MiSection.size = MAX_CERT_CHAIN_SIZE /\ MiSection.data = p
  BY <1>3, <1>4 DEF NewSection
<1>6. NameSize(".mi") \in Nat
  BY AddedNamesAssumption
<1> QED
  BY <1>1, <1>2, <1>3, <1>5, <1>6 DEF IsSection

(* The section that is added to a segment without sections.                *)
OneIndex(t, g, n, k, a) ==
    /\ IsSegment(t, n)
    /\ t.type = g.type /\ t.flags = g.flags
    /\ t.vaddr = g.vaddr /\ t.paddr = g.paddr
    /\ t.offsetSet = g.offsetSet /\ t.secs = <<k>>
    /\ t.align = (IF a > g.align THEN a ELSE g.align)

LEMMA IndexOne ==
    ASSUME NEW g, NEW n \in Nat, IsSegment(g, n), g.secs = <<>>,
           NEW k \in 1..n, NEW a \in Nat
    PROVE  OneIndex(add_section_index(g, k, a), g, n, k, a)
<1> DEFINE t == add_section_index(g, k, a)
<1>1. /\ DOMAIN g = DOMAIN NewSegment /\ g.align \in Nat /\ g.vaddr \in Int
      /\ g.offset \in Int
  BY DEF IsSegment
<1>2. /\ DOMAIN t = DOMAIN NewSegment /\ t.type = g.type /\ t.flags = g.flags
      /\ t.vaddr = g.vaddr /\ t.paddr = g.paddr
      /\ t.offsetSet = g.offsetSet /\ t.offset = g.offset
      /\ t.secs = Append(g.secs, k)
      /\ t.align = (IF a > g.align THEN a ELSE g.align)
  BY <1>1 DEF add_section_index, NewSegment
<1>3. Append(g.secs, k) = <<k>> /\ <<k>> \in Seq(1..n)
  OBVIOUS
<1>4. t.align \in Nat
  BY <1>1, <1>2
<1> HIDE DEF t
<1>5. IsSegment(t, n)
  BY <1>1, <1>2, <1>3, <1>4 DEF IsSegment
<1>6. OneIndex(t, g, n, k, a)
  BY <1>2, <1>3, <1>5 DEF OneIndex
<1> QED
  BY <1>6 DEF t

LEMMA WriterGrows ==
    ASSUME ReaderRead
    PROVE  Growing(Writer, <<>>)
<1> DEFINE empty == create(reader.hdr.class, reader.hdr.encoding)
           one == AddSegment(empty, NewSegment)
           both == AddSegment(one, HashSegment)
           full == AddSection(both, MiSection)
           g == add_section_index(full.segs[2], Len(full.secs), HASH_SE_ALIGN)
           o == Writer
<1>1. o = [full EXCEPT !.segs = [full.segs EXCEPT ![2] = g]]
  BY DEF Writer
<1>2. /\ hash_segment_address \in Nat /\ reader.hdr.class \in {32, 64}
      /\ IsElf(input) /\ reader.hdr = input.hdr
  BY DEF ReaderRead, LoadedFrom, IsElf
<1>3. NewObject(empty, reader.hdr.class, reader.hdr.encoding)
  BY <1>2, Created
<1> HIDE DEF empty
<1>4. /\ Saveable(empty) /\ Len(empty.segs) = 0 /\ Len(empty.secs) = 2
      /\ empty.hdr = Header(reader.hdr.class, reader.hdr.encoding)
      /\ \A k \in 1..2 : ~empty.secs[k].addrSet /\ IsContent(empty.secs[k].data)
  BY <1>3 DEF NewObject
<1>5. /\ Saveable(one) /\ one.hdr = empty.hdr /\ one.secs = empty.secs
      /\ Len(one.segs) = 1 /\ one.segs[1] = NewSegment
  <2>1. IsSegment(NewSegment, Len(empty.secs))
    BY <1>4, NewSegmentIs
  <2>2. MoreIn(one, empty, NewSegment)
    BY <1>4, <2>1, SegmentAdded
  <2> QED
    BY <1>4, <2>2 DEF MoreIn
<1> HIDE DEF one
<1>6. /\ Saveable(both) /\ both.hdr = empty.hdr /\ both.secs = empty.secs
      /\ Len(both.segs) = 2 /\ both.segs[1] = NewSegment
      /\ both.segs[2] = HashSegment
  <2>1. IsSegment(HashSegment, Len(one.secs))
    BY <1>2, <1>4, <1>5, HashSegmentIs
  <2>2. MoreIn(both, one, HashSegment)
    BY <1>5, <2>1, SegmentAdded
  <2>3. 1 \in 1..Len(one.segs)
    BY <1>5
  <2> QED
    BY <1>5, <2>2, <2>3 DEF MoreIn
<1> HIDE DEF both
<1>7. empty.hdr.shstrndx = 2 /\ empty.hdr.magic = TRUE
      /\ empty.hdr.class = reader.hdr.class
  BY <1>4 DEF Header
<1>8. AddedTo(full, both, MiSection)
  <2>1. DOMAIN both.secs = 1..2
    BY <1>4, <1>6, LenProperties DEF Saveable
  <2>2. both.hdr.shstrndx \in DOMAIN both.secs
    BY <1>6, <1>7, <2>1
  <2> QED
    BY <1>6, <2>2, MiSectionIs, SectionAdded
<1> HIDE DEF full
<1>9. /\ Saveable(full) /\ full.hdr = empty.hdr /\ full.segs = both.segs
      /\ Len(full.secs) = 3 /\ full.secs[1] = empty.secs[1]
      /\ HeldIn(full.secs[2], empty.secs[2])
      /\ \E a : full.secs[3] = [MiSection EXCEPT !.nameAt = a]
  <2>1. 1 \in 1..Len(both.secs) /\ 1 # both.hdr.shstrndx
    BY <1>4, <1>6, <1>7
  <2>2. /\ Saveable(full) /\ full.hdr = both.hdr /\ full.segs = both.segs
        /\ Len(full.secs) = Len(both.secs) + 1
        /\ full.secs[1] = both.secs[1]
        /\ HeldIn(full.secs[both.hdr.shstrndx], both.secs[both.hdr.shstrndx])
        /\ \E a : full.secs[Len(both.secs) + 1] = [MiSection EXCEPT !.nameAt = a]
    BY <1>8, <2>1, Zenon DEF AddedTo
  <2>3. both.hdr.shstrndx = 2 /\ Len(both.secs) = 2 /\ 2 + 1 = 3
    BY <1>4, <1>6, <1>7
  <2> QED
    BY <1>6, <2>2, <2>3
<1>10. /\ full.secs[3].type = "PROC" /\ full.secs[3].align = HASH_SE_ALIGN
       /\ full.secs[3].size = MAX_CERT_CHAIN_SIZE /\ full.secs[3].alloc
       /\ full.secs[3].addrSet = FALSE /\ IsContent(full.secs[3].data)
  BY <1>9, MiSectionIs, RenamedAt
<1>11. /\ ~full.secs[1].addrSet /\ IsContent(full.secs[1].data)
       /\ ~full.secs[2].addrSet /\ IsContent(full.secs[2].data)
  <2>1. 1 \in 1..2 /\ 2 \in 1..2
    OBVIOUS
  <2> QED
    BY <1>4, <1>9, <2>1 DEF HeldIn
<1>12. /\ IsSegment(g, 3) /\ IsHashSegment(g) /\ g.secs = <<3>>
  <2>1. HASH_SE_ALIGN \in Nat /\ 3 \in Nat /\ 3 \in 1..3
    BY DEF HASH_SE_ALIGN
  <2>2. full.segs[2] = HashSegment /\ Len(full.secs) = 3
    BY <1>6, <1>9
  <2>3. IsSegment(HashSegment, 3) /\ HashSegment.secs = <<>>
        /\ IsHashSegment(HashSegment)
    BY <1>2, <2>1, HashSegmentIs
  <2>4. OneIndex(g, HashSegment, 3, 3, HASH_SE_ALIGN)
    BY <2>1, <2>2, <2>3, IndexOne
  <2> HIDE DEF g
  <2> QED
    BY <2>1, <2>3, <2>4 DEF OneIndex, IsHashSegment
<1> HIDE DEF g
<1>13. /\ Saveable(o) /\ o.hdr = full.hdr /\ o.secs = full.secs
       /\ Len(o.segs) = 2 /\ o.segs[2] = g /\ o.segs[1] = NewSegment
  <2>1. 2 \in 1..Len(full.segs) /\ 1 \in 1..Len(full.segs)
        /\ IsSegment(g, Len(full.secs)) /\ Len(full.segs) = 2
    BY <1>6, <1>9, <1>12
  <2>2. ReplacedIn(o, full, 2, g)
    BY <1>1, <1>9, <2>1, SegmentReplaced
  <2> HIDE DEF o
  <2> QED
    BY <1>6, <1>9, <2>1, <2>2 DEF ReplacedIn
<1> HIDE DEF o
<1>14. HashPart(o.segs[2], o.secs[3])
  BY <1>10, <1>12, <1>13 DEF HashPart, IsHashSegment
<1>15. DOMAIN o.secs = 1..3 /\ DOMAIN o.segs = 1..2 /\ 1..3 = {1, 2, 3}
       /\ 1..2 = {1, 2}
  <2>1. o.secs \in Seq(Range(o.secs)) /\ o.segs \in Seq(Range(o.segs))
    BY <1>13 DEF Saveable
  <2> QED
    BY <1>9, <1>13, <2>1, LenProperties
<1>16. \A k \in DOMAIN o.secs : IsContent(o.secs[k].data) /\ ~o.secs[k].addrSet
  BY <1>10, <1>11, <1>13, <1>15
<1>17. \A k \in DOMAIN o.segs : ~o.segs[k].offsetSet
  BY <1>12, <1>13, <1>15 DEF NewSegment, IsHashSegment
<1>18. DOMAIN <<>> = {} /\ Len(<<>>) = 0
  OBVIOUS
<1>19. Parts(o, <<>>)
  BY <1>7, <1>9, <1>13, <1>14, <1>16, <1>18 DEF Parts
<1>20. Growing(o, <<>>)
  <2>1. Fresh(o)
    BY <1>16, <1>17 DEF Fresh
  <2> QED
    BY <1>7, <1>9, <1>13, <1>18, <1>19, <2>1 DEF Growing
<1> QED
  BY <1>20 DEF o

-----------------------------------------------------------------------------
(* A section that is added behind the three signlk starts with.            *)
Renamed(t, s) ==
    /\ IsSection(t)
    /\ t.type = s.type /\ t.size = s.size /\ t.align = s.align
    /\ t.alloc = s.alloc /\ t.tls = s.tls /\ t.addrSet = s.addrSet
    /\ t.data = s.data

Unplaced(o) ==
    \A k \in 1..Len(o.secs) : o.secs[k].addrSet = FALSE /\ IsContent(o.secs[k].data)

GrownBy(p, o, s, n) ==
    /\ Saveable(p) /\ p.hdr = o.hdr /\ p.segs = o.segs
    /\ Len(p.secs) = n + 1
    /\ \A k \in 1..n : k # 2 => p.secs[k] = o.secs[k]
    /\ Renamed(p.secs[n + 1], s)
    /\ Unplaced(p)

LEMMA SectionGrown ==
    ASSUME NEW o, Saveable(o), o.hdr.shstrndx = 2,
           NEW n \in Nat, 3 <= n, Len(o.secs) = n, Unplaced(o),
           NEW s, IsSection(s), NameSize(s.name) \in Nat, IsContent(s.data),
           s.addrSet = FALSE
    PROVE  GrownBy(AddSection(o, s), o, s, n)
<1> DEFINE p == AddSection(o, s)
<1>1. 2 \in DOMAIN o.secs
  <2>1. o.secs \in Seq(Range(o.secs))
    BY DEF Saveable
  <2> QED
    BY <2>1, LenProperties
<1>2. AddedTo(p, o, s)
  BY <1>1, SectionAdded
<1> HIDE DEF p
<1>3. /\ Saveable(p) /\ p.hdr = o.hdr /\ p.segs = o.segs
      /\ Len(p.secs) = n + 1
      /\ \A k \in 1..n : k # 2 => p.secs[k] = o.secs[k]
      /\ HeldIn(p.secs[2], o.secs[2])
      /\ \E a : p.secs[n + 1] = [s EXCEPT !.nameAt = a]
  BY <1>2, Zenon DEF AddedTo
<1>4. Renamed(p.secs[n + 1], s)
  <2>1. PICK a : p.secs[n + 1] = [s EXCEPT !.nameAt = a]
    BY <1>3
  <2>2. Renamed([s EXCEPT !.nameAt = a], s)
    <3> DEFINE t == [s EXCEPT !.nameAt = a]
    <3>1. /\ IsSection(t) /\ t.type = s.type /\ t.size = s.size
          /\ t.align = s.align /\ t.alloc = s.alloc /\ t.tls = s.tls
          /\ t.addrSet = s.addrSet /\ t.data = s.data
      BY RenamedAt
    <3> HIDE DEF t
    <3>2. Renamed(t, s)
      BY <3>1 DEF Renamed
    <3> QED
      BY <3>2 DEF t
  <2> QED
    BY <2>1, <2>2
<1>5. Unplaced(p)
  <2> SUFFICES ASSUME NEW k \in 1..(n + 1)
               PROVE  p.secs[k].addrSet = FALSE /\ IsContent(p.secs[k].data)
    BY <1>3 DEF Unplaced
  <2>1. CASE k = n + 1
    BY <1>4, <2>1 DEF Renamed
  <2>2. CASE k = 2
    <3>1. 2 \in 1..n
      OBVIOUS
    <3> QED
      BY <1>3, <2>2, <3>1 DEF Unplaced, HeldIn
  <2>3. CASE k # n + 1 /\ k # 2
    <3>1. k \in 1..n
      BY <2>3
    <3> QED
      BY <1>3, <2>3, <3>1 DEF Unplaced
  <2> QED
    BY <2>1, <2>2, <2>3
<1>6. GrownBy(p, o, s, n)
  BY <1>3, <1>4, <1>5 DEF GrownBy
<1> QED
  BY <1>6 DEF p

(* The data of a segment.                                                  *)
DataOf(s, g) ==
    /\ IsSection(s) /\ s.type = "PROGBITS" /\ s.align = 1 /\ s.size = g.filesz
    /\ s.alloc = TRUE /\ s.tls = FALSE /\ s.addrSet = FALSE
    /\ IsContent(s.data) /\ NameSize(s.name) \in Nat
    /\ HasData(g) => s.data = g.data

LEMMA DataSectionIs ==
    ASSUME NEW g, SegmentRead(g)
    PROVE  DataOf(DataSection(g), g)
<1> DEFINE d == IF HasData(g) THEN g.data ELSE Piece("garbage", g.filesz)
           t == [NewSection EXCEPT !.type = "PROGBITS", !.alloc = TRUE,
                                   !.align = 1]
           s == DataSection(g)
<1>1. g.filesz \in Nat
  BY DEF SegmentRead
<1>2. IsContent(d)
  BY <1>1, PieceKeeps DEF SegmentRead
<1>0. HasData(g) => d = g.data
  OBVIOUS
<1>3. /\ DOMAIN t = DOMAIN NewSection /\ t.type = "PROGBITS"
      /\ t.align = 1 /\ t.alloc = TRUE /\ t.addrSet = FALSE /\ t.tls = FALSE
      /\ t.addr = 0 /\ t.offset = 0 /\ t.name = NoName
  BY DEF NewSection
<1>4. s = set_data(t, d, g.filesz)
  BY DEF DataSection
<1> HIDE DEF t, d, s
<1>5. s = [t EXCEPT !.size = g.filesz, !.data = d]
  BY <1>3, <1>4 DEF set_data
<1>6. /\ DOMAIN s = DOMAIN t /\ s.type = t.type /\ s.align = t.align
      /\ s.alloc = t.alloc /\ s.addrSet = t.addrSet /\ s.addr = t.addr
      /\ s.tls = t.tls /\ s.offset = t.offset /\ s.name = t.name
      /\ s.size = g.filesz /\ s.data = d
  BY <1>3, <1>5 DEF NewSection
<1>7. NameSize(NoName) \in Nat
  BY NamesAssumption
<1>8. DataOf(s, g)
  BY <1>0, <1>1, <1>2, <1>3, <1>6, <1>7 DEF DataOf, IsSection
<1> QED
  BY <1>8 DEF s

LEMMA CopiedIs ==
    ASSUME NEW g, SegmentRead(g), NEW n \in Nat, NEW k \in 1..n
    PROVE  /\ IsSegment(Copied(g, k), n)
           /\ Copied(g, k).offsetSet = FALSE
           /\ Copied(g, k).type = g.type /\ Copied(g, k).flags = g.flags
           /\ Copied(g, k).vaddr = g.vaddr /\ Copied(g, k).paddr = g.paddr
           /\ Copied(g, k).secs = <<k>>
           /\ Copied(g, k).align = (IF 1 > g.align THEN 1 ELSE g.align)
<1> DEFINE e == [g EXCEPT !.offset = 0, !.offsetSet = FALSE,
                          !.secs = <<>>, !.data = {}]
<1>1. /\ DOMAIN g = DOMAIN NewSegment /\ g.vaddr \in Int /\ g.align \in Nat
  BY DEF SegmentRead
<1>2. /\ DOMAIN e = DOMAIN NewSegment /\ e.type = g.type /\ e.flags = g.flags
      /\ e.vaddr = g.vaddr /\ e.paddr = g.paddr /\ e.align = g.align
      /\ e.offset = 0 /\ e.offsetSet = FALSE /\ e.secs = <<>>
  BY <1>1 DEF NewSegment
<1>3. Copied(g, k) = add_section_index(e, k, 1)
  BY DEF Copied
<1>4. <<>> \in Seq(1..n)
  BY EmptySeq
<1> HIDE DEF e
<1>5. IsSegment(e, n)
  BY <1>1, <1>2, <1>4 DEF IsSegment
<1>6. OneIndex(add_section_index(e, k, 1), e, n, k, 1)
  BY <1>2, <1>5, IndexOne
<1> QED
  BY <1>2, <1>3, <1>6 DEF OneIndex

-----------------------------------------------------------------------------
(* One segment more is copied.                                             *)
GrowingIs(o, numbers, n) ==
    /\ Saveable(o) /\ Unplaced(o)
    /\ o.hdr.magic /\ o.hdr.class = reader.hdr.class /\ o.hdr.shstrndx = 2
    /\ DOMAIN o.secs = 1..(n + 3) /\ DOMAIN o.segs = 1..(n + 2)
    /\ Len(o.secs) = n + 3 /\ Len(o.segs) = n + 2
    /\ o.segs[1] = NewSegment /\ HashPart(o.segs[2], o.secs[3])
    /\ \A k \in 1..n :
         CopyPart(reader.segs[numbers[k]], o.segs[k + 2], k + 3, o.secs[k + 3])
    /\ \A k \in 1..(n + 2) : o.segs[k].offsetSet = FALSE

LEMMA GrowingMeans ==
    ASSUME NEW o, NEW numbers, Len(numbers) \in Nat,
           DOMAIN numbers = 1..Len(numbers),
           Growing(o, numbers)
    PROVE  GrowingIs(o, numbers, Len(numbers))
<1>1. /\ Parts(o, numbers) /\ Fresh(o)
      /\ Len(o.secs) = Len(numbers) + 3 /\ Len(o.segs) = Len(numbers) + 2
      /\ o.hdr.shstrndx = 2 /\ o.segs[1] = NewSegment
  BY DEF Growing
<1>2. o.secs \in Seq(Range(o.secs)) /\ o.segs \in Seq(Range(o.segs))
      /\ Saveable(o)
  BY <1>1 DEF Parts, Saveable
<1>3. DOMAIN o.secs = 1..(Len(numbers) + 3)
      /\ DOMAIN o.segs = 1..(Len(numbers) + 2)
  BY <1>1, <1>2, LenProperties
<1>4. Unplaced(o)
  <2>1. \A k \in DOMAIN o.secs : IsContent(o.secs[k].data) /\ ~o.secs[k].addrSet
    BY <1>1 DEF Parts, Fresh
  <2> QED
    BY <1>1, <1>3, <2>1 DEF Unplaced
<1>5. \A k \in 1..(Len(numbers) + 2) : o.segs[k].offsetSet = FALSE
  BY <1>1, <1>3 DEF Fresh
<1> QED
  BY <1>1, <1>2, <1>3, <1>4, <1>5 DEF Parts, GrowingIs

LEMMA GrowingFrom ==
    ASSUME NEW o, NEW numbers, Len(numbers) \in Nat,
           DOMAIN numbers = 1..Len(numbers),
           GrowingIs(o, numbers, Len(numbers))
    PROVE  Growing(o, numbers)
<1>1. /\ Saveable(o) /\ Unplaced(o)
      /\ o.hdr.magic /\ o.hdr.class = reader.hdr.class /\ o.hdr.shstrndx = 2
      /\ DOMAIN o.secs = 1..(Len(numbers) + 3)
      /\ DOMAIN o.segs = 1..(Len(numbers) + 2)
      /\ Len(o.secs) = Len(numbers) + 3 /\ Len(o.segs) = Len(numbers) + 2
      /\ o.segs[1] = NewSegment /\ HashPart(o.segs[2], o.secs[3])
      /\ \A k \in 1..Len(numbers) :
           CopyPart(reader.segs[numbers[k]], o.segs[k + 2], k + 3, o.secs[k + 3])
      /\ \A k \in 1..(Len(numbers) + 2) : o.segs[k].offsetSet = FALSE
  BY DEF GrowingIs
<1>2. \A k \in DOMAIN o.secs : IsContent(o.secs[k].data) /\ ~o.secs[k].addrSet
  BY <1>1 DEF Unplaced
<1>3. Parts(o, numbers)
  BY <1>1, <1>2 DEF Parts
<1>4. Fresh(o)
  BY <1>1, <1>2 DEF Fresh
<1> QED
  BY <1>1, <1>3, <1>4 DEF Growing

LEMMA CopyGrows ==
    ASSUME ReaderRead, NEW o, NEW numbers \in Seq(Nat), Growing(o, numbers),
           NEW k \in 1..Len(reader.segs)
    PROVE  LET p == AddSection(o, DataSection(reader.segs[k]))
           IN  Growing(AddSegment(p, Copied(reader.segs[k], Len(p.secs))),
                       Append(numbers, k))
<1> DEFINE g == reader.segs[k]
           s == DataSection(g)
           p == AddSection(o, s)
           h == Copied(g, Len(p.secs))
           q == AddSegment(p, h)
           n == Len(numbers)
           more == Append(numbers, k)
<1>1. SegmentRead(g)
  BY DEF ReaderRead
<1>2. n \in Nat /\ DOMAIN numbers = 1..n
  BY LenProperties
<1>3. /\ Len(more) = n + 1 /\ DOMAIN more = 1..(n + 1) /\ more[n + 1] = k
      /\ \A l \in 1..n : more[l] = numbers[l]
  <2>1. k \in Nat
    BY DEF ReaderRead
  <2> QED
    BY <1>2, <2>1
<1>4. GrowingIs(o, numbers, n)
  BY <1>2, GrowingMeans
<1>5. DataOf(s, g)
  BY <1>1, DataSectionIs
<1> HIDE DEF s, n, more
<1>6. /\ Saveable(o) /\ Unplaced(o)
      /\ o.hdr.magic /\ o.hdr.class = reader.hdr.class /\ o.hdr.shstrndx = 2
      /\ DOMAIN o.secs = 1..(n + 3) /\ DOMAIN o.segs = 1..(n + 2)
      /\ Len(o.secs) = n + 3 /\ Len(o.segs) = n + 2
      /\ o.segs[1] = NewSegment /\ HashPart(o.segs[2], o.secs[3])
      /\ \A l \in 1..n :
           CopyPart(reader.segs[numbers[l]], o.segs[l + 2], l + 3, o.secs[l + 3])
      /\ \A l \in 1..(n + 2) : o.segs[l].offsetSet = FALSE
  BY <1>4 DEF GrowingIs
<1>7. GrownBy(p, o, s, n + 3)
  <2>1. n + 3 \in Nat /\ 3 <= n + 3
    BY <1>2
  <2>2. /\ IsSection(s) /\ NameSize(s.name) \in Nat /\ IsContent(s.data)
        /\ s.addrSet = FALSE
    BY <1>5 DEF DataOf
  <2> QED
    BY <1>6, <2>1, <2>2, SectionGrown
<1> HIDE DEF p
<1>8. /\ Saveable(p) /\ p.hdr = o.hdr /\ p.segs = o.segs
      /\ Len(p.secs) = n + 4
      /\ \A l \in 1..(n + 3) : l # 2 => p.secs[l] = o.secs[l]
      /\ Renamed(p.secs[n + 4], s)
      /\ Unplaced(p)
  <2>1. (n + 3) + 1 = n + 4
    BY <1>2
  <2> QED
    BY <1>7, <2>1 DEF GrownBy
<1>9. /\ IsSegment(h, Len(p.secs)) /\ h.offsetSet = FALSE
      /\ h.type = g.type /\ h.flags = g.flags
      /\ h.vaddr = g.vaddr /\ h.paddr = g.paddr /\ h.secs = <<n + 4>>
      /\ h.align = (IF 1 > g.align THEN 1 ELSE g.align)
  <2>1. n + 4 \in Nat /\ n + 4 \in 1..(n + 4)
    BY <1>2
  <2> DEFINE m == n + 4
  <2>2. h = Copied(g, m) /\ Len(p.secs) = m
    BY <1>8
  <2> HIDE DEF m, h, g
  <2>3. m \in Nat /\ m \in 1..m
    BY <2>1 DEF m
  <2>4. /\ IsSegment(h, m) /\ h.offsetSet = FALSE
        /\ h.type = g.type /\ h.flags = g.flags
        /\ h.vaddr = g.vaddr /\ h.paddr = g.paddr /\ h.secs = <<m>>
        /\ h.align = (IF 1 > g.align THEN 1 ELSE g.align)
    BY <1>1, <2>2, <2>3, CopiedIs
  <2> QED
    BY <2>2, <2>4 DEF m
<1> HIDE DEF h
<1>10. MoreIn(q, p, h)
  BY <1>8, <1>9, SegmentAdded
<1> HIDE DEF q
<1>11. /\ Saveable(q) /\ q.hdr = o.hdr /\ q.secs = p.secs
       /\ Len(q.segs) = n + 3 /\ q.segs[n + 3] = h
       /\ \A l \in 1..(n + 2) : q.segs[l] = o.segs[l]
  <2>1. (n + 2) + 1 = n + 3
    BY <1>2
  <2> QED
    BY <1>6, <1>8, <1>10, <2>1 DEF MoreIn
<1>12. DOMAIN q.secs = 1..(n + 4) /\ DOMAIN q.segs = 1..(n + 3)
  <2>1. q.secs \in Seq(Range(q.secs)) /\ q.segs \in Seq(Range(q.segs))
    BY <1>11 DEF Saveable
  <2> QED
    BY <1>8, <1>11, <2>1, LenProperties
<1>13. Unplaced(q)
  BY <1>8, <1>11 DEF Unplaced
<1>14. q.segs[1] = NewSegment /\ HashPart(q.segs[2], q.secs[3])
  <2>1. 1 \in 1..(n + 2) /\ 2 \in 1..(n + 2) /\ 3 \in 1..(n + 3)
    BY <1>2
  <2>2. q.secs[3] = o.secs[3]
    BY <1>8, <1>11, <2>1
  <2> QED
    BY <1>6, <1>11, <2>1, <2>2
<1>15. \A l \in 1..(n + 1) :
         CopyPart(reader.segs[more[l]], q.segs[l + 2], l + 3, q.secs[l + 3])
  <2> SUFFICES ASSUME NEW l \in 1..(n + 1)
               PROVE  CopyPart(reader.segs[more[l]], q.segs[l + 2], l + 3,
                               q.secs[l + 3])
    OBVIOUS
  <2>1. CASE l = n + 1
    <3>1. l + 2 = n + 3 /\ l + 3 = n + 4 /\ reader.segs[more[l]] = g
      BY <1>2, <1>3, <2>1
    <3>2. q.segs[l + 2] = h /\ q.secs[l + 3] = p.secs[n + 4]
      BY <1>11, <3>1
    <3>3. CopyPart(g, h, n + 4, p.secs[n + 4])
      BY <1>5, <1>8, <1>9 DEF CopyPart, DataOf, Renamed
    <3> QED
      BY <3>1, <3>2, <3>3
  <2>2. CASE l # n + 1
    <3>1. l \in 1..n /\ l + 2 \in 1..(n + 2) /\ l + 3 \in 1..(n + 3) /\ l + 3 # 2
      BY <1>2, <2>2
    <3>2. /\ more[l] = numbers[l] /\ q.segs[l + 2] = o.segs[l + 2]
          /\ q.secs[l + 3] = o.secs[l + 3]
      BY <1>3, <1>8, <1>11, <3>1
    <3> QED
      BY <1>6, <3>1, <3>2
  <2> QED
    BY <2>1, <2>2
<1>16. \A l \in 1..(n + 3) : q.segs[l].offsetSet = FALSE
  <2> SUFFICES ASSUME NEW l \in 1..(n + 3) PROVE q.segs[l].offsetSet = FALSE
    OBVIOUS
  <2>1. CASE l = n + 3
    BY <1>9, <1>11, <2>1
  <2>2. CASE l # n + 3
    <3>1. l \in 1..(n + 2)
      BY <1>2, <2>2
    <3> QED
      BY <1>6, <1>11, <3>1
  <2> QED
    BY <2>1, <2>2
<1>17. GrowingIs(q, more, n + 1)
  <2>1. (n + 1) + 3 = n + 4 /\ (n + 1) + 2 = n + 3
    BY <1>2
  <2>2. q.hdr.magic /\ q.hdr.class = reader.hdr.class /\ q.hdr.shstrndx = 2
    BY <1>6, <1>11
  <2> QED
    BY <1>8, <1>11, <1>12, <1>13, <1>14, <1>15, <1>16, <2>1, <2>2 DEF GrowingIs
<1>18. Growing(q, more)
  <2>1. n + 1 \in Nat
    BY <1>2
  <2> QED
    BY <1>3, <1>17, <2>1, GrowingFrom
<1> QED
  BY <1>18 DEF q, h, p, s, more

-----------------------------------------------------------------------------
(* The segment for the headers gets its section.                           *)
EntryIn(p, o) ==
    /\ Saveable(p) /\ p.secs = o.secs /\ p.segs = o.segs
    /\ p.hdr.magic = o.hdr.magic /\ p.hdr.class = o.hdr.class

LEMMA EntrySet ==
    ASSUME NEW o, Saveable(o), NEW e
    PROVE  EntryIn([o EXCEPT !.hdr = [o.hdr EXCEPT !.entry = e]], o)
<1> DEFINE h == [o.hdr EXCEPT !.entry = e]
           p == [o EXCEPT !.hdr = h]
<1>1. /\ DOMAIN o = {"hdr", "secs", "segs"}
      /\ DOMAIN o.hdr = DOMAIN Header(32, "LSB") /\ o.hdr.class \in {32, 64}
      /\ o.secs \in Seq(Range(o.secs)) /\ o.segs \in Seq(Range(o.segs))
      /\ \A k \in 1..Len(o.secs) : IsSection(o.secs[k])
      /\ \A g \in 1..Len(o.segs) : IsSegment(o.segs[g], Len(o.secs))
      /\ 1 \in 1..Len(o.secs) => o.secs[1].type = "NULL"
  BY SaveableIs
<1>2. /\ DOMAIN h = DOMAIN o.hdr /\ h.class = o.hdr.class
      /\ h.magic = o.hdr.magic
  BY <1>1 DEF Header
<1> HIDE DEF h
<1>3. /\ DOMAIN p = {"hdr", "secs", "segs"} /\ p.hdr = h
      /\ p.secs = o.secs /\ p.segs = o.segs
  BY <1>1
<1> HIDE DEF p
<1>4. Saveable(p)
  BY <1>1, <1>2, <1>3, SaveableIs
<1>5. EntryIn(p, o)
  BY <1>2, <1>3, <1>4 DEF EntryIn
<1> QED
  BY <1>5 DEF p, h

(* The section that takes no room in the file.                             *)
HeadersSection == set_data([NewSection EXCEPT !.type = "NOBITS",
                                              !.alloc = TRUE, !.align = 1],
                           {}, TablesEnd)

LEMMA HeadersSectionIs ==
    ASSUME Saveable(obj)
    PROVE  /\ IsSection(HeadersSection) /\ HeadersSection.type = "NOBITS"
           /\ HeadersSection.align = 1 /\ HeadersSection.alloc = TRUE
           /\ HeadersSection.addrSet = FALSE
           /\ NameSize(HeadersSection.name) \in Nat
           /\ IsContent(HeadersSection.data)
<1> DEFINE t == [NewSection EXCEPT !.type = "NOBITS", !.alloc = TRUE,
                                   !.align = 1]
           s == HeadersSection
<1>1. TablesEnd \in Nat
  BY Tables
<1>2. /\ DOMAIN t = DOMAIN NewSection /\ t.type = "NOBITS"
      /\ t.align = 1 /\ t.alloc = TRUE /\ t.addrSet = FALSE
      /\ t.addr = 0 /\ t.offset = 0 /\ t.name = NoName /\ t.data = {}
  BY DEF NewSection
<1>3. s = set_data(t, {}, TablesEnd)
  BY DEF HeadersSection
<1> HIDE DEF t, s
<1>4. s = [t EXCEPT !.size = TablesEnd, !.data = t.data]
  BY <1>2, <1>3 DEF set_data
<1>5. /\ DOMAIN s = DOMAIN t /\ s.type = t.type /\ s.align = t.align
      /\ s.alloc = t.alloc /\ s.addrSet = t.addrSet /\ s.addr = t.addr
      /\ s.offset = t.offset /\ s.name = t.name
      /\ s.size = TablesEnd /\ s.data = t.data
  BY <1>2, <1>4 DEF NewSection
<1>6. NameSize(NoName) \in Nat
  BY NamesAssumption
<1>7. IsContent(t.data)
  BY <1>2 DEF IsContent
<1> QED
  BY <1>1, <1>2, <1>5, <1>6, <1>7 DEF IsSection, s

LEMMA CopiesCount ==
    ASSUME ReaderRead
    PROVE  /\ Count \in Nat /\ DOMAIN Copies = 1..Count
           /\ Count <= Len(reader.segs)
<1>1. Len(reader.segs) \in Nat
  BY DEF ReaderRead
<1>2. Len(Copies) \in 0..Len(reader.segs) /\ DOMAIN Copies = 1..Len(Copies)
  BY <1>1, CopiesAre DEF Copies
<1> QED
  BY <1>1, <1>2 DEF Count

LEMMA HeadersGrow ==
    ASSUME ReaderRead, Growing(obj, Copies), header_segment
    PROVE  Signing(obj') /\ Fresh(obj')
<1> DEFINE n == Count
           s == HeadersSection
           p == AddSection(obj, s)
           e == [p.segs[1] EXCEPT !.align = 4]
           h == add_section_index(e, Len(p.secs), 1)
           q == [p EXCEPT !.segs = [p.segs EXCEPT ![1] = h]]
           r == [q EXCEPT !.hdr = [q.hdr EXCEPT !.entry = reader.hdr.entry]]
<1>1. obj' = r
  BY DEF header_segment, HeadersSection
<1>2. n \in Nat /\ DOMAIN Copies = 1..n /\ Len(Copies) = n
  BY CopiesCount DEF Count
<1>3. GrowingIs(obj, Copies, n)
  BY <1>2, GrowingMeans
<1> HIDE DEF n
<1>4. /\ Saveable(obj) /\ Unplaced(obj)
      /\ obj.hdr.magic /\ obj.hdr.class = reader.hdr.class
      /\ obj.hdr.shstrndx = 2
      /\ Len(obj.secs) = n + 3 /\ Len(obj.segs) = n + 2
      /\ obj.segs[1] = NewSegment /\ HashPart(obj.segs[2], obj.secs[3])
      /\ \A l \in 1..n :
           CopyPart(reader.segs[Copies[l]], obj.segs[l + 2], l + 3, obj.secs[l + 3])
      /\ \A l \in 1..(n + 2) : obj.segs[l].offsetSet = FALSE
  BY <1>3 DEF GrowingIs
<1>5. /\ IsSection(s) /\ s.type = "NOBITS"
      /\ s.align = 1 /\ s.alloc = TRUE
      /\ s.addrSet = FALSE /\ NameSize(s.name) \in Nat /\ IsContent(s.data)
  BY <1>4, HeadersSectionIs
<1> HIDE DEF s
<1>6. GrownBy(p, obj, s, n + 3)
  <2>1. n + 3 \in Nat /\ 3 <= n + 3
    BY <1>2
  <2> QED
    BY <1>4, <1>5, <2>1, SectionGrown
<1> HIDE DEF p
<1>7. /\ Saveable(p) /\ p.hdr = obj.hdr /\ p.segs = obj.segs
      /\ Len(p.secs) = n + 4
      /\ \A l \in 1..(n + 3) : l # 2 => p.secs[l] = obj.secs[l]
      /\ Renamed(p.secs[n + 4], s)
      /\ Unplaced(p)
  <2>1. (n + 3) + 1 = n + 4
    BY <1>2
  <2> QED
    BY <1>6, <2>1 DEF GrownBy
<1>8. IsSegment(h, n + 4) /\ h.vaddr = 0 /\ h.paddr = 0 /\ h.align = 4
      /\ h.secs = <<n + 4>> /\ h.offsetSet = FALSE
  <2>1. n + 4 \in Nat /\ n + 4 \in 1..(n + 4) /\ 1 \in Nat
    BY <1>2
  <2>2. e = [NewSegment EXCEPT !.align = 4]
    BY <1>4, <1>7
  <2>3. <<>> \in Seq(1..(n + 4))
    BY EmptySeq
  <2> HIDE DEF e
  <2>4. IsSegment(e, n + 4) /\ e.secs = <<>> /\ e.vaddr = 0 /\ e.paddr = 0
        /\ e.align = 4 /\ e.offsetSet = FALSE
    BY <2>2, <2>3 DEF IsSegment, NewSegment
  <2>5. OneIndex(h, e, n + 4, n + 4, 1)
    <3>1. OneIndex(add_section_index(e, n + 4, 1), e, n + 4, n + 4, 1)
      BY <2>1, <2>4, IndexOne
    <3> QED
      BY <1>7, <3>1
  <2> HIDE DEF h
  <2>6. h.align = 4
    BY <2>4, <2>5 DEF OneIndex
  <2> QED
    BY <2>4, <2>5, <2>6 DEF OneIndex
<1> HIDE DEF h
<1>9. ReplacedIn(q, p, 1, h)
  <2>1. 1 \in 1..Len(p.segs) /\ IsSegment(h, Len(p.secs))
    BY <1>2, <1>4, <1>7, <1>8
  <2> QED
    BY <1>7, <2>1, SegmentReplaced
<1> HIDE DEF q
<1>10. /\ Saveable(q) /\ q.hdr = obj.hdr /\ q.secs = p.secs
       /\ Len(q.segs) = n + 2 /\ q.segs[1] = h
       /\ \A l \in 1..(n + 2) : l # 1 => q.segs[l] = obj.segs[l]
  BY <1>4, <1>7, <1>9 DEF ReplacedIn
<1>11. EntryIn(r, q)
  BY <1>10, EntrySet
<1> HIDE DEF r
<1>12. /\ Saveable(r) /\ r.secs = p.secs /\ r.segs = q.segs
       /\ r.hdr.magic /\ r.hdr.class = reader.hdr.class
       /\ Len(r.segs) = n + 2 /\ Len(r.secs) = n + 4
  BY <1>4, <1>7, <1>10, <1>11 DEF EntryIn
<1>13. DOMAIN r.secs = 1..(n + 4) /\ DOMAIN r.segs = 1..(n + 2)
  <2>1. r.secs \in Seq(Range(r.secs)) /\ r.segs \in Seq(Range(r.segs))
    BY <1>12 DEF Saveable
  <2> QED
    BY <1>12, <2>1, LenProperties
<1>14. HashPart(r.segs[2], r.secs[3])
  <2>1. 2 \in 1..(n + 2) /\ 3 \in 1..(n + 3)
    BY <1>2
  <2>2. r.segs[2] = obj.segs[2] /\ r.secs[3] = obj.secs[3]
    BY <1>7, <1>10, <1>12, <2>1
  <2> QED
    BY <1>4, <2>2
<1>15. \A l \in 1..n :
         CopyPart(reader.segs[Copies[l]], r.segs[l + 2], l + 3, r.secs[l + 3])
  <2> SUFFICES ASSUME NEW l \in 1..n
               PROVE  CopyPart(reader.segs[Copies[l]], r.segs[l + 2], l + 3,
                               r.secs[l + 3])
    OBVIOUS
  <2>1. l + 2 \in 1..(n + 2) /\ l + 2 # 1 /\ l + 3 \in 1..(n + 3) /\ l + 3 # 2
    BY <1>2
  <2>2. r.segs[l + 2] = obj.segs[l + 2] /\ r.secs[l + 3] = obj.secs[l + 3]
    BY <1>7, <1>10, <1>12, <2>1
  <2> QED
    BY <1>4, <2>2
<1>16. \A l \in DOMAIN r.secs : IsContent(r.secs[l].data) /\ ~r.secs[l].addrSet
  BY <1>7, <1>12, <1>13 DEF Unplaced
<1>17. \A l \in DOMAIN r.segs : ~r.segs[l].offsetSet
  BY <1>4, <1>8, <1>10, <1>12, <1>13
<1>18. Parts(r, Copies)
  BY <1>2, <1>12, <1>14, <1>15, <1>16 DEF Parts
<1>19. HeadPart(r.segs[1], n + 4, r.secs[n + 4])
  BY <1>5, <1>7, <1>8, <1>10, <1>12 DEF HeadPart, Renamed
<1>20. Signing(r)
  BY <1>12, <1>18, <1>19 DEF Signing, n
<1>21. Fresh(r)
  BY <1>16, <1>17 DEF Fresh
<1> QED
  BY <1>1, <1>20, <1>21

-----------------------------------------------------------------------------
(* While the reader stays, so does what depends on it alone.               *)
LEMMA ReaderStays ==
    ASSUME UNCHANGED reader
    PROVE  /\ Copies' = Copies /\ Count' = Count
           /\ HashSegments' = HashSegments
           /\ hash_segment_address' = hash_segment_address
           /\ Highest' = Highest /\ ImageDest' = ImageDest
<1>1. Copies' = Copies
  BY Zenon DEF Copies, CopiedAmong
<1>2. HashSegments' = HashSegments
  BY Zenon DEF HashSegments
<1>3. FirstHash' = FirstHash
  BY <1>2, Zenon DEF FirstHash
<1>4. hash_segment_address' = hash_segment_address
  BY <1>2, <1>3 DEF hash_segment_address
<1>5. Highest' = Highest
  BY Zenon DEF Highest
<1>6. ImageDest' = ImageDest
  BY <1>2, <1>4, <1>5 DEF ImageDest
<1>7. Count' = Count
  BY <1>1, Zenon DEF Count
<1> QED
  BY <1>1, <1>2, <1>4, <1>5, <1>6, <1>7

LEMMA GrowingStays ==
    ASSUME UNCHANGED reader, NEW numbers
    PROVE  Growing(obj, numbers)' <=> Growing(obj', numbers)
<1>1. hash_segment_address' = hash_segment_address
  BY ReaderStays
<1>2. HashPart(obj.segs[2], obj.secs[3])' <=> HashPart(obj'.segs[2], obj'.secs[3])
  BY <1>1, Zenon DEF HashPart
<1>3. Parts(obj, numbers)' <=> Parts(obj', numbers)
  BY <1>2 DEF Parts
<1>4. QED
  BY <1>3 DEF Growing

LEMMA SigningStays ==
    ASSUME UNCHANGED reader
    PROVE  Signing(obj)' <=> Signing(obj')
<1>1. hash_segment_address' = hash_segment_address /\ Copies' = Copies
      /\ Count' = Count
  BY ReaderStays
<1>2. HashPart(obj.segs[2], obj.secs[3])' <=> HashPart(obj'.segs[2], obj'.secs[3])
  BY <1>1, Zenon DEF HashPart
<1>3. Parts(obj, Copies)' <=> Parts(obj', Copies)
  BY <1>1, <1>2 DEF Parts
<1>4. QED
  BY <1>1, <1>3 DEF Signing

(* What the layout changes of the object does not matter.                  *)
SameSec(t, s) ==
    /\ t.type = s.type /\ t.size = s.size /\ t.align = s.align
    /\ t.alloc = s.alloc /\ t.tls = s.tls /\ t.data = s.data

SameSeg(h, g) ==
    /\ h.type = g.type /\ h.flags = g.flags /\ h.vaddr = g.vaddr
    /\ h.paddr = g.paddr /\ h.align = g.align /\ h.secs = g.secs

SigningIs(o, n) ==
    /\ Saveable(o)
    /\ o.hdr.magic /\ o.hdr.class = reader.hdr.class
    /\ DOMAIN o.secs = 1..(n + 4) /\ DOMAIN o.segs = 1..(n + 2)
    /\ Len(o.secs) = n + 4 /\ Len(o.segs) = n + 2
    /\ HashPart(o.segs[2], o.secs[3])
    /\ HeadPart(o.segs[1], n + 4, o.secs[n + 4])
    /\ \A k \in 1..n :
         CopyPart(reader.segs[Copies[k]], o.segs[k + 2], k + 3, o.secs[k + 3])
    /\ \A k \in 1..(n + 4) : IsContent(o.secs[k].data)

LEMMA SigningMeans ==
    ASSUME ReaderRead, NEW o, Signing(o)
    PROVE  SigningIs(o, Count)
<1>1. Count \in Nat /\ DOMAIN Copies = 1..Count
  BY CopiesCount
<1>2. /\ Parts(o, Copies)
      /\ Len(o.secs) = Count + 4 /\ Len(o.segs) = Count + 2
      /\ HeadPart(o.segs[1], Count + 4, o.secs[Count + 4])
  BY DEF Signing
<1>3. o.secs \in Seq(Range(o.secs)) /\ o.segs \in Seq(Range(o.segs))
      /\ Saveable(o)
  BY <1>2 DEF Parts, Saveable
<1>4. DOMAIN o.secs = 1..(Count + 4) /\ DOMAIN o.segs = 1..(Count + 2)
  BY <1>2, <1>3, LenProperties
<1> QED
  BY <1>1, <1>2, <1>3, <1>4 DEF Parts, SigningIs

LEMMA SigningFrom ==
    ASSUME ReaderRead, NEW o, SigningIs(o, Count)
    PROVE  Signing(o)
<1>1. Count \in Nat /\ DOMAIN Copies = 1..Count
  BY CopiesCount
<1>2. Parts(o, Copies)
  BY <1>1 DEF SigningIs, Parts
<1> QED
  BY <1>2 DEF SigningIs, Signing

LEMMA SigningKept ==
    ASSUME ReaderRead, NEW o, Signing(o), NEW p, Saveable(p), p.hdr = o.hdr,
           Len(p.secs) = Len(o.secs), Len(p.segs) = Len(o.segs),
           \A k \in 1..Len(o.secs) : SameSec(p.secs[k], o.secs[k]),
           \A g \in 1..Len(o.segs) : SameSeg(p.segs[g], o.segs[g])
    PROVE  Signing(p)
<1> DEFINE n == Count
<1>1. n \in Nat
  BY CopiesCount
<1>2. SigningIs(o, n)
  BY SigningMeans
<1> HIDE DEF n
<1>3. /\ o.hdr.magic /\ o.hdr.class = reader.hdr.class
      /\ Len(o.secs) = n + 4 /\ Len(o.segs) = n + 2
      /\ HashPart(o.segs[2], o.secs[3])
      /\ HeadPart(o.segs[1], n + 4, o.secs[n + 4])
      /\ \A k \in 1..n :
           CopyPart(reader.segs[Copies[k]], o.segs[k + 2], k + 3, o.secs[k + 3])
      /\ \A k \in 1..(n + 4) : IsContent(o.secs[k].data)
  BY <1>2 DEF SigningIs
<1>4. /\ \A k \in 1..(n + 4) : SameSec(p.secs[k], o.secs[k])
      /\ \A g \in 1..(n + 2) : SameSeg(p.segs[g], o.segs[g])
  BY <1>3
<1>5. DOMAIN p.secs = 1..(n + 4) /\ DOMAIN p.segs = 1..(n + 2)
  <2>1. p.secs \in Seq(Range(p.secs)) /\ p.segs \in Seq(Range(p.segs))
    BY DEF Saveable
  <2> QED
    BY <1>3, <2>1, LenProperties
<1>6. HashPart(p.segs[2], p.secs[3])
  <2>1. 2 \in 1..(n + 2) /\ 3 \in 1..(n + 4)
    BY <1>1
  <2> QED
    BY <1>3, <1>4, <2>1 DEF HashPart, SameSec, SameSeg
<1>7. HeadPart(p.segs[1], n + 4, p.secs[n + 4])
  <2>1. 1 \in 1..(n + 2) /\ n + 4 \in 1..(n + 4)
    BY <1>1
  <2> QED
    BY <1>3, <1>4, <2>1 DEF HeadPart, SameSec, SameSeg
<1>8. ASSUME NEW k \in 1..n
      PROVE  CopyPart(reader.segs[Copies[k]], p.segs[k + 2], k + 3, p.secs[k + 3])
  <2>1. k + 2 \in 1..(n + 2) /\ k + 3 \in 1..(n + 4)
    BY <1>1
  <2>2. SameSeg(p.segs[k + 2], o.segs[k + 2]) /\ SameSec(p.secs[k + 3], o.secs[k + 3])
    BY <1>4, <2>1
  <2>3. CopyPart(reader.segs[Copies[k]], o.segs[k + 2], k + 3, o.secs[k + 3])
    BY <1>3, Zenon
  <2> QED
    BY <2>2, <2>3 DEF CopyPart, SameSec, SameSeg
<1>9. \A k \in 1..(n + 4) : IsContent(p.secs[k].data)
  BY <1>3, <1>4 DEF SameSec
<1>10. SigningIs(p, n)
  BY <1>3, <1>5, <1>6, <1>7, <1>8, <1>9 DEF SigningIs
<1> QED
  BY <1>10, SigningFrom DEF n

(* Every segment has one section, so that they are laid out as they are.   *)
Firsts(l) == [k \in 1..l |-> k]
Lasts(l, n) == [k \in 1..(n - l) |-> l + k]

InOrder ==
    /\ pc = "front" => work = Numbers(obj.segs) /\ ordered = <<>>
    /\ pc = "order" => \E l \in 0..(Count + 2) :
                          ordered = Firsts(l) /\ work = Lasts(l, Count + 2)
    /\ pc \notin {"save"} \cup Ordering => ordered = Firsts(Count + 2)

(* Where a segment lies.                                                   *)
StartOf(g, p) ==
    /\ p \in Int /\ TablesEnd <= p
    /\ (p - obj.segs[g].vaddr) % obj.segs[g].align = 0
    /\ g = 2 => p < TablesEnd + 3 + HASH_SE_ALIGN

SectionAt(g, p, insec, inmem) ==
    /\ insec \in Nat /\ inmem \in Nat
    /\ g = 2 => obj.secs[3].offset = p + Padding(p, HASH_SE_ALIGN)
    /\ g > 2 => /\ obj.secs[g + 1].offset = p
                /\ insec = obj.secs[g + 1].size
                /\ inmem = obj.secs[g + 1].size

Laid(g) ==
    LET h == obj.segs[g]
    IN  StartOf(g, h.offset) /\ SectionAt(g, h.offset, h.filesz, h.memsz)

Passed(g) == g < cur \/ (pc = "place" /\ g = cur /\ nth # 1)

Segmented ==
    /\ \A g \in 1..(Count + 2) : SectionOf(g) \in made <=> Passed(g)
    /\ \A g \in 1..(Count + 2) : ~Passed(g) => ~obj.secs[SectionOf(g)].addrSet
    /\ \A g \in 1..(Count + 2) : g < cur => Laid(g)
    /\ cur = 1 /\ pc = "segment" => pos = TablesEnd
    /\ (cur = 2 /\ pc = "segment") \/ (cur = 1 /\ pc = "place") =>
          pos <= TablesEnd + 3
    /\ pc = "place" =>
          /\ nth \in {1, 2} /\ StartOf(cur, start)
          /\ nth = 1 => pos = start /\ mem = 0 /\ fsz = 0
          /\ nth = 2 => SectionAt(cur, start, fsz, mem)

SavingInv ==
    /\ Signing(obj) /\ InOrder
    /\ pc \in {"save"} \cup Ordering => Fresh(obj)
    /\ pc \in Ordering => pos = TablesEnd
    /\ pc \in Segmenting => Segmented
    /\ pc \in {"loose", "write", "saved"} => \A g \in 1..(Count + 2) : Laid(g)
    /\ pc \in Laying => ~back
    /\ pc = "saved" => file = FileOf(obj, pos)

SignInv ==
    job = "sign" =>
        /\ Files /\ pc # "made"
        /\ pc = "load" /\ IsElf(input) => GoodFile(input)
        /\ pc \in {"create", "copy", "save"} \cup Laying => Reading
        /\ pc \in {"copy", "save"} \cup Laying => Numbered
        /\ pc = "copy" => /\ i \in 1..(Len(reader.segs) + 1) /\ Exports(i - 1)
                          /\ Growing(obj, CopiedAmong(i - 1))
        /\ pc \in {"save"} \cup Laying => SavingInv /\ Exports(Len(reader.segs))
        /\ pc = "done" => /\ SegmentsKept /\ HashPerSegment /\ PointersRight
                          /\ hash_offset = 2 => GoodFile(file)

(* What the other jobs save and load.                                      *)
Names(o) == Saveable(o) /\ o.hdr.shstrndx \in DOMAIN o.secs

OthersInv ==
    job # "sign" =>
        /\ pc \notin {"create", "copy"}
        /\ pc = "load" => job = "copy" /\ (IsElf(input) => Loadable(input))
        /\ pc = "made" => Names(reader)
        /\ pc = "save" => Saveable(obj)
        /\ job \in {"write", "extend"} =>
             /\ pc \in {"save"} \cup Laying => Names(obj)
             /\ pc = "saved" => file = FileOf(obj, pos)
             /\ pc = "done" => Names(again)

-----------------------------------------------------------------------------
(* The parts of what signlk saves.                                         *)
Shape(o, n) ==
    /\ n \in Nat
    /\ DOMAIN o.secs = 1..(n + 4) /\ DOMAIN o.segs = 1..(n + 2)
    /\ Len(o.secs) = n + 4 /\ Len(o.segs) = n + 2
    /\ \A g \in 1..(n + 2) :
         /\ o.segs[g].secs = <<SectionOf(g)>>
         /\ SectionOf(g) \in 3..(n + 4)
         /\ o.segs[g].align \in Nat \ {0} /\ o.segs[g].vaddr \in Int
         /\ \A l \in 1..(n + 2) : l # g => SectionOf(l) # SectionOf(g)
         /\ o.secs[SectionOf(g)].type # "NULL"
         /\ o.secs[SectionOf(g)].alloc
         /\ o.secs[SectionOf(g)].size \in Nat
    /\ SectionOf(1) = n + 4 /\ o.secs[n + 4].align = 1
    /\ o.secs[n + 4].type = "NOBITS" /\ o.segs[1].align = 4
    /\ SectionOf(2) = 3 /\ o.secs[3].align = HASH_SE_ALIGN
    /\ o.secs[3].type = "PROC" /\ o.segs[2].align = HASH_SE_ALIGN
    /\ \A g \in 3..(n + 2) :
         /\ SectionOf(g) = g + 1
         /\ o.secs[g + 1].align = 1 /\ o.secs[g + 1].type = "PROGBITS"
         /\ o.secs[g + 1].alloc /\ ~o.secs[g + 1].tls

LEMMA SectionOfIs ==
    ASSUME ReaderRead
    PROVE  /\ SectionOf(1) = Count + 4 /\ SectionOf(2) = 3
           /\ \A g \in 1..(Count + 2) :
                /\ SectionOf(g) \in 3..(Count + 4)
                /\ g # 1 => SectionOf(g) = g + 1
                /\ \A l \in 1..(Count + 2) : l # g => SectionOf(l) # SectionOf(g)
<1>1. Count \in Nat
  BY CopiesCount
<1> QED
  BY <1>1 DEF SectionOf

LEMMA ShapeIs ==
    ASSUME ReaderRead, NEW o, Signing(o)
    PROVE  Shape(o, Count)
<1> DEFINE n == Count
<1>1. n \in Nat /\ DOMAIN Copies = 1..n
  BY CopiesCount
<1>2. SigningIs(o, n)
  BY SigningMeans
<1>3. /\ SectionOf(1) = n + 4 /\ SectionOf(2) = 3
      /\ \A g \in 1..(n + 2) :
           /\ SectionOf(g) \in 3..(n + 4)
           /\ g # 1 => SectionOf(g) = g + 1
           /\ \A l \in 1..(n + 2) : l # g => SectionOf(l) # SectionOf(g)
  BY SectionOfIs
<1> HIDE DEF n
<1>4. /\ DOMAIN o.secs = 1..(n + 4) /\ DOMAIN o.segs = 1..(n + 2)
      /\ Len(o.secs) = n + 4 /\ Len(o.segs) = n + 2
      /\ HashPart(o.segs[2], o.secs[3])
      /\ HeadPart(o.segs[1], n + 4, o.secs[n + 4])
      /\ \A k \in 1..n :
           CopyPart(reader.segs[Copies[k]], o.segs[k + 2], k + 3, o.secs[k + 3])
      /\ Saveable(o)
  BY <1>2 DEF SigningIs
<1>5. /\ \A k \in 1..(n + 4) : IsSection(o.secs[k])
      /\ \A g \in 1..(n + 2) : IsSegment(o.segs[g], n + 4)
  BY <1>4, SaveableIs
<1>6. /\ o.segs[1].secs = <<n + 4>> /\ o.segs[1].align = 4
      /\ o.secs[n + 4].type = "NOBITS" /\ o.secs[n + 4].align = 1
      /\ o.secs[n + 4].alloc
  BY <1>4 DEF HeadPart
<1>7. /\ o.segs[2].secs = <<3>> /\ o.segs[2].align = HASH_SE_ALIGN
      /\ o.secs[3].type = "PROC" /\ o.secs[3].align = HASH_SE_ALIGN
      /\ o.secs[3].alloc
  BY <1>4 DEF HashPart
<1>8. ASSUME NEW g \in 3..(n + 2)
      PROVE  /\ o.segs[g].secs = <<g + 1>>
             /\ o.segs[g].align \in Nat \ {0}
             /\ o.secs[g + 1].align = 1 /\ o.secs[g + 1].type = "PROGBITS"
             /\ o.secs[g + 1].alloc /\ ~o.secs[g + 1].tls
  <2> DEFINE k == g - 2
             a == reader.segs[Copies[k]].align
  <2>1. k \in 1..n /\ k + 2 = g /\ k + 3 = g + 1
    BY <1>1
  <2>2. CopyPart(reader.segs[Copies[k]], o.segs[g], g + 1, o.secs[g + 1])
    BY <1>4, <2>1
  <2>3. o.segs[g].align \in Nat
    <3>1. g \in 1..(n + 2)
      BY <1>1
    <3> QED
      BY <1>5, <3>1 DEF IsSegment
  <2> HIDE DEF k
  <2>4. /\ o.segs[g].secs = <<g + 1>>
        /\ o.segs[g].align = (IF 1 > a THEN 1 ELSE a)
        /\ o.secs[g + 1].align = 1 /\ o.secs[g + 1].type = "PROGBITS"
        /\ o.secs[g + 1].alloc /\ ~o.secs[g + 1].tls
    BY <2>2 DEF CopyPart
  <2>6. a \in Nat
    <3>1. Copies[k] \in 1..Len(reader.segs)
      <4>1. Len(reader.segs) \in Nat
        BY DEF ReaderRead
      <4>2. k \in 1..Len(Copies)
        BY <2>1 DEF n, Count
      <4> QED
        BY <4>1, <4>2, CopiesAre DEF Copies
    <3> QED
      BY <3>1 DEF ReaderRead, SegmentRead
  <2>5. o.segs[g].align # 0
    <3> HIDE DEF a
    <3> QED
      BY <2>4, <2>6
  <2> QED
    BY <2>3, <2>4, <2>5
<1>9. ASSUME NEW g \in 1..(n + 2)
      PROVE  /\ o.segs[g].secs = <<SectionOf(g)>>
             /\ o.segs[g].align \in Nat \ {0} /\ o.segs[g].vaddr \in Int
             /\ o.secs[SectionOf(g)].type # "NULL"
             /\ o.secs[SectionOf(g)].alloc
             /\ o.secs[SectionOf(g)].size \in Nat
  <2>1. o.segs[g].vaddr \in Int
    BY <1>5 DEF IsSegment
  <2>2. o.secs[SectionOf(g)].size \in Nat
    <3>1. SectionOf(g) \in 1..(n + 4)
      BY <1>1, <1>3
    <3> QED
      BY <1>5, <3>1 DEF IsSection
  <2>3. CASE g = 1
    BY <1>3, <1>6, <2>1, <2>2, <2>3
  <2>4. CASE g = 2
    BY <1>3, <1>7, <2>1, <2>2, <2>4 DEF HASH_SE_ALIGN
  <2>5. CASE g # 1 /\ g # 2
    <3>1. g \in 3..(n + 2) /\ SectionOf(g) = g + 1
      BY <1>3, <2>5
    <3> QED
      BY <1>8, <2>1, <2>2, <3>1
  <2> QED
    BY <2>3, <2>4, <2>5
<1>10. ASSUME NEW g \in 3..(n + 2) PROVE SectionOf(g) = g + 1
  <2>1. g \in 1..(n + 2) /\ g # 1
    BY <1>1
  <2> QED
    BY <1>3, <2>1
<1>11. Shape(o, n)
  BY <1>1, <1>3, <1>4, <1>6, <1>7, <1>8, <1>9, <1>10 DEF Shape
<1> QED
  BY <1>11 DEF n

-----------------------------------------------------------------------------
(* The segments are laid out in the order they are in.                     *)
LEMMA FreshSegment ==
    ASSUME ReaderRead, Signing(obj), Fresh(obj), NEW g \in 1..(Count + 2)
    PROVE  ~AtZero(g)
<1>1. g \in DOMAIN obj.segs
  BY ShapeIs DEF Shape
<1> QED
  BY <1>1 DEF Fresh, AtZero

LEMMA ObjectStays ==
    ASSUME Signing(obj), UNCHANGED <<obj, reader>>
    PROVE  /\ Signing(obj)' /\ Count' = Count /\ TablesEnd' = TablesEnd
           /\ \A g : SectionOf(g)' = SectionOf(g)
           /\ Fresh(obj) => Fresh(obj)'
<1>1. Signing(obj') /\ Count' = Count
  BY ReaderStays
<1>2. TablesEnd' = TablesEnd
  BY DEF TablesEnd, PhdrsSize
<1>3. \A g : SectionOf(g)' = SectionOf(g)
  BY <1>1 DEF SectionOf
<1>4. Fresh(obj) => Fresh(obj)'
  BY DEF Fresh
<1> QED
  BY <1>1, <1>2, <1>3, <1>4, SigningStays

LEMMA SaveSigns ==
    ASSUME ReaderRead, SavingInv, UNCHANGED signVars, save
    PROVE  SavingInv'
<1>1. /\ obj' = obj /\ pc = "save" /\ pc' = "front" /\ pos' = TablesEnd
      /\ back' = FALSE /\ work' = Numbers(obj.segs) /\ ordered' = <<>>
      /\ reader' = reader
  BY DEF save, Goto, signVars
<1>2. Signing(obj) /\ Fresh(obj)
  BY <1>1 DEF SavingInv
<1>3. Signing(obj)' /\ Fresh(obj)' /\ TablesEnd' = TablesEnd
  BY <1>1, <1>2, ObjectStays
<1>4. InOrder'
  BY <1>1 DEF InOrder, Numbers, Ordering
<1> QED
  BY <1>1, <1>3, <1>4 DEF SavingInv, Ordering, Segmenting, Laying

LEMMA FrontSigns ==
    ASSUME ReaderRead, SavingInv, UNCHANGED signVars,
           bring_to_front \/ in_front
    PROVE  SavingInv'
<1>1. /\ obj' = obj /\ pc = "front" /\ pos' = pos
      /\ back' = back /\ reader' = reader /\ ordered' = ordered
      /\ pc' \in {"front", "order"}
  BY DEF bring_to_front, in_front, Goto, signVars
<1>2. /\ Signing(obj) /\ Fresh(obj) /\ pos = TablesEnd /\ ~back
      /\ work = Numbers(obj.segs) /\ ordered = <<>>
  BY <1>1 DEF SavingInv, Ordering, Laying, InOrder
<1>3. Signing(obj)' /\ Fresh(obj)' /\ TablesEnd' = TablesEnd /\ Count' = Count
  BY <1>1, <1>2, ObjectStays
<1>4. /\ Len(obj.segs) = Count + 2 /\ Count \in Nat
  BY <1>2, ShapeIs DEF Shape
<1>5. work = [k \in 1..(Count + 2) |-> k]
  BY <1>2, <1>4 DEF Numbers
<1>6. work' = work
  <2>1. CASE bring_to_front
    <3>1. cur \in 1..(Count + 2)
      BY <1>5, <2>1 DEF bring_to_front
    <3>2. work[cur] = cur
      BY <1>5, <3>1
    <3>3. ~AtZero(work[cur])
      BY <1>2, <3>1, <3>2, FreshSegment
    <3> QED
      BY <2>1, <3>3 DEF bring_to_front
  <2>2. CASE in_front
    BY <2>2 DEF in_front
  <2> QED
    BY <2>1, <2>2
<1>7. InOrder'
  <2>1. CASE bring_to_front
    <3>1. pc' = "front"
      BY <1>1, <2>1 DEF bring_to_front
    <3> QED
      BY <1>1, <1>2, <1>6, <3>1 DEF InOrder, Numbers, Ordering
  <2>2. CASE in_front
    <3>1. pc' = "order" /\ ordered' = <<>>
      BY <1>1, <1>2, <2>2 DEF in_front, Goto
    <3>2. 0 \in 0..(Count + 2) /\ <<>> = Firsts(0)
      BY <1>4 DEF Firsts
    <3>3. work' = Lasts(0, Count + 2)
      BY <1>4, <1>5, <1>6 DEF Lasts
    <3>4. \E l \in 0..(Count + 2) :
             ordered' = Firsts(l) /\ work' = Lasts(l, Count + 2)
      BY <3>1, <3>2, <3>3
    <3> QED
      BY <1>3, <3>1, <3>4 DEF InOrder, Ordering
  <2> QED
    BY <2>1, <2>2
<1> QED
  BY <1>1, <1>2, <1>3, <1>7 DEF SavingInv, Ordering, Segmenting, Laying

(* One segment more is in its place.                                       *)
LEMMA NextInOrder ==
    ASSUME NEW n \in Nat, NEW l \in 0..n, l # n
    PROVE  /\ Lasts(l, n) # <<>> /\ Head(Lasts(l, n)) = l + 1
           /\ Tail(Lasts(l, n)) = Lasts(l + 1, n)
           /\ Append(Firsts(l), l + 1) = Firsts(l + 1)
<1> DEFINE w == Lasts(l, n)
           q == Firsts(l)
           t == Lasts(l + 1, n)
           a == Firsts(l + 1)
<1>1. /\ w \in Seq(Nat) /\ Len(w) = n - l /\ Len(w) \in Nat \ {0}
      /\ q \in Seq(Nat) /\ Len(q) = l
  BY DEF Firsts, Lasts
<1>2. w[1] = l + 1 /\ w # <<>> /\ Head(w) = w[1]
  BY <1>1 DEF Lasts
<1>3. Tail(w) = t
  <2>1. /\ DOMAIN Tail(w) = 1..(n - l - 1) /\ Tail(w) \in Seq(Nat)
        /\ \A k \in 1..(n - l - 1) : Tail(w)[k] = w[k + 1]
    BY <1>1, HeadTailProperties
  <2>2. \A k \in 1..(n - l - 1) : Tail(w)[k] = t[k]
    BY <2>1 DEF Lasts
  <2>3. DOMAIN t = 1..(n - l - 1) /\ t = [k \in DOMAIN t |-> t[k]]
    BY DEF Lasts
  <2> HIDE DEF w, t
  <2>4. Tail(w) = [k \in DOMAIN Tail(w) |-> Tail(w)[k]]
    <3>1. \A f \in Seq(Nat) : f = [k \in DOMAIN f |-> f[k]]
      OBVIOUS
    <3> QED
      BY <2>1, <3>1
  <2> QED
    BY <2>1, <2>2, <2>3, <2>4
<1>4. Append(q, l + 1) = a
  <2>1. /\ Append(q, l + 1) \in Seq(Nat) /\ DOMAIN Append(q, l + 1) = 1..(l + 1)
        /\ \A k \in 1..l : Append(q, l + 1)[k] = q[k]
        /\ Append(q, l + 1)[l + 1] = l + 1
    BY <1>1
  <2>2. \A k \in 1..(l + 1) : Append(q, l + 1)[k] = a[k]
    BY <2>1 DEF Firsts
  <2> QED
    BY <2>1, <2>2 DEF Firsts
<1> QED
  BY <1>2, <1>3, <1>4

LEMMA OneOrdered ==
    ASSUME ReaderRead, Shape(obj, Count), Signing(obj),
           NEW l \in 0..(Count + 2), ordered = Firsts(l),
           work = Lasts(l, Count + 2), get_ordered_segments
    PROVE  IF l = Count + 2
           THEN pc' = "segment" /\ UNCHANGED ordered
           ELSE /\ pc' = "order" /\ ordered' = Firsts(l + 1)
                /\ work' = Lasts(l + 1, Count + 2)
<1> DEFINE n == Count + 2
<1>1. n \in Nat
  BY DEF Shape
<1>2. CASE l = n
  <2>1. work = <<>>
    BY <1>1, <1>2 DEF Lasts
  <2> QED
    BY <1>2, <2>1 DEF get_ordered_segments, Goto
<1>3. CASE l # n
  <2>1. /\ work # <<>> /\ Head(work) = l + 1
        /\ Tail(work) = Lasts(l + 1, n)
        /\ Append(ordered, l + 1) = Firsts(l + 1)
    BY <1>1, <1>3, NextInOrder
  <2>2. ~Waits(l + 1)
    <3> SUFFICES ASSUME NEW k \in 2..Len(work)
                 PROVE  ~is_subsequence_of(obj.segs[l + 1], obj.segs[work[k]])
      BY DEF Waits
    <3>1. work[k] = l + k /\ l + k \in 1..n /\ l + 1 \in 1..n
      BY <1>1, <1>3 DEF Lasts
    <3>2. obj.segs[l + 1].secs = <<SectionOf(l + 1)>>
          /\ obj.segs[l + k].secs = <<SectionOf(l + k)>>
      BY <3>1 DEF Shape
    <3>3. Len(obj.segs[l + 1].secs) = 1 /\ Len(obj.segs[l + k].secs) = 1
      BY <3>2
    <3>4. Len(obj.segs[work[k]].secs) = 1
      BY <3>1, <3>3
    <3>5. ~(Len(obj.segs[l + 1].secs) < Len(obj.segs[work[k]].secs))
      BY <3>3, <3>4
    <3> QED
      BY <3>5, Zenon DEF is_subsequence_of
  <2> QED
    BY <1>3, <2>1, <2>2 DEF get_ordered_segments, Goto
<1> QED
  BY <1>2, <1>3

LEMMA OrderSigns ==
    ASSUME ReaderRead, SavingInv, LayInv, UNCHANGED signVars,
           get_ordered_segments
    PROVE  SavingInv'
<1> DEFINE n == Count + 2
<1>1. /\ obj' = obj /\ pc = "order" /\ pos' = pos /\ made' = made /\ cur' = cur
      /\ back' = back /\ reader' = reader /\ pc' \in {"order", "segment"}
  BY DEF get_ordered_segments, Goto, signVars
<1>2. /\ Signing(obj) /\ Fresh(obj) /\ pos = TablesEnd /\ ~back
      /\ \E l \in 0..n : ordered = Firsts(l) /\ work = Lasts(l, n)
  BY <1>1 DEF SavingInv, Ordering, Laying, InOrder
<1>3. /\ Signing(obj)' /\ Fresh(obj)' /\ TablesEnd' = TablesEnd /\ Count' = Count
      /\ \A g : SectionOf(g)' = SectionOf(g)
  BY <1>1, <1>2, ObjectStays
<1>4. Shape(obj, Count) /\ n \in Nat
  <2>1. Shape(obj, Count)
    BY <1>2, ShapeIs, Zenon
  <2>2. n \in Nat
    BY CopiesCount
  <2> QED
    BY <2>1, <2>2, Zenon
<1>5. cur = 1 /\ made = {}
  BY <1>1 DEF LayInv, Queued, Ordering, Laying
<1>6. PICK l \in 0..n : ordered = Firsts(l) /\ work = Lasts(l, n)
  BY <1>2
<1>7. CASE l # n
  <2>1. /\ pc' = "order" /\ ordered' = Firsts(l + 1)
        /\ work' = Lasts(l + 1, n)
    BY <1>2, <1>4, <1>6, <1>7, OneOrdered
  <2>2. l + 1 \in 0..n
    BY <1>4, <1>7
  <2> HIDE DEF n
  <2>3. \E m \in 0..n : ordered' = Firsts(m) /\ work' = Lasts(m, n)
    BY <2>1, <2>2
  <2>4. InOrder'
    BY <1>3, <2>1, <2>3 DEF InOrder, Ordering, n
  <2> QED
    BY <1>1, <1>2, <1>3, <2>1, <2>4 DEF SavingInv, Ordering, Segmenting, Laying
<1>8. CASE l = n
  <2>1. pc' = "segment" /\ ordered' = Firsts(n)
    BY <1>2, <1>4, <1>6, <1>8, OneOrdered
  <2>2. InOrder'
    BY <1>3, <2>1 DEF InOrder, Ordering
  <2>3. \A g \in 1..n : ~Passed(g)'
    BY <1>1, <1>4, <1>5, <2>1 DEF Passed
  <2>4. \A g \in 1..n : ~obj'.secs[SectionOf(g)].addrSet
    <3> SUFFICES ASSUME NEW g \in 1..n PROVE ~obj'.secs[SectionOf(g)].addrSet
      OBVIOUS
    <3>1. SectionOf(g) \in 3..(Count + 4) /\ Count \in Nat
      BY <1>4 DEF Shape
    <3>2. SectionOf(g) \in DOMAIN obj.secs
      BY <1>4, <3>1 DEF Shape
    <3> QED
      BY <1>1, <1>2, <3>2 DEF Fresh
  <2>5. \A g \in 1..n : ~(g < cur')
    BY <1>1, <1>4, <1>5
  <2>6. made' = {} /\ cur' = 1 /\ pos' = TablesEnd' /\ pc' # "place"
    BY <1>1, <1>2, <1>3, <1>5, <2>1
  <2>7. Segmented'
    BY <1>3, <2>3, <2>4, <2>5, <2>6 DEF Segmented
  <2> QED
    BY <1>1, <1>2, <1>3, <2>1, <2>2, <2>7 DEF SavingInv, Ordering, Segmenting, Laying
<1> QED
  BY <1>7, <1>8

-----------------------------------------------------------------------------
(* A segment is laid out.                                                  *)
LEMMA Here ==
    ASSUME ReaderRead, Signing(obj), InOrder, pc \in Segmenting,
           cur \in DOMAIN ordered
    PROVE  /\ Shape(obj, Count) /\ Count \in Nat
           /\ cur \in 1..(Count + 2) /\ ordered[cur] = cur
           /\ DOMAIN ordered = 1..(Count + 2)
           /\ Seg = obj.segs[cur] /\ Seg.secs = <<SectionOf(cur)>>
           /\ Seg.secs[1] = SectionOf(cur) /\ Len(Seg.secs) = 1
           /\ DOMAIN Seg.secs = {1}
           /\ Sec(1) = obj.secs[SectionOf(cur)]
<1>1. Shape(obj, Count) /\ Count \in Nat
  BY ShapeIs DEF Shape
<1>2. ordered = Firsts(Count + 2)
  BY DEF InOrder, Segmenting, Ordering
<1>3. cur \in 1..(Count + 2) /\ ordered[cur] = cur
      /\ DOMAIN ordered = 1..(Count + 2)
  BY <1>2 DEF Firsts
<1>4. Seg = obj.segs[cur]
  BY <1>3 DEF Seg
<1>5. Seg.secs = <<SectionOf(cur)>>
  BY <1>1, <1>3, <1>4 DEF Shape
<1>6. Seg.secs[1] = SectionOf(cur) /\ Len(Seg.secs) = 1 /\ DOMAIN Seg.secs = {1}
  BY <1>5
<1> QED
  BY <1>1, <1>3, <1>4, <1>5, <1>6 DEF Sec

(* The bytes in front of a segment.                                        *)
LEMMA Divided ==
    ASSUME NEW p \in Int, NEW a \in Nat \ {0}
    PROVE  /\ p \div a \in Int /\ p % a \in 0..(a - 1)
           /\ p = a * (p \div a) + (p % a)
OBVIOUS

LEMMA NoRemainder ==
    ASSUME NEW k \in Int, NEW r \in Int, NEW a \in Nat \ {0},
           r = a * k, 0 <= r, r < a
    PROVE  r = 0
<1>1. CASE k <= 0
  <2>1. a * k <= 0
    BY <1>1
  <2> QED
    BY <2>1
<1>2. CASE k >= 1
  <2>1. a * k >= a
    BY <1>2
  <2> QED
    BY <2>1
<1> QED
  BY <1>1, <1>2

LEMMA Multiple ==
    ASSUME NEW k \in Int, NEW a \in Nat \ {0}
    PROVE  (a * k) % a = 0
<1> DEFINE x == a * k
           t == x \div a
           r == x % a
<1>1. x \in Int
  OBVIOUS
<1>2. /\ t \in Int /\ r \in 0..(a - 1) /\ x = a * t + r
  BY <1>1, Divided
<1> HIDE DEF t, r
<1>3. r = a * (k - t)
  BY <1>2
<1>4. r = 0
  BY <1>2, <1>3, NoRemainder
<1> QED
  BY <1>4 DEF r

LEMMA Congruent ==
    ASSUME NEW p \in Int, NEW v \in Int, NEW a \in Nat \ {0},
           NEW q, q = p + (((v % a) - (p % a)) % a)
    PROVE  q \in Int /\ p <= q /\ q < p + a /\ (q - v) % a = 0
<1> DEFINE e == (v % a) - (p % a)
           d == e % a
           x == p \div a
           y == v \div a
           z == e \div a
           k == x - y - z
<1>1. v % a \in 0..(a - 1) /\ p % a \in 0..(a - 1) /\ x \in Int /\ y \in Int
      /\ p = a * x + (p % a) /\ v = a * y + (v % a)
  BY Divided
<1>2. e \in Int
  BY <1>1
<1>3. z \in Int /\ d \in 0..(a - 1) /\ e = a * z + d
  <2> HIDE DEF e
  <2> QED
    BY <1>2, Divided
<1>4. q = p + d
  OBVIOUS
<1>5. e = (v % a) - (p % a)
  OBVIOUS
<1> HIDE DEF e, d, x, y, z
<1>6. q - v = (a * x - a * y) - a * z
  <2> DEFINE ax == a * x
             ay == a * y
             az == a * z
             rp == p % a
             rv == v % a
  <2>1. /\ ax \in Int /\ ay \in Int /\ az \in Int /\ d \in Int
        /\ rp \in Int /\ rv \in Int
    BY <1>1, <1>3
  <2>2. p = ax + rp /\ v = ay + rv /\ e = az + d /\ e = rv - rp
    BY <1>1, <1>3, <1>5
  <2> HIDE DEF ax, ay, az, rp, rv
  <2>3. q - v = (ax - ay) - az
    BY <1>2, <1>4, <2>1, <2>2
  <2> QED
    BY <2>3 DEF ax, ay, az
<1>7. (a * x - a * y) - a * z = a * k /\ k \in Int
  BY <1>1, <1>3
<1>8. (q - v) % a = 0
  <2> HIDE DEF k
  <2> QED
    BY <1>6, <1>7, Multiple
<1>9. q \in Int /\ p <= q /\ q < p + a
  BY <1>3, <1>4
<1> QED
  BY <1>8, <1>9

LEMMA OpenSigns ==
    ASSUME ReaderRead, SavingInv, LayInv, UNCHANGED signVars, open_segment
    PROVE  SavingInv'
<1>1. /\ obj' = obj /\ pc = "segment" /\ pc' = "place" /\ nth' = 1
      /\ made' = made /\ cur' = cur /\ ordered' = ordered
      /\ back' = back /\ reader' = reader /\ cur \in DOMAIN ordered
  BY DEF open_segment, Goto, signVars
<1>2. /\ Signing(obj) /\ InOrder /\ Segmented /\ ~back
  BY <1>1 DEF SavingInv, Segmenting, Laying
<1>3. /\ Signing(obj)' /\ TablesEnd' = TablesEnd /\ Count' = Count
      /\ \A g : SectionOf(g)' = SectionOf(g)
  BY <1>1, <1>2, ObjectStays
<1>4. /\ Shape(obj, Count) /\ Count \in Nat /\ cur \in 1..(Count + 2)
      /\ Seg = obj.segs[cur] /\ Seg.secs = <<SectionOf(cur)>>
      /\ Seg.secs[1] = SectionOf(cur) /\ Len(Seg.secs) = 1
  BY <1>1, <1>2, Here DEF Segmenting
<1>5. Seg.secs # <<>>
  BY <1>4
<1>6. SectionOf(cur) \notin made
  BY <1>1, <1>2, <1>4 DEF Segmented, Passed
<1> DEFINE a == Seg.align
           v == Seg.vaddr
<1>7. /\ pos' = pos + (((v % a) - (pos % a)) % a) /\ start' = pos'
      /\ mem' = 0 /\ fsz' = 0
  <2>1. ~PhdrSegment /\ ~FileHeaderSegment /\ ~NestedSegment /\ ~EmptySegment
    BY <1>4, <1>5, <1>6 DEF PhdrSegment, FileHeaderSegment, NullFirst,
                            NestedSegment, EmptySegment
  <2> QED
    BY <2>1, Zenon DEF open_segment, AlignedSegment
<1>8. a \in Nat \ {0} /\ v \in Int
  BY <1>4 DEF Shape
<1>9. pos \in Int /\ TablesEnd <= pos /\ TablesEnd \in Int
  <2>1. Saveable(obj)
    BY <1>2 DEF Signing, Parts
  <2> QED
    BY <1>1, <1>2, <2>1, Tables DEF LayInv, Laying, Segmenting, Placed
<1>10. pos' \in Int /\ pos <= pos' /\ pos' < pos + a /\ (pos' - v) % a = 0
  <2> HIDE DEF a, v
  <2>1. pos \in Int /\ pos' = pos + (((v % a) - (pos % a)) % a)
    BY <1>7, <1>9, Zenon
  <2> QED
    BY <1>8, <2>1, Congruent, Zenon
<1>11. cur = 1 => pos' <= TablesEnd + 3
  <2> SUFFICES ASSUME cur = 1 PROVE pos' <= TablesEnd + 3
    OBVIOUS
  <2>1. pos = TablesEnd
    BY <1>1, <1>2 DEF Segmented
  <2>2. a = 4
    BY <1>4 DEF Shape
  <2> QED
    BY <1>9, <1>10, <2>1, <2>2
<1>12. cur = 2 => pos' < TablesEnd + 3 + HASH_SE_ALIGN
  <2> SUFFICES ASSUME cur = 2 PROVE pos' < TablesEnd + 3 + HASH_SE_ALIGN
    OBVIOUS
  <2>1. pos <= TablesEnd + 3
    BY <1>1, <1>2 DEF Segmented
  <2>2. a = HASH_SE_ALIGN
    BY <1>4 DEF Shape
  <2> QED
    BY <1>9, <1>10, <2>1, <2>2 DEF HASH_SE_ALIGN
<1>13. StartOf(cur, start)'
  <2>1. obj'.segs[cur'].align = a /\ obj'.segs[cur'].vaddr = v
    BY <1>1, <1>4
  <2> HIDE DEF a, v
  <2> QED
    BY <1>1, <1>3, <1>7, <1>9, <1>10, <1>12, <2>1 DEF StartOf
<1>14. \A g \in 1..(Count + 2) : Passed(g)' <=> Passed(g)
  BY <1>1 DEF Passed
<1>15. \A g \in 1..(Count + 2) : Laid(g)' <=> Laid(g)
  BY <1>1, <1>3 DEF Laid, StartOf, SectionAt
<1>16. Segmented'
  BY <1>1, <1>2, <1>3, <1>7, <1>11, <1>13, <1>14, <1>15 DEF Segmented
<1>17. InOrder'
  BY <1>1, <1>2, <1>3 DEF InOrder, Ordering
<1> QED
  BY <1>1, <1>2, <1>3, <1>16, <1>17 DEF SavingInv, Ordering, Segmenting, Laying

-----------------------------------------------------------------------------
(* No segment has a null section or one of another segment.                *)
LEMMA PlacingHere ==
    ASSUME ReaderRead, SavingInv, LayInv, Placing
    PROVE  /\ pc = "place" /\ Signing(obj) /\ InOrder /\ Segmented /\ ~back
           /\ Shape(obj, Count) /\ Count \in Nat
           /\ cur \in 1..(Count + 2) /\ cur \in DOMAIN ordered
           /\ ordered[cur] = cur /\ nth = 1
           /\ Seg = obj.segs[cur] /\ Seg.secs[nth] = SectionOf(cur)
           /\ Sec(nth) = obj.secs[SectionOf(cur)]
           /\ Sec(nth).type # "NULL" /\ SectionOf(cur) \notin made
           /\ ~obj.secs[SectionOf(cur)].addrSet
<1>1. pc = "place" /\ cur \in DOMAIN ordered /\ nth \in DOMAIN Seg.secs
  BY SectionHere
<1>2. /\ Signing(obj) /\ InOrder /\ Segmented /\ ~back
  BY <1>1 DEF SavingInv, Segmenting, Laying
<1>3. /\ Shape(obj, Count) /\ Count \in Nat /\ cur \in 1..(Count + 2)
      /\ Seg = obj.segs[cur] /\ Seg.secs[1] = SectionOf(cur)
      /\ DOMAIN Seg.secs = {1} /\ Sec(1) = obj.secs[SectionOf(cur)]
      /\ ordered[cur] = cur
  BY <1>1, <1>2, Here DEF Segmenting
<1>4. nth = 1
  BY <1>1, <1>3
<1>5. ~Passed(cur)
  BY <1>3, <1>4 DEF Passed
<1>6. SectionOf(cur) \notin made /\ ~obj.secs[SectionOf(cur)].addrSet
  BY <1>2, <1>3, <1>5 DEF Segmented
<1>7. obj.secs[SectionOf(cur)].type # "NULL"
  BY <1>3 DEF Shape
<1> QED
  BY <1>1, <1>2, <1>3, <1>4, <1>6, <1>7

LEMMA NeitherNullNorMade ==
    ASSUME ReaderRead, SavingInv, LayInv
    PROVE  ~null_section /\ ~made_section
<1>1. ASSUME Placing
      PROVE  Sec(nth).type # "NULL" /\ Seg.secs[nth] \notin made
  BY <1>1, PlacingHere
<1> QED
  BY <1>1 DEF null_section, made_section

LEMMA AlignmentIsSet ==
    ASSUME ReaderRead, SavingInv, LayInv
    PROVE  ~crash_on_alignment
<1> SUFFICES ASSUME crash_on_alignment PROVE FALSE
  OBVIOUS
<1>1. pc = "segment" /\ cur \in DOMAIN ordered /\ Seg.align = 0
  BY DEF crash_on_alignment
<1>2. Signing(obj) /\ InOrder
  BY DEF SavingInv
<1>3. Shape(obj, Count) /\ cur \in 1..(Count + 2) /\ Seg = obj.segs[cur]
  BY <1>1, <1>2, Here DEF Segmenting
<1> QED
  BY <1>1, <1>3 DEF Shape

(* What the layout of a section changes.                                   *)
LEMMA SigningPlaced ==
    ASSUME ReaderRead, Signing(obj), NEW k \in Sections, NEW s,
           Placeable(s, obj.secs[k]), SameSec(s, obj.secs[k]),
           obj' = [obj EXCEPT !.secs = [obj.secs EXCEPT ![k] = s]],
           UNCHANGED reader
    PROVE  /\ Signing(obj)' /\ obj'.segs = obj.segs /\ obj'.secs[k] = s
           /\ \A l \in Sections : l # k => obj'.secs[l] = obj.secs[l]
           /\ TablesEnd' = TablesEnd /\ Count' = Count
           /\ \A g : SectionOf(g)' = SectionOf(g)
<1>1. Saveable(obj)
  BY DEF Signing, Parts
<1>2. /\ Saveable(obj') /\ Sections' = Sections
      /\ obj'.segs = obj.segs /\ obj'.hdr = obj.hdr /\ obj'.secs[k] = s
      /\ \A l \in Sections : l # k => obj'.secs[l] = obj.secs[l]
  BY <1>1, SectionChanged
<1>3. obj.secs \in Seq(Range(obj.secs)) /\ obj'.secs \in Seq(Range(obj'.secs))
  BY <1>1, <1>2 DEF Saveable
<1>4. Sections = 1..Len(obj.secs) /\ Len(obj'.secs) = Len(obj.secs)
  <2>1. DOMAIN obj.secs = 1..Len(obj.secs) /\ Len(obj.secs) \in Nat
        /\ DOMAIN obj'.secs = 1..Len(obj'.secs) /\ Len(obj'.secs) \in Nat
    BY <1>3, LenProperties
  <2> QED
    BY <1>2, <2>1 DEF Sections
<1>5. \A l \in 1..Len(obj.secs) : SameSec(obj'.secs[l], obj.secs[l])
  BY <1>2, <1>4 DEF SameSec
<1>6. \A g \in 1..Len(obj.segs) : SameSeg(obj'.segs[g], obj.segs[g])
  BY <1>2 DEF SameSeg
<1>7. Signing(obj')
  BY <1>2, <1>4, <1>5, <1>6, SigningKept
<1>8. Count' = Count
  BY ReaderStays
<1>9. TablesEnd' = TablesEnd
  BY <1>2 DEF TablesEnd, PhdrsSize
<1>10. \A g : SectionOf(g)' = SectionOf(g)
  BY <1>8 DEF SectionOf
<1> QED
  BY <1>2, <1>7, <1>8, <1>9, <1>10, SigningStays

LEMMA PaddingOne ==
    ASSUME NEW p \in Int
    PROVE  Padding(p, 1) = 0
BY DEF Padding

-----------------------------------------------------------------------------
(* A section goes where its segment starts, or to the next page.           *)
LEMMA ShiftHere ==
    ASSUME ReaderRead, SavingInv, LayInv, Placing
    PROVE  LET s == obj.secs[SectionOf(cur)]
           IN  /\ s.align \in Nat \ {0} /\ Shift(s) = Padding(pos, s.align)
               /\ Shift(s) \in Nat /\ s.size \in Nat
               /\ cur # 2 => Shift(s) = 0
<1> DEFINE s == obj.secs[SectionOf(cur)]
<1>1. /\ Shape(obj, Count) /\ Count \in Nat /\ cur \in 1..(Count + 2)
      /\ ~s.addrSet /\ pc = "place"
  BY PlacingHere
<1>2. pos \in Int
  BY <1>1 DEF LayInv, Laying, Segmenting
<1>3. s.size \in Nat
  BY <1>1 DEF Shape
<1>4. /\ cur = 1 => s.align = 1
      /\ cur = 2 => s.align = HASH_SE_ALIGN
      /\ cur # 1 /\ cur # 2 => s.align = 1
  <2>1. cur = 1 => s.align = 1
    BY <1>1 DEF Shape
  <2>2. cur = 2 => s.align = HASH_SE_ALIGN
    BY <1>1 DEF Shape
  <2>3. ASSUME cur # 1, cur # 2 PROVE s.align = 1
    <3>1. cur \in 3..(Count + 2)
      BY <1>1, <2>3
    <3> QED
      BY <1>1, <3>1 DEF Shape
  <2> QED
    BY <2>1, <2>2, <2>3
<1> HIDE DEF s
<1>5. s.align \in Nat \ {0}
  BY <1>4 DEF HASH_SE_ALIGN
<1>6. Shift(s) = Padding(pos, s.align)
  BY <1>1, <1>5 DEF Shift
<1>7. Shift(s) \in Nat
  BY <1>2, <1>5, <1>6, Pads
<1>8. cur # 2 => Shift(s) = 0
  BY <1>2, <1>4, <1>6, PaddingOne
<1> QED
  BY <1>3, <1>5, <1>6, <1>7, <1>8 DEF s

PlacedHere(k, p) ==
    /\ obj'.segs = obj.segs /\ obj'.secs[k].offset = p
    /\ \A l \in Sections : l # k => obj'.secs[l] = obj.secs[l]
    /\ obj'.secs[k].size = obj.secs[k].size
    /\ Signing(obj)' /\ TablesEnd' = TablesEnd /\ Count' = Count
    /\ \A g : SectionOf(g)' = SectionOf(g)

LEMMA PlacedIs ==
    ASSUME ReaderRead, SavingInv, LayInv, UNCHANGED reader, place_section
    PROVE  PlacedHere(SectionOf(cur), pos + Shift(obj.secs[SectionOf(cur)]))
<1> DEFINE k == SectionOf(cur)
           s == obj.secs[k]
           p == pos + Shift(s)
           t == [s EXCEPT !.offset = p,
                          !.addr = Seg.vaddr + p - start,
                          !.addrSet = TRUE]
<1>1. Placing
  BY DEF place_section
<1>2. /\ Signing(obj) /\ Shape(obj, Count) /\ Count \in Nat
      /\ cur \in 1..(Count + 2) /\ Seg.secs[nth] = k /\ Sec(nth) = s
      /\ ~s.addrSet /\ pc = "place"
  BY <1>1, PlacingHere
<1>3. /\ cur \in DOMAIN ordered /\ start \in Int /\ pos \in Int
      /\ Seg.vaddr \in Int /\ k \in Sections
  <2>1. cur \in DOMAIN ordered /\ start \in Int /\ k \in Sections
    BY <1>1, <1>2, SectionHere
  <2> QED
    BY <1>2, <2>1, SegmentHere DEF Segmenting
<1>4. k # 1
  BY <1>2 DEF Shape
<1>5. Shift(s) \in Nat
  BY <1>1, ShiftHere
<1>6. DOMAIN s = DOMAIN NewSection /\ s.addr \in Int /\ s.offset \in Int
  <2>1. Saveable(obj)
    BY <1>2 DEF Signing, Parts
  <2> QED
    BY <1>3, <2>1 DEF Saveable, Sections
<1>7. obj' = [obj EXCEPT !.secs = [obj.secs EXCEPT ![k] = t]]
  BY <1>2, <1>4 DEF place_section
<1>8. p \in Int /\ Seg.vaddr + p - start \in Int
  BY <1>3, <1>5
<1> HIDE DEF k, s, p
<1>9. /\ DOMAIN t = DOMAIN NewSection /\ t.type = s.type /\ t.size = s.size
      /\ t.align = s.align /\ t.alloc = s.alloc /\ t.tls = s.tls
      /\ t.data = s.data
      /\ t.addr = Seg.vaddr + p - start /\ t.offset = p
  BY <1>6 DEF NewSection
<1> HIDE DEF t
<1>10. Placeable(t, obj.secs[k]) /\ SameSec(t, obj.secs[k])
  BY <1>8, <1>9 DEF Placeable, SameSec, s
<1>11. /\ Signing(obj)' /\ obj'.segs = obj.segs /\ obj'.secs[k] = t
       /\ \A l \in Sections : l # k => obj'.secs[l] = obj.secs[l]
       /\ TablesEnd' = TablesEnd /\ Count' = Count
       /\ \A g : SectionOf(g)' = SectionOf(g)
  BY <1>2, <1>3, <1>7, <1>10, SigningPlaced
<1>12. PlacedHere(k, p)
  BY <1>9, <1>11 DEF PlacedHere, s
<1> QED
  BY <1>12 DEF p, k, s

LEMMA PlaceSigns ==
    ASSUME ReaderRead, SavingInv, LayInv, UNCHANGED signVars, place_section
    PROVE  SavingInv'
<1> DEFINE k == SectionOf(cur)
           s == obj.secs[k]
           d == Shift(s)
           p == pos + d
           n == Count + 2
<1>1. Placing /\ reader' = reader
  BY DEF place_section, signVars
<1>2. /\ pc = "place" /\ Signing(obj) /\ InOrder /\ Segmented /\ ~back
      /\ Shape(obj, Count) /\ Count \in Nat
      /\ cur \in 1..n /\ nth = 1
      /\ Seg = obj.segs[cur] /\ Seg.secs[nth] = k /\ Sec(nth) = s
  BY <1>1, PlacingHere
<1>3. d \in Nat /\ s.size \in Nat /\ (cur # 2 => d = 0)
      /\ d = Padding(pos, s.align)
  BY <1>1, ShiftHere
<1>4. PlacedHere(k, p)
  BY <1>1, PlacedIs
<1>5. /\ pc' = "place" /\ cur' = cur /\ nth' = 2 /\ start' = start
      /\ ordered' = ordered /\ made' = made \cup {k}
      /\ back' = (back \/ p < pos)
      /\ pos' = (IF HasBytes(s) THEN p + s.size ELSE p)
      /\ mem' = mem + InMemory(s, d) /\ fsz' = fsz + InFile(s, d)
  BY <1>2 DEF place_section, Grow
<1>6. pos \in Int /\ pos = start /\ mem = 0 /\ fsz = 0 /\ StartOf(cur, start)
  BY <1>2 DEF LayInv, Laying, Segmenting, Segmented
<1>7. ~back'
  <2>1. ~(p < pos)
    <3> HIDE DEF d
    <3> QED
      BY <1>3, <1>6
  <2> HIDE DEF p
  <2> QED
    BY <1>2, <1>5, <2>1, Zenon
<1>8. InOrder'
  BY <1>2, <1>4, <1>5 DEF InOrder, Ordering, PlacedHere
<1>9. \A g \in 1..n : Passed(g)' <=> Passed(g) \/ g = cur
  BY <1>2, <1>5 DEF Passed
<1>10. \A g \in 1..n : SectionOf(g) \in 3..(Count + 4)
                       /\ (g # cur => SectionOf(g) # k)
                       /\ SectionOf(g) \in Sections
  <2>1. \A g \in 1..n : /\ SectionOf(g) \in 3..(Count + 4)
                        /\ \A l \in 1..n : l # g => SectionOf(l) # SectionOf(g)
    BY <1>2, Zenon DEF Shape
  <2>2. Sections = 1..(Count + 4) /\ Count \in Nat /\ cur \in 1..n
    BY <1>2, Zenon DEF Shape, Sections
  <2>3. \A m \in 3..(Count + 4) : m \in Sections
    BY <2>2
  <2> HIDE DEF n
  <2> QED
    BY <2>1, <2>2, <2>3, Zenon DEF k
<1>11. \A g \in 1..n : SectionOf(g)' \in made' <=> Passed(g)'
  <2> SUFFICES ASSUME NEW g \in 1..n
               PROVE  SectionOf(g) \in made' <=> Passed(g)'
    BY <1>4 DEF PlacedHere
  <2>1. SectionOf(g) \in made <=> Passed(g)
    BY <1>2 DEF Segmented
  <2>2. SectionOf(g) \in made' <=> SectionOf(g) \in made \/ SectionOf(g) = k
    BY <1>5
  <2>3. SectionOf(g) = k <=> g = cur
    BY <1>10
  <2> QED
    BY <1>9, <2>1, <2>2, <2>3
<1>12. \A g \in 1..n : ~Passed(g)' => ~obj'.secs[SectionOf(g)].addrSet
  <2> SUFFICES ASSUME NEW g \in 1..n, ~Passed(g)'
               PROVE  ~obj'.secs[SectionOf(g)].addrSet
    OBVIOUS
  <2>1. ~Passed(g) /\ g # cur
    BY <1>9
  <2>2. ~obj.secs[SectionOf(g)].addrSet
    BY <1>2, <2>1 DEF Segmented
  <2>3. obj'.secs[SectionOf(g)] = obj.secs[SectionOf(g)]
    BY <1>4, <1>10, <2>1 DEF PlacedHere
  <2> QED
    BY <2>2, <2>3
<1>13. \A g \in 1..n : g < cur' => Laid(g)'
  <2> SUFFICES ASSUME NEW g \in 1..n, g < cur PROVE Laid(g)'
    BY <1>5
  <2>1. Laid(g) /\ g # cur
    BY <1>2 DEF Segmented
  <2>2. g # 1 => obj'.secs[g + 1] = obj.secs[g + 1]
    <3>1. g # 1 => SectionOf(g) = g + 1
      BY SectionOfIs
    <3> QED
      BY <1>4, <1>10, <2>1, <3>1 DEF PlacedHere
  <2>3. g = 2 => obj'.secs[3] = obj.secs[3]
    BY <2>2
  <2>4. StartOf(g, obj.segs[g].offset)'
    BY <1>4, <2>1 DEF Laid, StartOf, PlacedHere
  <2>5. SectionAt(g, obj.segs[g].offset, obj.segs[g].filesz, obj.segs[g].memsz)'
    BY <1>4, <2>1, <2>2, <2>3 DEF Laid, SectionAt, PlacedHere
  <2> QED
    BY <2>4, <2>5 DEF Laid
<1>14. StartOf(cur, start)'
  BY <1>4, <1>5, <1>6 DEF StartOf, PlacedHere
<1>15. mem' \in Nat /\ fsz' \in Nat
  BY <1>3, <1>5, <1>6 DEF InMemory, InFile
<1>16. SectionAt(cur, start, fsz, mem)'
  <2>1. CASE cur = 1
    BY <1>5, <1>15, <2>1 DEF SectionAt
  <2>2. CASE cur = 2
    <3>1. k = 3 /\ s.align = HASH_SE_ALIGN
      BY <1>2, <2>2 DEF Shape
    <3>2. obj'.secs[3].offset = start' + Padding(start', HASH_SE_ALIGN)
      BY <1>3, <1>4, <1>5, <1>6, <3>1 DEF PlacedHere
    <3> QED
      BY <1>5, <1>15, <2>2, <3>2 DEF SectionAt
  <2>3. CASE cur # 1 /\ cur # 2
    <3>1. cur \in 3..(Count + 2)
      BY <1>2, <2>3
    <3>2. k = cur + 1 /\ s.type = "PROGBITS" /\ s.alloc /\ ~s.tls
      BY <1>2, <3>1 DEF Shape
    <3>3. d = 0 /\ mem' = s.size /\ fsz' = s.size
      BY <1>3, <1>5, <1>6, <2>3, <3>2 DEF InMemory, InFile
    <3>4. obj'.secs[cur + 1].offset = start /\ obj'.secs[cur + 1].size = s.size
      BY <1>4, <1>6, <3>2, <3>3 DEF PlacedHere
    <3> QED
      BY <1>5, <1>15, <2>3, <3>3, <3>4 DEF SectionAt
  <2> QED
    BY <2>1, <2>2, <2>3
<1>17. cur = 1 => pos' <= TablesEnd'
                    + 3
  <2> SUFFICES ASSUME cur = 1 PROVE pos' <= TablesEnd + 3
    BY <1>4 DEF PlacedHere
  <2>1. s.type = "NOBITS"
    BY <1>2 DEF Shape
  <2>2. pos' = pos
    BY <1>3, <1>5, <1>6, <2>1 DEF HasBytes
  <2> QED
    BY <1>2, <2>2 DEF Segmented
<1> HIDE DEF k, s, d, p
<1>18. Segmented'
  <2>1. Count' = Count /\ TablesEnd' = TablesEnd /\ \A g : SectionOf(g)' = SectionOf(g)
    BY <1>4 DEF PlacedHere
  <2> QED
    BY <1>5, <1>11, <1>12, <1>13, <1>14, <1>16, <1>17, <2>1 DEF Segmented
<1>19. Signing(obj)'
  BY <1>4 DEF PlacedHere
<1> QED
  BY <1>5, <1>7, <1>8, <1>18, <1>19 DEF SavingInv, Ordering, Segmenting, Laying

-----------------------------------------------------------------------------
(* A segment is closed.                                                    *)
ClosedHere(o, g) ==
    /\ Signing(o) /\ o.secs = obj.secs
    /\ o.hdr = obj.hdr /\ Len(o.segs) = Len(obj.segs)
    /\ o.segs[g].filesz = fsz /\ o.segs[g].memsz = mem
    /\ o.segs[g].offset = start
    /\ o.segs[g].align = obj.segs[g].align /\ o.segs[g].vaddr = obj.segs[g].vaddr
    /\ \A l \in Segments : l # g => o.segs[l] = obj.segs[l]

LEMMA ClosedIs ==
    ASSUME ReaderRead, Signing(obj), start \in Int, NEW g \in Segments,
           obj' = [obj EXCEPT !.segs[g] =
                 [@ EXCEPT !.filesz = fsz, !.memsz = mem, !.offset = start,
                           !.offsetSet = TRUE]]
    PROVE  ClosedHere(obj', g)
<1> DEFINE h == [obj.segs[g] EXCEPT !.filesz = fsz, !.memsz = mem,
                                    !.offset = start, !.offsetSet = TRUE]
<1>1. Saveable(obj)
  BY DEF Signing, Parts
<1>2. obj' = [obj EXCEPT !.segs = [obj.segs EXCEPT ![g] = h]]
  OBVIOUS
<1>3. DOMAIN obj.segs[g] = DOMAIN NewSegment
  BY <1>1 DEF Saveable, Segments
<1>4. /\ DOMAIN h = DOMAIN NewSegment /\ h.type = obj.segs[g].type
      /\ h.flags = obj.segs[g].flags /\ h.vaddr = obj.segs[g].vaddr
      /\ h.paddr = obj.segs[g].paddr /\ h.align = obj.segs[g].align
      /\ h.secs = obj.segs[g].secs /\ h.filesz = fsz /\ h.memsz = mem
      /\ h.offset = start
  BY <1>3 DEF NewSegment
<1> HIDE DEF h
<1>5. /\ Saveable(obj') /\ Segments' = Segments
      /\ obj'.secs = obj.secs /\ obj'.hdr = obj.hdr
      /\ Len(obj'.segs) = Len(obj.segs)
  BY <1>1, <1>2, <1>4, SegmentChanged
<1>6. /\ obj'.segs[g] = h
      /\ \A l \in Segments : l # g => obj'.segs[l] = obj.segs[l]
  <2>1. DOMAIN obj = {"hdr", "secs", "segs"}
    BY <1>1 DEF Saveable
  <2>2. obj'.segs = [obj.segs EXCEPT ![g] = h]
    BY <1>2, <2>1
  <2> QED
    BY <2>2 DEF Segments
<1>7. Segments = 1..Len(obj.segs)
  <2>1. obj.segs \in Seq(Range(obj.segs))
    BY <1>1 DEF Saveable
  <2> QED
    BY <2>1, LenProperties DEF Segments
<1>8. \A l \in 1..Len(obj.segs) : SameSeg(obj'.segs[l], obj.segs[l])
  BY <1>4, <1>6, <1>7 DEF SameSeg
<1>9. \A l \in 1..Len(obj.secs) : SameSec(obj'.secs[l], obj.secs[l])
  BY <1>5 DEF SameSec
<1>10. Signing(obj')
  BY <1>5, <1>8, <1>9, SigningKept
<1> QED
  BY <1>4, <1>5, <1>6, <1>10 DEF ClosedHere

LEMMA CloseSigns ==
    ASSUME ReaderRead, SavingInv, LayInv, UNCHANGED signVars, close_segment
    PROVE  SavingInv'
<1> DEFINE n == Count + 2
<1>1. /\ pc = "place" /\ nth \notin DOMAIN Seg.secs /\ reader' = reader
      /\ cur' = cur + 1 /\ pc' = "segment" /\ pos' = pos /\ ordered' = ordered
      /\ made' = made /\ back' = back
  BY DEF close_segment, Goto, signVars
<1>2. /\ Signing(obj) /\ InOrder /\ Segmented /\ ~back
  BY <1>1 DEF SavingInv, Segmenting, Laying
<1>3. cur \in DOMAIN ordered /\ start \in Int
  BY <1>1 DEF LayInv, Reached, Laying, Segmenting
<1>4. /\ Shape(obj, Count) /\ Count \in Nat /\ cur \in 1..n
      /\ ordered[cur] = cur /\ DOMAIN Seg.secs = {1}
  BY <1>1, <1>2, <1>3, Here DEF Segmenting
<1>5. /\ nth = 2 /\ StartOf(cur, start) /\ SectionAt(cur, start, fsz, mem)
  BY <1>1, <1>2, <1>4 DEF Segmented
<1>6. cur \in Segments /\ Segments = 1..n
  BY <1>4 DEF Shape, Segments
<1>7. ClosedHere(obj', cur)
  BY <1>2, <1>3, <1>4, <1>6, ClosedIs DEF close_segment
<1>8. Count' = Count
  BY <1>1, ReaderStays
<1>9. \A g : SectionOf(g)' = SectionOf(g)
  BY <1>8 DEF SectionOf
<1>10. TablesEnd' = TablesEnd
  BY <1>7 DEF ClosedHere, TablesEnd, PhdrsSize
<1>11. \A g \in 1..n : Passed(g)' <=> Passed(g)
  BY <1>1, <1>4, <1>5 DEF Passed
<1>12. \A g \in 1..n : g < cur' => Laid(g)'
  <2> SUFFICES ASSUME NEW g \in 1..n, g < cur + 1 PROVE Laid(g)'
    BY <1>1
  <2>1. CASE g = cur
    <3>1. /\ obj'.segs[g].align = obj.segs[g].align
          /\ obj'.segs[g].vaddr = obj.segs[g].vaddr
          /\ obj'.segs[g].offset = start /\ obj'.segs[g].filesz = fsz
          /\ obj'.segs[g].memsz = mem /\ obj'.secs = obj.secs
      BY <1>7, <2>1 DEF ClosedHere
    <3>2. StartOf(g, start) /\ SectionAt(g, start, fsz, mem)
      BY <1>5, <2>1
    <3> QED
      BY <1>10, <3>1, <3>2 DEF Laid, StartOf, SectionAt
  <2>2. CASE g # cur
    <3>1. Laid(g) /\ obj'.segs[g] = obj.segs[g]
      BY <1>2, <1>4, <1>6, <1>7, <2>2 DEF Segmented, ClosedHere
    <3> QED
      BY <1>7, <1>10, <3>1 DEF Laid, StartOf, SectionAt, ClosedHere
  <2> QED
    BY <2>1, <2>2
<1>13. cur' = 2 => pos' <= TablesEnd' + 3
  BY <1>1, <1>2, <1>4, <1>10 DEF Segmented
<1>14. cur' # 1
  BY <1>1, <1>4
<1>15. \A g \in 1..n : ~Passed(g)' => ~obj'.secs[SectionOf(g)].addrSet
  BY <1>2, <1>7, <1>11 DEF Segmented, ClosedHere
<1>16. \A g \in 1..n : SectionOf(g) \in made' <=> Passed(g)'
  BY <1>1, <1>2, <1>11 DEF Segmented
<1>17. Segmented'
  BY <1>1, <1>8, <1>9, <1>12, <1>13, <1>14, <1>15, <1>16 DEF Segmented
<1>18. InOrder'
  BY <1>1, <1>2, <1>8 DEF InOrder, Ordering
<1>19. Signing(obj)'
  BY <1>1, <1>7, SigningStays DEF ClosedHere
<1> QED
  BY <1>1, <1>2, <1>17, <1>18, <1>19 DEF SavingInv, Ordering, Segmenting, Laying

LEMMA DoneSigns ==
    ASSUME ReaderRead, SavingInv, LayInv, UNCHANGED signVars, segments_done
    PROVE  SavingInv'
<1> DEFINE n == Count + 2
<1>1. /\ pc = "segment" /\ cur \notin DOMAIN ordered /\ reader' = reader
      /\ pc' = "loose" /\ ordered' = ordered /\ obj' = obj /\ back' = back
  BY DEF segments_done, Goto, signVars
<1>2. /\ Signing(obj) /\ InOrder /\ Segmented /\ ~back
  BY <1>1 DEF SavingInv, Segmenting, Laying
<1>3. cur \in Nat \ {0}
  BY <1>1 DEF LayInv, Reached, Laying, Segmenting
<1>4. DOMAIN ordered = 1..n /\ Count \in Nat
  <2>1. ordered = Firsts(n)
    BY <1>1, <1>2 DEF InOrder, Ordering
  <2> QED
    BY <1>2, <2>1, ShapeIs DEF Firsts, Shape
<1>5. \A g \in 1..n : g < cur
  BY <1>1, <1>3, <1>4
<1>6. \A g \in 1..n : Laid(g)
  BY <1>2, <1>5 DEF Segmented
<1>7. Signing(obj)' /\ TablesEnd' = TablesEnd /\ Count' = Count
  BY <1>1, <1>2, ObjectStays
<1>8. \A g \in 1..n : Laid(g)'
  BY <1>1, <1>6, <1>7 DEF Laid, StartOf, SectionAt
<1>9. InOrder'
  BY <1>1, <1>2, <1>7 DEF InOrder, Ordering
<1> QED
  BY <1>1, <1>2, <1>7, <1>8, <1>9 DEF SavingInv, Ordering, Segmenting, Laying

LEMMA ObjectSigns ==
    ASSUME ReaderRead, SavingInv, UNCHANGED signVars,
           layout_section_table \/ write_file
    PROVE  SavingInv'
<1>1. /\ pc \in {"loose", "write"} /\ pc' \in {"write", "saved"}
      /\ obj' = obj /\ ordered' = ordered /\ back' = back /\ reader' = reader
      /\ pc' = "saved" => file' = FileOf(obj, pos) /\ pos' = pos
  BY DEF layout_section_table, write_file, Goto, signVars, layoutVars
<1>2. /\ Signing(obj) /\ InOrder /\ ~back
      /\ \A g \in 1..(Count + 2) : Laid(g)
  BY <1>1 DEF SavingInv, Segmenting, Laying
<1>3. Signing(obj)' /\ TablesEnd' = TablesEnd /\ Count' = Count
  BY <1>1, <1>2, ObjectStays
<1>4. \A g \in 1..(Count + 2) : Laid(g)'
  BY <1>1, <1>2, <1>3 DEF Laid, StartOf, SectionAt
<1>5. InOrder'
  BY <1>1, <1>2, <1>3 DEF InOrder, Ordering
<1>6. (pc = "saved" => file = FileOf(obj, pos))'
  BY <1>1
<1> QED
  BY <1>1, <1>2, <1>3, <1>4, <1>5, <1>6
  DEF SavingInv, Ordering, Segmenting, Laying

LEMMA LooseSigns ==
    ASSUME ReaderRead, SavingInv, LayInv, UNCHANGED signVars,
           layout_loose_section
    PROVE  SavingInv'
<1> DEFINE s == obj.secs[cur]
           p == IF s.align > 1 THEN pos + Padding(pos, s.align) ELSE pos
           o == IF cur = 1 THEN s.offset ELSE p
           t == [s EXCEPT !.offset = o]
           n == Count + 2
<1>1. /\ pc = "loose" /\ pc' = "loose" /\ cur \in Sections /\ reader' = reader
      /\ ordered' = ordered /\ back' = back
  BY DEF layout_loose_section, signVars, Sections
<1>2. /\ Signing(obj) /\ InOrder /\ ~back /\ \A g \in 1..n : Laid(g)
  BY <1>1 DEF SavingInv, Segmenting, Laying
<1>3. Shape(obj, Count)
  BY <1>2, ShapeIs
<1>4. CASE ~is_section_without_segment(obj, cur)
  <2>1. obj' = obj
    BY <1>4 DEF layout_loose_section
  <2>2. Signing(obj)' /\ TablesEnd' = TablesEnd /\ Count' = Count
    BY <1>1, <1>2, <2>1, ObjectStays
  <2>3. \A g \in 1..n : Laid(g)'
    BY <1>2, <2>1, <2>2 DEF Laid, StartOf, SectionAt
  <2>4. InOrder'
    BY <1>1, <1>2, <2>2 DEF InOrder, Ordering
  <2> QED
    BY <1>1, <1>2, <2>2, <2>3, <2>4 DEF SavingInv, Ordering, Segmenting, Laying
<1>5. CASE is_section_without_segment(obj, cur)
  <2>1. obj' = [obj EXCEPT !.secs = [obj.secs EXCEPT ![cur] = t]]
    BY <1>5 DEF layout_loose_section
  <2>2. /\ DOMAIN s = DOMAIN NewSection /\ s.addr \in Int /\ s.offset \in Int
        /\ s.align \in Nat /\ pos \in Int
    <3>1. Saveable(obj) /\ pos \in Int
      BY <1>1 DEF LayInv, Laying
    <3> QED
      BY <1>1, <3>1 DEF Saveable, Sections
  <2> HIDE DEF s
  <2>3. o \in Int
    <3>1. s.align > 1 => Padding(pos, s.align) \in Nat
      BY <2>2, Pads
    <3> QED
      BY <2>2, <3>1
  <2> HIDE DEF o
  <2>4. /\ DOMAIN t = DOMAIN NewSection /\ t.type = s.type /\ t.size = s.size
        /\ t.align = s.align /\ t.alloc = s.alloc /\ t.tls = s.tls
        /\ t.data = s.data /\ t.addr = s.addr /\ t.offset = o
    BY <2>2 DEF NewSection
  <2> HIDE DEF t
  <2>5. Placeable(t, obj.secs[cur]) /\ SameSec(t, obj.secs[cur])
    BY <2>2, <2>3, <2>4 DEF Placeable, SameSec, s
  <2>6. /\ Signing(obj)' /\ obj'.segs = obj.segs
        /\ \A l \in Sections : l # cur => obj'.secs[l] = obj.secs[l]
        /\ TablesEnd' = TablesEnd /\ Count' = Count
    BY <1>1, <1>2, <2>1, <2>5, SigningPlaced
  <2>7. \A g \in 1..n : SectionOf(g) # cur /\ SectionOf(g) \in Sections
    <3> SUFFICES ASSUME NEW g \in 1..n
                 PROVE  SectionOf(g) # cur /\ SectionOf(g) \in Sections
      OBVIOUS
    <3>1. obj.segs[g].secs = <<SectionOf(g)>> /\ g \in DOMAIN obj.segs
      BY <1>3 DEF Shape
    <3>2. 1 \in DOMAIN obj.segs[g].secs /\ obj.segs[g].secs[1] = SectionOf(g)
      BY <3>1
    <3>3. SectionOf(g) # cur
      BY <1>5, <3>1, <3>2 DEF is_section_without_segment
    <3>4. SectionOf(g) \in 3..(Count + 4) /\ Sections = 1..(Count + 4)
          /\ Count \in Nat
      BY <1>3 DEF Shape, Sections
    <3> QED
      BY <3>3, <3>4
  <2>8. \A g \in 1..n : g # 1 => obj'.secs[g + 1] = obj.secs[g + 1]
    <3> SUFFICES ASSUME NEW g \in 1..n, g # 1
                 PROVE  obj'.secs[g + 1] = obj.secs[g + 1]
      OBVIOUS
    <3>1. SectionOf(g) = g + 1
      BY SectionOfIs
    <3>2. g + 1 # cur /\ g + 1 \in Sections
      BY <2>7, <3>1
    <3> QED
      BY <2>6, <3>2
  <2>9. \A g \in 1..n : Laid(g)'
    <3> SUFFICES ASSUME NEW g \in 1..n PROVE Laid(g)'
      OBVIOUS
    <3>1. Laid(g)
      BY <1>2
    <3>2. g # 1 => obj'.secs[g + 1] = obj.secs[g + 1]
      BY <2>8
    <3>3. g = 2 => obj'.secs[3] = obj.secs[3]
      BY <3>2
    <3> QED
      BY <2>6, <3>1, <3>2, <3>3 DEF Laid, StartOf, SectionAt
  <2>10. InOrder'
    BY <1>1, <1>2, <2>6 DEF InOrder, Ordering
  <2> QED
    BY <1>1, <1>2, <2>6, <2>9, <2>10 DEF SavingInv, Ordering, Segmenting, Laying
<1> QED
  BY <1>4, <1>5

LEMMA LayoutSigns ==
    ASSUME ReaderRead, SavingInv, LayInv, UNCHANGED signVars, LayoutNext
    PROVE  SavingInv'
BY SaveSigns, FrontSigns, OrderSigns, OpenSigns, AlignmentIsSet,
   NeitherNullNorMade, PlaceSigns, CloseSigns, DoneSigns, LooseSigns,
   ObjectSigns
DEF LayoutNext

-----------------------------------------------------------------------------
(* The file signlk has written.                                            *)
LEMMA HeadersEnd ==
    ASSUME ReaderRead, Reading, Signing(obj)
    PROVE  /\ EhdrSize(obj.hdr.class) \in Nat \ {0}
           /\ ShdrSize(obj.hdr.class) \in Nat
           /\ MiHeaderSize <= ShdrSize(obj.hdr.class)
           /\ ShdrSize(obj.hdr.class) < EhdrSize(obj.hdr.class) + MiHeaderSize
           /\ obj.hdr.class = reader.hdr.class /\ obj.hdr.class \in {32, 64}
           /\ TablesEnd \in Nat /\ EhdrSize(obj.hdr.class) <= TablesEnd
           /\ TablesEnd <= 4092
<1> DEFINE c == obj.hdr.class
           e == EhdrSize(c)
           h == PhdrSize(c)
           m == Len(input.phs)
           n == Len(obj.segs)
<1>1. /\ c = reader.hdr.class /\ reader.hdr = input.hdr /\ c \in {32, 64}
      /\ m \in Nat /\ Len(reader.segs) = m
  BY DEF ReaderRead, LoadedFrom, Signing, Parts, Saveable
<1>2. e \in Nat /\ h \in Nat /\ ShdrSize(c) \in Nat
  BY <1>1, SizesAssumption
<1>3. MiHeaderSize <= ShdrSize(c) /\ ShdrSize(c) < e + MiHeaderSize
  BY <1>1, HeadersAssumption
<1>4. e # 0
  BY <1>2, <1>3 DEF MiHeaderSize
<1>5. n = Count + 2 /\ Count \in Nat /\ Count <= m
  BY <1>1, CopiesCount DEF Signing
<1>6. e + h * (m + 2) <= 4092
  BY <1>1 DEF Reading, GoodFile, HeadersFit, hash_seg_offset
<1>7. TablesEnd = e + h * n
  BY DEF TablesEnd, PhdrsSize
<1> HIDE DEF c, e, h, m, n
<1>8. h * n <= h * (m + 2) /\ h * n \in Nat /\ h * (m + 2) \in Nat
  <2>1. n \in Nat /\ m + 2 \in Nat /\ n <= m + 2
    BY <1>1, <1>5
  <2>2. \A x, y, z \in Nat : y <= z => x * y <= x * z /\ x * y \in Nat /\ x * z \in Nat
    OBVIOUS
  <2> QED
    BY <1>2, <2>1, <2>2
<1>9. TablesEnd \in Nat /\ e <= TablesEnd /\ TablesEnd <= 4092
  <2> DEFINE x == h * n
             y == h * (m + 2)
  <2>1. x \in Nat /\ y \in Nat /\ x <= y /\ e + y <= 4092 /\ TablesEnd = e + x
    BY <1>6, <1>7, <1>8
  <2> HIDE DEF x, y
  <2> QED
    BY <1>2, <2>1
<1> QED
  BY <1>1, <1>2, <1>3, <1>4, <1>9 DEF c, e

(* Where the hash segment lies.                                            *)
LEMMA HashLies ==
    ASSUME ReaderRead, Reading, Signing(obj), Laid(2)
    PROVE  LET p == obj.segs[2].offset
           IN  /\ p \in Int /\ TablesEnd <= p /\ p < 8191
               /\ p % 4096 = hash_segment_address % 4096
               /\ obj.segs[2].vaddr = hash_segment_address
               /\ obj.secs[3].offset = p + Padding(p, 4096)
               /\ obj.secs[3].size = 6568 /\ HasBytes(obj.secs[3])
<1> DEFINE p == obj.segs[2].offset
           v == hash_segment_address
<1>1. HashPart(obj.segs[2], obj.secs[3])
  BY DEF Signing, Parts
<1>2. obj.segs[2].vaddr = v /\ obj.segs[2].align = 4096
      /\ obj.secs[3].size = 6568 /\ HasBytes(obj.secs[3])
  BY <1>1 DEF HashPart, HASH_SE_ALIGN, MAX_CERT_CHAIN_SIZE, HasBytes
<1>3. /\ p \in Int /\ TablesEnd <= p /\ (p - v) % 4096 = 0
      /\ p < TablesEnd + 3 + 4096
      /\ obj.secs[3].offset = p + Padding(p, 4096)
  BY <1>2 DEF Laid, StartOf, SectionAt, HASH_SE_ALIGN
<1>4. v \in Nat
  BY DEF ReaderRead
<1>5. TablesEnd \in Nat /\ TablesEnd <= 4092
  BY HeadersEnd
<1> HIDE DEF p, v
<1>6. p % 4096 = v % 4096
  BY <1>3, <1>4
<1>7. p < 8191
  BY <1>3, <1>5
<1> QED
  BY <1>2, <1>3, <1>6, <1>7 DEF p, v

(* On a page, it lies where the script writes.                             *)
LEMMA HashOnPage ==
    ASSUME ReaderRead, Reading, Signing(obj), Laid(2), AlignedHash
    PROVE  obj.segs[2].offset = 4096 /\ obj.secs[3].offset = 4096
<1> DEFINE p == obj.segs[2].offset
<1>1. /\ p \in Int /\ TablesEnd <= p /\ p < 8191 /\ p % 4096 = 0
      /\ obj.secs[3].offset = p + Padding(p, 4096)
  BY HashLies DEF AlignedHash, HASH_SE_ALIGN
<1>2. TablesEnd \in Nat /\ EhdrSize(obj.hdr.class) <= TablesEnd
      /\ EhdrSize(obj.hdr.class) \in Nat \ {0}
  BY HeadersEnd
<1> HIDE DEF p
<1>3. p = 4096
  BY <1>1, <1>2
<1>4. Padding(4096, 4096) = 0
  BY DEF Padding
<1> QED
  BY <1>1, <1>3, <1>4 DEF p

-----------------------------------------------------------------------------
(* The script's part of the file.                                          *)
SignatureSize == MAX_CERT_CHAIN_SIZE - ShdrSize(obj.hdr.class)

SignedFile ==
    [file EXCEPT !.content =
       Overwrite(@, TableAt, SignatureSize, Piece("signatures", SignatureSize))]

SignedIs(f) ==
    /\ f.phs = obj.segs /\ f.shs = obj.secs
    /\ f.hdr = [obj.hdr EXCEPT !.shoff = pos]
    /\ f.content = Overwrite(Written(obj), TableAt, SignatureSize,
                             Piece("signatures", SignatureSize))
    /\ Loadable(f) /\ IsContent(f.content)
    /\ f.hdr.class = reader.hdr.class /\ f.hdr.magic

LEMMA FileSaved ==
    ASSUME ReaderRead, SavingInv, LayInv, pc = "saved"
    PROVE  Holding(Written(obj), obj.secs, Len(obj.secs))
<1>1. /\ Signing(obj) /\ ~back /\ Placed /\ made = Sections
  BY DEF SavingInv, LayInv, Laying, Reached
<1>2. Saveable(obj) /\ \A k \in DOMAIN obj.secs : IsContent(obj.secs[k].data)
  BY <1>1 DEF Signing, Parts
<1>3. DOMAIN obj.secs = 1..Len(obj.secs) /\ Len(obj.secs) \in Nat
  <2>1. obj.secs \in Seq(Range(obj.secs))
    BY <1>2 DEF Saveable
  <2> QED
    BY <2>1, LenProperties
<1>4. \A k \in 1..Len(obj.secs) : /\ IsContent(obj.secs[k].data)
                                  /\ obj.secs[k].size \in Nat
                                  /\ obj.secs[k].offset \in Int
  BY <1>2, <1>3 DEF Saveable
<1>5. TablesEnd \in Nat
  BY <1>2, Tables
<1>6. ApartIn(obj.secs, Len(obj.secs))
  <2> SUFFICES ASSUME NEW k \in 1..Len(obj.secs), HasBytes(obj.secs[k])
               PROVE  /\ obj.secs[k].offset \in Nat
                      /\ \A l \in 1..Len(obj.secs) :
                           l # k /\ HasBytes(obj.secs[l]) =>
                              Apart(obj.secs[k].offset, Behind(obj.secs[k]),
                                    obj.secs[l].offset, Behind(obj.secs[l]))
    BY DEF ApartIn
  <2>1. made = 1..Len(obj.secs)
    BY <1>1, <1>3 DEF Sections
  <2>2. TablesEnd <= obj.secs[k].offset
    BY <1>1, <2>1 DEF Placed, Between, HasPlace
  <2>3. obj.secs[k].offset \in Nat
    BY <1>4, <1>5, <2>2
  <2> QED
    BY <1>1, <2>1, <2>3 DEF Placed, HasPlace
<1> QED
  BY <1>3, <1>4, <1>6, FileWritten

LEMMA SignedFileIs ==
    ASSUME ReaderRead, Reading, SavingInv, LayInv, pc = "saved"
    PROVE  /\ SignedIs(SignedFile)
           /\ TableAt \in Nat /\ SignatureSize \in Nat
           /\ TableAt = 4096 + ShdrSize(obj.hdr.class)
           /\ SignatureSize = 6568 - ShdrSize(obj.hdr.class)
<1> DEFINE f == SignedFile
           d == Piece("signatures", SignatureSize)
<1>1. Signing(obj) /\ file = FileOf(obj, pos)
  BY DEF SavingInv
<1>2. /\ ShdrSize(obj.hdr.class) \in Nat
      /\ ShdrSize(obj.hdr.class) < EhdrSize(obj.hdr.class) + MiHeaderSize
      /\ EhdrSize(obj.hdr.class) <= TablesEnd /\ TablesEnd <= 4092
      /\ EhdrSize(obj.hdr.class) \in Nat /\ TablesEnd \in Nat
  BY <1>1, HeadersEnd
<1>3. /\ TableAt = 4096 + ShdrSize(obj.hdr.class)
      /\ SignatureSize = 6568 - ShdrSize(obj.hdr.class)
  BY DEF TableAt, hash_seg_offset, SignatureSize, MAX_CERT_CHAIN_SIZE
<1>4. TableAt \in Nat /\ SignatureSize \in Nat
  BY <1>2, <1>3 DEF MiHeaderSize
<1>5. IsContent(Written(obj))
  BY FileSaved DEF Holding
<1>6. IsContent(d)
  BY <1>4, PieceKeeps
<1> HIDE DEF d
<1>7. /\ f.phs = obj.segs /\ f.shs = obj.secs
      /\ f.hdr = [obj.hdr EXCEPT !.shoff = pos]
      /\ f.content = Overwrite(Written(obj), TableAt, SignatureSize, d)
  BY <1>1 DEF SignedFile, FileOf, d
<1> HIDE DEF f
<1>8. IsContent(f.content)
  BY <1>4, <1>5, <1>6, <1>7, OverwriteKeeps
<1>9. Saveable(obj) /\ obj.hdr.magic /\ obj.hdr.class = reader.hdr.class
  BY <1>1 DEF Signing, Parts
<1>10. /\ DOMAIN f.hdr = DOMAIN obj.hdr /\ f.hdr.class = obj.hdr.class
       /\ f.hdr.magic = obj.hdr.magic
  <2>1. DOMAIN obj.hdr = DOMAIN Header(32, "LSB")
    BY <1>9 DEF Saveable
  <2> QED
    BY <1>7, <2>1 DEF Header
<1>11. Loadable(f)
  <2> DEFINE o == [hdr |-> f.hdr, secs |-> f.shs, segs |-> f.phs]
  <2>1. /\ DOMAIN o = {"hdr", "secs", "segs"} /\ o.hdr = f.hdr
        /\ o.secs = obj.secs /\ o.segs = obj.segs
    BY <1>7
  <2> HIDE DEF o
  <2>2. Saveable(o)
    BY <1>9, <1>10, <2>1 DEF Saveable
  <2> QED
    BY <2>2 DEF o, Loadable
<1>12. SignedIs(f)
  BY <1>7, <1>8, <1>9, <1>10, <1>11 DEF SignedIs, d
<1> QED
  BY <1>3, <1>4, <1>12 DEF f

-----------------------------------------------------------------------------
(* The bytes of the segments are in the signed file.                       *)
CopyOf(k) == reader.segs[Copies[k]]

LEMMA CopyIsRead ==
    ASSUME ReaderRead, NEW k \in 1..Count
    PROVE  /\ SegmentRead(CopyOf(k)) /\ Copies[k] \in 1..Len(reader.segs)
           /\ ~Skipped(CopyOf(k))
<1>1. Len(reader.segs) \in Nat
  BY DEF ReaderRead
<1>2. k \in 1..Len(Copies)
  BY DEF Count
<1>3. Copies[k] \in 1..Len(reader.segs) /\ ~Skipped(reader.segs[Copies[k]])
  BY <1>1, <1>2, CopiesAre DEF Copies
<1> QED
  BY <1>3 DEF ReaderRead, CopyOf

LEMMA CopyLies ==
    ASSUME ReaderRead, SavingInv, LayInv, pc = "saved", NEW k \in 1..Count
    PROVE  LET g == CopyOf(k)
               h == obj.segs[k + 2]
               s == obj.secs[k + 3]
           IN  /\ CopyPart(g, h, k + 3, s)
               /\ StartOf(k + 2, h.offset)
               /\ s.offset = h.offset /\ h.filesz = g.filesz
               /\ h.memsz = g.filesz /\ s.size = g.filesz /\ HasBytes(s)
               /\ k + 3 \in 1..Len(obj.secs) /\ 3 \in 1..Len(obj.secs)
<1>1. Signing(obj) /\ \A g \in 1..(Count + 2) : Laid(g)
  BY DEF SavingInv
<1>2. Count \in Nat /\ DOMAIN Copies = 1..Count
  BY CopiesCount
<1>3. CopyPart(CopyOf(k), obj.segs[k + 2], k + 3, obj.secs[k + 3])
  BY <1>1, <1>2 DEF Signing, Parts, CopyOf
<1>4. k + 2 \in 1..(Count + 2) /\ k + 2 > 2 /\ (k + 2) + 1 = k + 3
  BY <1>2
<1>5. Laid(k + 2)
  BY <1>1, <1>4
<1>6. /\ StartOf(k + 2, obj.segs[k + 2].offset)
      /\ obj.secs[k + 3].offset = obj.segs[k + 2].offset
      /\ obj.segs[k + 2].filesz = obj.secs[k + 3].size
      /\ obj.segs[k + 2].memsz = obj.secs[k + 3].size
  BY <1>4, <1>5 DEF Laid, SectionAt
<1>7. obj.secs[k + 3].size = CopyOf(k).filesz /\ HasBytes(obj.secs[k + 3])
  BY <1>3 DEF CopyPart, HasBytes
<1>8. Len(obj.secs) = Count + 4
  BY <1>1 DEF Signing
<1>9. k + 3 \in 1..Len(obj.secs) /\ 3 \in 1..Len(obj.secs)
  BY <1>2, <1>8
<1> QED
  BY <1>3, <1>6, <1>7, <1>9

(* The script's part lies in the section that was made for it.             *)
LEMMA NotOverwritten ==
    ASSUME ReaderRead, Reading, SavingInv, LayInv, pc = "saved", AlignedHash,
           NEW k \in 1..Count
    PROVE  Apart(obj.secs[k + 3].offset,
                 obj.secs[k + 3].offset + obj.secs[k + 3].size,
                 TableAt, TableAt + SignatureSize)
<1> DEFINE x == obj.secs[k + 3].offset
           m == obj.secs[k + 3].size
<1>1. Signing(obj) /\ Laid(2) /\ ~back /\ Placed /\ made = Sections
  <2>1. Count \in Nat /\ 2 \in 1..(Count + 2)
    BY CopiesCount
  <2> QED
    BY <2>1 DEF SavingInv, LayInv, Laying, Reached
<1>2. obj.secs[3].offset = 4096 /\ obj.secs[3].size = 6568
      /\ HasBytes(obj.secs[3])
  BY <1>1, HashOnPage, HashLies
<1>3. HasBytes(obj.secs[k + 3]) /\ k + 3 \in 1..Len(obj.secs)
      /\ 3 \in 1..Len(obj.secs) /\ k + 3 # 3
  BY CopyLies
<1>4. made = 1..Len(obj.secs)
  <2>1. obj.secs \in Seq(Range(obj.secs))
    BY <1>1 DEF Signing, Parts, Saveable
  <2> QED
    BY <1>1, <2>1, LenProperties DEF Sections
<1>5. Apart(obj.secs[k + 3].offset, Behind(obj.secs[k + 3]),
            obj.secs[3].offset, Behind(obj.secs[3]))
  BY <1>1, <1>2, <1>3, <1>4 DEF Placed, HasPlace
<1>6. x + m <= 4096 \/ 4096 + 6568 <= x
  BY <1>2, <1>5 DEF Apart, Behind
<1>7. /\ TableAt \in Nat /\ SignatureSize \in Nat
      /\ TableAt = 4096 + ShdrSize(obj.hdr.class)
      /\ SignatureSize = 6568 - ShdrSize(obj.hdr.class)
  BY SignedFileIs
<1>8. ShdrSize(obj.hdr.class) \in Nat
  BY <1>1, HeadersEnd
<1>9. x \in Int /\ m \in Int
  <2>1. k + 3 \in DOMAIN obj.secs
    BY <1>1, <1>3, <1>4 DEF Sections
  <2> QED
    BY <1>1, <2>1 DEF Signing, Parts, Saveable
<1> HIDE DEF x, m
<1>10. x + m <= TableAt \/ TableAt + SignatureSize <= x
  BY <1>6, <1>7, <1>8, <1>9
<1>11. Apart(x, x + m, TableAt, TableAt + SignatureSize)
  BY <1>10 DEF Apart
<1> QED
  BY <1>11 DEF x, m

LEMMA DataKept ==
    ASSUME ReaderRead, Reading, SavingInv, LayInv, pc = "saved", AlignedHash,
           NEW k \in 1..Count, HasData(CopyOf(k))
    PROVE  Read(SignedFile.content, obj.segs[k + 2].offset, CopyOf(k).filesz)
             = CopyOf(k).data
<1> DEFINE g == CopyOf(k)
           s == obj.secs[k + 3]
           x == obj.segs[k + 2].offset
           m == g.filesz
           c == Written(obj)
           d == Piece("signatures", SignatureSize)
<1>1. SegmentRead(g) /\ HasData(g)
  BY CopyIsRead
<1>2. m \in Nat \ {0} /\ IsContent(g.data) /\ Within(g.data, m)
  BY <1>1 DEF SegmentRead, HasData
<1>3. /\ CopyPart(g, obj.segs[k + 2], k + 3, s)
      /\ StartOf(k + 2, x)
      /\ s.offset = x /\ s.size = m /\ HasBytes(s)
      /\ k + 3 \in 1..Len(obj.secs)
  BY CopyLies
<1>4. s.data = g.data
  BY <1>1, <1>3 DEF CopyPart
<1>5. x \in Nat
  <2>1. Signing(obj)
    BY DEF SavingInv
  <2>2. TablesEnd \in Nat
    BY <2>1, HeadersEnd
  <2> QED
    BY <1>3, <2>2 DEF StartOf
<1>6. Apart(x, x + m, TableAt, TableAt + SignatureSize)
  BY <1>3, NotOverwritten
<1>7. /\ SignedFile.content = Overwrite(c, TableAt, SignatureSize, d)
      /\ TableAt \in Nat /\ SignatureSize \in Nat
  BY SignedFileIs DEF SignedIs
<1>8. IsContent(c) /\ Read(c, s.offset, s.size) = Bytes(s)
  <2>1. Holding(c, obj.secs, Len(obj.secs))
    BY FileSaved
  <2>2. s.size # 0
    BY <1>2, <1>3
  <2> HIDE DEF c
  <2> QED
    BY <1>3, <2>1, <2>2 DEF Holding
<1>9. IsContent(d) /\ Within(d, SignatureSize)
  BY <1>7, PieceKeeps
<1> HIDE DEF g, s, x, m, c, d
<1>10. Read(Overwrite(c, TableAt, SignatureSize, d), x, m) = Read(c, x, m)
  BY <1>2, <1>5, <1>6, <1>7, <1>8, <1>9, ReadApart
<1>11. Bytes(s) = g.data
  <2>1. \A e \in g.data : 0 <= e.at /\ e.at + e.len <= m
    BY <1>2 DEF Within, IsContent
  <2>2. Part(g.data, 0, m) = g.data
    BY <1>2, <2>1, WholePart
  <2> QED
    BY <1>3, <1>4, <2>2 DEF Bytes
<1>12. Read(SignedFile.content, x, m) = g.data
  BY <1>3, <1>7, <1>8, <1>10, <1>11
<1> QED
  BY <1>12 DEF x, m, g

-----------------------------------------------------------------------------
(* What the signed file is loaded as.                                      *)
LEMMA OutputIs ==
    ASSUME ReaderRead, Reading, SavingInv, LayInv, pc = "saved"
    PROVE  /\ Len(load(SignedFile).segs) = Count + 2
           /\ SignedFile.phs = obj.segs
           /\ \A g \in 1..(Count + 2) :
                IsLoaded(load(SignedFile).segs[g], SignedFile, obj.segs[g],
                         Len(SignedFile.shs))
<1>1. SignedFile.phs = obj.segs /\ Loadable(SignedFile)
  BY SignedFileIs DEF SignedIs
<1>2. Len(obj.segs) = Count + 2
  BY DEF SavingInv, Signing
<1>3. LoadedFrom(load(SignedFile), SignedFile)
  BY <1>1, FileLoaded
<1> QED
  BY <1>1, <1>2, <1>3 DEF LoadedFrom

SegmentKept(g, h, align) ==
    /\ [h EXCEPT !.align = g.align, !.offset = g.offset,
                 !.memsz = g.memsz, !.secs = g.secs] = g
    /\ h.memsz = g.memsz <=> g.memsz = g.filesz
    /\ (h.offset - h.vaddr) % align = 0

LEMMA SameRecord ==
    ASSUME NEW g, NEW h, IsRecord(g), DOMAIN g = DOMAIN NewSegment,
           IsRecord(h), DOMAIN h = DOMAIN NewSegment,
           h.type = g.type, h.flags = g.flags, h.vaddr = g.vaddr,
           h.paddr = g.paddr, h.filesz = g.filesz,
           h.offsetSet = g.offsetSet, h.data = g.data
    PROVE  [h EXCEPT !.align = g.align, !.offset = g.offset,
                     !.memsz = g.memsz, !.secs = g.secs] = g
<1> DEFINE t == [h EXCEPT !.align = g.align, !.offset = g.offset,
                          !.memsz = g.memsz, !.secs = g.secs]
<1>1. IsRecord(t)
  BY DEF IsRecord
<1>2. DOMAIN t = DOMAIN NewSegment
  OBVIOUS
<1>3. DOMAIN NewSegment = {"type", "flags", "vaddr", "paddr", "filesz", "memsz",
                           "align", "offset", "offsetSet", "secs", "data"}
  BY DEF NewSegment
<1>4. \A x \in DOMAIN NewSegment : t[x] = g[x]
  BY <1>3
<1> HIDE DEF t
<1>5. t = g
  BY <1>1, <1>2, <1>4 DEF IsRecord
<1> QED
  BY <1>5 DEF t

LEMMA CopyKept ==
    ASSUME ReaderRead, Reading, SavingInv, LayInv, pc = "saved", AlignedHash,
           NEW k \in 1..Count
    PROVE  SegmentKept(CopyOf(k), load(SignedFile).segs[k + 2],
                       SignedFile.phs[k + 2].align)
<1> DEFINE f == SignedFile
           g == CopyOf(k)
           h == load(f).segs[k + 2]
           p == obj.segs[k + 2]
<1>1. k + 2 \in 1..(Count + 2)
  BY CopiesCount
<1>2. IsLoaded(h, f, p, Len(f.shs)) /\ f.phs = obj.segs
  BY <1>1, OutputIs
<1>3. SegmentRead(g)
  BY CopyIsRead
<1>4. /\ CopyPart(g, p, k + 3, obj.secs[k + 3]) /\ StartOf(k + 2, p.offset)
      /\ p.filesz = g.filesz /\ p.memsz = g.filesz
  BY CopyLies
<1>5. HasData(g) => Read(f.content, p.offset, g.filesz) = g.data
  BY DataKept
<1>6. (p.offset - p.vaddr) % p.align = 0
  BY <1>4 DEF StartOf
<1> HIDE DEF f, g, h, p
<1>7. /\ IsRecord(g) /\ DOMAIN g = DOMAIN NewSegment /\ g.offsetSet = TRUE
      /\ (~HasData(g) => g.data = {})
  BY <1>3 DEF SegmentRead
<1>8. /\ IsRecord(h) /\ DOMAIN h = DOMAIN NewSegment
      /\ h.type = p.type /\ h.flags = p.flags /\ h.vaddr = p.vaddr
      /\ h.paddr = p.paddr /\ h.filesz = p.filesz /\ h.memsz = p.memsz
      /\ h.offset = p.offset /\ h.offsetSet = TRUE
      /\ h.data = IF HasData(p) THEN Read(f.content, p.offset, p.filesz) ELSE {}
  BY <1>2 DEF IsLoaded
<1>9. /\ p.type = g.type /\ p.flags = g.flags
      /\ p.vaddr = g.vaddr /\ p.paddr = g.paddr
  BY <1>4 DEF CopyPart
<1>10. HasData(p) <=> HasData(g)
  BY <1>4, <1>9 DEF HasData
<1>11. h.data = g.data
  BY <1>4, <1>5, <1>7, <1>8, <1>10
<1>12. [h EXCEPT !.align = g.align, !.offset = g.offset,
                 !.memsz = g.memsz, !.secs = g.secs] = g
  <2>1. /\ h.type = g.type /\ h.flags = g.flags /\ h.vaddr = g.vaddr
        /\ h.paddr = g.paddr /\ h.filesz = g.filesz
        /\ h.offsetSet = g.offsetSet
    BY <1>4, <1>7, <1>8, <1>9
  <2> QED
    BY <1>7, <1>8, <1>11, <2>1, SameRecord, Zenon
<1>13. h.memsz = g.filesz
  BY <1>4, <1>8
<1>14. (h.offset - h.vaddr) % f.phs[k + 2].align = 0
  BY <1>2, <1>6, <1>8 DEF p
<1>15. SegmentKept(g, h, f.phs[k + 2].align)
  BY <1>12, <1>13, <1>14 DEF SegmentKept
<1> QED
  BY <1>15 DEF f, g, h

LEMMA CopiedIsList ==
    ASSUME ReaderRead
    PROVE  /\ DOMAIN CopiedSegments = 1..Count /\ Len(CopiedSegments) = Count
           /\ \A k \in 1..Count : CopiedSegments[k] = CopyOf(k)
<1>1. Count \in Nat /\ DOMAIN Copies = 1..Count
  BY CopiesCount
<1>2. CopiedSegments = [k \in 1..Count |-> CopyOf(k)]
  BY <1>1 DEF CopiedSegments, Copies, CopyOf
<1> QED
  BY <1>1, <1>2

LEMMA CopiedStays ==
    ASSUME UNCHANGED reader
    PROVE  CopiedSegments' = CopiedSegments
<1>1. Copies' = Copies
  BY ReaderStays
<1>2. CopiedSegments = [k \in DOMAIN Copies |-> reader.segs[Copies[k]]]
  BY DEF CopiedSegments, Copies
<1>3. CopiedSegments' = [k \in DOMAIN Copies' |-> reader'.segs[Copies'[k]]]
  BY DEF CopiedSegments, Copies
<1> QED
  BY <1>1, <1>2, <1>3

(* The same of the state the script leaves.                                *)
LEMMA SegmentsSigned ==
    ASSUME ReaderRead, Reading, SavingInv, LayInv, assemble,
           pc = "saved"
    PROVE  SegmentsKept'
<1>1. file' = SignedFile /\ reader' = reader /\ obj' = obj
  BY DEF assemble, SignedFile, SignatureSize
<1>2. CopiedSegments' = CopiedSegments
  BY <1>1, CopiedStays
<1>3. AlignedHash' <=> AlignedHash
  BY <1>1, ReaderStays DEF AlignedHash
<1>4. Output' = load(SignedFile).segs
  BY <1>1 DEF Output
<1>5. SUFFICES ASSUME AlignedHash
               PROVE  /\ Len(load(SignedFile).segs) = 2 + Len(CopiedSegments)
                      /\ \A k \in DOMAIN CopiedSegments :
                           SegmentKept(CopiedSegments[k],
                                       load(SignedFile).segs[k + 2],
                                       SignedFile.phs[k + 2].align)
  BY <1>1, <1>2, <1>3, <1>4 DEF SegmentsKept, SegmentKept
<1>6. Count \in Nat
  BY CopiesCount
<1> QED
  BY <1>5, <1>6, CopiedIsList, CopyKept, OutputIs

-----------------------------------------------------------------------------
(* The hashes of the signed image.                                         *)
Table == [k \in DOMAIN SegmentFiles |-> tmp[SegmentFiles[k]]]

LEMMA TableIs ==
    ASSUME Files
    PROVE  /\ IsAscending(SegmentFiles, Cardinality(DOMAIN tmp), DOMAIN tmp)
           /\ Cardinality(DOMAIN tmp) \in Nat
           /\ Len(Table) = Cardinality(DOMAIN tmp)
           /\ Len(SegmentFiles) = Cardinality(DOMAIN tmp)
           /\ DOMAIN Table = 1..Cardinality(DOMAIN tmp)
           /\ \A k \in 1..Cardinality(DOMAIN tmp) :
                /\ Table[k] = tmp[SegmentFiles[k]]
                /\ SegmentFiles[k] \in DOMAIN tmp
<1> DEFINE S == DOMAIN tmp
           m == Cardinality(S)
<1>1. S \subseteq Nat /\ IsFiniteSet(S)
  BY DEF Files
<1>2. IsAscending(SegmentFiles, m, S)
  BY <1>1, SortedIs DEF SegmentFiles
<1> HIDE DEF m, S
<1>3. /\ m \in Nat /\ DOMAIN SegmentFiles = 1..m
      /\ \A k \in 1..m : SegmentFiles[k] \in S
  BY <1>2 DEF IsAscending
<1>4. Table = [k \in 1..m |-> tmp[SegmentFiles[k]]]
  BY <1>3 DEF Table
<1>5. Len(Table) = m /\ DOMAIN Table = 1..m
  BY <1>3, <1>4
<1>6. Len(SegmentFiles) = m
  <2>1. SegmentFiles \in Seq(S)
    <3>1. SegmentFiles \in [1..m -> S]
      BY <1>1, SortedIs DEF SegmentFiles, m, S
    <3> QED
      BY <1>3, <3>1, SeqDef
  <2> QED
    BY <1>3, <2>1, LenProperties
<1> QED
  BY <1>2, <1>3, <1>4, <1>5, <1>6 DEF m, S
Listing == [k \in 1..Count |-> SegmentFile(CopyOf(k))]

(* One file for every segment copied, in their order.                      *)
LEMMA AllExported ==
    ASSUME ReaderRead, Files, Exports(Len(reader.segs)), hash_offset \in Nat,
           \A k \in 1..Count : HasData(CopyOf(k)),
           Cardinality(DOMAIN tmp) = Count
    PROVE  \A k \in 1..Count : Table[k] = SegmentFile(CopyOf(k))
<1> DEFINE S == DOMAIN tmp
           n == Len(reader.segs)
           s == [k \in 1..Count |-> FileNumber(Copies[k])]
<1>1. S \subseteq Nat /\ IsFiniteSet(S)
  BY DEF Files
<1>2. Count \in Nat /\ DOMAIN Copies = 1..Count /\ n \in Nat
  BY CopiesCount DEF ReaderRead
<1>3. /\ Ascending(Copies)
      /\ \A k \in 1..Count : Copies[k] \in 1..n
  <2>1. /\ Ascending(CopiedAmong(n))
        /\ \A k \in 1..Len(CopiedAmong(n)) : CopiedAmong(n)[k] \in 1..n
    BY <1>2, CopiesAre
  <2> QED
    BY <2>1 DEF Copies, Count
<1>4. \A k \in 1..Count : /\ FileNumber(Copies[k]) \in S
                          /\ tmp[FileNumber(Copies[k])] = SegmentFile(CopyOf(k))
  <2>1. \A k \in 1..Count : ~Skipped(reader.segs[Copies[k]])
    BY CopyIsRead DEF CopyOf
  <2> QED
    BY <1>3, <2>1 DEF Exports, CopyOf
<1>5. Ascending(s)
  <2> SUFFICES ASSUME NEW k \in 1..Count, NEW l \in 1..Count, k < l
               PROVE  FileNumber(Copies[k]) < FileNumber(Copies[l])
    BY DEF Ascending
  <2>1. Copies[k] < Copies[l]
    BY <1>2, <1>3 DEF Ascending
  <2>2. Copies[k] \in Nat /\ Copies[l] \in Nat
    BY <1>2, <1>3
  <2> QED
    BY <2>1, <2>2 DEF FileNumber
<1>6. IsAscending(s, Count, S)
  <2>1. s \in [1..Cardinality(S) -> S]
    BY <1>4
  <2> HIDE DEF s, S
  <2>2. IsAscending(s, Cardinality(S), S)
    BY <1>1, <1>5, <2>1, AscendingHasAll
  <2> QED
    BY <2>2 DEF S
<1>7. IsAscending(SegmentFiles, Count, S)
  BY TableIs
<1>8. \A k \in 1..Count : SegmentFiles[k] = s[k]
  <2> HIDE DEF s, S
  <2> QED
    BY <1>6, <1>7, AscendingUnique
<1> QED
  BY <1>4, <1>8, TableIs

(* The signed image has one hash for every segment exactly if ...          *)
LEMMA TableMatches ==
    ASSUME ReaderRead, Files, Exports(Len(reader.segs)), hash_offset \in Nat
    PROVE  Table = Listing <=> /\ \A k \in 1..Count : HasData(CopyOf(k))
                               /\ Len(Table) = Count
<1> DEFINE m == Cardinality(DOMAIN tmp)
<1>1. /\ Len(Table) = m /\ DOMAIN Table = 1..m /\ m \in Nat
      /\ \A k \in 1..m : Table[k] = tmp[SegmentFiles[k]]
      /\ \A k \in 1..m : SegmentFiles[k] \in DOMAIN tmp
  BY TableIs
<1>2. Count \in Nat
  BY CopiesCount
<1>3. Len(Listing) = Count
  BY <1>2 DEF Listing
<1> HIDE DEF m
<1>4. ASSUME Table = Listing
      PROVE  /\ \A k \in 1..Count : HasData(CopyOf(k))
             /\ Len(Table) = Count
  <2>1. m = Count
    BY <1>1, <1>3, <1>4
  <2>2. ASSUME NEW k \in 1..Count PROVE HasData(CopyOf(k))
    <3>1. Listing[k] = tmp[SegmentFiles[k]] /\ SegmentFiles[k] \in DOMAIN tmp
      BY <1>1, <1>4, <2>1
    <3>2. tmp[SegmentFiles[k]].size # 0
      BY <3>1 DEF Files
    <3>3. Listing[k] = SegmentFile(CopyOf(k))
      BY DEF Listing
    <3> QED
      BY <3>1, <3>2, <3>3 DEF SegmentFile
  <2> QED
    BY <1>1, <2>1, <2>2
<1>5. ASSUME \A k \in 1..Count : HasData(CopyOf(k)), Len(Table) = Count
      PROVE  Table = Listing
  <2>1. m = Count
    BY <1>1, <1>5
  <2>2. \A k \in 1..Count : Table[k] = SegmentFile(CopyOf(k))
    BY <1>5, <2>1, AllExported DEF m
  <2>3. Table = [k \in DOMAIN Table |-> Table[k]]
    BY DEF Table
  <2> QED
    BY <1>1, <2>1, <2>2, <2>3 DEF Listing
<1> QED
  BY <1>4, <1>5

LEMMA TableSigned ==
    ASSUME ReaderRead, Files, Exports(Len(reader.segs)), hash_offset \in Nat,
           assemble
    PROVE  HashPerSegment'
<1>1. image'.table = Table /\ reader' = reader
  BY DEF assemble, Table
<1>2. CopiedSegments' = CopiedSegments
  BY <1>1, CopiedStays
<1>3. /\ DOMAIN CopiedSegments = 1..Count /\ Len(CopiedSegments) = Count
      /\ \A k \in 1..Count : CopiedSegments[k] = CopyOf(k)
  BY CopiedIsList
<1>4. [k \in DOMAIN CopiedSegments |-> SegmentFile(CopiedSegments[k])] = Listing
  BY <1>3 DEF Listing
<1>5. Table = Listing <=> /\ \A k \in 1..Count : HasData(CopyOf(k))
                          /\ Len(Table) = Count
  BY TableMatches
<1>6. Table = [k \in DOMAIN CopiedSegments |-> SegmentFile(CopiedSegments[k])]
        <=> /\ \A k \in DOMAIN CopiedSegments : HasData(CopiedSegments[k])
            /\ Len(Table) = Len(CopiedSegments)
  BY <1>3, <1>4, <1>5
<1> QED
  BY <1>1, <1>2, <1>6 DEF HashPerSegment

-----------------------------------------------------------------------------
(* The pointers.                                                           *)
LEMMA DestIs ==
    ASSUME ReaderRead, HashSegments # {} \/ Highest # {}
    PROVE  IF HashSegments # {} THEN ImageDest = hash_segment_address
           ELSE /\ hash_segment_address = 0 /\ ImageDest \in Int
                /\ 4096 <= ImageDest
<1>1. CASE HashSegments # {}
  BY <1>1 DEF ImageDest
<1>2. CASE HashSegments = {}
  <2> DEFINE k == CHOOSE k \in Highest : TRUE
             x == reader.segs[k].paddr + reader.segs[k].memsz
  <2>1. k \in Highest
    BY <1>2
  <2>2. k \in 1..Len(reader.segs) /\ reader.segs[k].paddr > 0
    BY <2>1 DEF Highest, ReaderRead
  <2>3. SegmentRead(reader.segs[k])
    BY <2>2 DEF ReaderRead
  <2>4. ImageDest = NextPage(x)
    BY <1>2 DEF ImageDest
  <2> HIDE DEF k
  <2>5. x \in Nat /\ x > 0
    <3>1. reader.segs[k].paddr \in Nat /\ reader.segs[k].memsz \in Nat
      BY <2>3, Zenon DEF SegmentRead
    <3> QED
      BY <2>2, <3>1
  <2> HIDE DEF x
  <2> DEFINE r == x % 4096
  <2>6. r \in 0..4095 /\ r <= x
    BY <2>5
  <2>7. ImageDest = x + 4096 - r
    BY <2>4 DEF NextPage, HASH_SE_ALIGN
  <2> HIDE DEF r
  <2>8. ImageDest \in Int /\ 4096 <= ImageDest
    BY <2>5, <2>6, <2>7
  <2> QED
    BY <1>2, <2>8 DEF hash_segment_address
<1> QED
  BY <1>1, <1>2

LEMMA PageOfHash ==
    ASSUME NEW p \in Int, NEW a \in Nat, NEW r \in Nat, r < p, p < 8191,
           r < 4096, p % 4096 = a % 4096
    PROVE  p = 4096 + r <=> a % 4096 = r
OBVIOUS

LEMMA PointersLead ==
    ASSUME ReaderRead, Reading, SavingInv, LayInv, Numbered, pc = "saved",
           NEW m \in Nat
    PROVE  LET p == obj.segs[2].offset
               h == obj.segs[2].vaddr
           IN  (p + mi.dest - h = TableAt
                  /\ p + mi.sig - h = TableAt + HashSize * (2 + m))
                 <=> /\ HashSegments # {}
                     /\ hash_segment_address % HASH_SE_ALIGN
                          = ShdrSize(reader.hdr.class) - MiHeaderSize
                     /\ m = 2
<1> DEFINE p == obj.segs[2].offset
           h == obj.segs[2].vaddr
           sh == ShdrSize(obj.hdr.class)
           eh == EhdrSize(obj.hdr.class)
           a == hash_segment_address
           d == ImageDest
<1>1. /\ eh \in Nat \ {0} /\ sh \in Nat /\ 40 <= sh /\ sh < eh + 40
      /\ obj.hdr.class = reader.hdr.class
      /\ TablesEnd \in Nat /\ eh <= TablesEnd /\ TablesEnd <= 4092
  BY HeadersEnd DEF SavingInv, MiHeaderSize
<1>2. Laid(2)
  <2>1. 2 \in 1..(Count + 2)
    BY CopiesCount
  <2> QED
    BY <2>1 DEF SavingInv
<1>3. p \in Int /\ TablesEnd <= p /\ p < 8191 /\ p % 4096 = a % 4096 /\ h = a
  BY <1>2, HashLies DEF SavingInv
<1>4. a \in Nat
  BY DEF ReaderRead
<1>5. IF HashSegments # {} THEN d = a ELSE a = 0 /\ d \in Int /\ 4096 <= d
  BY DestIs DEF Numbered
<1>6. mi.dest = d + 40 /\ mi.sig = d + 40 + 128
  BY DEF Numbered, MiHeaderSize, HASH_CODE_SIZE
<1>7. TableAt = 4096 + sh
  BY SignedFileIs
<1>8. HASH_SE_ALIGN = 4096 /\ HashSize = 32 /\ MiHeaderSize = 40
  BY DEF HASH_SE_ALIGN, HashSize, MiHeaderSize
<1> HIDE DEF p, h, sh, eh, a, d
<1>9. d \in Int
  BY <1>4, <1>5
<1>10. (p + mi.dest - h = TableAt
          /\ p + mi.sig - h = TableAt + HashSize * (2 + m))
         <=> p + d - a = 4096 + (sh - 40) /\ m = 2
  <2>1. p + mi.dest - h = p + d + 40 - a
    BY <1>3, <1>4, <1>6, <1>9
  <2>2. p + mi.sig - h = p + d + 168 - a
    BY <1>3, <1>4, <1>6, <1>9
  <2>3. TableAt + HashSize * (2 + m) = 4096 + sh + 64 + 32 * m
    BY <1>1, <1>7, <1>8
  <2> QED
    BY <1>1, <1>3, <1>4, <1>7, <1>9, <2>1, <2>2, <2>3
<1>11. CASE HashSegments # {}
  <2>1. p + d - a = 4096 + (sh - 40) <=> p = 4096 + (sh - 40)
    BY <1>1, <1>3, <1>4, <1>5, <1>11
  <2>2. sh - 40 \in Nat /\ sh - 40 < p /\ sh - 40 < 4096
    BY <1>1, <1>3
  <2>3. p = 4096 + (sh - 40) <=> a % 4096 = sh - 40
    BY <1>3, <1>4, <2>2, PageOfHash
  <2>4. ShdrSize(reader.hdr.class) = sh
    BY <1>1 DEF sh
  <2> QED
    BY <1>8, <1>10, <1>11, <2>1, <2>3, <2>4 DEF p, h, a
<1>12. CASE HashSegments = {}
  <2>1. p + d - a # 4096 + (sh - 40)
    BY <1>1, <1>3, <1>5, <1>12
  <2> QED
    BY <1>10, <1>12, <2>1 DEF p, h
<1> QED
  BY <1>11, <1>12

LEMMA PointersSigned ==
    ASSUME ReaderRead, Reading, SavingInv, LayInv, Numbered, Files,
           pc = "saved", assemble
    PROVE  PointersRight'
<1> DEFINE p == obj.segs[2].offset
           h == obj.segs[2].vaddr
           m == Len(SegmentFiles)
<1>1. /\ file' = SignedFile /\ UNCHANGED <<reader, mi>>
      /\ image' = [table |-> Table, at |-> TableAt, sig |-> TableAt + DataSize]
  BY DEF assemble, SignedFile, SignatureSize, Table
<1>2. /\ image'.table = Table /\ image'.at = TableAt
      /\ image'.sig = TableAt + HashSize * (2 + m)
  BY <1>1 DEF DataSize
<1>3. /\ HashSegments' = HashSegments
      /\ hash_segment_address' = hash_segment_address
  BY <1>1, ReaderStays
<1>4. Output' = load(SignedFile).segs
  BY <1>1 DEF Output
<1>5. Output'[2].offset = p /\ Output'[2].vaddr = h
  <2>1. 2 \in 1..(Count + 2)
    BY CopiesCount
  <2>2. IsLoaded(load(SignedFile).segs[2], SignedFile, obj.segs[2],
                 Len(SignedFile.shs))
    BY <2>1, OutputIs
  <2> QED
    BY <1>4, <2>2 DEF IsLoaded
<1>6. m \in Nat /\ Len(Table) = m
  BY TableIs
<1>7. (p + mi.dest - h = TableAt
         /\ p + mi.sig - h = TableAt + HashSize * (2 + m))
        <=> /\ HashSegments # {}
            /\ hash_segment_address % HASH_SE_ALIGN
                 = ShdrSize(reader.hdr.class) - MiHeaderSize
            /\ m = 2
  <2> HIDE DEF m
  <2> QED
    BY <1>6, PointersLead
<1>8. OffsetOf(mi.dest)' = p + mi.dest - h /\ OffsetOf(mi.sig)' = p + mi.sig - h
  BY <1>1, <1>5 DEF OffsetOf
<1> HIDE DEF p, h, m
<1> QED
  BY <1>1, <1>2, <1>3, <1>6, <1>7, <1>8 DEF PointersRight

-----------------------------------------------------------------------------
(* The signed file of one that was not signed can be signed again.         *)
LEMMA SignedHeadersFit ==
    ASSUME ReaderRead, Reading, SavingInv, Numbered, hash_offset = 2,
           NEW f, SignedIs(f)
    PROVE  HeadersFit(f, 2)
<1> DEFINE c == obj.hdr.class
           e == EhdrSize(c)
           h == PhdrSize(c)
           m == Len(input.phs)
           n == Len(obj.segs)
<1>1. /\ c = reader.hdr.class /\ reader.hdr = input.hdr /\ c \in {32, 64}
      /\ m \in Nat /\ Len(reader.segs) = m /\ DOMAIN reader.segs = 1..m
      /\ DOMAIN input.phs = 1..m
  BY DEF ReaderRead, LoadedFrom, SavingInv, Signing, Parts, Saveable
<1>2. e \in Nat /\ h \in Nat
  BY <1>1, SizesAssumption
<1>3. n = Count + 2 /\ Count \in Nat /\ Count <= m
  BY <1>1, CopiesCount DEF SavingInv, Signing
<1>4. HashSegments = {}
  BY DEF Numbered
<1>5. ~\E g \in DOMAIN input.phs : IsHash(input.phs[g])
  <2> SUFFICES ASSUME NEW g \in 1..m, IsHash(input.phs[g]) PROVE FALSE
    BY <1>1
  <2>1. reader.segs[g].flags = input.phs[g].flags
    <3>1. IsLoaded(reader.segs[g], input, input.phs[g], Len(input.shs))
      BY DEF ReaderRead, LoadedFrom
    <3> QED
      BY <3>1 DEF IsLoaded
  <2>2. IsHash(reader.segs[g])
    BY <2>1 DEF IsHash
  <2> QED
    BY <1>1, <1>4, <2>2 DEF HashSegments
<1>6. e + h * (m + 4) <= 4092
  BY <1>1, <1>5 DEF Reading, GoodFile, HeadersFit, hash_seg_offset
<1>7. /\ EhdrSize(f.hdr.class) = e /\ PhdrSize(f.hdr.class) = h
      /\ Len(f.phs) = n
  BY <1>1 DEF SignedIs
<1> HIDE DEF c, e, h, m, n
<1>8. h * (n + 2) <= h * (m + 4) /\ h * (n + 2) \in Nat /\ h * (m + 4) \in Nat
  <2>1. n + 2 \in Nat /\ m + 4 \in Nat /\ n + 2 <= m + 4
    BY <1>1, <1>3
  <2>2. \A x, y, z \in Nat : y <= z => x * y <= x * z /\ x * y \in Nat /\ x * z \in Nat
    OBVIOUS
  <2> QED
    BY <1>2, <2>1, <2>2
<1>9. e + h * (n + 2) <= 4092
  <2> DEFINE x == h * (n + 2)
             y == h * (m + 4)
  <2>1. x \in Nat /\ y \in Nat /\ x <= y /\ e + y <= 4092
    BY <1>6, <1>8
  <2> HIDE DEF x, y
  <2>2. e + x <= 4092
    BY <1>2, <2>1
  <2> QED
    BY <2>2 DEF x
<1> QED
  BY <1>7, <1>9 DEF HeadersFit, hash_seg_offset

LEMMA SegmentOfSigned ==
    ASSUME ReaderRead, SavingInv, pc = "saved", NEW g \in 1..(Count + 2)
    PROVE  /\ obj.segs[g].vaddr \in Nat /\ obj.segs[g].paddr \in Nat
           /\ obj.segs[g].filesz \in Nat /\ obj.segs[g].memsz \in Nat
<1>1. SigningIs(obj, Count)
  BY SigningMeans DEF SavingInv
<1>2. Laid(g)
  BY DEF SavingInv
<1>3. obj.segs[g].filesz \in Nat /\ obj.segs[g].memsz \in Nat
  BY <1>2 DEF Laid, SectionAt
<1>4. Count \in Nat
  BY CopiesCount
<1>5. CASE g = 1
  BY <1>1, <1>3, <1>5 DEF SigningIs, HeadPart
<1>6. CASE g = 2
  BY <1>1, <1>3, <1>6 DEF SigningIs, HashPart, ReaderRead
<1>7. CASE g # 1 /\ g # 2
  <2> DEFINE k == g - 2
  <2>1. k \in 1..Count /\ k + 2 = g
    BY <1>4, <1>7
  <2> HIDE DEF k
  <2>2. CopyPart(reader.segs[Copies[k]], obj.segs[k + 2], k + 3, obj.secs[k + 3])
    BY <1>1, <2>1 DEF SigningIs
  <2>3. SegmentRead(CopyOf(k))
    BY <2>1, CopyIsRead
  <2> QED
    BY <1>3, <2>1, <2>2, <2>3 DEF CopyPart, SegmentRead, CopyOf
<1> QED
  BY <1>5, <1>6, <1>7

LEMMA SignedIsGood ==
    ASSUME ReaderRead, Reading, SavingInv, LayInv, Numbered, pc = "saved",
           hash_offset = 2
    PROVE  GoodFile(SignedFile)
<1> DEFINE f == SignedFile
<1>1. SignedIs(f)
  BY SignedFileIs
<1> HIDE DEF f
<1>2. f.phs = obj.segs /\ Loadable(f) /\ IsContent(f.content)
  BY <1>1 DEF SignedIs
<1>3. DOMAIN f.phs = 1..(Count + 2) /\ Count \in Nat
  BY <1>2, CopiesCount, SigningMeans DEF SavingInv, SigningIs
<1>4. Readable(f)
  BY <1>2, <1>3, SegmentOfSigned DEF Readable
<1>5. HeadersFit(f, 2)
  BY <1>1, SignedHeadersFit
<1>6. IsHash(f.phs[2]) /\ 2 \in DOMAIN f.phs
  <2>1. obj.segs[2].flags = {21, 25}
    BY SigningMeans DEF SavingInv, SigningIs, HashPart, HASH_SE_FLAG
  <2>2. {21, 25} \cap {24, 25, 26} = {25}
    OBVIOUS
  <2> QED
    BY <1>2, <1>3, <2>1, <2>2 DEF IsHash, SEGMENT_TYPE_MASK
<1>7. GoodFile(f)
  BY <1>4, <1>5, <1>6 DEF GoodFile
<1> QED
  BY <1>7 DEF f

-----------------------------------------------------------------------------
(* The inductive invariant, step by step.                                  *)
LEMMA FilesStay ==
    ASSUME UNCHANGED tmp, Files
    PROVE  Files'
BY DEF Files

LEMMA ReadingStays ==
    ASSUME UNCHANGED <<input, reader>>, Reading
    PROVE  Reading'
BY DEF Reading

LEMMA NumberedStays ==
    ASSUME UNCHANGED <<reader, mi, hash_offset>>, Numbered
    PROVE  Numbered'
<1>1. /\ HashSegments' = HashSegments /\ Highest' = Highest
      /\ ImageDest' = ImageDest
  BY ReaderStays
<1> QED
  BY <1>1 DEF Numbered

LEMMA ExportsStay ==
    ASSUME UNCHANGED <<reader, tmp, hash_offset>>, NEW n, Exports(n)
    PROVE  Exports(n)'
BY DEF Exports, FileNumber

LEMMA CopiedAmongStays ==
    ASSUME UNCHANGED reader, NEW n
    PROVE  CopiedAmong(n)' = CopiedAmong(n)
BY Zenon DEF CopiedAmong

LEMMA MoreHeadersFit ==
    ASSUME NEW f \in Inputs, IsElf(f)
    PROVE  GoodFile(f)
<1> DEFINE h == PhdrSize(f.hdr.class)
           e == EhdrSize(f.hdr.class)
           m == Len(f.phs)
<1>1. Readable(f) /\ HeadersFit(f, 4)
  BY FilesAssumption, HeadersAssumption
<1>2. f.hdr.class \in {32, 64}
  BY DEF IsElf
<1>3. h \in Nat /\ e \in Nat
  BY <1>2, SizesAssumption
<1>4. m \in Nat
  <2>1. f.phs \in Seq(Range(f.phs))
    BY <1>1 DEF Readable, Loadable, Saveable
  <2> QED
    BY <2>1, LenProperties
<1>5. e + h * (m + 4) <= 4092
  BY <1>1 DEF HeadersFit, hash_seg_offset
<1> HIDE DEF h, e, m
<1>6. h * (m + 2) <= h * (m + 4) /\ h * (m + 2) \in Nat /\ h * (m + 4) \in Nat
  <2>1. m + 2 \in Nat /\ m + 4 \in Nat /\ m + 2 <= m + 4
    BY <1>4
  <2>2. \A x, y, z \in Nat : y <= z => x * y <= x * z /\ x * y \in Nat /\ x * z \in Nat
    OBVIOUS
  <2> QED
    BY <1>3, <2>1, <2>2
<1>7. e + h * (m + 2) <= 4092
  <2> DEFINE x == h * (m + 2)
             y == h * (m + 4)
  <2>1. x \in Nat /\ y \in Nat /\ x <= y /\ e + y <= 4092
    BY <1>5, <1>6
  <2> HIDE DEF x, y
  <2>2. e + x <= 4092
    BY <1>3, <2>1
  <2> QED
    BY <2>2 DEF x
<1>8. HeadersFit(f, 2)
  BY <1>7 DEF HeadersFit, hash_seg_offset, e, h, m
<1> QED
  BY <1>1, <1>8 DEF GoodFile

LEMMA SignBegins ==
    ASSUME Init
    PROVE  SignInv
<1> SUFFICES ASSUME job = "sign" PROVE SignInv
  BY DEF SignInv
<1>1. input \in Inputs /\ tmp \in Leftovers /\ pc = "load"
  BY DEF Init
<1>2. Files
  BY <1>1, LeftoversAssumption DEF Files
<1>3. IsElf(input) => GoodFile(input)
  BY <1>1, MoreHeadersFit
<1> QED
  BY <1>1, <1>2, <1>3 DEF SignInv, Laying, Ordering, Segmenting

LEMMA LoadSigns ==
    ASSUME SignInv, load_input
    PROVE  SignInv'
<1> SUFFICES ASSUME job = "sign", job' = job PROVE SignInv'
  BY DEF load_input, SignInv
<1>1. Files' /\ pc = "load" /\ UNCHANGED <<input, tmp>>
  BY FilesStay DEF load_input, SignInv
<1>2. CASE ~IsElf(input)
  <2>1. pc' = "failed"
    BY <1>2 DEF load_input, Goto
  <2> QED
    BY <1>1, <2>1 DEF SignInv, Laying, Ordering, Segmenting
<1>3. CASE IsElf(input)
  <2>1. pc' = "create" /\ reader' = load(input)
    BY <1>3 DEF load_input, Goto
  <2>2. GoodFile(input)
    BY <1>1, <1>3 DEF SignInv
  <2>3. Reading'
    BY <1>1, <1>3, <2>1, <2>2 DEF Reading
  <2> QED
    BY <1>1, <2>1, <2>3 DEF SignInv, Laying, Ordering, Segmenting
<1> QED
  BY <1>2, <1>3

LEMMA CreateSigns ==
    ASSUME SignInv, create_writer
    PROVE  SignInv'
<1> SUFFICES ASSUME job = "sign", job' = job PROVE SignInv'
  BY DEF create_writer, SignInv
<1>1. /\ UNCHANGED <<input, reader, tmp>> /\ pc = "create" /\ pc' = "copy"
      /\ obj' = Writer /\ i' = 1
  BY DEF create_writer, Goto
<1>2. Reading /\ Files
  BY <1>1 DEF SignInv
<1>3. ReaderRead
  BY <1>2, ReadingIs
<1>4. Files' /\ Reading'
  BY <1>1, <1>2, FilesStay, ReadingStays
<1>5. Numbered'
  <2>1. /\ HashSegments' = HashSegments /\ Highest' = Highest
        /\ ImageDest' = ImageDest
    BY <1>1, ReaderStays
  <2> QED
    BY <2>1 DEF create_writer, Numbered
<1>6. i' \in 1..(Len(reader'.segs) + 1) /\ i' - 1 = 0
  BY <1>1, <1>3 DEF ReaderRead
<1>7. Exports(i - 1)'
  BY <1>6 DEF Exports
<1>8. Growing(obj, CopiedAmong(i - 1))'
  <2>1. Growing(obj', <<>>)
    BY <1>1, <1>3, WriterGrows
  <2>2. CopiedAmong(i - 1)' = <<>>
    <3>1. CopiedAmong(0)' = CopiedAmong(0)
      BY <1>1, CopiedAmongStays
    <3> QED
      BY <1>6, <3>1, CopiesGrow
  <2> QED
    BY <1>1, <2>1, <2>2, GrowingStays
<1> QED
  BY <1>1, <1>4, <1>5, <1>6, <1>7, <1>8 DEF SignInv, Laying, Ordering, Segmenting

-----------------------------------------------------------------------------
LEMMA FileExported ==
    ASSUME ReaderRead, Files, hash_offset \in Nat,
           NEW k \in 1..Len(reader.segs), HasData(reader.segs[k]),
           UNCHANGED <<reader, hash_offset>>,
           tmp' = [l \in DOMAIN tmp \cup {FileNumber(k)} |->
                     IF l = FileNumber(k) THEN SegmentFile(reader.segs[k])
                     ELSE tmp[l]]
    PROVE  /\ Files' /\ DOMAIN tmp \subseteq DOMAIN tmp'
           /\ FileNumber(k) \in DOMAIN tmp'
           /\ tmp'[FileNumber(k)] = SegmentFile(reader.segs[k])
           /\ \A l \in DOMAIN tmp : l # FileNumber(k) => tmp'[l] = tmp[l]
<1> DEFINE n == FileNumber(k)
           t == SegmentFile(reader.segs[k])
           S == DOMAIN tmp
<1>1. n \in Nat
  <2>1. k \in Nat /\ k >= 1
    BY DEF ReaderRead
  <2> QED
    BY <2>1 DEF FileNumber
<1>2. t.size \in Nat \ {0}
  <2>1. SegmentRead(reader.segs[k])
    BY DEF ReaderRead
  <2>2. reader.segs[k].filesz \in Nat \ {0}
    BY <2>1 DEF SegmentRead, HasData
  <2> QED
    BY <2>2 DEF SegmentFile
<1>3. tmp' = [l \in S \cup {n} |-> IF l = n THEN t ELSE tmp[l]]
  OBVIOUS
<1>4. IsFiniteSet(S) /\ S \subseteq Nat /\ \A l \in S : tmp[l].size \in Nat \ {0}
  BY DEF Files
<1> HIDE DEF n, t
<1>5. /\ DOMAIN tmp' = S \cup {n} /\ tmp'[n] = t
      /\ \A l \in S : l # n => tmp'[l] = tmp[l]
  BY <1>3
<1>6. IsFiniteSet(S \cup {n})
  BY <1>4, FS_AddElement
<1>7. Files'
  BY <1>1, <1>2, <1>4, <1>5, <1>6 DEF Files
<1> QED
  BY <1>5, <1>7 DEF n, t

LEMMA NumbersDiffer ==
    ASSUME hash_offset \in Nat, NEW k \in Nat, NEW l \in Nat, k # l
    PROVE  FileNumber(k) # FileNumber(l)
BY DEF FileNumber

LEMMA CopyExports ==
    ASSUME ReaderRead, Files, hash_offset \in Nat,
           NEW n \in Nat, n + 1 \in 1..Len(reader.segs), Exports(n),
           UNCHANGED <<reader, hash_offset>>,
           ~Skipped(reader.segs[n + 1]),
           tmp' = IF HasData(reader.segs[n + 1])
                  THEN [l \in DOMAIN tmp \cup {FileNumber(n + 1)} |->
                          IF l = FileNumber(n + 1)
                          THEN SegmentFile(reader.segs[n + 1]) ELSE tmp[l]]
                  ELSE tmp
    PROVE  /\ Files'
           /\ \A m : m = n + 1 => Exports(m)'
<1>1. \A k : FileNumber(k)' = FileNumber(k)
  BY DEF FileNumber
<1>2. 1..(n + 1) = (1..n) \cup {n + 1} /\ \A k \in 1..n : k \in Nat /\ k # n + 1
  OBVIOUS
<1>3. CASE HasData(reader.segs[n + 1])
  <2>1. /\ Files' /\ DOMAIN tmp \subseteq DOMAIN tmp'
        /\ FileNumber(n + 1) \in DOMAIN tmp'
        /\ tmp'[FileNumber(n + 1)] = SegmentFile(reader.segs[n + 1])
        /\ \A l \in DOMAIN tmp : l # FileNumber(n + 1) => tmp'[l] = tmp[l]
    BY <1>3, FileExported
  <2>2. \A k \in 1..n : FileNumber(k) # FileNumber(n + 1)
    BY <1>2, NumbersDiffer
  <2>3. ASSUME NEW k \in 1..(n + 1), ~Skipped(reader.segs[k]),
               HasData(reader.segs[k])
        PROVE  /\ FileNumber(k) \in DOMAIN tmp'
               /\ tmp'[FileNumber(k)] = SegmentFile(reader.segs[k])
    <3>1. CASE k = n + 1
      BY <2>1, <3>1
    <3>2. CASE k \in 1..n
      <4>1. /\ FileNumber(k) \in DOMAIN tmp
            /\ tmp[FileNumber(k)] = SegmentFile(reader.segs[k])
        BY <2>3, <3>2 DEF Exports
      <4> QED
        BY <2>1, <2>2, <3>2, <4>1
    <3> QED
      BY <1>2, <3>1, <3>2
  <2>4. \A m : m = n + 1 => Exports(m)'
    BY <1>1, <2>3 DEF Exports
  <2> QED
    BY <2>1, <2>4
<1>4. CASE ~HasData(reader.segs[n + 1])
  <2>1. UNCHANGED tmp
    BY <1>4
  <2>2. \A k \in 1..(n + 1) :
          ~Skipped(reader.segs[k]) /\ HasData(reader.segs[k]) =>
            /\ FileNumber(k) \in DOMAIN tmp
            /\ tmp[FileNumber(k)] = SegmentFile(reader.segs[k])
    BY <1>2, <1>4 DEF Exports
  <2>3. \A m : m = n + 1 => Exports(m)'
    BY <1>1, <2>1, <2>2 DEF Exports
  <2> QED
    BY <2>1, <2>3, FilesStay
<1> QED
  BY <1>3, <1>4

LEMMA CopySigns ==
    ASSUME SignInv, hash_offset \in Nat, copy_segment
    PROVE  SignInv'
<1> DEFINE n == i - 1
           g == reader.segs[i]
           N == CopiedAmong(n)
<1> SUFFICES ASSUME job = "sign", job' = job PROVE SignInv'
  BY DEF copy_segment, SignInv
<1>1. /\ UNCHANGED <<input, reader, mi, hash_offset, pc>> /\ pc = "copy"
      /\ i' = i + 1 /\ i \in DOMAIN reader.segs
  BY DEF copy_segment
<1>2. Reading /\ Files /\ Numbered /\ Exports(n) /\ Growing(obj, N)
  BY <1>1 DEF SignInv
<1>3. ReaderRead
  BY <1>2, ReadingIs
<1>4. Reading' /\ Numbered'
  BY <1>1, <1>2, ReadingStays, NumberedStays
<1>5. /\ n \in Nat /\ n + 1 = i /\ i \in 1..Len(reader.segs) /\ i' - 1 = i
      /\ i' \in 1..(Len(reader'.segs) + 1) /\ Len(reader.segs) \in Nat
  BY <1>1, <1>3 DEF ReaderRead
<1> HIDE DEF n
<1>6. CopiedAmong(i - 1)' = IF Skipped(g) THEN N ELSE Append(N, i)
  <2>1. \A k : CopiedAmong(k)' = CopiedAmong(k)
    BY <1>1, CopiedAmongStays
  <2>2. CopiedAmong(i - 1)' = CopiedAmong(n + 1)
    BY <1>5, <2>1
  <2>3. CopiedAmong(n + 1) = IF Skipped(reader.segs[n + 1]) THEN CopiedAmong(n)
                             ELSE Append(CopiedAmong(n), n + 1)
    BY <1>5, CopiesGrow
  <2> QED
    BY <1>5, <2>2, <2>3
<1>7. CASE Skipped(g)
  <2>1. UNCHANGED <<obj, tmp>>
    BY <1>7 DEF copy_segment
  <2>2. Files'
    BY <1>2, <2>1, FilesStay
  <2>3. Exports(i - 1)'
    <3>1. Exports(i)
      <4>1. \A k \in 1..i : k # i => k \in 1..n
        BY <1>5
      <4> QED
        BY <1>2, <1>7, <4>1 DEF Exports
    <3>2. \A k : FileNumber(k)' = FileNumber(k)
      BY <1>1 DEF FileNumber
    <3> QED
      BY <1>1, <1>5, <2>1, <3>1, <3>2 DEF Exports
  <2>4. Growing(obj, CopiedAmong(i - 1))'
    BY <1>1, <1>2, <1>6, <1>7, <2>1, GrowingStays
  <2> QED
    BY <1>1, <1>4, <1>5, <2>2, <2>3, <2>4
    DEF SignInv, Laying, Ordering, Segmenting
<1>8. CASE ~Skipped(g)
  <2>1. /\ obj' = LET o == AddSection(obj, DataSection(g))
                  IN  AddSegment(o, Copied(g, Len(o.secs)))
        /\ tmp' = IF HasData(g)
                  THEN [k \in DOMAIN tmp \cup {FileNumber(i)} |->
                          IF k = FileNumber(i) THEN SegmentFile(g)
                                               ELSE tmp[k]]
                  ELSE tmp
    BY <1>8 DEF copy_segment
  <2>2. Files' /\ \A m : m = n + 1 => Exports(m)'
    <3> HIDE DEF N
    <3>1. n + 1 \in 1..Len(reader.segs) /\ reader.segs[n + 1] = g
      BY <1>5
    <3> HIDE DEF g
    <3> QED
      BY <1>1, <1>2, <1>3, <1>5, <1>8, <2>1, <3>1, CopyExports
  <2>3. Exports(i - 1)'
    BY <1>5, <2>2
  <2>4. Growing(obj, CopiedAmong(i - 1))'
    <3>1. N \in Seq(Nat)
      BY <1>5, CopiesAre
    <3>2. Growing(obj', Append(N, i))
      BY <1>2, <1>3, <1>5, <2>1, <3>1, CopyGrows
    <3> HIDE DEF N, g
    <3> QED
      BY <1>1, <1>6, <1>8, <3>2, GrowingStays
  <2> QED
    BY <1>1, <1>4, <1>5, <2>2, <2>3, <2>4
    DEF SignInv, Laying, Ordering, Segmenting
<1> QED
  BY <1>7, <1>8

-----------------------------------------------------------------------------
LEMMA HeadersSign ==
    ASSUME SignInv, header_segment
    PROVE  SignInv'
<1> SUFFICES ASSUME job = "sign", job' = job PROVE SignInv'
  BY DEF header_segment, signVars, SignInv
<1>1. /\ UNCHANGED <<input, reader, mi, hash_offset, i, tmp>> /\ pc = "copy"
      /\ pc' = "save" /\ i \notin DOMAIN reader.segs
  BY DEF header_segment, signVars, Goto
<1>2. /\ Reading /\ Files /\ Numbered /\ Exports(i - 1)
      /\ Growing(obj, CopiedAmong(i - 1)) /\ i \in 1..(Len(reader.segs) + 1)
  BY <1>1 DEF SignInv
<1>3. ReaderRead
  BY <1>2, ReadingIs
<1>4. Reading' /\ Numbered' /\ Files'
  BY <1>1, <1>2, FilesStay, ReadingStays, NumberedStays
<1>5. i - 1 = Len(reader.segs)
  BY <1>1, <1>2, <1>3 DEF ReaderRead
<1>6. Growing(obj, Copies)
  BY <1>2, <1>5 DEF Copies
<1>7. Signing(obj') /\ Fresh(obj')
  BY <1>3, <1>6, HeadersGrow
<1>8. Signing(obj)' /\ Fresh(obj)'
  BY <1>1, <1>7, SigningStays DEF Fresh
<1>9. SavingInv'
  BY <1>1, <1>8 DEF SavingInv, InOrder, Laying, Ordering, Segmenting
<1>10. Exports(Len(reader.segs))'
  <2>1. Exports(Len(reader.segs))
    BY <1>2, <1>5
  <2>2. \A n : Exports(n) => Exports(n)'
    BY <1>1, ExportsStay
  <2> QED
    BY <1>1, <2>1, <2>2
<1> QED
  BY <1>1, <1>4, <1>9, <1>10 DEF SignInv, Laying, Ordering, Segmenting

LEMMA LayoutPC ==
    ASSUME LayoutNext
    PROVE  /\ pc \in {"save"} \cup Laying /\ pc' \in Laying \cup {"crashed"}
           /\ pc # "saved" /\ (pc' = "saved" => write_file)
BY DEF LayoutNext, save, bring_to_front, in_front, get_ordered_segments,
       open_segment, crash_on_alignment, null_section, made_section,
       place_section, close_segment, segments_done, layout_loose_section,
       layout_section_table, write_file, Placing, Goto, Laying, Ordering,
       Segmenting

LEMMA SavingSigns ==
    ASSUME SignInv, LayInv, LayoutNext, UNCHANGED signVars
    PROVE  SignInv'
<1> SUFFICES ASSUME job = "sign", job' = job PROVE SignInv'
  BY DEF signVars, SignInv
<1>1. /\ pc \in {"save"} \cup Laying /\ pc' \in Laying \cup {"crashed"}
  BY LayoutPC
<1>2. UNCHANGED <<input, reader, mi, hash_offset, i, tmp>>
  BY DEF signVars
<1>3. /\ Reading /\ Files /\ Numbered /\ SavingInv
      /\ Exports(Len(reader.segs))
  BY <1>1 DEF SignInv, Laying, Ordering, Segmenting
<1>4. ReaderRead
  BY <1>3, ReadingIs
<1>5. Reading' /\ Numbered' /\ Files'
  BY <1>2, <1>3, FilesStay, ReadingStays, NumberedStays
<1>6. SavingInv'
  BY <1>3, <1>4, LayoutSigns
<1>7. Exports(Len(reader.segs))'
  <2>1. \A n : Exports(n) => Exports(n)'
    BY <1>2, ExportsStay
  <2> QED
    BY <1>2, <1>3, <2>1
<1> QED
  BY <1>1, <1>5, <1>6, <1>7 DEF SignInv, Laying, Ordering, Segmenting

LEMMA AssembleSigns ==
    ASSUME SignInv, LayInv, hash_offset \in Nat, assemble
    PROVE  SignInv'
<1>1. /\ job = "sign" /\ job' = job /\ pc = "saved" /\ pc' = "done"
      /\ UNCHANGED <<tmp, hash_offset>> /\ file' = SignedFile
  BY DEF assemble, Goto, SignedFile, SignatureSize
<1>2. /\ Reading /\ Files /\ Numbered /\ SavingInv
      /\ Exports(Len(reader.segs))
  BY <1>1 DEF SignInv, Laying, Ordering, Segmenting
<1>3. ReaderRead
  BY <1>2, ReadingIs
<1>4. Files'
  BY <1>1, <1>2, FilesStay
<1>5. SegmentsKept' /\ HashPerSegment' /\ PointersRight'
  BY <1>1, <1>2, <1>3, SegmentsSigned, TableSigned, PointersSigned
<1>6. hash_offset' = 2 => GoodFile(file')
  BY <1>1, <1>2, <1>3, SignedIsGood
<1> QED
  BY <1>1, <1>4, <1>5, <1>6 DEF SignInv, Laying, Ordering, Segmenting

LEMMA SignAgainSigns ==
    ASSUME SignInv, sign_again
    PROVE  SignInv'
<1>1. /\ job = "sign" /\ job' = job /\ pc = "done" /\ pc' = "load"
      /\ input' = file /\ tmp' \in {tmp, <<>>} /\ hash_offset = 2
  BY DEF sign_again, Goto
<1>2. Files /\ GoodFile(file)
  BY <1>1 DEF SignInv
<1>3. Files'
  <2>1. CASE tmp' = tmp
    BY <1>2, <2>1, FilesStay
  <2>2. CASE tmp' = <<>>
    <3>1. DOMAIN tmp' = {} /\ IsFiniteSet({})
      BY <2>2, FS_EmptySet
    <3> QED
      BY <3>1 DEF Files
  <2> QED
    BY <1>1, <2>1, <2>2
<1> QED
  BY <1>1, <1>2, <1>3 DEF SignInv, Laying, Ordering, Segmenting

LEMMA OthersSign ==
    ASSUME SignInv,
           \/ crash_on_max_seg \/ load_again \/ save_program
           \/ elfio_copy \/ no_segment_files
    PROVE  SignInv'
<1>1. CASE crash_on_max_seg
  BY <1>1, FilesStay
  DEF crash_on_max_seg, signVars, SignInv, Goto, Laying, Ordering, Segmenting
<1>2. CASE load_again
  BY <1>2 DEF load_again, SignInv
<1>3. CASE save_program
  BY <1>3 DEF save_program, SignInv, signVars
<1>4. CASE elfio_copy
  BY <1>4 DEF elfio_copy, SignInv
<1>5. CASE no_segment_files
  BY <1>5, FilesStay
  DEF no_segment_files, signVars, SignInv, Goto, Laying, Ordering, Segmenting
<1> QED
  BY <1>1, <1>2, <1>3, <1>4, <1>5

LEMMA SavingStays ==
    ASSUME SavingInv, UNCHANGED vars
    PROVE  SavingInv'
<1>1. UNCHANGED <<obj, pc, file, pos, work, ordered, made, cur, nth, start, mem,
                  fsz, back, reader>>
  BY DEF vars, layoutVars, signVars
<1>2. /\ Count' = Count /\ hash_segment_address' = hash_segment_address
  BY <1>1, ReaderStays
<1>3. Signing(obj)'
  BY <1>1, SigningStays DEF SavingInv
<1>4. TablesEnd' = TablesEnd /\ \A g : SectionOf(g)' = SectionOf(g)
  BY <1>1, <1>2 DEF TablesEnd, PhdrsSize, SectionOf
<1>5. \A g, p : StartOf(g, p)' <=> StartOf(g, p)
  BY <1>1, <1>4 DEF StartOf
<1>6. \A g, p, x, y : SectionAt(g, p, x, y)' <=> SectionAt(g, p, x, y)
  BY <1>1 DEF SectionAt
<1>7. \A g : /\ Laid(g)' <=> Laid(g)
             /\ Passed(g)' <=> Passed(g)
  BY <1>1, <1>5, <1>6 DEF Laid, Passed
<1>8. InOrder'
  BY <1>1, <1>2 DEF SavingInv, InOrder
<1>9. Segmented => Segmented'
  BY <1>1, <1>2, <1>4, <1>5, <1>6, <1>7, Zenon DEF Segmented
<1>10. Fresh(obj) => Fresh(obj)'
  BY <1>1 DEF Fresh
<1> QED
  BY <1>1, <1>2, <1>3, <1>4, <1>7, <1>8, <1>9, <1>10 DEF SavingInv

LEMMA SignStutters ==
    ASSUME SignInv, UNCHANGED vars
    PROVE  SignInv'
<1> SUFFICES ASSUME job = "sign" PROVE SignInv'
  BY DEF SignInv, vars, signVars
<1>1. UNCHANGED <<obj, pc, file, job, input, reader, mi, hash_offset, i, tmp,
                  image>>
  BY DEF vars, signVars
<1>2. Files'
  BY <1>1, FilesStay DEF SignInv
<1>3. /\ Reading => Reading'
      /\ Numbered => Numbered'
      /\ SavingInv => SavingInv'
  BY <1>1, ReadingStays, NumberedStays, SavingStays
<1>4. /\ Exports(i - 1) => Exports(i - 1)'
      /\ Exports(Len(reader.segs)) => Exports(Len(reader.segs))'
  <2>1. \A n : Exports(n) => Exports(n)'
    BY <1>1, ExportsStay
  <2> QED
    BY <1>1, <2>1
<1>5. Growing(obj, CopiedAmong(i - 1)) => Growing(obj, CopiedAmong(i - 1))'
  BY <1>1, CopiedAmongStays, GrowingStays
<1>6. /\ SegmentsKept => SegmentsKept'
      /\ HashPerSegment => HashPerSegment'
      /\ PointersRight => PointersRight'
  <2>1. /\ CopiedSegments' = CopiedSegments /\ HashSegments' = HashSegments
        /\ hash_segment_address' = hash_segment_address
    BY <1>1, CopiedStays, ReaderStays
  <2>2. Output' = Output /\ (Signed' <=> Signed)
    BY <1>1 DEF Output, Signed
  <2>3. \A a : OffsetOf(a)' = OffsetOf(a)
    BY <2>2 DEF OffsetOf
  <2>4. SegmentsKept => SegmentsKept'
    BY <1>1, <2>1, <2>2, Zenon DEF SegmentsKept, AlignedHash
  <2>5. HashPerSegment => HashPerSegment'
    BY <1>1, <2>1, <2>2, Zenon DEF HashPerSegment
  <2>6. PointersRight => PointersRight'
    BY <1>1, <2>1, <2>2, <2>3 DEF PointersRight
  <2> QED
    BY <2>4, <2>5, <2>6
<1> QED
  BY <1>1, <1>2, <1>3, <1>4, <1>5, <1>6 DEF SignInv

-----------------------------------------------------------------------------
(* The jobs of the tests.                                                  *)
SameNumbers(o, p) == p.hdr = o.hdr /\ DOMAIN p.secs = DOMAIN o.secs

LEMMA LayoutKeepsNumbers ==
    ASSUME Saveable(obj), LayoutNext
    PROVE  SameNumbers(obj, obj')
<1>1. DOMAIN obj = {"hdr", "secs", "segs"}
  BY DEF Saveable
<1>2. CASE place_section
  BY <1>1, <1>2 DEF place_section, SameNumbers
<1>3. CASE close_segment
  BY <1>1, <1>3 DEF close_segment, SameNumbers
<1>4. CASE layout_loose_section
  BY <1>1, <1>4 DEF layout_loose_section, SameNumbers
<1>5. CASE ~place_section /\ ~close_segment /\ ~layout_loose_section
  <2>1. UNCHANGED obj
    BY <1>5 DEF LayoutNext, save, bring_to_front, in_front,
         get_ordered_segments, open_segment, crash_on_alignment, null_section,
         made_section, segments_done, layout_section_table, write_file
  <2> QED
    BY <2>1 DEF SameNumbers
<1> QED
  BY <1>2, <1>3, <1>4, <1>5

LEMMA WrittenIsLoadable ==
    ASSUME NEW o, Names(o), NEW p
    PROVE  Names(load(FileOf(o, p)))
<1> DEFINE f == FileOf(o, p)
           q == load(f)
           h == [hdr |-> f.hdr, secs |-> f.shs, segs |-> f.phs]
<1>1. /\ f.hdr = [o.hdr EXCEPT !.shoff = p] /\ f.shs = o.secs /\ f.phs = o.segs
  BY DEF FileOf
<1>2. /\ h.hdr = [o.hdr EXCEPT !.shoff = p] /\ h.secs = o.secs
      /\ h.segs = o.segs /\ DOMAIN h = {"hdr", "secs", "segs"}
  BY <1>1
<1> HIDE DEF f, h
<1>3. /\ DOMAIN h.hdr = DOMAIN o.hdr /\ h.hdr.class = o.hdr.class
      /\ h.hdr.shstrndx = o.hdr.shstrndx
  <2>1. DOMAIN o.hdr = {"magic", "class", "encoding", "shstrndx", "entry", "shoff"}
    BY DEF Names, Saveable, Header
  <2> QED
    BY <1>2, <2>1
<1>4. Saveable(h)
  BY <1>2, <1>3 DEF Names, Saveable
<1>5. Loadable(f)
  BY <1>4 DEF Loadable, h
<1>6. LoadedFrom(q, f)
  BY <1>5, FileLoaded
<1> HIDE DEF q
<1>7. /\ Saveable(q) /\ q.hdr = f.hdr /\ DOMAIN q.secs = 1..Len(f.shs)
      /\ DOMAIN f.shs = 1..Len(f.shs)
  BY <1>6 DEF LoadedFrom
<1>8. q.hdr.shstrndx \in DOMAIN q.secs
  BY <1>1, <1>2, <1>3, <1>7 DEF Names, h
<1>9. Names(q)
  BY <1>7, <1>8 DEF Names
<1> QED
  BY <1>9 DEF q, f

Added == [NewSection EXCEPT !.name = "new"]

LEMMA SectionCopied ==
    ASSUME NEW o, Names(o)
    PROVE  Names(AddSection(o, Added))
<1>1. IsSection(Added) /\ Added.name = "new"
  BY DEF Added, IsSection, NewSection
<1>2. NameSize(Added.name) \in Nat
  BY <1>1, AddedNamesAssumption
<1>3. AddedTo(AddSection(o, Added), o, Added)
  BY <1>1, <1>2, SectionAdded DEF Names
<1> DEFINE p == AddSection(o, Added)
<1> HIDE DEF p
<1>4. /\ Saveable(p) /\ p.hdr = o.hdr /\ Len(p.secs) = Len(o.secs) + 1
      /\ Len(o.secs) \in Nat /\ o.hdr.shstrndx \in 1..Len(o.secs)
  BY <1>3 DEF AddedTo, p
<1>5. DOMAIN p.secs = 1..Len(p.secs)
  BY <1>4, LenProperties DEF Saveable
<1>6. Names(p)
  BY <1>4, <1>5 DEF Names
<1> QED
  BY <1>6 DEF p

LEMMA OthersBegin ==
    ASSUME Init
    PROVE  OthersInv
<1> USE DEF Laying, Ordering, Segmenting
<1>1. CASE job = "copy"
  BY <1>1, FilesAssumption DEF Init, OthersInv
<1>2. CASE job = "write"
  BY <1>2, FilesAssumption DEF Init, OthersInv, Names
<1>3. CASE job = "sign"
  BY <1>3 DEF OthersInv
<1> QED
  BY <1>1, <1>2, <1>3 DEF Init

LEMMA OthersLayOut ==
    ASSUME OthersInv, LayInv, LayInv', LayoutNext, UNCHANGED signVars
    PROVE  OthersInv'
<1> SUFFICES ASSUME job # "sign", job' = job PROVE OthersInv'
  BY DEF OthersInv, signVars
<1>1. /\ pc \in {"save"} \cup Laying /\ pc' \in Laying \cup {"crashed"}
      /\ pc' = "saved" => write_file
  BY LayoutPC
<1>2. Saveable(obj)
  BY <1>1 DEF LayInv
<1>3. SameNumbers(obj, obj')
  BY <1>2, LayoutKeepsNumbers
<1>4. pc' \in Laying => Saveable(obj')
  BY DEF LayInv
<1>5. job \in {"write", "extend"} /\ pc' \in Laying => Names(obj')
  BY <1>1, <1>3, <1>4 DEF OthersInv, Names, SameNumbers
<1>6. pc' = "saved" => file' = FileOf(obj', pos')
  BY <1>1 DEF write_file, layoutVars
<1> QED
  BY <1>1, <1>5, <1>6 DEF OthersInv, Laying, Ordering, Segmenting

LEMMA OthersKeep ==
    ASSUME OthersInv, LayInv, [Next]_vars
    PROVE  OthersInv'
<1> USE DEF Laying, Ordering, Segmenting, Goto
<1>1. CASE LayoutNext /\ UNCHANGED signVars
  BY <1>1, LayoutKeeps, OthersLayOut
<1>2. CASE load_input
  <2>1. ASSUME IsElf(input), job = "copy" PROVE Saveable(load(input))
    <3>1. Loadable(input)
      BY <1>2, <2>1 DEF load_input, OthersInv
    <3> QED
      BY <3>1, FileLoaded DEF LoadedFrom
  <2> QED
    BY <1>2, <2>1 DEF load_input, OthersInv
<1>3. CASE create_writer \/ crash_on_max_seg \/ copy_segment \/ header_segment
  BY <1>3 DEF create_writer, crash_on_max_seg, copy_segment, header_segment,
              OthersInv, signVars
<1>4. CASE assemble \/ no_segment_files \/ sign_again
  BY <1>4 DEF assemble, no_segment_files, sign_again, OthersInv
<1>5. CASE load_again
  <2>1. /\ again' = load(file) /\ pc = "saved" /\ pc' = "done" /\ job' = job
    BY <1>5 DEF load_again
  <2>2. job \in {"write", "extend"} => Names(load(file))
    BY <2>1, WrittenIsLoadable DEF OthersInv
  <2> QED
    BY <2>1, <2>2 DEF OthersInv
<1>6. CASE save_program
  BY <1>6 DEF save_program, OthersInv, Names, signVars
<1>7. CASE elfio_copy
  <2>1. /\ Names(again) /\ obj' = AddSection(again, Added) /\ pc' = "save"
        /\ job' = "extend"
    BY <1>7 DEF elfio_copy, OthersInv, Added
  <2>2. Names(obj')
    BY <2>1, SectionCopied
  <2> QED
    BY <2>1, <2>2 DEF OthersInv, Names
<1>8. CASE UNCHANGED vars
  BY <1>8 DEF OthersInv, vars, layoutVars, signVars
<1> QED
  BY <1>1, <1>2, <1>3, <1>4, <1>5, <1>6, <1>7, <1>8 DEF Next, Stopped

-----------------------------------------------------------------------------
(* Together.                                                               *)
StepOK ==
    /\ job \in {"sign", "copy", "write", "extend"} /\ hash_offset \in {0, 2}
    /\ pc \in {"load", "made", "create", "copy", "failed", "done", "crashed",
               "save"} \cup Laying

ProgramInv == StepOK /\ LayInv /\ SignInv /\ OthersInv

LEMMA StepsKeep ==
    ASSUME StepOK, [Next]_vars
    PROVE  StepOK'
<1> USE DEF Laying, Ordering, Segmenting, Goto
<1>1. CASE LayoutNext /\ UNCHANGED signVars
  BY <1>1, LayoutPC DEF StepOK, signVars
<1>2. CASE load_input
  BY <1>2 DEF load_input, StepOK
<1>3. CASE create_writer \/ crash_on_max_seg \/ no_segment_files
  BY <1>3 DEF create_writer, crash_on_max_seg, no_segment_files, StepOK,
              signVars
<1>4. CASE copy_segment \/ header_segment
  BY <1>4 DEF copy_segment, header_segment, StepOK, signVars
<1>5. CASE assemble \/ sign_again \/ load_again
  BY <1>5 DEF assemble, sign_again, load_again, StepOK
<1>6. CASE save_program \/ elfio_copy
  BY <1>6 DEF save_program, elfio_copy, StepOK, signVars
<1>7. CASE UNCHANGED vars
  BY <1>7 DEF StepOK, vars, signVars
<1> QED
  BY <1>1, <1>2, <1>3, <1>4, <1>5, <1>6, <1>7 DEF Next, Stopped

LEMMA SignKeeps ==
    ASSUME StepOK, LayInv, SignInv, [Next]_vars
    PROVE  SignInv'
<1>1. hash_offset \in Nat
  BY DEF StepOK
<1>2. CASE LayoutNext /\ UNCHANGED signVars
  BY <1>2, SavingSigns
<1>3. CASE load_input
  BY <1>3, LoadSigns
<1>4. CASE create_writer
  BY <1>4, CreateSigns
<1>5. CASE copy_segment
  BY <1>1, <1>5, CopySigns
<1>6. CASE header_segment
  BY <1>6, HeadersSign
<1>7. CASE assemble
  BY <1>1, <1>7, AssembleSigns
<1>8. CASE sign_again
  BY <1>8, SignAgainSigns
<1>9. CASE \/ crash_on_max_seg \/ load_again \/ save_program
           \/ elfio_copy \/ no_segment_files
  BY <1>9, OthersSign
<1>10. CASE UNCHANGED vars
  BY <1>10, SignStutters
<1> QED
  BY <1>2, <1>3, <1>4, <1>5, <1>6, <1>7, <1>8, <1>9, <1>10 DEF Next, Stopped

LEMMA ProgramTypes == StepOK /\ SignInv /\ OthersInv => TypeOK
<1> SUFFICES ASSUME StepOK, SignInv, OthersInv PROVE TypeOK
  OBVIOUS
<1>1. pc = "save" => Saveable(obj)
  <2>1. CASE job = "sign"
    BY <2>1 DEF SignInv, SavingInv, Signing, Parts
  <2>2. CASE job # "sign"
    BY <2>2 DEF OthersInv
  <2> QED
    BY <2>1, <2>2
<1> QED
  BY <1>1 DEF TypeOK, StepOK, Laying, Ordering, Segmenting

LEMMA ProgramBegins ==
    ASSUME Init
    PROVE  ProgramInv
<1>1. StepOK /\ LayInv
  BY DEF Init, StepOK, LayInv, Laying, Ordering, Segmenting
<1> QED
  BY <1>1, SignBegins, OthersBegin DEF ProgramInv

LEMMA ProgramKeeps ==
    ASSUME ProgramInv, [Next]_vars
    PROVE  ProgramInv'
<1>1. StepOK' /\ SignInv' /\ OthersInv'
  BY StepsKeep, SignKeeps, OthersKeep DEF ProgramInv
<1>2. TypeOK'
  BY <1>1, ProgramTypes, PTL
<1>3. LayInv'
  BY <1>2, SignLkKeeps DEF ProgramInv
<1> QED
  BY <1>1, <1>3 DEF ProgramInv

(* The inductive invariant: the layout's, and what each job has made of    *)
(* its input so far.                                                       *)
THEOREM ProgramInvariant == Spec => []ProgramInv
<1>1. Init => ProgramInv
  BY ProgramBegins
<1>2. ProgramInv /\ [Next]_vars => ProgramInv'
  BY ProgramKeeps
<1> QED
  BY <1>1, <1>2, PTL DEF Spec

(* Every object signlk, the copying test and the programs of the tests     *)
(* hand to save() is one it can lay out.                                   *)
THEOREM TypeCorrect == Spec => []TypeOK
<1>1. ProgramInv => TypeOK
  BY ProgramTypes DEF ProgramInv
<1> QED
  BY <1>1, ProgramInvariant, PTL

(* Every file they save, the second time too, is laid out apart.           *)
THEOREM SignedApart == Spec => []NoOverlap
<1>1. ProgramInv => NoOverlap
  BY NothingOverlaps DEF ProgramInv
<1> QED
  BY <1>1, ProgramInvariant, PTL

(* The signed file has every segment of the input but those of the old     *)
(* signature, in their order, with their bytes, at places congruent to     *)
(* their addresses: nothing signlk lays out and nothing the script writes  *)
(* over the file meets them.                                               *)
THEOREM SignedSegments == Spec => []SegmentsKept
<1>1. ProgramInv => SegmentsKept
  BY DEF ProgramInv, SignInv, SegmentsKept, Signed
<1> QED
  BY <1>1, ProgramInvariant, PTL

(* The hash table is that of the segments copied, in their order, exactly  *)
(* if they all have bytes and the directory held no other segment file.    *)
THEOREM SignedHashes == Spec => []HashPerSegment
<1>1. ProgramInv => HashPerSegment
  BY DEF ProgramInv, SignInv, HashPerSegment, Signed
<1> QED
  BY <1>1, ProgramInvariant, PTL

(* The pointers in the header of the hash table lead to where the script   *)
(* puts the table and the signature in exactly the cases named.            *)
THEOREM SignedPointers == Spec => []PointersRight
<1>1. ProgramInv => PointersRight
  BY DEF ProgramInv, SignInv, PointersRight, Signed
<1> QED
  BY <1>1, ProgramInvariant, PTL
=============================================================================
