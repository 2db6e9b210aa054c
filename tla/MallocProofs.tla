---------------------------- MODULE MallocProofs ----------------------------
(***************************************************************************)
(* The theorems about Malloc.  The invariant says that there is a set B of *)
(* addresses at which the blocks of the heap begin.  The lemmas say what   *)
(* placing, splitting, extending, freeing and merging do to that set, and  *)
(* that the search, which follows the headers, meets all of it; then come  *)
(* the actions, the theorems and the refinement of Allocator.              *)
(***************************************************************************)
EXTENDS Malloc, TLAPS, FiniteSetTheorems, WellFoundedInduction

Even == {n \in Nat : n % 2 = 0}

(* Even numbers, and how far apart they are *)
LEMMA EvenFacts ==
    /\ 0 \in Even /\ 2 \in Even /\ 4 \in Even
    /\ \A a \in Even : a \in Nat
    /\ \A a, b \in Even : a + b \in Even
    /\ \A a, b \in Even : a <= b => b - a \in Even
    /\ \A a, b \in Even : a < b => a + 2 <= b
    /\ \A a \in Nat : a + (a % 2) \in Even
    /\ \A a \in Nat : 2 * a \in Even
  BY DEF Even

(* The blocks of memory m begin at the addresses in B: they follow each    *)
(* other from the prologue to the epilogue below brk, and each repeats its *)
(* header in its footer, so that the list can be read in both directions.  *)
Heap(m, brk, B) ==
    /\ m \in [Addr -> Word]
    /\ brk \in Even /\ brk <= MaxHeap /\ m[HDRP(brk)] = Pack(0, 1)
    /\ heap_listp \in B
    /\ \A b \in B : /\ b \in Even /\ heap_listp <= b /\ b < brk
                    /\ GetSize(m, b) >= OVERHEAD
                    /\ NextBlkp(m, b) \in B \cup {brk}
                    /\ m[FTRP(m, b)] = m[HDRP(b)]
    /\ \A b, c \in B : b < c => NextBlkp(m, b) <= c
    /\ \A e \in (B \cup {brk}) \ {heap_listp} :
          PrevBlkp(m, e) \in B /\ NextBlkp(m, PrevBlkp(m, e)) = e

Used(m, B) == {b \in B : IsAlloc(m, b)}

(* No free block has a free neighbour. *)
Coalesced(m, B) == \A b \in B : IsAlloc(m, b) \/ IsAlloc(m, NextBlkp(m, b))

(* The blocks in S are in m2, tags and contents, as they are in m. *)
Keeps(m, m2, S) ==
    \A b \in S : \A a \in HDRP(b) .. FTRP(m, b) : m2[a] = m[a]

(* The blocks in use are those in U, the prologue among them. *)
Allocates(m, brk, B, U) ==
    Heap(m, brk, B) /\ Coalesced(m, B) /\ Used(m, B) = U /\ heap_listp \in U

(* The same with numbers in place of the macros. *)
LEMMA HeapFacts ==
    ASSUME NEW m, NEW brk, NEW B, Heap(m, brk, B)
    PROVE  /\ m \in [Addr -> Word] /\ brk \in Int /\ brk \in Even /\ brk <= MaxHeap
           /\ m[brk - 1].size = 0 /\ m[brk - 1].alloc = 1 /\ brk - 1 \in Addr
           /\ 2 \in B /\ B \subseteq Int /\ B \subseteq Even
           /\ \A b \in B :
                 /\ 2 <= b /\ b + 2 <= brk
                 /\ b - 1 \in Addr /\ m[b - 1].size \in Int /\ m[b - 1].size \in Even
                 /\ m[b - 1].alloc \in {0, 1}
                 /\ m[b - 1].size >= 2 /\ b + m[b - 1].size \in B \cup {brk}
                 /\ b + m[b - 1].size <= brk /\ b + m[b - 1].size - 2 \in Addr
                 /\ m[b + m[b - 1].size - 2] = m[b - 1]
           /\ \A b, c \in B : b < c => b + m[b - 1].size <= c
           /\ \A e \in B \cup {brk} : e \in Int /\ e \in Even /\ 2 <= e /\ e <= brk
           /\ \A e \in B \cup {brk} : e # 2 =>
                 /\ e - 2 \in Addr
                 /\ e - m[e - 2].size \in B
                 /\ m[e - 2].size = m[e - m[e - 2].size - 1].size
<1>0. /\ m \in [Addr -> Word] /\ brk \in Even /\ brk <= MaxHeap
      /\ m[brk - 1] = [size |-> 0, alloc |-> 1] /\ 2 \in B
      /\ \A b \in B : /\ b \in Even /\ 2 <= b /\ b < brk /\ m[b - 1].size >= 2
                      /\ b + m[b - 1].size \in B \cup {brk}
                      /\ m[b + m[b - 1].size - 2] = m[b - 1]
      /\ \A b, c \in B : b < c => b + m[b - 1].size <= c
      /\ \A e \in (B \cup {brk}) \ {2} :
            /\ e - m[e - 2].size \in B
            /\ (e - m[e - 2].size) + m[e - m[e - 2].size - 1].size = e
  BY DEF Heap, HDRP, GetSize, FTRP, NextBlkp, PrevBlkp, Pack, OVERHEAD, DSIZE, heap_listp
<1>1. /\ brk \in Int /\ MaxHeap \in Int /\ B \subseteq Int /\ B \subseteq Even
      /\ m[brk - 1].size = 0 /\ m[brk - 1].alloc = 1
      /\ \A a \in Addr : m[a].size \in Nat /\ m[a].alloc \in {0, 1}
      /\ \A a \in Int : a \in Addr <=> 0 <= a /\ a < MaxHeap
  <2>1. brk \in Int /\ B \subseteq Int /\ B \subseteq Even
    <3>1. brk \in Even /\ \A b \in B : b \in Even
      BY <1>0
    <3> QED
      BY <3>1, EvenFacts
  <2>2. m[brk - 1].size = 0 /\ m[brk - 1].alloc = 1
    BY <1>0
  <2>3. \A a \in Addr : m[a].size \in Nat /\ m[a].alloc \in {0, 1}
    <3> TAKE a \in Addr
    <3>1. m[a] \in Word
      BY <1>0
    <3> QED
      BY <3>1 DEF Word
  <2>4. MaxHeap \in Int /\ \A a \in Int : a \in Addr <=> 0 <= a /\ a < MaxHeap
    BY MallocAssumption DEF Addr
  <2> QED
    BY <2>1, <2>2, <2>3, <2>4
<1>2. ASSUME NEW b \in B
      PROVE  /\ 2 <= b /\ b + 2 <= brk
             /\ b - 1 \in Addr /\ m[b - 1].size \in Int /\ m[b - 1].size \in Even
             /\ m[b - 1].alloc \in {0, 1}
             /\ m[b - 1].size >= 2 /\ b + m[b - 1].size \in B \cup {brk}
             /\ b + m[b - 1].size <= brk /\ b + m[b - 1].size - 2 \in Addr
             /\ m[b + m[b - 1].size - 2] = m[b - 1]
  <2>1. b \in Int /\ 2 <= b /\ b < brk /\ b \in Even
    BY <1>0, <1>1
  <2>2. b + 2 <= brk /\ b - 1 \in Addr
    BY <1>0, <1>1, <2>1, EvenFacts
  <2>3. m[b - 1].size \in Nat /\ m[b - 1].alloc \in {0, 1}
    BY <1>1, <2>2
  <2>4. m[b - 1].size >= 2 /\ b + m[b - 1].size \in B \cup {brk}
    BY <1>0
  <2>5. b + m[b - 1].size <= brk
    BY <1>0, <1>1, <2>1, <2>3, <2>4
  <2>6. b + m[b - 1].size - 2 \in Addr
    BY <1>0, <1>1, <2>1, <2>3, <2>4, <2>5
  <2>7. b + m[b - 1].size \in Even
    BY <1>0, <2>4
  <2>8. (b + m[b - 1].size) - b \in Even
    <3> DEFINE n == b + m[b - 1].size
    <3>1. n \in Even /\ b \in Even /\ b <= n
      BY <2>1, <2>3, <2>7
    <3> HIDE DEF n
    <3>2. n - b \in Even
      BY <3>1, EvenFacts
    <3> QED
      BY <3>2 DEF n
  <2> QED
    BY <1>0, <1>1, <2>1, <2>2, <2>3, <2>4, <2>5, <2>6, <2>8
<1>3. ASSUME NEW e \in B \cup {brk}, e # 2
      PROVE  /\ e - 2 \in Addr
             /\ e - m[e - 2].size \in B
             /\ m[e - 2].size = m[e - m[e - 2].size - 1].size
  <2>1. e \in Int /\ 2 <= e /\ e <= MaxHeap
    BY <1>0, <1>1, <1>2
  <2>2. e - 2 \in Addr
    BY <1>0, <1>1, <1>3, <2>1
  <2>3. e - m[e - 2].size \in B
    BY <1>0, <1>3
  <2>4. (e - m[e - 2].size) + m[e - m[e - 2].size - 1].size = e
    BY <1>0, <1>3
  <2>5. m[e - 2].size \in Int /\ m[e - m[e - 2].size - 1].size \in Int
    BY <1>1, <1>2, <2>2, <2>3
  <2> QED
    BY <2>1, <2>2, <2>3, <2>4, <2>5
<1>4. brk - 1 \in Addr
  BY <1>0, <1>1, <1>2
<1>5. ASSUME NEW e \in B \cup {brk}
      PROVE  e \in Int /\ e \in Even /\ 2 <= e /\ e <= brk
  BY <1>0, <1>1, <1>2
<1> QED
  BY <1>0, <1>1, <1>2, <1>3, <1>4, <1>5

(* And back, from numbers to Heap *)
LEMMA HeapIntro ==
    ASSUME NEW brk \in Even, brk <= MaxHeap, NEW m \in [Addr -> Word], NEW B,
           m[brk - 1] = Pack(0, 1), 2 \in B,
           \A b \in B : /\ b \in Even /\ 2 <= b /\ b < brk
                        /\ m[b - 1].size >= 2 /\ b + m[b - 1].size \in B \cup {brk}
                        /\ m[b + m[b - 1].size - 2] = m[b - 1],
           \A b, c \in B : b < c => b + m[b - 1].size <= c,
           \A e \in B \cup {brk} : e # 2 =>
              /\ e - m[e - 2].size \in B
              /\ m[e - 2].size = m[e - m[e - 2].size - 1].size
    PROVE  Heap(m, brk, B)
<1>1. ASSUME NEW e \in (B \cup {brk}) \ {2}
      PROVE  (e - m[e - 2].size) + m[e - m[e - 2].size - 1].size = e
  <2>0. 2 \in Even /\ brk \in Int /\ 2 < brk
    BY EvenFacts
  <2>1. 2 <= e /\ e # 2 /\ e <= brk /\ e \in Even
    <3>1. CASE e \in B
      <4>1. e \in Even /\ 2 <= e /\ e < brk
        BY <3>1
      <4> QED
        BY <2>0, <4>1, EvenFacts
    <3>2. CASE e = brk
      BY <2>0, <3>2
    <3> QED
      BY <3>1, <3>2
  <2>2. e \in Int /\ 4 <= e /\ e <= MaxHeap
    BY <2>0, <2>1, EvenFacts, MallocAssumption
  <2>3. e - 2 \in Addr
    BY <2>2, MallocAssumption DEF Addr
  <2>4. m[e - 2].size \in Int
    BY <2>3 DEF Word
  <2> QED
    BY <2>2, <2>4
<1> QED
  BY <1>1 DEF Heap, HDRP, GetSize, FTRP, NextBlkp, PrevBlkp, Pack, OVERHEAD, DSIZE, heap_listp

(* From m to m2 the words before f and two before e have become `tag`.     *)
Tagged(m, m2, f, e, tag) ==
    /\ m2 \in [Addr -> Word] /\ m2[f - 1] = tag /\ m2[e - 2] = tag
    /\ \A a \in Addr \ {f - 1, e - 2} : m2[a] = m[a]

(* The footer is put where the header just put says.                       *)
LEMMA PutTagsEffect ==
    ASSUME NEW m \in [Addr -> Word], NEW f, f \in Int, f - 1 \in Addr,
           NEW e, e \in Int, f + 2 <= e, e - 2 \in Addr,
           NEW size, size = e - f, NEW alloc, alloc \in {0, 1},
           NEW m2, m2 = PutTags(m, f, size, alloc)
    PROVE  Tagged(m, m2, f, e, Pack(size, alloc))
<1> DEFINE h == [m EXCEPT ![f - 1] = Pack(size, alloc)]
<1>1. Pack(size, alloc) \in Word /\ Pack(size, alloc).size = size
  BY DEF Pack, Word
<1>2. h \in [Addr -> Word] /\ h[f - 1] = Pack(size, alloc)
      /\ \A a \in Addr \ {f - 1} : h[a] = m[a]
  BY <1>1
<1>3. m2 = [h EXCEPT ![e - 2] = Pack(size, alloc)]
  <2>1. FTRP(h, f) = e - 2
    BY <1>1, <1>2 DEF FTRP, GetSize, HDRP, DSIZE
  <2> QED
    BY <2>1 DEF PutTags, Put, HDRP
<1>4. f - 1 # e - 2
  OBVIOUS
<1> HIDE DEF h
<1> QED
  BY <1>1, <1>2, <1>3, <1>4 DEF Tagged

(* Neither tags nor contents matter but the tags of the blocks. *)
LEMMA SameTags ==
    ASSUME NEW m, NEW brk, NEW B, Heap(m, brk, B), NEW m2 \in [Addr -> Word],
           m2[brk - 1] = m[brk - 1],
           \A b \in B : m2[b - 1] = m[b - 1]
                        /\ m2[b + m[b - 1].size - 2] = m[b + m[b - 1].size - 2]
    PROVE  Heap(m2, brk, B)
<1>1. m[brk - 1] = Pack(0, 1)
  BY DEF Heap, HDRP
<1>2. ASSUME NEW e \in B \cup {brk}, e # 2
      PROVE  m2[e - 2] = m[e - 2] /\ e - m2[e - 2].size \in B
             /\ m2[e - 2].size = m2[e - m2[e - 2].size - 1].size
  <2> DEFINE c == e - m[e - 2].size
  <2>1. c \in B /\ m[c - 1].size = m[e - 2].size /\ m[c - 1].size \in Int /\ e \in Int
    BY <1>2, HeapFacts
  <2>2. c + m[c - 1].size - 2 = e - 2
    BY <2>1
  <2>3. m2[e - 2] = m[e - 2] /\ m2[c - 1] = m[c - 1]
    BY <2>1, <2>2
  <2> QED
    BY <2>1, <2>3
<1>3. ASSUME NEW b \in B
      PROVE  /\ b \in Even /\ 2 <= b /\ b < brk
             /\ m2[b - 1].size >= 2 /\ b + m2[b - 1].size \in B \cup {brk}
             /\ m2[b + m2[b - 1].size - 2] = m2[b - 1]
  BY HeapFacts
<1> QED
  BY <1>1, <1>2, <1>3, HeapFacts, HeapIntro

(* The headers of the blocks in S are in m2 what they are in m. *)
SameHeaders(m, m2, S) == \A b \in S : m2[b - 1] = m[b - 1]

(* Of the blocks B, those that do not begin between f and e. *)
Outside(B, f, e) == {b \in B : b <= f \/ e <= b}

(* From m to m2 the run of blocks from f up to e has become one, with tag  *)
(* `tag`, and no other tag has changed.                                    *)
Retagged(m, m2, brk, B, f, e, tag) ==
    /\ Heap(m2, brk, Outside(B, f, e)) /\ m2[f - 1] = tag
    /\ SameHeaders(m, m2, (Outside(B, f, e) \cup {brk}) \ {f})
    /\ \A a \in Addr \ {f - 1, e - 2} : m2[a] = m[a]

(* A run of neighbouring blocks becomes one. *)
LEMMA Retag ==
    ASSUME NEW m, NEW brk, NEW B, Heap(m, brk, B),
           NEW f \in B, NEW e \in B \cup {brk}, f < e, NEW alloc \in {0, 1},
           NEW size, size = e - f, NEW m2, m2 = PutTags(m, f, size, alloc)
    PROVE  Retagged(m, m2, brk, B, f, e, Pack(size, alloc))
<1> DEFINE B2 == Outside(B, f, e)
<1>b. B2 \in SUBSET B /\ \A b \in B : b \in B2 <=> b <= f \/ e <= b
  BY DEF Outside
<1> HIDE DEF B2
<1>0. /\ f \in Int /\ e \in Int /\ brk \in Int /\ 2 <= f /\ e <= brk /\ f + 2 <= e
      /\ f - 1 \in Addr /\ e - 2 \in Addr /\ e - f \in Nat /\ m \in [Addr -> Word]
      /\ f + (e - f) - 2 = e - 2 /\ f \in Even /\ B \subseteq Int
  <2>1. f \in Int /\ e \in Int /\ 2 <= f /\ e <= brk /\ f \in Even /\ e \in Even
    BY HeapFacts
  <2>2. f + 2 <= e
    BY <2>1, EvenFacts
  <2>3. e # 2
    BY <2>1, <2>2
  <2>4. f - 1 \in Addr /\ e - 2 \in Addr /\ m \in [Addr -> Word] /\ brk \in Int /\ B \subseteq Int
    BY <2>3, HeapFacts
  <2> QED
    BY <2>1, <2>2, <2>4
<1>1. /\ m2 \in [Addr -> Word] /\ m2[f - 1] = Pack(e - f, alloc) /\ m2[e - 2] = Pack(e - f, alloc)
      /\ \A a \in Addr \ {f - 1, e - 2} : m2[a] = m[a]
  <2>1. Tagged(m, m2, f, e, Pack(size, alloc))
    BY <1>0, <1>b, PutTagsEffect
  <2> QED
    BY <2>1 DEF Tagged
<1>2. Pack(e - f, alloc).size = e - f
  BY DEF Pack
<1>3. ASSUME NEW b \in (B2 \cup {brk}) \ {f}
      PROVE  m2[b - 1] = m[b - 1]
  <2>1. b - 1 \in Addr /\ b \in Int
    BY <1>b, HeapFacts
  <2>2. b < f \/ e <= b
    <3>1. CASE b = brk
      BY <1>0, <1>b, <3>1
    <3>2. CASE b \in B2
      BY <1>0, <1>b, <2>1, <3>2
    <3> QED
      BY <3>1, <3>2
  <2> QED
    BY <1>0, <1>b, <1>1, <2>1, <2>2
<1>4. ASSUME NEW b \in B2, b # f
      PROVE  /\ b \in Even /\ 2 <= b /\ b < brk
             /\ m[b - 1].size >= 2 /\ b + m[b - 1].size \in B2 \cup {brk}
             /\ m2[b + m[b - 1].size - 2] = m[b - 1]
  <2> DEFINE n == b + m[b - 1].size
  <2>1. /\ b \in B /\ b \in Int /\ n \in B \cup {brk} /\ n - 2 \in Addr /\ m[n - 2] = m[b - 1]
        /\ m[b - 1].size >= 2 /\ m[b - 1].size \in Int /\ b \in Even /\ 2 <= b /\ b < brk
    BY <1>b, HeapFacts
  <2>2. b < f => n <= f
    BY <2>1, HeapFacts
  <2>3. ~(b < f) => e <= b
    BY <1>0, <1>b, <1>4, <2>1
  <2>4. n \in Int /\ (n <= f \/ e + 2 <= n)
    BY <1>0, <1>b, <2>1, <2>2, <2>3
  <2>5. n \in B2 \cup {brk}
    BY <1>0, <1>b, <2>1, <2>4
  <2>6. m2[n - 2] = m[n - 2]
    BY <1>0, <1>b, <1>1, <2>1, <2>4
  <2> QED
    BY <2>1, <2>5, <2>6
<1>5. ASSUME NEW b \in B2
      PROVE  /\ b \in Even /\ 2 <= b /\ b < brk
             /\ m2[b - 1].size >= 2 /\ b + m2[b - 1].size \in B2 \cup {brk}
             /\ m2[b + m2[b - 1].size - 2] = m2[b - 1]
  <2>1. CASE b = f
    BY <1>0, <1>b, <1>1, <1>2, <2>1
  <2>2. CASE b # f
    BY <1>3, <1>4, <2>2
  <2> QED
    BY <2>1, <2>2
<1>6. ASSUME NEW b \in B2, NEW c \in B2, b < c
      PROVE  b + m2[b - 1].size <= c
  <2>1. CASE b = f
    BY <1>0, <1>b, <1>1, <1>2, <1>6, <2>1
  <2>2. CASE b # f
    BY <1>3, <1>6, <1>b, <2>2, HeapFacts
  <2> QED
    BY <2>1, <2>2
<1>7. ASSUME NEW x \in B2 \cup {brk}, x # 2
      PROVE  /\ x - m2[x - 2].size \in B2
             /\ m2[x - 2].size = m2[x - m2[x - 2].size - 1].size
  <2>1. CASE x = e
    BY <1>0, <1>b, <1>1, <1>2, <2>1
  <2>2. CASE x # e
    <3> DEFINE c == x - m[x - 2].size
    <3>1. /\ c \in B /\ c \in Int /\ m[x - 2].size = m[c - 1].size /\ x - 2 \in Addr /\ x \in Int
          /\ m[c - 1].size >= 2 /\ m[c - 1].size \in Int /\ m[x - 2].size \in Int /\ x <= brk
      BY <1>7, <1>b, HeapFacts
    <3>2. x <= f \/ e < x
      BY <1>0, <1>b, <2>2, <3>1
    <3>3. m2[x - 2] = m[x - 2]
      BY <1>0, <1>b, <1>1, <3>1, <3>2
    <3>4. c # f /\ (c < f \/ e <= c)
      <4>1. c + m[c - 1].size = x
        BY <3>1
      <4>2. CASE x <= f
        BY <1>0, <1>b, <3>1, <4>1, <4>2
      <4>3. CASE e < x
        <5>1. e \in B
          BY <1>0, <1>b, <3>1, <4>3
        <5>2. c < e => x <= e
          BY <3>1, <4>1, <5>1, HeapFacts
        <5> QED
          BY <1>0, <1>b, <3>1, <4>3, <5>2
      <4> QED
        BY <3>2, <4>2, <4>3
    <3>5. c \in B2 /\ m2[c - 1] = m[c - 1]
      BY <1>0, <1>b, <1>3, <3>1, <3>4
    <3> QED
      BY <3>1, <3>3, <3>5
  <2> QED
    BY <2>1, <2>2
<1>8. m2[brk - 1] = Pack(0, 1)
  BY <1>0, <1>b, <1>3 DEF Heap, HDRP
<1>9. 2 \in B2
  BY <1>0, <1>b, HeapFacts
<1>10. Heap(m2, brk, B2)
  <2>1. brk \in Even /\ brk <= MaxHeap
    BY HeapFacts
  <2> QED
    BY <1>1, <1>5, <1>6, <1>7, <1>8, <1>9, <2>1, HeapIntro
<1> QED
  BY <1>1, <1>3, <1>10 DEF Retagged, SameHeaders, B2

(* From m to m2 the block bp of the given size has become one in use with  *)
(* asize words and a free one with the rest.                               *)
SplitIn(m, m2, brk, B, bp, asize, size) ==
    /\ Heap(m2, brk, B \cup {bp + asize}) /\ bp + asize \notin B
    /\ m2[bp - 1] = Pack(asize, 1)
    /\ m2[(bp + asize) - 1] = Pack(size - asize, 0)
    /\ SameHeaders(m, m2, (B \cup {brk}) \ {bp})
    /\ \A a \in Addr \ (bp - 1 .. bp + size - 2) : m2[a] = m[a]

(* A block becomes two, the second one free. *)
LEMMA Split ==
    ASSUME NEW m, NEW brk, NEW B, Heap(m, brk, B), NEW bp \in B,
           NEW asize \in Even, asize >= 2,
           NEW size, size = m[bp - 1].size, asize + 2 <= size,
           NEW m2,
           m2 = PutTags(PutTags(m, bp, asize, 1), bp + asize, size - asize, 0)
    PROVE  SplitIn(m, m2, brk, B, bp, asize, size)
<1> DEFINE e == bp + size
           r == bp + asize
           m1 == PutTags(m, bp, asize, 1)
           B2 == B \cup {r}
<1>0. /\ bp \in Int /\ asize \in Nat /\ size \in Nat /\ size - asize \in Nat /\ brk \in Int
      /\ bp \in Even /\ 2 <= bp /\ asize + 2 <= size /\ e <= brk /\ e \in B \cup {brk}
      /\ e \in Int /\ r \in Int /\ r + 2 <= e /\ bp + 2 <= r /\ e = r + (size - asize)
      /\ r \in Even /\ m \in [Addr -> Word] /\ B \subseteq Int
  <2>1. bp \in Int /\ size \in Int /\ bp \in Even /\ asize \in Nat /\ 2 <= bp /\ size >= 2
        /\ e <= brk /\ e \in B \cup {brk} /\ m \in [Addr -> Word] /\ B \subseteq Int
        /\ brk \in Int
    BY HeapFacts, EvenFacts
  <2>2. r \in Even
    BY <2>1, EvenFacts
  <2> QED
    BY <2>1, <2>2
<1>a. bp - 1 \in Addr /\ r - 2 \in Addr /\ r - 1 \in Addr /\ e - 2 \in Addr
  <2>1. \A a \in Int : a \in Addr <=> 0 <= a /\ a < MaxHeap
    BY MallocAssumption DEF Addr
  <2>2. brk <= MaxHeap /\ MaxHeap \in Int
    BY HeapFacts, MallocAssumption
  <2> HIDE DEF e, r
  <2> QED
    BY <1>0, <2>1, <2>2
<1>1. /\ m1 \in [Addr -> Word] /\ m1[bp - 1] = Pack(asize, 1) /\ m1[r - 2] = Pack(asize, 1)
      /\ \A a \in Addr \ {bp - 1, r - 2} : m1[a] = m[a]
  <2>1. asize = r - bp /\ m1 = PutTags(m, bp, asize, 1)
    BY <1>0
  <2> HIDE DEF m1, r, e
  <2>2. Tagged(m, m1, bp, r, Pack(asize, 1))
    BY <1>0, <1>a, <2>1, PutTagsEffect
  <2> QED
    BY <2>2 DEF Tagged
<1>b. m2 = PutTags(m1, r, size - asize, 0)
  OBVIOUS
<1>2. /\ m2 \in [Addr -> Word] /\ m2[r - 1] = Pack(size - asize, 0)
      /\ m2[e - 2] = Pack(size - asize, 0)
      /\ \A a \in Addr \ {r - 1, e - 2} : m2[a] = m1[a]
  <2>1. size - asize = e - r
    BY <1>0
  <2> HIDE DEF m1, r, e
  <2>2. Tagged(m1, m2, r, e, Pack(size - asize, 0))
    BY <1>0, <1>1, <1>a, <1>b, <2>1, PutTagsEffect
  <2> QED
    BY <2>2 DEF Tagged
<1> HIDE DEF m1
<1>3. /\ m2[bp - 1] = Pack(asize, 1) /\ m2[r - 2] = Pack(asize, 1)
      /\ \A a \in Addr \ {bp - 1, r - 2, r - 1, e - 2} : m2[a] = m[a]
  <2> HIDE DEF r, e
  <2> QED
    BY <1>0, <1>1, <1>2, <1>a
<1>4. Pack(asize, 1).size = asize /\ Pack(size - asize, 0).size = size - asize
  BY DEF Pack
<1>5. \A b \in B : b <= bp \/ e <= b
  BY <1>0, HeapFacts
<1>6. r \notin B
  <2> HIDE DEF r, e
  <2> QED
    BY <1>0, <1>5
<1>7. ASSUME NEW b \in (B \cup {brk}) \ {bp}
      PROVE  m2[b - 1] = m[b - 1]
  <2>1. b - 1 \in Addr /\ b \in Int
    BY HeapFacts
  <2>2. b < bp \/ e <= b
    BY <1>0, <1>5, <2>1
  <2> HIDE DEF e, r
  <2> QED
    BY <1>0, <1>3, <1>a, <2>1, <2>2
<1>8. ASSUME NEW b \in B, b # bp
      PROVE  /\ b \in Even /\ 2 <= b /\ b < brk
             /\ m[b - 1].size >= 2 /\ b + m[b - 1].size \in B2 \cup {brk}
             /\ m2[b + m[b - 1].size - 2] = m[b - 1]
             /\ (b < bp => b + m[b - 1].size <= bp)
  <2> DEFINE n == b + m[b - 1].size
  <2>1. /\ b \in B /\ b \in Int /\ n \in B \cup {brk} /\ n - 2 \in Addr /\ m[n - 2] = m[b - 1]
        /\ m[b - 1].size >= 2 /\ m[b - 1].size \in Int /\ b \in Even /\ 2 <= b /\ b < brk
    BY HeapFacts
  <2>2. b < bp => n <= bp
    BY <2>1, HeapFacts
  <2>3. n \in Int /\ (n <= bp \/ e + 2 <= n)
    BY <1>0, <1>5, <1>8, <2>1, <2>2
  <2> HIDE DEF n, r, e
  <2>6. m2[n - 2] = m[n - 2]
    BY <1>0, <1>3, <2>1, <2>3
  <2> QED
    BY <2>1, <2>2, <2>6 DEF n
<1>9. ASSUME NEW b \in B2
      PROVE  /\ b \in Even /\ 2 <= b /\ b < brk
             /\ m2[b - 1].size >= 2 /\ b + m2[b - 1].size \in B2 \cup {brk}
             /\ m2[b + m2[b - 1].size - 2] = m2[b - 1]
  <2>1. CASE b = bp
    <3>1. m2[b - 1].size = asize /\ b + asize = r /\ b + asize - 2 = r - 2
      BY <1>0, <1>3, <1>4, <2>1
    <3> HIDE DEF e, r
    <3> QED
      BY <1>0, <1>3, <2>1, <3>1
  <2>2. CASE b = r
    <3>1. m2[b - 1].size = size - asize /\ b + (size - asize) = e
      BY <1>0, <1>2, <1>4, <2>2
    <3> HIDE DEF e, r
    <3> QED
      BY <1>0, <1>2, <2>2, <3>1
  <2>3. CASE b \in B /\ b # bp
    <3>1. m2[b - 1] = m[b - 1]
      BY <1>7, <2>3
    <3> QED
      BY <1>8, <2>3, <3>1
  <2> QED
    BY <2>1, <2>2, <2>3
<1>10. ASSUME NEW b \in B2, NEW c \in B2, b < c
      PROVE  b + m2[b - 1].size <= c
  <2>0. b \in Int /\ c \in Int
    BY <1>0
  <2>1. CASE b = bp
    <3>1. m2[b - 1].size = asize /\ b + asize = r
      BY <1>0, <1>3, <1>4, <2>1
    <3>2. r <= c
      <4> HIDE DEF e, r
      <4> QED
        BY <1>0, <1>5, <1>10, <2>0, <2>1
    <3> QED
      BY <3>1, <3>2
  <2>2. CASE b = r
    <3>1. m2[b - 1].size = size - asize /\ b + (size - asize) = e
      BY <1>0, <1>2, <1>4, <2>2
    <3>2. e <= c
      <4> HIDE DEF e, r
      <4> QED
        BY <1>0, <1>5, <1>10, <2>0, <2>2
    <3> QED
      BY <3>1, <3>2
  <2>3. CASE b \in B /\ b # bp
    <3>1. m2[b - 1] = m[b - 1] /\ m[b - 1].size \in Int
      BY <1>7, <2>3, HeapFacts
    <3>2. CASE c \in B
      BY <1>10, <2>3, <3>1, <3>2, HeapFacts
    <3>3. CASE c = r
      <4>1. b < bp
        <5> HIDE DEF e, r
        <5> QED
          BY <1>0, <1>5, <1>10, <2>0, <2>3, <3>3
      <4>2. b + m[b - 1].size <= bp
        BY <1>8, <2>3, <4>1
      <4> HIDE DEF e, r
      <4> QED
        BY <1>0, <2>0, <3>1, <3>3, <4>2
    <3> QED
      BY <3>2, <3>3
  <2> QED
    BY <2>1, <2>2, <2>3
<1>11. ASSUME NEW x \in B2 \cup {brk}, x # 2
      PROVE  /\ x - m2[x - 2].size \in B2
             /\ m2[x - 2].size = m2[x - m2[x - 2].size - 1].size
  <2>1. CASE x = r
    <3>1. m2[x - 2].size = asize /\ x - asize = bp
      BY <1>0, <1>3, <1>4, <2>1
    <3> QED
      BY <1>3, <1>4, <3>1
  <2>2. CASE x = e
    <3>1. m2[x - 2].size = size - asize /\ x - (size - asize) = r
      BY <1>0, <1>2, <1>4, <2>2
    <3> HIDE DEF e, r
    <3> QED
      BY <1>2, <1>4, <3>1
  <2>3. CASE x # e /\ x \in B \cup {brk}
    <3> DEFINE c == x - m[x - 2].size
    <3>1. /\ c \in B /\ c \in Int /\ m[x - 2].size = m[c - 1].size /\ x - 2 \in Addr /\ x \in Int
          /\ m[c - 1].size >= 2 /\ m[c - 1].size \in Int /\ m[x - 2].size \in Int
      BY <1>11, <2>3, HeapFacts
    <3>2. x <= bp \/ e < x
      <4>1. x <= bp \/ e <= x
        BY <1>0, <1>5, <2>3
      <4> HIDE DEF e
      <4> QED
        BY <1>0, <2>3, <3>1, <4>1
    <3>3. m2[x - 2] = m[x - 2]
      <4> HIDE DEF e, r
      <4> QED
        BY <1>0, <1>3, <3>1, <3>2
    <3>4. c # bp
      <4>1. CASE x <= bp
        BY <3>1, <4>1
      <4>2. CASE e < x
        BY <1>0, <3>1, <4>2
      <4> QED
        BY <3>2, <4>1, <4>2
    <3>5. c \in B2 /\ m2[c - 1] = m[c - 1]
      BY <1>7, <3>1, <3>4
    <3> QED
      BY <3>1, <3>3, <3>5
  <2> QED
    BY <2>1, <2>2, <2>3
<1>12. m2[brk - 1] = Pack(0, 1)
  <2>1. brk # bp
    BY HeapFacts
  <2> QED
    BY <1>7, <2>1 DEF Heap, HDRP
<1>13. Heap(m2, brk, B2)
  <2>1. brk \in Even /\ brk <= MaxHeap /\ 2 \in B2
    BY HeapFacts
  <2> HIDE DEF B2
  <2> QED
    BY <1>2, <1>9, <1>10, <1>11, <1>12, <2>1, HeapIntro
<1>14. \A a \in Addr \ (bp - 1 .. e - 2) : m2[a] = m[a]
  <2>1. {bp - 1, r - 2, r - 1, e - 2} \subseteq bp - 1 .. e - 2
    <3> HIDE DEF e, r
    <3> QED
      BY <1>0
  <2> QED
    BY <1>3, <2>1
<1>15. /\ Heap(m2, brk, B2) /\ r \notin B
       /\ m2[bp - 1] = Pack(asize, 1) /\ m2[r - 1] = Pack(size - asize, 0)
       /\ \A b \in (B \cup {brk}) \ {bp} : m2[b - 1] = m[b - 1]
       /\ \A a \in Addr \ (bp - 1 .. e - 2) : m2[a] = m[a]
  BY <1>2, <1>3, <1>6, <1>7, <1>13, <1>14
<1>16. r - 1 = bp + asize - 1 /\ e - 2 = bp + size - 2
  BY <1>0
<1> QED
  BY <1>15, <1>16 DEF SplitIn, SameHeaders

(* The heap grows by a free block, whose header takes the epilogue's place.*)
LEMMA Grow ==
    ASSUME NEW m, NEW brk, NEW B, Heap(m, brk, B),
           NEW size \in Even, size >= 2, brk + size <= MaxHeap
    PROVE  LET h == PutTags(m, brk, size, 0)
               m2 == Put(h, HDRP(NextBlkp(h, brk)), Pack(0, 1))
               B2 == B \cup {brk}
           IN  /\ Heap(m2, brk + size, B2)
               /\ m2[brk - 1] = Pack(size, 0)
               /\ \A b \in B : m2[b - 1] = m[b - 1]
               /\ \A a \in Addr : a < brk - 1 => m2[a] = m[a]
<1> DEFINE h == PutTags(m, brk, size, 0)
           m2 == Put(h, HDRP(NextBlkp(h, brk)), Pack(0, 1))
           B2 == B \cup {brk}
           e == brk + size
<1>0. /\ brk \in Int /\ brk \in Even /\ 4 <= brk /\ size \in Nat /\ m \in [Addr -> Word]
      /\ e \in Int /\ brk + 2 <= e /\ e <= MaxHeap /\ e \in Even /\ B \subseteq Int
      /\ brk - 1 \in Addr
  <2>0. 2 \in B /\ brk \in Int /\ brk \in Even /\ \A b \in B : b + 2 <= brk
    BY HeapFacts
  <2>1. size \in Nat /\ e \in Even /\ brk \in Int /\ brk \in Even /\ 4 <= brk
    BY <2>0, EvenFacts
  <2> QED
    BY <2>1, HeapFacts
<1>a. e - 2 \in Addr /\ e - 1 \in Addr
  BY <1>0, MallocAssumption DEF Addr
<1>1. /\ h \in [Addr -> Word] /\ h[brk - 1] = Pack(size, 0) /\ h[e - 2] = Pack(size, 0)
      /\ \A a \in Addr \ {brk - 1, e - 2} : h[a] = m[a]
  <2>1. size = e - brk /\ h = PutTags(m, brk, size, 0)
    BY <1>0
  <2> HIDE DEF h, e
  <2>2. Tagged(m, h, brk, e, Pack(size, 0))
    BY <1>0, <1>a, <2>1, PutTagsEffect
  <2> QED
    BY <2>2 DEF Tagged
<1>2. m2 = [h EXCEPT ![e - 1] = Pack(0, 1)]
  <2>1. NextBlkp(h, brk) = e
    BY <1>1 DEF NextBlkp, GetSize, HDRP, Pack
  <2> QED
    BY <2>1 DEF Put, HDRP
<1> HIDE DEF h
<1>3. /\ m2 \in [Addr -> Word] /\ m2[e - 1] = Pack(0, 1)
      /\ m2[brk - 1] = Pack(size, 0) /\ m2[e - 2] = Pack(size, 0)
      /\ \A a \in Addr : a < brk - 1 => m2[a] = m[a]
  <2>1. Pack(0, 1) \in Word
    BY DEF Pack, Word
  <2>2. m2 \in [Addr -> Word] /\ m2[e - 1] = Pack(0, 1)
        /\ \A a \in Addr \ {e - 1} : m2[a] = h[a]
    <3> HIDE DEF m2, e
    <3> QED
      BY <1>1, <1>2, <1>a, <2>1
  <2>3. \A a \in Addr : a \in Int
    BY MallocAssumption DEF Addr
  <2> HIDE DEF m2, e
  <2> QED
    BY <1>0, <1>1, <1>a, <2>2, <2>3
<1> HIDE DEF m2
<1>4. Pack(size, 0).size = size
  BY DEF Pack
<1>5. ASSUME NEW b \in B
      PROVE  /\ m2[b - 1] = m[b - 1] /\ b \in Even /\ b \in Int /\ 2 <= b /\ b < brk
             /\ m[b - 1].size >= 2 /\ b + m[b - 1].size \in B2
             /\ b + m[b - 1].size <= brk
             /\ m2[b + m[b - 1].size - 2] = m[b - 1]
  <2> DEFINE n == b + m[b - 1].size
  <2>1. /\ b \in Int /\ n \in B \cup {brk} /\ n - 2 \in Addr /\ m[n - 2] = m[b - 1]
        /\ m[b - 1].size >= 2 /\ m[b - 1].size \in Int /\ b \in Even /\ 2 <= b /\ b < brk
        /\ n <= brk /\ b - 1 \in Addr
    BY HeapFacts
  <2>2. m2[n - 2] = m[n - 2] /\ m2[b - 1] = m[b - 1]
    BY <1>0, <1>3, <2>1
  <2> QED
    BY <2>1, <2>2
<1>6. ASSUME NEW b \in B2
      PROVE  /\ b \in Even /\ 2 <= b /\ b < e
             /\ m2[b - 1].size >= 2 /\ b + m2[b - 1].size \in B2 \cup {e}
             /\ m2[b + m2[b - 1].size - 2] = m2[b - 1]
  <2>1. CASE b = brk
    BY <1>0, <1>3, <1>4, <2>1
  <2>2. CASE b \in B
    BY <1>0, <1>5, <2>2
  <2> QED
    BY <2>1, <2>2
<1>7. ASSUME NEW b \in B2, NEW c \in B2, b < c
      PROVE  b + m2[b - 1].size <= c
  <2>1. b \in B
    BY <1>0, <1>5, <1>7
  <2>2. CASE c = brk
    BY <1>5, <2>1, <2>2
  <2>3. CASE c \in B
    BY <1>5, <1>7, <2>1, <2>3, HeapFacts
  <2> QED
    BY <2>2, <2>3
<1>8. ASSUME NEW x \in B2 \cup {e}, x # 2
      PROVE  /\ x - m2[x - 2].size \in B2
             /\ m2[x - 2].size = m2[x - m2[x - 2].size - 1].size
  <2>1. CASE x = e
    BY <1>0, <1>3, <1>4, <2>1
  <2>2. CASE x # e
    <3>1. x \in B \cup {brk}
      BY <2>2
    <3> DEFINE c == x - m[x - 2].size
    <3>2. c \in B /\ m[x - 2].size = m[c - 1].size /\ x - 2 \in Addr /\ x \in Int /\ x <= brk
      BY <1>8, <3>1, HeapFacts
    <3>3. m2[x - 2] = m[x - 2]
      BY <1>0, <1>3, <3>2
    <3>4. m2[c - 1] = m[c - 1]
      BY <1>5, <3>2
    <3> QED
      BY <3>2, <3>3, <3>4
  <2> QED
    BY <2>1, <2>2
<1>9. Heap(m2, e, B2)
  <2>1. 2 \in B2
    BY HeapFacts
  <2> HIDE DEF B2, e
  <2> QED
    BY <1>0, <1>3, <1>6, <1>7, <1>8, <2>1, HeapIntro
<1> QED
  BY <1>3, <1>5, <1>9 DEF m2, h

(* Only bp may have a free neighbour: coalesce() merges it with those.     *)
LEMMA CoalesceEffect ==
    ASSUME NEW m, NEW brk, NEW B, Heap(m, brk, B), NEW bp \in B,
           NEW U, U = Used(m, B), 2 \in U, bp \notin U,
           \A b \in B : b # bp =>
              \/ m[b - 1].alloc = 1 \/ m[b + m[b - 1].size - 1].alloc = 1
              \/ b + m[b - 1].size = bp,
           NEW c, c = Coalesce(m, bp)
    PROVE  \E B2 \in SUBSET B :
              /\ Heap(c.mem, brk, B2) /\ Coalesced(c.mem, B2) /\ Used(c.mem, B2) = U
              /\ c.bp \in B2 \ U /\ c.mem[c.bp - 1].size >= m[bp - 1].size
              /\ Keeps(m, c.mem, U)
              /\ \A b \in B : b # bp /\ b # bp + m[bp - 1].size => b \in B2
<1> DEFINE size == m[bp - 1].size
           n == bp + size
           prev == bp - m[bp - 2].size
           f == IF m[prev - 1].alloc = 1 THEN bp ELSE prev
           e == IF m[n - 1].alloc = 1 THEN n ELSE n + m[n - 1].size
           B2 == Outside(B, f, e)
<1>u. U \subseteq B /\ \A b \in B : b \in U <=> m[b - 1].alloc = 1
  BY DEF Used, IsAlloc, HDRP
<1>0. /\ bp \in Int /\ size \in Int /\ size >= 2 /\ n \in B \cup {brk} /\ n \in Int
      /\ m[n - 1].alloc \in {0, 1} /\ brk \in Int /\ bp < brk /\ B \subseteq Int
      /\ m[bp - 1].alloc = 0 /\ bp - 1 \in Addr /\ m \in [Addr -> Word]
  <2>1. bp \in B /\ m[bp - 1].alloc # 1
    BY <1>u
  <2>2. /\ bp \in Int /\ size \in Int /\ size >= 2 /\ n \in B \cup {brk}
        /\ brk \in Int /\ bp + 2 <= brk /\ B \subseteq Int /\ m[bp - 1].alloc \in {0, 1}
        /\ bp - 1 \in Addr /\ m \in [Addr -> Word]
    BY HeapFacts
  <2>3. m[n - 1].alloc \in {0, 1}
    BY <2>2, HeapFacts
  <2> QED
    BY <2>1, <2>2, <2>3
<1>1. /\ bp # 2 /\ prev \in B /\ prev \in Int /\ prev + m[prev - 1].size = bp
      /\ m[bp - 2] = m[prev - 1] /\ m[prev - 1].size \in Int /\ m[prev - 1].size >= 2
      /\ m[prev - 1].alloc \in {0, 1} /\ prev < bp
  <2>1. bp # 2
    OBVIOUS
  <2>2. prev \in B /\ m[bp - 2].size = m[prev - 1].size
    BY <2>1, HeapFacts
  <2>3. /\ prev \in Int /\ m[prev - 1].size \in Int /\ m[prev - 1].size >= 2
        /\ m[prev - 1].alloc \in {0, 1}
        /\ m[prev + m[prev - 1].size - 2] = m[prev - 1]
    BY <2>2, HeapFacts
  <2>4. prev + m[prev - 1].size = bp
    BY <1>0, <2>2, <2>3
  <2>5. prev + m[prev - 1].size - 2 = bp - 2
    BY <1>0, <2>3, <2>4
  <2> QED
    BY <1>0, <2>1, <2>2, <2>3, <2>4, <2>5
<1>2. m[n - 1].alloc # 1 => /\ n \in B /\ n + m[n - 1].size \in B \cup {brk}
                            /\ m[n - 1].size \in Int /\ m[n - 1].size >= 2
  <2>1. n = brk => m[n - 1].alloc = 1
    BY HeapFacts
  <2>2. n \in B => /\ n + m[n - 1].size \in B \cup {brk}
                   /\ m[n - 1].size \in Int /\ m[n - 1].size >= 2
    BY HeapFacts
  <2> QED
    BY <1>0, <2>1, <2>2
<1>b. \A b : b \in B2 <=> b \in B /\ (b <= f \/ e <= b)
  BY DEF Outside
<1>3. /\ f \in B /\ f \in Int /\ f <= bp /\ e \in B \cup {brk} /\ e \in Int /\ n <= e
      /\ f < e /\ bp < e
  BY <1>0, <1>1, <1>2
<1>4. c = [mem |-> IF e - f = size THEN m ELSE PutTags(m, f, e - f, 0), bp |-> f]
  <2>1. PrevBlkp(m, bp) = prev /\ NextBlkp(m, bp) = n /\ FTRP(m, prev) = bp - 2
        /\ GetSize(m, bp) = size /\ GetSize(m, prev) = m[prev - 1].size
        /\ GetSize(m, n) = m[n - 1].size /\ (IsAlloc(m, n) <=> m[n - 1].alloc = 1)
    BY <1>0, <1>1 DEF PrevBlkp, NextBlkp, FTRP, GetSize, HDRP, DSIZE, IsAlloc
  <2> DEFINE merged == size + (IF m[bp - 2].alloc = 1 THEN 0 ELSE m[prev - 1].size)
                            + (IF m[n - 1].alloc = 1 THEN 0 ELSE m[n - 1].size)
  <2>2. merged = e - f
    BY <1>0, <1>1, <1>2
  <2>3. c = [mem |-> IF merged = size THEN m ELSE PutTags(m, f, merged, 0), bp |-> f]
    <3> HIDE DEF prev, n
    <3> QED
      BY <1>1, <2>1 DEF Coalesce
  <2> HIDE DEF merged, e, f
  <2> QED
    BY <2>2, <2>3
<1>5. /\ Heap(c.mem, brk, B2) /\ c.mem[f - 1].alloc = 0 /\ c.mem[f - 1].size = e - f
      /\ \A b \in (B2 \cup {brk}) \ {f} : c.mem[b - 1] = m[b - 1]
      /\ \A a \in Addr \ {f - 1, e - 2} : c.mem[a] = m[a]
      /\ c.bp = f
  <2>1. CASE e - f = size
    <3>1. f = bp /\ e = n /\ c.mem = m /\ c.bp = f
      BY <1>0, <1>1, <1>2, <1>4, <2>1
    <3>2. B2 = B
      <4>1. \A b \in B : b <= bp \/ n <= b
        BY <1>0, HeapFacts
      <4>2. \A b \in B : b \in B2
        BY <1>b, <3>1, <4>1
      <4> HIDE DEF B2
      <4> QED
        BY <1>b, <4>2
    <3> HIDE DEF f, e, B2
    <3> QED
      BY <1>0, <3>1, <3>2
  <2>2. CASE e - f # size
    <3>1. c.mem = PutTags(m, f, e - f, 0) /\ c.bp = f
      BY <1>4, <2>2
    <3>2. Pack(e - f, 0).size = e - f /\ Pack(e - f, 0).alloc = 0
      BY DEF Pack
    <3>3. f \in B /\ e \in B \cup {brk} /\ f < e
      BY <1>3
    <3> HIDE DEF f, e
    <3> DEFINE merged == e - f
    <3>4. merged = e - f /\ c.mem = PutTags(m, f, merged, 0)
      BY <3>1
    <3> HIDE DEF merged
    <3>5. Retagged(m, c.mem, brk, B, f, e, Pack(merged, 0))
      BY <3>3, <3>4, Retag
    <3> QED
      BY <3>1, <3>2, <3>4, <3>5 DEF Retagged, SameHeaders
  <2> QED
    BY <2>1, <2>2
<1>6. ASSUME NEW b \in U
      PROVE  b \in Int /\ b \in B2 /\ b # f /\ (b < f \/ e <= b)
  <2>1. b \in B /\ b \in Int /\ m[b - 1].alloc = 1
    BY <1>0, <1>u
  <2>2. prev < b => bp <= b
    BY <1>1, <2>1, HeapFacts
  <2>3. bp < b => n <= b
    BY <2>1, HeapFacts
  <2>4. m[n - 1].alloc # 1 /\ n < b => n + m[n - 1].size <= b
    BY <1>2, <2>1, HeapFacts
  <2>5. b # f
    BY <1>0, <1>1, <2>1
  <2>6. b < f \/ e <= b
    BY <1>0, <1>1, <1>2, <2>1, <2>2, <2>3, <2>4
  <2> QED
    BY <1>b, <1>3, <2>1, <2>5, <2>6
<1>7. Used(c.mem, B2) = U
  <2>1. ASSUME NEW b \in B2 PROVE c.mem[b - 1].alloc = 1 <=> b \in U
    <3>1. b \in B
      BY <1>b
    <3> HIDE DEF B2, f, e
    <3>2. CASE b = f
      BY <1>5, <1>6, <3>2
    <3>3. CASE b # f
      BY <1>5, <1>u, <3>1, <3>3
    <3> QED
      BY <3>2, <3>3
  <2> HIDE DEF B2
  <2>2. U \subseteq B2
    BY <1>6
  <2> QED
    BY <2>1, <2>2 DEF Used, IsAlloc, HDRP
<1>8. Keeps(m, c.mem, U)
  <2> SUFFICES ASSUME NEW b \in U, NEW a \in HDRP(b) .. FTRP(m, b)
               PROVE  c.mem[a] = m[a]
    BY DEF Keeps
  <2>0. a \in b - 1 .. b + m[b - 1].size - 2
    BY DEF HDRP, FTRP, GetSize, DSIZE
  <2>1. /\ b \in B /\ b \in Int /\ m[b - 1].size \in Int /\ b - 1 \in Addr
        /\ b + m[b - 1].size - 2 \in Addr
    BY <1>b, <1>6, HeapFacts
  <2>2. a \in Int /\ b - 1 <= a /\ a <= b + m[b - 1].size - 2
    BY <2>0, <2>1
  <2>3. a \in Addr
    BY <2>1, <2>2, MallocAssumption DEF Addr
  <2>4. b < f => b + m[b - 1].size <= f
    BY <1>3, <2>1, HeapFacts
  <2>5. a # f - 1 /\ a # e - 2
    <3> HIDE DEF f, e
    <3> QED
      BY <1>3, <1>6, <2>1, <2>2, <2>4
  <2> QED
    BY <1>5, <2>3, <2>5
<1>9. Coalesced(c.mem, B2)
  <2> SUFFICES ASSUME NEW b \in B2
               PROVE  c.mem[b - 1].alloc = 1 \/ c.mem[b + c.mem[b - 1].size - 1].alloc = 1
    <3>1. ASSUME NEW b \in B2
          PROVE  b + c.mem[b - 1].size - 1 = (b + c.mem[b - 1].size) - 1
      <4>1. b \in Int /\ c.mem[b - 1].size \in Int
        <5> HIDE DEF B2
        <5> QED
          BY <1>5, HeapFacts
      <4> QED
        BY <4>1
    <3> HIDE DEF B2
    <3> QED
      BY <3>1 DEF Coalesced, IsAlloc, NextBlkp, GetSize, HDRP
  <2>0. b \in Int /\ c.mem[b - 1].size \in Int
    <3> HIDE DEF B2
    <3> QED
      BY <1>5, HeapFacts
  <2>1. CASE b = f
    <3>1. b + c.mem[b - 1].size = e /\ b + c.mem[b - 1].size - 1 = e - 1
      <4> HIDE DEF f, e
      <4> QED
        BY <1>3, <1>5, <2>1
    <3>2. m[e - 1].alloc = 1
      <4>1. CASE m[n - 1].alloc = 1
        BY <4>1
      <4>2. CASE m[n - 1].alloc # 1
        BY <1>0, <1>2, <4>2
      <4> QED
        BY <4>1, <4>2
    <3>3. e \in (B2 \cup {brk}) \ {f}
      BY <1>b, <1>3
    <3>4. c.mem[e - 1] = m[e - 1]
      BY <1>5, <3>3
    <3> QED
      BY <3>1, <3>2, <3>4
  <2>2. CASE b # f
    <3> DEFINE x == b + m[b - 1].size
    <3>1. c.mem[b - 1] = m[b - 1] /\ b \in B /\ b \in Int /\ x \in B2 \cup {brk} /\ x \in Int
          /\ m[b - 1].size \in Int /\ m[b - 1].size >= 2
      <4>1. c.mem[b - 1] = m[b - 1] /\ b \in B
        BY <1>b, <1>5, <2>2
      <4>2. b + c.mem[b - 1].size \in B2 \cup {brk}
        <5> HIDE DEF B2
        <5> QED
          BY <1>5, HeapFacts
      <4>3. b \in Int /\ m[b - 1].size \in Int /\ m[b - 1].size >= 2
        BY <4>1, HeapFacts
      <4> QED
        BY <4>1, <4>2, <4>3
    <3>2. b # bp
      BY <1>b, <1>0, <1>3, <2>2
    <3>3. m[b - 1].alloc = 1 \/ m[x - 1].alloc = 1 \/ x = bp
      BY <3>1, <3>2
    <3>4. CASE x # f
      <4>1. x # bp
        BY <1>b, <1>0, <1>3, <3>1, <3>4
      <4>2. c.mem[x - 1] = m[x - 1]
        BY <1>5, <3>1, <3>4
      <4> QED
        BY <3>1, <3>3, <4>1, <4>2
    <3>5. CASE x = f
      <4>1. CASE m[prev - 1].alloc = 1
        <5>1. x = bp
          BY <3>5, <4>1
        <5>2. b < prev => x <= prev
          BY <1>1, <3>1, HeapFacts
        <5>3. prev < b => bp <= b
          BY <1>1, <3>1, HeapFacts
        <5>4. b < bp
          BY <3>1, <5>1
        <5>5. b = prev
          BY <1>0, <1>1, <3>1, <5>1, <5>2, <5>3, <5>4
        <5> QED
          BY <3>1, <4>1, <5>5
      <4>2. CASE m[prev - 1].alloc # 1
        BY <1>1, <3>1, <3>3, <3>5, <4>2
      <4> QED
        BY <4>1, <4>2
    <3> QED
      BY <3>4, <3>5
  <2> QED
    BY <2>1, <2>2
<1>10. ASSUME NEW b \in B, b # bp, b # n
       PROVE  b \in B2
  <2>1. b \in Int
    BY <1>0
  <2>2. prev < b => bp <= b
    BY <1>1, HeapFacts
  <2>3. bp < b => n <= b
    BY HeapFacts
  <2>4. m[n - 1].alloc # 1 /\ n < b => n + m[n - 1].size <= b
    BY <1>2, HeapFacts
  <2> QED
    BY <1>b, <1>0, <1>1, <1>2, <1>10, <2>1, <2>2, <2>3, <2>4
<1>11. c.bp \in B2 \ U /\ c.mem[c.bp - 1].size >= size
  <2>1. f \notin U
    BY <1>6
  <2>2. e - f >= size
    BY <1>0, <1>1, <1>2
  <2>3. f \in B2
    BY <1>b, <1>3
  <2> HIDE DEF f, e, B2
  <2> QED
    BY <1>3, <1>5, <2>1, <2>2, <2>3
<1> HIDE DEF B2
<1>12. B2 \in SUBSET B
  BY <1>b
<1> QED
  BY <1>5, <1>7, <1>8, <1>9, <1>10, <1>11, <1>12

(* Allocates with numbers in place of the macros *)
LEMMA AllocatesFacts ==
    ASSUME NEW m, NEW brk, NEW B, NEW U, Allocates(m, brk, B, U)
    PROVE  /\ Heap(m, brk, B) /\ U \subseteq B /\ 2 \in U
           /\ \A b \in B : b \in U <=> m[b - 1].alloc = 1
           /\ \A b \in B : m[b - 1].alloc = 1 \/ m[(b + m[b - 1].size) - 1].alloc = 1
  BY DEF Allocates, Used, Coalesced, IsAlloc, NextBlkp, GetSize, HDRP, heap_listp

(* And back *)
LEMMA AllocatesIntro ==
    ASSUME NEW m, NEW brk, NEW B, NEW U, Heap(m, brk, B), U \subseteq B, 2 \in U,
           \A b \in B : b \in U <=> m[b - 1].alloc = 1,
           \A b \in B : m[b - 1].alloc = 1 \/ m[(b + m[b - 1].size) - 1].alloc = 1
    PROVE  Allocates(m, brk, B, U)
  BY DEF Allocates, Used, Coalesced, IsAlloc, NextBlkp, GetSize, HDRP, heap_listp

(* What two steps keep, both of them keep. *)
LEMMA KeepsTransitive ==
    ASSUME NEW m, NEW brk, NEW B, Heap(m, brk, B), NEW S \in SUBSET B,
           NEW m1, NEW m2, Keeps(m, m1, S), Keeps(m1, m2, S)
    PROVE  Keeps(m, m2, S)
<1> SUFFICES ASSUME NEW b \in S, NEW a \in HDRP(b) .. FTRP(m, b)
             PROVE  m2[a] = m[a]
  BY DEF Keeps
<1>1. b \in Int /\ m[b - 1].size \in Int /\ m[b - 1].size >= 2
  BY HeapFacts
<1>2. b - 1 \in HDRP(b) .. FTRP(m, b)
  BY <1>1 DEF HDRP, FTRP, GetSize, DSIZE
<1>3. m1[b - 1] = m[b - 1]
  BY <1>2 DEF Keeps
<1>4. FTRP(m1, b) = FTRP(m, b)
  BY <1>3 DEF HDRP, FTRP, GetSize
<1> QED
  BY <1>4 DEF Keeps

(* What is kept keeps its header. *)
LEMMA KeepsHeader ==
    ASSUME NEW m, NEW brk, NEW B, Heap(m, brk, B), NEW S \in SUBSET B,
           NEW m1, Keeps(m, m1, S), NEW b \in S
    PROVE  /\ m1[b - 1] = m[b - 1]
           /\ \A a \in b .. b + m[b - 1].size - 2 : m1[a] = m[a]
<1>1. b \in Int /\ m[b - 1].size \in Int /\ m[b - 1].size >= 2
  BY HeapFacts
<1>2. \A a \in b - 1 .. b + m[b - 1].size - 2 : a \in HDRP(b) .. FTRP(m, b)
  BY <1>1 DEF HDRP, FTRP, GetSize, DSIZE
<1>3. \A a \in b - 1 .. b + m[b - 1].size - 2 : m1[a] = m[a]
  BY <1>2 DEF Keeps
<1> QED
  BY <1>1, <1>3

(* Cells that change within block bp do not concern the others. *)
LEMMA KeepsOthers ==
    ASSUME NEW m, NEW brk, NEW B, Heap(m, brk, B), NEW bp \in B, NEW m1,
           \A a \in Addr \ (bp - 1 .. bp + m[bp - 1].size - 2) : m1[a] = m[a]
    PROVE  Keeps(m, m1, B \ {bp})
<1> SUFFICES ASSUME NEW b \in B \ {bp}, NEW a \in HDRP(b) .. FTRP(m, b)
             PROVE  m1[a] = m[a]
  BY DEF Keeps
<1>0. a \in b - 1 .. b + m[b - 1].size - 2
  BY DEF HDRP, FTRP, GetSize, DSIZE
<1>1. /\ b \in Int /\ m[b - 1].size \in Int /\ b - 1 \in Addr /\ b # bp
      /\ b + m[b - 1].size - 2 \in Addr
      /\ bp \in Int /\ m[bp - 1].size \in Int
  BY HeapFacts
<1>2. a \in Int /\ b - 1 <= a /\ a <= b + m[b - 1].size - 2
  BY <1>0, <1>1
<1>3. a \in Addr
  BY <1>1, <1>2, MallocAssumption DEF Addr
<1>4. b < bp => b + m[b - 1].size <= bp
  BY HeapFacts
<1>5. bp < b => bp + m[bp - 1].size <= b
  BY HeapFacts
<1>6. a \notin bp - 1 .. bp + m[bp - 1].size - 2
  BY <1>1, <1>2, <1>4, <1>5
<1> QED
  BY <1>3, <1>6

(* From m to m1 only block bp changes, and that only in its second tag bit *)
(* and in what is between its tags.                                        *)
Marked(m, m1, brk, B, bp, alloc) ==
    /\ Heap(m1, brk, B)
    /\ m1[bp - 1].size = m[bp - 1].size /\ m1[bp - 1].alloc = alloc
    /\ SameHeaders(m, m1, (B \cup {brk}) \ {bp})
    /\ Keeps(m, m1, B \ {bp})

(* A block is marked, as in use or as free. *)
LEMMA Mark ==
    ASSUME NEW m, NEW brk, NEW B, Heap(m, brk, B), NEW bp \in B, NEW alloc \in {0, 1},
           NEW m1, m1 = PutTags(m, bp, GetSize(m, bp), alloc)
    PROVE  Marked(m, m1, brk, B, bp, alloc)
<1> DEFINE e == bp + m[bp - 1].size
<1>1. /\ bp \in Int /\ m[bp - 1].size \in Int /\ e \in B \cup {brk} /\ bp < e /\ e \in Int
      /\ e - bp = m[bp - 1].size /\ bp + 2 <= e
  BY HeapFacts
<1>3. GetSize(m, bp) = e - bp
  BY <1>1 DEF GetSize, HDRP
<1>4. Outside(B, bp, e) = B
  BY <1>1, HeapFacts DEF Outside
<1> HIDE DEF e
<1>5. Retagged(m, m1, brk, B, bp, e, Pack(GetSize(m, bp), alloc))
  BY <1>1, <1>3, Retag
<1>6. m1[bp - 1].size = m[bp - 1].size /\ m1[bp - 1].alloc = alloc
  BY <1>1, <1>3, <1>5 DEF Pack, Retagged
<1>7. \A a \in Addr \ (bp - 1 .. bp + m[bp - 1].size - 2) : m1[a] = m[a]
  <2>1. bp - 1 \in bp - 1 .. bp + m[bp - 1].size - 2
        /\ e - 2 \in bp - 1 .. bp + m[bp - 1].size - 2
    BY <1>1 DEF e
  <2> QED
    BY <1>5, <2>1 DEF Retagged
<1>8. Keeps(m, m1, B \ {bp})
  BY <1>7, KeepsOthers
<1> QED
  BY <1>4, <1>5, <1>6, <1>8 DEF Marked, Retagged

(* mm_free(): the block is no longer in use, and the pointer it leaves for *)
(* the next search is a block's.                                           *)
LEMMA FreeEffect ==
    ASSUME NEW m, NEW brk, NEW B, NEW U, Allocates(m, brk, B, U),
           NEW ptr \in U \ {2}, NEW r, r = MmFree(m, ptr)
    PROVE  \E B2 : /\ Allocates(r.mem, brk, B2, U \ {ptr}) /\ r.bp \in B2
                   /\ Keeps(m, r.mem, U \ {ptr})
<1> DEFINE m1 == PutTags(m, ptr, GetSize(m, ptr), 0)
           V == U \ {ptr}
<1>1. r = Coalesce(m1, ptr)
  BY DEF MmFree
<1>m. m1 = PutTags(m, ptr, GetSize(m, ptr), 0)
  OBVIOUS
<1> HIDE DEF m1
<1>2. /\ Heap(m, brk, B) /\ U \subseteq B /\ 2 \in U
      /\ \A b \in B : b \in U <=> m[b - 1].alloc = 1
      /\ \A b \in B : m[b - 1].alloc = 1 \/ m[(b + m[b - 1].size) - 1].alloc = 1
  BY AllocatesFacts
<1>3. /\ Heap(m1, brk, B) /\ m1[ptr - 1].alloc = 0 /\ Keeps(m, m1, B \ {ptr})
      /\ \A b \in (B \cup {brk}) \ {ptr} : m1[b - 1] = m[b - 1]
  <2>1. ptr \in B
    BY <1>2
  <2> QED
    <3>1. Heap(m, brk, B) /\ 0 \in {0, 1}
      BY <1>2
    <3>2. Marked(m, m1, brk, B, ptr, 0)
      BY <1>m, <2>1, <3>1, Mark
    <3> QED
      BY <3>2 DEF Marked, SameHeaders
<1>4. V = Used(m1, B) /\ 2 \in V /\ ptr \notin V /\ V \subseteq B
  BY <1>2, <1>3 DEF Used, IsAlloc, HDRP
<1>5. ASSUME NEW b \in B, b # ptr
      PROVE  \/ m1[b - 1].alloc = 1 \/ m1[b + m1[b - 1].size - 1].alloc = 1
             \/ b + m1[b - 1].size = ptr
  <2>1. m1[b - 1] = m[b - 1] /\ b \in Int /\ m[b - 1].size \in Int
        /\ b + m[b - 1].size \in B \cup {brk}
    BY <1>2, <1>3, <1>5, HeapFacts
  <2>2. b + m[b - 1].size - 1 = (b + m[b - 1].size) - 1
    BY <2>1
  <2> QED
    BY <1>2, <1>3, <2>1, <2>2
<1>6. \E B2 \in SUBSET B :
              /\ Heap(r.mem, brk, B2) /\ Coalesced(r.mem, B2) /\ Used(r.mem, B2) = V
              /\ r.bp \in B2 \ V /\ r.mem[r.bp - 1].size >= m1[ptr - 1].size
              /\ Keeps(m1, r.mem, V)
              /\ \A b \in B : b # ptr /\ b # ptr + m1[ptr - 1].size => b \in B2
  <2> HIDE DEF V
  <2> QED
    BY <1>1, <1>2, <1>3, <1>4, <1>5, CoalesceEffect
<1>7. Keeps(m, m1, V)
  BY <1>2, <1>3 DEF Keeps
<1>8. PICK B2 \in SUBSET B :
         /\ Heap(r.mem, brk, B2) /\ Coalesced(r.mem, B2) /\ Used(r.mem, B2) = V
         /\ r.bp \in B2 /\ Keeps(m1, r.mem, V)
  BY <1>6
<1>9. Keeps(m, r.mem, V)
  <2> HIDE DEF V
  <2> QED
    BY <1>2, <1>4, <1>7, <1>8, KeepsTransitive
<1>10. Allocates(r.mem, brk, B2, V)
  BY <1>4, <1>8 DEF Allocates, heap_listp
<1> QED
  BY <1>8, <1>9, <1>10

(* extend_heap(): there is a free block of the size asked for, and blocks  *)
(* begin where they did, the one at which the search begins too.           *)
LEMMA ExtendEffect ==
    ASSUME NEW m, NEW brk, NEW B, NEW U, Allocates(m, brk, B, U),
           NEW size \in Even, size >= 2, brk + size <= MaxHeap,
           NEW x, x = ExtendHeap(m, brk, size)
    PROVE  \E B2 : /\ Allocates(x.mem, brk + size, B2, U) /\ B \subseteq B2
                   /\ Keeps(m, x.mem, U)
                   /\ \E b \in B2 \ U : x.mem[b - 1].size >= size
<1> DEFINE h == PutTags(m, brk, size, 0)
           m1 == Put(h, HDRP(NextBlkp(h, brk)), Pack(0, 1))
           C == B \cup {brk}
<1>1. x = Coalesce(m1, brk)
  BY DEF ExtendHeap
<1>2. /\ Heap(m, brk, B) /\ U \subseteq B /\ 2 \in U
      /\ \A b \in B : b \in U <=> m[b - 1].alloc = 1
      /\ \A b \in B : m[b - 1].alloc = 1 \/ m[(b + m[b - 1].size) - 1].alloc = 1
  BY AllocatesFacts
<1>3. /\ Heap(m1, brk + size, C) /\ m1[brk - 1] = Pack(size, 0)
      /\ \A b \in B : m1[b - 1] = m[b - 1]
      /\ \A a \in Addr : a < brk - 1 => m1[a] = m[a]
  BY <1>2, Grow
<1> HIDE DEF m1
<1>4. m1[brk - 1].size = size /\ m1[brk - 1].alloc = 0
  BY <1>3 DEF Pack
<1>5. brk \notin B /\ brk \in Int /\ B \subseteq Int /\ size \in Int
  <2>1. brk \in Int /\ B \subseteq Int /\ \A b \in B : b + 2 <= brk
    BY <1>2, HeapFacts
  <2> QED
    BY <2>1, EvenFacts
<1>6. U = Used(m1, C) /\ brk \notin U /\ U \subseteq C
  <2>1. ASSUME NEW b \in C PROVE b \in U <=> m1[b - 1].alloc = 1
    <3>1. CASE b = brk
      BY <1>2, <1>4, <1>5, <3>1
    <3>2. CASE b \in B
      BY <1>2, <1>3, <3>2
    <3> QED
      BY <3>1, <3>2
  <2>2. U \subseteq C /\ brk \notin U
    BY <1>2, <1>5
  <2> HIDE DEF C
  <2> QED
    BY <2>1, <2>2 DEF Used, IsAlloc, HDRP
<1>7. ASSUME NEW b \in C, b # brk
      PROVE  \/ m1[b - 1].alloc = 1 \/ m1[b + m1[b - 1].size - 1].alloc = 1
             \/ b + m1[b - 1].size = brk
  <2>1. m1[b - 1] = m[b - 1] /\ b \in Int /\ m[b - 1].size \in Int
        /\ b + m[b - 1].size \in B \cup {brk} /\ b \in B
    BY <1>2, <1>3, <1>7, HeapFacts
  <2>2. b + m[b - 1].size - 1 = (b + m[b - 1].size) - 1
    BY <2>1
  <2> QED
    BY <1>2, <1>3, <2>1, <2>2
<1>8. PICK B2 \in SUBSET C :
         /\ Heap(x.mem, brk + size, B2) /\ Coalesced(x.mem, B2) /\ Used(x.mem, B2) = U
         /\ x.bp \in B2 \ U /\ x.mem[x.bp - 1].size >= m1[brk - 1].size
         /\ Keeps(m1, x.mem, U)
         /\ \A b \in C : b # brk /\ b # brk + m1[brk - 1].size => b \in B2
  <2>1. brk \in C
    OBVIOUS
  <2> HIDE DEF C
  <2> QED
    BY <1>1, <1>2, <1>3, <1>6, <1>7, <2>1, CoalesceEffect
<1>9. Keeps(m, m1, U)
  <2> SUFFICES ASSUME NEW b \in U, NEW a \in HDRP(b) .. FTRP(m, b)
               PROVE  m1[a] = m[a]
    BY DEF Keeps
  <2>0. a \in b - 1 .. b + m[b - 1].size - 2
    BY DEF HDRP, FTRP, GetSize, DSIZE
  <2>1. /\ b \in Int /\ m[b - 1].size \in Int /\ b - 1 \in Addr
        /\ b + m[b - 1].size - 2 \in Addr /\ b + m[b - 1].size <= brk
    BY <1>2, HeapFacts
  <2>2. a \in Int /\ b - 1 <= a /\ a <= b + m[b - 1].size - 2
    BY <2>0, <2>1
  <2>3. a \in Addr /\ a < brk - 1
    BY <1>5, <2>1, <2>2, MallocAssumption DEF Addr
  <2> QED
    BY <1>3, <2>3
<1>10. Keeps(m, x.mem, U)
  BY <1>2, <1>8, <1>9, KeepsTransitive
<1>11. Allocates(x.mem, brk + size, B2, U)
  BY <1>2, <1>8 DEF Allocates, heap_listp
<1>12. B \subseteq B2
  <2>1. \A b \in B : b # brk /\ b # brk + size
    <3>1. \A b \in B : b + 2 <= brk /\ b \in Int
      BY <1>2, HeapFacts
    <3> QED
      BY <1>5, <3>1
  <2> QED
    BY <1>4, <1>8, <2>1
<1> QED
  BY <1>4, <1>8, <1>10, <1>11, <1>12

(* Block bp has come into use, with just the size asked for. *)
Placed(m, r, brk, U, bp, asize) ==
    \E B2 : /\ Allocates(r, brk, B2, U \cup {bp}) /\ bp \in B2 /\ bp \notin U
            /\ r[bp - 1].size = asize /\ Keeps(m, r, U)

(* place() *)
LEMMA PlaceEffect ==
    ASSUME NEW m, NEW brk, NEW B, NEW U, Allocates(m, brk, B, U),
           NEW bp \in B, NEW asize, asize \in Even, asize >= 2, Fits(m, bp, asize),
           NEW r, r = Place(m, bp, asize)
    PROVE  Placed(m, r, brk, U, bp, asize)
<1> DEFINE size == GetSize(m, bp)
           m1 == PutTags(m, bp, size, 1)
           n == bp + size
<1>2. /\ Heap(m, brk, B) /\ U \subseteq B /\ 2 \in U
      /\ \A b \in B : b \in U <=> m[b - 1].alloc = 1
      /\ \A b \in B : m[b - 1].alloc = 1 \/ m[(b + m[b - 1].size) - 1].alloc = 1
  BY AllocatesFacts
<1>3. /\ bp \notin U /\ size = m[bp - 1].size /\ (size = asize \/ size >= asize + 2)
      /\ m[n - 1].alloc = 1
  BY <1>2 DEF Fits, IsAlloc, GetSize, HDRP, OVERHEAD
<1>4. /\ bp \in Int /\ size \in Int /\ asize \in Int /\ n \in B \cup {brk} /\ n \in Int /\ bp < n
  <2>1. /\ bp \in Int /\ m[bp - 1].size \in Int /\ m[bp - 1].size >= 2
        /\ bp + m[bp - 1].size \in B \cup {brk}
    BY <1>2, HeapFacts
  <2> QED
    BY <1>3, <2>1, EvenFacts
<1>5. Marked(m, m1, brk, B, bp, 1)
  <2>1. m1 = PutTags(m, bp, GetSize(m, bp), 1) /\ 1 \in {0, 1}
    OBVIOUS
  <2> HIDE DEF m1
  <2> QED
    BY <1>2, <2>1, Mark
<1> HIDE DEF n, size
<1>6. /\ Heap(m1, brk, B) /\ m1[bp - 1].size = size /\ m1[bp - 1].alloc = 1
      /\ \A b \in (B \cup {brk}) \ {bp} : m1[b - 1] = m[b - 1]
      /\ Keeps(m, m1, B \ {bp}) /\ m1 \in [Addr -> Word]
  <2>1. Heap(m1, brk, B)
    BY <1>5 DEF Marked
  <2>2. m1 \in [Addr -> Word]
    BY <2>1 DEF Heap
  <2> HIDE DEF m1
  <2> QED
    BY <1>3, <1>5, <2>2 DEF Marked, SameHeaders
<1>7. Keeps(m, m1, U)
  BY <1>2, <1>3, <1>6 DEF Keeps
<1>8. CASE size >= asize + 2
  <2> DEFINE q == bp + asize
             C == B \cup {q}
  <2>1. r = PutTags(PutTags(m1, bp, asize, 1), bp + asize, size - asize, 0)
    BY <1>8 DEF Place, OVERHEAD, size
  <2> HIDE DEF m1
  <2>2. SplitIn(m1, r, brk, B, bp, asize, size)
    <3>1. asize + 2 <= size /\ size = m1[bp - 1].size
      BY <1>4, <1>6, <1>8
    <3> QED
      BY <1>6, <2>1, <3>1, Split
  <2>3. /\ Heap(r, brk, C) /\ q \notin B /\ r[bp - 1].size = asize /\ r[bp - 1].alloc = 1
        /\ r[q - 1].size = size - asize /\ r[q - 1].alloc = 0
        /\ \A b \in (B \cup {brk}) \ {bp} : r[b - 1] = m[b - 1]
    BY <1>6, <2>2 DEF SplitIn, SameHeaders, Pack
  <2>4. q + r[q - 1].size = n
    BY <1>4, <2>3 DEF n
  <2> HIDE DEF q
  <2>5. U \cup {bp} \subseteq C /\ 2 \in U \cup {bp}
    BY <1>2
  <2>6. ASSUME NEW b \in C
        PROVE  b \in U \cup {bp} <=> r[b - 1].alloc = 1
    <3>1. CASE b = q
      BY <1>2, <2>3, <3>1
    <3>2. CASE b = bp
      BY <2>3, <3>2
    <3>3. CASE b \in B /\ b # bp
      BY <1>2, <2>3, <3>3
    <3> QED
      BY <3>1, <3>2, <3>3
  <2>7. ASSUME NEW b \in C
        PROVE  r[b - 1].alloc = 1 \/ r[(b + r[b - 1].size) - 1].alloc = 1
    <3>1. CASE b = q
      <4>1. r[n - 1] = m[n - 1]
        BY <1>4, <2>3
      <4> QED
        BY <1>3, <2>4, <3>1, <4>1
    <3>2. CASE b = bp
      BY <2>3, <3>2
    <3>3. CASE b \in B /\ b # bp
      <4>1. r[b - 1] = m[b - 1] /\ b + m[b - 1].size \in B \cup {brk}
        BY <1>2, <2>3, <3>3, HeapFacts
      <4>2. CASE b + m[b - 1].size = bp
        BY <2>3, <4>1, <4>2
      <4>3. CASE b + m[b - 1].size # bp
        BY <1>2, <2>3, <3>3, <4>1, <4>3
      <4> QED
        BY <4>2, <4>3
    <3> QED
      BY <3>1, <3>2, <3>3
  <2> HIDE DEF C
  <2>8. Allocates(r, brk, C, U \cup {bp})
    BY <2>3, <2>5, <2>6, <2>7, AllocatesIntro
  <2>9. Keeps(m, r, U)
    <3>1. \A a \in Addr \ (bp - 1 .. bp + m1[bp - 1].size - 2) : r[a] = m1[a]
      BY <1>6, <2>2 DEF SplitIn
    <3>2. Keeps(m1, r, B \ {bp})
      BY <1>6, <3>1, KeepsOthers
    <3>3. Keeps(m1, r, U)
      BY <1>2, <1>3, <3>2 DEF Keeps
    <3> QED
      BY <1>2, <1>7, <3>3, KeepsTransitive
  <2>10. bp \in C
    BY <2>5
  <2> QED
    BY <1>3, <2>3, <2>8, <2>9, <2>10 DEF Placed
<1>9. CASE ~(size >= asize + 2)
  <2>1. r = m1 /\ size = asize
    BY <1>3, <1>9 DEF Place, OVERHEAD, size
  <2> HIDE DEF m1
  <2>2. ASSUME NEW b \in B
        PROVE  b \in U \cup {bp} <=> m1[b - 1].alloc = 1
    <3>1. CASE b = bp
      BY <1>6, <3>1
    <3>2. CASE b # bp
      BY <1>2, <1>6, <3>2
    <3> QED
      BY <3>1, <3>2
  <2>3. ASSUME NEW b \in B
        PROVE  m1[b - 1].alloc = 1 \/ m1[(b + m1[b - 1].size) - 1].alloc = 1
    <3>1. CASE b = bp
      BY <1>6, <3>1
    <3>2. CASE b # bp
      <4>1. m1[b - 1] = m[b - 1] /\ b + m[b - 1].size \in B \cup {brk}
        BY <1>2, <1>6, <3>2, HeapFacts
      <4>2. CASE b + m[b - 1].size = bp
        BY <1>6, <4>1, <4>2
      <4>3. CASE b + m[b - 1].size # bp
        BY <1>2, <1>6, <4>1, <4>3
      <4> QED
        BY <4>2, <4>3
    <3> QED
      BY <3>1, <3>2
  <2>4. U \cup {bp} \subseteq B /\ 2 \in U \cup {bp}
    BY <1>2
  <2>5. Allocates(m1, brk, B, U \cup {bp})
    BY <1>6, <2>2, <2>3, <2>4, AllocatesIntro
  <2> QED
    BY <1>3, <1>6, <1>7, <2>1, <2>5 DEF Placed
<1> QED
  BY <1>8, <1>9

------------------------------------------------------------------------------
(* A set of natural numbers that is not empty has a least element: the     *)
(* numbers below an element are a finite set, and inclusion of those is    *)
(* well-founded.                                                           *)
LEMMA LeastNat ==
    ASSUME NEW T, T \subseteq Nat, T # {}
    PROVE  \E x \in T : \A y \in T : x <= y
<1> DEFINE Below(x) == {y \in Nat : y < x}
           F == {Below(x) : x \in T}
<1>1. \A x \in Nat : IsFiniteSet(Below(x)) /\ Below(x) \subseteq Nat
  <2> TAKE x \in Nat
  <2>1. Below(x) \subseteq Nat /\ \A y \in Below(x) : y < x
    OBVIOUS
  <2> HIDE DEF Below
  <2> QED
    BY <2>1, FS_BoundedSetOfNaturals
<1>2. F \subseteq FiniteSubsetsOf(Nat) /\ F # {}
  BY <1>1 DEF FiniteSubsetsOf
<1>3. PICK S \in F : \A C \in F : ~(<<C, S>> \in StrictSubsetOrdering(Nat))
  <2> HIDE DEF F
  <2> QED
    BY <1>2, FS_StrictSubsetOrderingWellFounded, WFMin
<1>4. PICK x \in T : S = Below(x)
  OBVIOUS
<1>5. ASSUME NEW y \in T, y < x PROVE FALSE
  <2>1. Below(y) \subseteq Below(x) /\ x \in Nat /\ y \in Nat
    BY <1>5
  <2>2. y \in Below(x) /\ y \notin Below(y)
    BY <1>5
  <2>3. Below(y) \in F /\ Below(y) # Below(x)
    BY <2>2
  <2> HIDE DEF Below, F
  <2> QED
    BY <1>1, <1>3, <1>4, <2>1, <2>3 DEF StrictSubsetOrdering
<1> QED
  BY <1>5

(* The recursion of Walk has a solution: else there would be a least       *)
(* number of steps for which it has none.                                  *)
LEMMA WalkSteps ==
    ASSUME NEW m, NEW from, NEW w, w = Walk(m, from)
    PROVE  w[0] = from /\ \A n \in 1 .. MaxHeap : w[n] = NextBlkp(m, w[n - 1])
<1> DEFINE Rec(f, n) == IF n = 0 THEN from ELSE NextBlkp(m, f[n - 1])
           Sol(f, k) == f = [n \in 0 .. k |-> Rec(f, n)]
           T == {k \in Nat : ~\E f : Sol(f, k)}
<1>1. 0 \notin T
  <2> DEFINE f == [n \in 0 .. 0 |-> from]
  <2>1. \A n \in 0 .. 0 : n = 0
    OBVIOUS
  <2>2. Sol(f, 0)
    BY <2>1
  <2> QED
    BY <2>2
<1>2. ASSUME NEW k \in Nat \ {0}, k \in T PROVE k - 1 \in T
  <2> SUFFICES ASSUME k - 1 \notin T PROVE FALSE
    OBVIOUS
  <2>1. PICK f : Sol(f, k - 1)
    OBVIOUS
  <2> DEFINE g == [n \in 0 .. k |-> Rec(f, n)]
  <2>2. \A n \in 0 .. k - 1 : g[n] = f[n]
    <3> TAKE n \in 0 .. k - 1
    <3>1. n \in 0 .. k
      OBVIOUS
    <3>2. f[n] = Rec(f, n)
      <4> HIDE DEF Rec
      <4> QED
        BY <2>1
    <3> HIDE DEF Rec
    <3> QED
      BY <3>1, <3>2
  <2>3. ASSUME NEW n \in 0 .. k PROVE Rec(f, n) = Rec(g, n)
    <3>1. CASE n = 0
      BY <3>1
    <3>2. CASE n # 0
      <4>1. n - 1 \in 0 .. k - 1
        BY <3>2
      <4> HIDE DEF g
      <4> QED
        BY <2>2, <4>1
    <3> QED
      BY <3>1, <3>2
  <2>4. Sol(g, k)
    <3> HIDE DEF Rec
    <3> QED
      BY <2>3
  <2> QED
    BY <1>2, <2>4
<1>3. T = {}
  <2> SUFFICES ASSUME T # {} PROVE FALSE
    OBVIOUS
  <2>1. T \subseteq Nat
    OBVIOUS
  <2> HIDE DEF T
  <2>2. PICK x \in T : \A y \in T : x <= y
    BY <2>1, LeastNat
  <2>3. x \in Nat \ {0} /\ x - 1 \notin T
    BY <1>1, <2>1, <2>2
  <2> QED
    BY <1>2, <2>2, <2>3
<1>4. MaxHeap \in Nat
  BY MallocAssumption
<1>5. \E f : Sol(f, MaxHeap)
  BY <1>3, <1>4
<1>6. w = CHOOSE f : Sol(f, MaxHeap)
  BY DEF Walk
<1>7. Sol(w, MaxHeap)
  <2> HIDE DEF Sol
  <2> QED
    BY <1>5, <1>6
<1>8. ASSUME NEW n \in 0 .. MaxHeap PROVE w[n] = Rec(w, n)
  <2> HIDE DEF Rec
  <2> QED
    BY <1>7
<1> QED
  BY <1>4, <1>8

(* Along the headers every block from `from` on is met, in the order of    *)
(* the addresses, and then the epilogue, again and again.                  *)
Leads(m, brk, B, from, w) ==
    /\ \A n \in 0 .. MaxHeap : w[n] \in B \cup {brk}
    /\ w[MaxHeap] = brk
    /\ \A e \in B : from <= e =>
          \E n \in 0 .. MaxHeap : w[n] = e /\ \A k \in 0 .. n - 1 : w[k] < e
    /\ \A n, k \in 0 .. MaxHeap : k < n /\ w[k] \in B => w[k] < w[n]

(* A walk from a block of the heap leads so. *)
LEMMA WalkLeads ==
    ASSUME NEW m, NEW brk, NEW B, Heap(m, brk, B), NEW from \in B,
           NEW w, w = Walk(m, from)
    PROVE  Leads(m, brk, B, from, w)
<1>0. MaxHeap \in Nat /\ MaxHeap >= 4 /\ brk \in Int /\ brk <= MaxHeap /\ B \subseteq Int
      /\ 2 <= from /\ from \in Int
  BY HeapFacts, MallocAssumption
<1>1. w[0] = from /\ \A n \in 1 .. MaxHeap : w[n] = w[n - 1] + m[w[n - 1] - 1].size
  BY WalkSteps DEF NextBlkp, GetSize, HDRP
<1>2. ASSUME NEW T, T \subseteq Nat, \A n \in T : n # 0 => n - 1 \in T, 0 \notin T
      PROVE  T = {}
  <2> SUFFICES ASSUME T # {} PROVE FALSE
    OBVIOUS
  <2>1. PICK x \in T : \A y \in T : x <= y
    BY <1>2, LeastNat
  <2>2. x # 0 /\ x - 1 \in T /\ x \in Nat
    BY <1>2
  <2> QED
    BY <2>1, <2>2
<1>3. \A n \in 0 .. MaxHeap : w[n] \in B \cup {brk}
  <2> DEFINE T == {n \in 0 .. MaxHeap : w[n] \notin B \cup {brk}}
  <2>1. ASSUME NEW n \in T, n # 0 PROVE n - 1 \in T
    <3>1. n \in 1 .. MaxHeap /\ n - 1 \in 0 .. MaxHeap
      BY <1>0, <2>1
    <3>2. w[n] = w[n - 1] + m[w[n - 1] - 1].size
      BY <1>1, <3>1
    <3>3. ASSUME w[n - 1] = brk PROVE w[n] = brk
      BY <1>0, <3>2, <3>3, HeapFacts
    <3>4. ASSUME w[n - 1] \in B PROVE w[n] \in B \cup {brk}
      BY <3>2, <3>4, HeapFacts
    <3> QED
      BY <3>1, <3>3, <3>4
  <2>2. T \subseteq Nat /\ 0 \notin T
    BY <1>0, <1>1
  <2>3. T = {}
    <3> HIDE DEF T
    <3> QED
      BY <1>2, <2>1, <2>2
  <2> QED
    BY <2>3
<1>4. ASSUME NEW n \in 1 .. MaxHeap
      PROVE  /\ n - 1 \in 0 .. MaxHeap /\ w[n] \in Int /\ w[n - 1] \in Int
             /\ w[n] <= brk /\ w[n - 1] <= w[n]
             /\ \/ w[n - 1] = brk /\ w[n] = brk
                \/ w[n - 1] \in B /\ w[n - 1] + 2 <= w[n]
  <2>1. n - 1 \in 0 .. MaxHeap /\ n \in 0 .. MaxHeap
    BY <1>0
  <2>2. w[n] = w[n - 1] + m[w[n - 1] - 1].size /\ w[n] \in B \cup {brk}
        /\ w[n - 1] \in B \cup {brk}
    BY <1>1, <1>3, <2>1
  <2>3. w[n] \in Int /\ w[n] <= brk
    BY <2>2, HeapFacts
  <2>4. CASE w[n - 1] = brk
    <3>1. w[n] = brk
      BY <1>0, <2>2, <2>4, HeapFacts
    <3> QED
      BY <1>0, <2>1, <2>3, <2>4, <3>1
  <2>5. CASE w[n - 1] \in B
    <3>1. w[n - 1] \in Int /\ m[w[n - 1] - 1].size \in Int /\ m[w[n - 1] - 1].size >= 2
      BY <2>5, HeapFacts
    <3> QED
      BY <2>1, <2>2, <2>3, <2>5, <3>1
  <2> QED
    BY <2>2, <2>4, <2>5
<1>5. w[MaxHeap] = brk
  <2> DEFINE T == {n \in 0 .. MaxHeap : w[n] # brk /\ ~(w[n] >= from + 2 * n)}
  <2>1. ASSUME NEW n \in T, n # 0 PROVE n - 1 \in T
    <3>1. n \in 1 .. MaxHeap /\ n \in Int
      BY <1>0, <2>1
    <3>2. /\ n - 1 \in 0 .. MaxHeap /\ w[n] \in Int /\ w[n - 1] \in Int
          /\ w[n - 1] # brk /\ w[n - 1] + 2 <= w[n]
      BY <1>4, <3>1, <1>0, HeapFacts
    <3> QED
      BY <1>0, <2>1, <3>1, <3>2
  <2>2. T \subseteq Nat /\ 0 \notin T
    BY <1>0, <1>1
  <2>3. T = {}
    <3> HIDE DEF T
    <3> QED
      BY <1>2, <2>1, <2>2
  <2>4. MaxHeap \in 0 .. MaxHeap
    BY <1>0
  <2>5. w[MaxHeap] \in Int /\ w[MaxHeap] <= brk
    BY <1>3, <2>4, HeapFacts
  <2> QED
    BY <1>0, <2>3, <2>4, <2>5
<1>6. ASSUME NEW e \in B, from <= e
      PROVE  \E n \in 0 .. MaxHeap : w[n] = e /\ \A k \in 0 .. n - 1 : w[k] < e
  <2> DEFINE T == {n \in 0 .. MaxHeap : w[n] >= e}
  <2>1. T \subseteq Nat /\ MaxHeap \in T
    BY <1>0, <1>5, HeapFacts
  <2>2. PICK n \in T : \A y \in T : n <= y
    <3> HIDE DEF T
    <3> QED
      BY <2>1, LeastNat
  <2>3. ASSUME NEW k \in 0 .. n - 1 PROVE k \in 0 .. MaxHeap /\ w[k] < e
    <3>1. k \in 0 .. MaxHeap /\ k \notin T
      BY <1>0, <2>2
    <3>2. w[k] \in Int /\ e \in Int
      BY <1>3, <3>1, HeapFacts
    <3> QED
      BY <3>1, <3>2
  <2>4. w[n] = e
    <3>1. CASE n = 0
      BY <1>0, <1>1, <1>6, <3>1
    <3>2. CASE n # 0
      <4>1. n \in 1 .. MaxHeap /\ n - 1 \in 0 .. n - 1
        BY <1>0, <3>2
      <4>2. w[n - 1] < e /\ e <= w[n]
        BY <2>3, <4>1
      <4>3. w[n - 1] \in B
        <5>1. e < brk /\ e \in Int
          BY <1>0, HeapFacts
        <5> QED
          BY <1>0, <1>4, <4>1, <4>2, <5>1
      <4>4. w[n - 1] + m[w[n - 1] - 1].size <= e
        BY <4>2, <4>3, HeapFacts
      <4> QED
        BY <1>0, <1>1, <1>4, <4>1, <4>2, <4>4
    <3> QED
      BY <3>1, <3>2
  <2> QED
    BY <2>3, <2>4
<1>7. ASSUME NEW n \in 0 .. MaxHeap, NEW k \in 0 .. MaxHeap, k < n, w[k] \in B
      PROVE  w[k] < w[n]
  <2> DEFINE T == {j \in 0 .. MaxHeap : k < j /\ ~(w[k] < w[j])}
  <2>1. T \subseteq Nat
    OBVIOUS
  <2> SUFFICES ASSUME T # {} PROVE FALSE
    BY <1>7
  <2>2. PICK j \in T : \A y \in T : j <= y
    <3> HIDE DEF T
    <3> QED
      BY <2>1, LeastNat
  <2>3. j \in 1 .. MaxHeap /\ j - 1 \in 0 .. MaxHeap /\ j \in Int
    BY <1>0
  <2>4. w[k] \in Int /\ w[j] \in Int /\ w[j - 1] \in Int /\ w[j - 1] <= w[j]
    BY <1>0, <1>4, <1>7, <2>3
  <2>5. CASE j - 1 = k
    <3>1. w[k] + 2 <= w[j]
      <4>1. w[k] # brk
        BY <1>7, <1>0, HeapFacts
      <4> QED
        BY <1>4, <2>3, <2>5, <4>1
    <3> QED
      BY <2>2, <2>4, <3>1
  <2>6. CASE j - 1 # k
    <3>1. k < j - 1 /\ j - 1 \notin T
      BY <2>2, <2>3, <2>6
    <3>2. w[k] < w[j - 1]
      BY <2>3, <3>1
    <3> QED
      BY <2>2, <2>4, <3>2
  <2> QED
    BY <2>5, <2>6
<1> QED
  BY <1>3, <1>5, <1>6, <1>7 DEF Leads

(* The blocks that a search from `from` up to `to` looks at. *)
InRange(b, from, to) == from <= b /\ (to = 0 \/ b < to)

(* The search finds a block of the range that fits, if there is one. *)
Finds(m, B, from, to, asize, r) ==
    \/ r = 0 /\ \A b \in B : InRange(b, from, to) => ~Fits(m, b, asize)
    \/ r \in B /\ Fits(m, r, asize)

(* One loop of find_fit() *)
LEMMA SearchEffect ==
    ASSUME NEW m, NEW brk, NEW B, Heap(m, brk, B), NEW from \in B,
           NEW to, to \in B \cup {0}, NEW asize, asize \in Nat,
           NEW r, r = Search(m, from, to, asize)
    PROVE  Finds(m, B, from, to, asize, r)
<1> DEFINE w == Walk(m, from)
           Ends(n) == w[n] = to \/ IsEpilogue(m, w[n])
           Stops(n) == Ends(n) \/ Fits(m, w[n], asize)
           IsFirst(n) == Stops(n) /\ \A k \in 0 .. n - 1 : ~Stops(k)
           first == CHOOSE n \in 0 .. MaxHeap : IsFirst(n)
<1>1. r = IF Ends(first) THEN 0 ELSE w[first]
  BY DEF Search, NULL
<1>2. Leads(m, brk, B, from, w)
  BY WalkLeads
<1> HIDE DEF w
<1>3. MaxHeap \in Nat /\ MaxHeap \in 0 .. MaxHeap
  BY MallocAssumption
<1>4. ASSUME NEW b \in B \cup {brk} PROVE IsEpilogue(m, b) <=> b = brk
  <2>1. CASE b = brk
    BY <2>1, HeapFacts DEF IsEpilogue, GetSize, IsAlloc, HDRP
  <2>2. CASE b \in B
    <3>1. m[b - 1].size >= 2 /\ m[b - 1].size \in Int /\ b # brk
      BY <2>2, HeapFacts
    <3> QED
      BY <3>1 DEF IsEpilogue, GetSize, HDRP
  <2> QED
    BY <2>1, <2>2
<1>5. Stops(MaxHeap)
  BY <1>2, <1>4 DEF Leads
<1>6. first \in 0 .. MaxHeap /\ IsFirst(first)
  <2> DEFINE T == {n \in 0 .. MaxHeap : Stops(n)}
  <2>1. T \subseteq Nat /\ MaxHeap \in T
    BY <1>3, <1>5
  <2>2. PICK n \in T : \A y \in T : n <= y
    <3> HIDE DEF T
    <3> QED
      BY <2>1, LeastNat
  <2>3. ASSUME NEW k \in 0 .. n - 1 PROVE ~Stops(k)
    <3>1. k \in 0 .. MaxHeap /\ k < n
      BY <1>3
    <3> HIDE DEF Stops
    <3> QED
      BY <2>2, <3>1
  <2>4. n \in 0 .. MaxHeap /\ IsFirst(n)
    <3> HIDE DEF Stops
    <3> QED
      BY <2>3
  <2> HIDE DEF IsFirst
  <2> QED
    BY <2>4
<1> HIDE DEF first
<1>7. w[first] \in B \cup {brk}
  BY <1>2, <1>6 DEF Leads
<1>8. CASE ~Ends(first)
  <2>1. r = w[first] /\ Fits(m, w[first], asize) /\ w[first] # brk
    BY <1>1, <1>4, <1>6, <1>7, <1>8
  <2> QED
    BY <1>7, <2>1 DEF Finds
<1>9. CASE Ends(first)
  <2>1. ASSUME NEW b \in B, InRange(b, from, to) PROVE ~Fits(m, b, asize)
    <3>1. PICK n \in 0 .. MaxHeap : w[n] = b /\ \A k \in 0 .. n - 1 : w[k] < b
      BY <1>2, <2>1 DEF Leads, InRange
    <3>2. CASE n < first
      <4>1. n \in 0 .. first - 1
        BY <1>6, <3>2
      <4>2. ~Stops(n)
        BY <1>6, <4>1
      <4> QED
        BY <3>1, <4>2
    <3>3. CASE ~(n < first)
      <4>1. w[first] <= b
        <5>1. CASE first = n
          BY <3>1, <5>1, HeapFacts
        <5>2. CASE first # n
          <6>1. first \in 0 .. n - 1
            BY <1>6, <3>3, <5>2
          <6> QED
            BY <1>7, <3>1, <6>1, HeapFacts
        <5> QED
          BY <5>1, <5>2
      <4>2. w[first] # to
        <5>1. 2 <= w[first] /\ b \in Int /\ w[first] \in Int
          BY <1>7, HeapFacts
        <5> QED
          BY <2>1, <4>1, <5>1, HeapFacts DEF InRange
      <4>3. w[first] # brk
        <5>1. b + 2 <= brk /\ b \in Int /\ brk \in Int
          BY HeapFacts
        <5> QED
          BY <4>1, <5>1
      <4> QED
        BY <1>4, <1>7, <1>9, <4>2, <4>3
    <3> QED
      BY <3>2, <3>3
  <2> QED
    BY <1>1, <1>9, <2>1 DEF Finds
<1> QED
  BY <1>8, <1>9

(* find_fit() finds a block if one fits, wherever the search begins. *)
FindsAny(m, B, asize, r) ==
    \/ r = 0 /\ \A b \in B : ~Fits(m, b, asize)
    \/ r \in B /\ Fits(m, r, asize)

(* Both loops *)
LEMMA FindFitEffect ==
    ASSUME NEW m, NEW brk, NEW B, Heap(m, brk, B), NEW pre \in B,
           NEW asize, asize \in Nat, NEW r, r = FindFit(m, pre, asize)
    PROVE  FindsAny(m, B, asize, r)
<1> DEFINE after == Search(m, pre, 0, asize)
           before == Search(m, 2, pre, asize)
<1>1. r = IF after # 0 THEN after ELSE before
  BY DEF FindFit, NULL, heap_listp
<1>2. 2 \in B /\ \A b \in B : b \in Int /\ 2 <= b
  BY HeapFacts
<1>3. after = Search(m, pre, 0, asize) /\ before = Search(m, 2, pre, asize)
  OBVIOUS
<1>4. Finds(m, B, pre, 0, asize, after)
  <2>1. 0 \in B \cup {0}
    OBVIOUS
  <2> HIDE DEF after
  <2> QED
    BY <1>3, <2>1, SearchEffect
<1>5. Finds(m, B, 2, pre, asize, before)
  <2>1. pre \in B \cup {0}
    OBVIOUS
  <2> HIDE DEF before
  <2> QED
    BY <1>2, <1>3, <2>1, SearchEffect
<1> HIDE DEF after, before
<1>6. \A b \in B : InRange(b, pre, 0) \/ InRange(b, 2, pre)
  BY <1>2 DEF InRange
<1>7. 0 \notin B
  BY <1>2
<1> QED
  BY <1>1, <1>4, <1>5, <1>6, <1>7 DEF Finds, FindsAny

(* The blocks that the headers lead to are those of the heap. *)
LEMMA BlocksOfHeap ==
    ASSUME NEW B, Heap(mem, mem_brk, B)
    PROVE  Blocks = B
<1> DEFINE w == Walk(mem, 2)
           brk == mem_brk
           IsBlock(bp) == /\ bp < mem_brk /\ GetSize(mem, bp) >= 2
                          /\ NextBlkp(mem, bp) <= mem_brk
           IsCount(n) == ~IsBlock(w[n]) /\ \A k \in 0 .. n - 1 : IsBlock(w[k])
           count == CHOOSE n \in 0 .. MaxHeap : IsCount(n)
<1>1. Blocks = {w[n] : n \in 0 .. count - 1}
  BY DEF Blocks, heap_listp, OVERHEAD
<1>2. 2 \in B
  BY HeapFacts
<1>3. Leads(mem, brk, B, 2, w)
  BY <1>2, WalkLeads
<1> HIDE DEF w
<1>4. MaxHeap \in Nat /\ MaxHeap \in 0 .. MaxHeap
  BY MallocAssumption
<1>5. ASSUME NEW b \in B \cup {brk} PROVE IsBlock(b) <=> b \in B
  <2>1. CASE b = brk
    <3>1. brk \in Int /\ \A c \in B : c + 2 <= brk /\ c \in Int
      BY HeapFacts
    <3>2. brk \notin B
      BY <3>1
    <3> QED
      BY <2>1, <3>1, <3>2
  <2>2. CASE b \in B
    <3>1. /\ mem[b - 1].size >= 2 /\ mem[b - 1].size \in Int /\ b + 2 <= brk
          /\ b + mem[b - 1].size <= brk /\ b \in Int /\ brk \in Int
      BY <2>2, HeapFacts
    <3> QED
      BY <2>2, <3>1 DEF GetSize, NextBlkp, HDRP
  <2> QED
    BY <2>1, <2>2
<1> HIDE DEF IsBlock
<1>6. \A b \in B : b < brk /\ b \in Int /\ 2 <= b
  BY HeapFacts
<1>7. \A n \in 0 .. MaxHeap : IsBlock(w[n]) <=> w[n] \in B
  BY <1>3, <1>5 DEF Leads
<1>8. w[MaxHeap] \notin B
  <2>1. \A c \in B : c + 2 <= brk /\ c \in Int
    BY HeapFacts
  <2> QED
    BY <1>3, <2>1 DEF Leads
<1>9. count \in 0 .. MaxHeap /\ IsCount(count)
  <2> DEFINE T == {n \in 0 .. MaxHeap : ~IsBlock(w[n])}
  <2>1. T \subseteq Nat /\ MaxHeap \in T
    BY <1>4, <1>7, <1>8
  <2>2. PICK n \in T : \A y \in T : n <= y
    <3> HIDE DEF T
    <3> QED
      BY <2>1, LeastNat
  <2>3. ASSUME NEW k \in 0 .. n - 1 PROVE IsBlock(w[k])
    <3>1. k \in 0 .. MaxHeap /\ k < n
      BY <1>4
    <3> QED
      BY <2>2, <3>1
  <2>4. n \in 0 .. MaxHeap /\ IsCount(n)
    BY <2>3
  <2> HIDE DEF IsCount
  <2> QED
    BY <2>4
<1> HIDE DEF count
<1>10. ASSUME NEW b \in B PROVE \E n \in 0 .. count - 1 : w[n] = b
  <2>1. PICK n \in 0 .. MaxHeap : w[n] = b /\ \A k \in 0 .. n - 1 : w[k] < b
    BY <1>3, <1>6 DEF Leads
  <2>2. w[count] = brk
    BY <1>3, <1>7, <1>9 DEF Leads
  <2>3. ASSUME ~(n < count) PROVE FALSE
    <3>1. count # n
      BY <1>7, <1>9, <2>1
    <3>2. count \in 0 .. n - 1
      BY <1>9, <2>3, <3>1
    <3> QED
      <4>1. brk < b
        BY <2>1, <2>2, <3>2
      <4>2. b < brk /\ b \in Int /\ brk \in Int
        BY HeapFacts
      <4> QED
        BY <4>1, <4>2
  <2>4. n \in 0 .. count - 1
    BY <1>9, <2>3
  <2> QED
    BY <2>1, <2>4
<1>11. ASSUME NEW n \in 0 .. count - 1 PROVE w[n] \in B
  <2>1. n \in 0 .. MaxHeap /\ IsBlock(w[n])
    BY <1>4, <1>9
  <2> QED
    BY <1>7, <2>1
<1> QED
  BY <1>1, <1>10, <1>11

(* Blocks have an even size, with room for the tags. *)
LEMMA AdjustedSizeFacts ==
    ASSUME NEW size, size \in Nat \ {0}, NEW asize, asize = AdjustedSize(size)
    PROVE  /\ asize \in Even /\ asize \in Nat /\ asize >= 4 /\ asize >= size + 2
           /\ \A s \in Even : s < asize => s < size + 2
<1>1. CASE size <= 2
  <2>1. asize = 4
    BY <1>1 DEF AdjustedSize, DSIZE, OVERHEAD
  <2>2. \A s \in Even : s < 4 => s <= 2
    BY EvenFacts
  <2>3. 4 \in Even /\ Even \subseteq Nat
    BY EvenFacts
  <2> QED
    BY <1>1, <2>1, <2>2, <2>3
<1>2. CASE ~(size <= 2)
  <2>1. asize = 2 * ((size + 3) \div 2)
    <3>1. size + OVERHEAD + DSIZE - 1 = size + 3
      BY DEF OVERHEAD, DSIZE
    <3> QED
      BY <1>2, <3>1 DEF AdjustedSize, DSIZE
  <2>2. asize \in Nat /\ asize % 2 = 0 /\ size + 2 <= asize /\ asize <= size + 3
    BY <2>1
  <2>3. asize \in Even /\ Even \subseteq Nat
    BY <2>2 DEF Even
  <2>4. \A s \in Even : s < asize => s + 2 <= asize
    BY <2>3, EvenFacts
  <2> QED
    BY <1>2, <2>2, <2>3, <2>4
<1> QED
  BY <1>1, <1>2

(* What mem_sbrk() is asked for is even, and enough for the block. *)
LEMMA ExtendSizeFacts ==
    ASSUME NEW asize, asize \in Nat, asize >= 2, NEW extra, extra = ExtendSize(asize)
    PROVE  /\ extra \in Even /\ extra >= asize /\ extra >= 2
           /\ asize \in Even /\ Chunk % 2 = 0 => extra = Max({asize, Chunk})
<1> DEFINE words == Max({asize, Chunk})
<1>1. Chunk \in Nat
  BY MallocAssumption
<1>2. words = IF asize >= Chunk THEN asize ELSE Chunk
  <2>1. \E x \in {asize, Chunk} : \A y \in {asize, Chunk} : x >= y
    BY <1>1
  <2>2. words \in {asize, Chunk} /\ \A y \in {asize, Chunk} : words >= y
    BY <2>1 DEF Max
  <2> HIDE DEF words
  <2> QED
    BY <1>1, <2>2
<1>3. extra = words + (words % 2)
  BY DEF ExtendSize
<1> HIDE DEF words
<1>4. words \in Nat /\ words >= asize
  BY <1>1, <1>2
<1>5. extra \in Even
  BY <1>3, <1>4, EvenFacts
<1>6. extra >= words /\ extra \in Nat
  BY <1>3, <1>4
<1>7. asize \in Even /\ Chunk % 2 = 0 => extra = words
  BY <1>1, <1>2, <1>3 DEF Even
<1> QED
  BY <1>4, <1>5, <1>6, <1>7 DEF words

(* mm_malloc() fails only if no block fits and the heap cannot grow. *)
Refused(m, brk, pre, B, asize, r) ==
    /\ r = [mem |-> m, brk |-> brk, pre |-> pre, bp |-> 0]
    /\ \A b \in B : ~Fits(m, b, asize)
    /\ brk + ExtendSize(asize) > MaxHeap

(* Else it returns a block of the size wanted that was not in use, and the *)
(* heap has grown only if no block fitted.                                 *)
Granted(m, brk, B, U, asize, r) ==
    /\ \E B2 : /\ Allocates(r.mem, r.brk, B2, U \cup {r.bp})
               /\ r.bp \in B2 /\ r.pre = r.bp
    /\ r.bp \notin U /\ r.bp \in Int /\ r.bp >= 2
    /\ r.mem[r.bp - 1].size = asize
    /\ Keeps(m, r.mem, U)
    /\ r.brk = brk \/ \A b \in B : ~Fits(m, b, asize)

(* mm_malloc(), the second find_fit() and the failure of mem_sbrk() included *)
LEMMA MallocEffect ==
    ASSUME NEW m, NEW brk, NEW B, NEW U, Allocates(m, brk, B, U), NEW pre \in B,
           NEW size, size \in Nat \ {0}, NEW asize, asize = AdjustedSize(size),
           NEW r, r = MmMalloc(m, brk, pre, size)
    PROVE  Refused(m, brk, pre, B, asize, r) \/ Granted(m, brk, B, U, asize, r)
<1> DEFINE fit == FindFit(m, pre, asize)
           extra == ExtendSize(asize)
           x == ExtendHeap(m, brk, extra)
           refit == FindFit(x.mem, pre, asize)
<1>1. /\ fit # 0 => r = [mem |-> Place(m, fit, asize), brk |-> brk, pre |-> fit, bp |-> fit]
      /\ fit = 0 /\ brk + extra > MaxHeap =>
            r = [mem |-> m, brk |-> brk, pre |-> pre, bp |-> 0]
      /\ fit = 0 /\ ~(brk + extra > MaxHeap) /\ refit # 0 =>
            r = [mem |-> Place(x.mem, refit, asize), brk |-> brk + extra,
                 pre |-> refit, bp |-> refit]
  BY DEF MmMalloc, NULL
<1>2. asize \in Even /\ asize \in Nat /\ asize >= 4
  BY AdjustedSizeFacts
<1>3. extra \in Even /\ extra >= asize /\ extra >= 2
  <2>1. asize >= 2 /\ extra = ExtendSize(asize)
    BY <1>2
  <2> HIDE DEF extra
  <2> QED
    BY <1>2, <2>1, ExtendSizeFacts
<1>4. Heap(m, brk, B) /\ brk \in Int /\ MaxHeap \in Int /\ extra \in Int
  <2>1. Heap(m, brk, B)
    BY AllocatesFacts
  <2> QED
    BY <1>3, <2>1, HeapFacts, EvenFacts, MallocAssumption
<1>5. FindsAny(m, B, asize, fit)
  BY <1>2, <1>4, FindFitEffect
<1>x. x = ExtendHeap(m, brk, extra) /\ refit = FindFit(x.mem, pre, asize)
  OBVIOUS
<1> HIDE DEF fit, refit, x
<1>6. ASSUME NEW m1, NEW brk1, NEW B1, NEW bp, Allocates(m1, brk1, B1, U), bp \in B1,
             Fits(m1, bp, asize), Keeps(m, m1, U),
             brk1 = brk \/ \A b \in B : ~Fits(m, b, asize),
             r = [mem |-> Place(m1, bp, asize), brk |-> brk1, pre |-> bp, bp |-> bp]
      PROVE  Granted(m, brk, B, U, asize, r)
  <2> DEFINE m2 == Place(m1, bp, asize)
  <2>1. m2 = Place(m1, bp, asize)
    OBVIOUS
  <2>2. r.mem = m2 /\ r.brk = brk1 /\ r.pre = bp /\ r.bp = bp
    BY <1>6
  <2> HIDE DEF m2
  <2>3. PICK B2 : /\ Allocates(m2, brk1, B2, U \cup {bp}) /\ bp \in B2 /\ bp \notin U
                  /\ m2[bp - 1].size = asize /\ Keeps(m1, m2, U)
    <3>1. asize \in Even /\ asize >= 2
      BY <1>2
    <3>2. Allocates(m1, brk1, B1, U) /\ bp \in B1 /\ Fits(m1, bp, asize)
      BY <1>6
    <3>3. Placed(m1, m2, brk1, U, bp, asize)
      BY <2>1, <3>1, <3>2, PlaceEffect
    <3> QED
      BY <3>3 DEF Placed
  <2>4. U \subseteq B
    BY AllocatesFacts
  <2>5. Keeps(m, m2, U)
    BY <1>4, <1>6, <2>3, <2>4, KeepsTransitive
  <2>6. bp \in Int /\ 2 <= bp
    BY <2>3, AllocatesFacts, HeapFacts
  <2> QED
    BY <1>6, <2>2, <2>3, <2>5, <2>6 DEF Granted
<1>7. CASE fit # 0
  <2>1. fit \in B /\ Fits(m, fit, asize)
    BY <1>5, <1>7 DEF FindsAny
  <2>2. Keeps(m, m, U)
    BY DEF Keeps
  <2> QED
    BY <1>1, <1>6, <1>7, <2>1, <2>2
<1>8. CASE fit = 0
  <2>1. \A b \in B : ~Fits(m, b, asize)
    <3>1. 0 \notin B
      BY <1>4, HeapFacts
    <3> QED
      BY <1>5, <1>8, <3>1 DEF FindsAny
  <2>2. CASE brk + extra > MaxHeap
    BY <1>1, <1>8, <2>1, <2>2 DEF Refused
  <2>3. CASE ~(brk + extra > MaxHeap)
    <3>1. PICK B1 : /\ Allocates(x.mem, brk + extra, B1, U) /\ B \subseteq B1
                    /\ Keeps(m, x.mem, U)
                    /\ \E b \in B1 \ U : x.mem[b - 1].size >= extra
      <4>1. brk + extra <= MaxHeap
        BY <1>4, <2>3
      <4> HIDE DEF extra
      <4> QED
        BY <1>3, <1>x, <4>1, ExtendEffect
    <3>2. Heap(x.mem, brk + extra, B1) /\ pre \in B1
      BY <3>1, AllocatesFacts
    <3>3. FindsAny(x.mem, B1, asize, refit)
      BY <1>2, <1>x, <3>2, FindFitEffect
    <3>4. \E b \in B1 : Fits(x.mem, b, asize)
      <4>1. PICK b \in B1 \ U : x.mem[b - 1].size >= extra
        BY <3>1
      <4>2. x.mem[b - 1].alloc # 1
        BY <3>1, <4>1, AllocatesFacts
      <4>3. x.mem[b - 1].size \in Int /\ x.mem[b - 1].size \in Even
        BY <3>2, HeapFacts
      <4>4. x.mem[b - 1].size = asize \/ x.mem[b - 1].size >= asize + 2
        <5>1. x.mem[b - 1].size >= asize
          BY <1>2, <1>3, <1>4, <4>1, <4>3
        <5>2. asize < x.mem[b - 1].size => asize + 2 <= x.mem[b - 1].size
          BY <1>2, <4>3, EvenFacts
        <5> QED
          BY <1>2, <4>3, <5>1, <5>2
      <4> QED
        BY <4>2, <4>4 DEF Fits, IsAlloc, GetSize, HDRP, OVERHEAD
    <3>5. refit \in B1 /\ Fits(x.mem, refit, asize) /\ refit # 0
      <4>1. 0 \notin B1
        BY <3>2, HeapFacts
      <4> QED
        BY <3>3, <3>4, <4>1 DEF FindsAny
    <3> HIDE DEF extra
    <3> QED
      BY <1>1, <1>6, <1>8, <2>1, <2>3, <3>1, <3>5
  <2> QED
    BY <2>2, <2>3
<1> QED
  BY <1>7, <1>8

------------------------------------------------------------------------------
(* The heap as the client knows it: besides the prologue, at address 2,    *)
(* the blocks in use are the client's, with room for what it asked for;    *)
(* and the next search begins at a block.                                  *)
HeapInv(m, brk, pre, lv, B) ==
    /\ Allocates(m, brk, B, {2} \cup DOMAIN lv)
    /\ pre \in B /\ 2 \notin DOMAIN lv
    /\ \A a \in DOMAIN lv : lv[a] \in Requests /\ lv[a] <= m[a - 1].size - 2

IInv == \E B : HeapInv(mem, mem_brk, pre_listp, live, B)

(* The invariant with what follows from the types *)
LEMMA HeapInvFacts ==
    ASSUME NEW m, NEW brk, NEW pre, NEW lv, NEW B, HeapInv(m, brk, pre, lv, B)
    PROVE  /\ Allocates(m, brk, B, {2} \cup DOMAIN lv) /\ Heap(m, brk, B)
           /\ DOMAIN lv \subseteq B /\ pre \in B /\ 2 \notin DOMAIN lv
           /\ \A a \in DOMAIN lv :
                 /\ lv[a] \in Requests /\ lv[a] \in Nat \ {0}
                 /\ a \in Int /\ m[a - 1].size \in Int /\ lv[a] + 2 <= m[a - 1].size
<1>1. /\ Allocates(m, brk, B, {2} \cup DOMAIN lv) /\ pre \in B /\ 2 \notin DOMAIN lv
      /\ \A a \in DOMAIN lv : lv[a] \in Requests /\ lv[a] <= m[a - 1].size - 2
  BY DEF HeapInv
<1>2. Heap(m, brk, B) /\ DOMAIN lv \subseteq B
  BY <1>1, AllocatesFacts
<1>3. ASSUME NEW a \in DOMAIN lv
      PROVE  lv[a] \in Nat \ {0} /\ a \in Int /\ m[a - 1].size \in Int
             /\ lv[a] + 2 <= m[a - 1].size
  <2>1. a \in Int /\ m[a - 1].size \in Int
    BY <1>2, HeapFacts
  <2>2. lv[a] \in Nat \ {0} /\ lv[a] <= m[a - 1].size - 2
    BY <1>1, MallocAssumption
  <2> QED
    BY <2>1, <2>2
<1> QED
  BY <1>1, <1>2, <1>3

(* Block a has the tag and the contents that it had. *)
SameBlock(m, lv, m2, a) ==
    m2[a - 1] = m[a - 1] /\ \A i \in 1 .. lv[a] : m2[a + i - 1] = m[a + i - 1]

(* What the client has written stays where blocks are kept. *)
LEMMA KeptContents ==
    ASSUME NEW m, NEW brk, NEW pre, NEW lv, NEW B, HeapInv(m, brk, pre, lv, B),
           NEW S \in SUBSET B, NEW m2, Keeps(m, m2, S), NEW a \in S, a \in DOMAIN lv
    PROVE  SameBlock(m, lv, m2, a)
<1>1. Heap(m, brk, B) /\ a \in Int /\ lv[a] \in Nat /\ m[a - 1].size \in Int
      /\ lv[a] + 2 <= m[a - 1].size
  BY HeapInvFacts
<1>2. /\ m2[a - 1] = m[a - 1]
      /\ \A j \in a .. a + m[a - 1].size - 2 : m2[j] = m[j]
  <2>1. Heap(m, brk, B)
    BY <1>1
  <2> QED
    BY <2>1, KeepsHeader
<1>3. \A i \in 1 .. lv[a] : a + i - 1 \in a .. a + m[a - 1].size - 2
  BY <1>1
<1> QED
  BY <1>2, <1>3 DEF SameBlock

(* Between the tags of a block anything may be written. *)
LEMMA ContentsEffect ==
    ASSUME NEW m, NEW brk, NEW B, NEW U, Allocates(m, brk, B, U), NEW bp \in B,
           NEW m2 \in [Addr -> Word],
           \A a \in Addr : a < bp \/ bp + m[bp - 1].size - 2 <= a => m2[a] = m[a]
    PROVE  /\ Allocates(m2, brk, B, U) /\ Keeps(m, m2, B \ {bp})
           /\ \A b \in B : m2[b - 1] = m[b - 1]
<1>1. Heap(m, brk, B)
  BY AllocatesFacts
<1>2. bp \in Int /\ m[bp - 1].size \in Int /\ 2 <= bp /\ m[bp - 1].size >= 2
      /\ bp + m[bp - 1].size <= brk /\ brk \in Int /\ brk - 1 \in Addr
  BY <1>1, HeapFacts
<1>3. m2[brk - 1] = m[brk - 1]
  BY <1>2
<1>4. ASSUME NEW b \in B
      PROVE  /\ m2[b - 1] = m[b - 1]
             /\ m2[b + m[b - 1].size - 2] = m[b + m[b - 1].size - 2]
  <2> DEFINE n == b + m[b - 1].size
  <2>1. b \in Int /\ m[b - 1].size \in Int /\ m[b - 1].size >= 2 /\ b - 1 \in Addr
        /\ n - 2 \in Addr /\ n \in Int
    BY <1>1, HeapFacts
  <2>2. b < bp => n <= bp
    BY <1>1, HeapFacts
  <2>3. bp < b => bp + m[bp - 1].size <= b
    BY <1>1, HeapFacts
  <2>4. b - 1 < bp \/ bp + m[bp - 1].size - 2 <= b - 1
    BY <1>2, <2>1, <2>3
  <2>5. n - 2 < bp \/ bp + m[bp - 1].size - 2 <= n - 2
    <3>1. CASE b = bp
      BY <1>2, <3>1
    <3>2. CASE b # bp
      BY <1>2, <2>1, <2>2, <2>3, <3>2
    <3> QED
      BY <3>1, <3>2
  <2> HIDE DEF n
  <2>6. m2[n - 2] = m[n - 2]
    BY <2>1, <2>5
  <2> QED
    BY <2>1, <2>4, <2>6 DEF n
<1>5. Heap(m2, brk, B)
  BY <1>1, <1>3, <1>4, SameTags
<1>6. Allocates(m2, brk, B, U)
  <2>1. /\ U \subseteq B /\ 2 \in U
        /\ \A b \in B : b \in U <=> m[b - 1].alloc = 1
        /\ \A b \in B : m[b - 1].alloc = 1 \/ m[(b + m[b - 1].size) - 1].alloc = 1
    BY AllocatesFacts
  <2>2. ASSUME NEW b \in B
        PROVE  m2[b - 1].alloc = 1 \/ m2[(b + m2[b - 1].size) - 1].alloc = 1
    <3>1. b + m[b - 1].size \in B \cup {brk}
      BY <1>1, HeapFacts
    <3> QED
      BY <1>3, <1>4, <2>1, <3>1
  <2>3. \A b \in B : b \in U <=> m2[b - 1].alloc = 1
    BY <1>4, <2>1
  <2> QED
    BY <1>5, <2>1, <2>2, <2>3, AllocatesIntro
<1>7. Keeps(m, m2, B \ {bp})
  <2>1. \A a \in Addr \ (bp - 1 .. bp + m[bp - 1].size - 2) : m2[a] = m[a]
    <3> TAKE a \in Addr \ (bp - 1 .. bp + m[bp - 1].size - 2)
    <3>1. a \in Int
      BY DEF Addr
    <3>2. a < bp \/ bp + m[bp - 1].size - 2 <= a
      BY <1>2, <3>1
    <3> QED
      BY <3>2
  <2> QED
    BY <1>1, <2>1, KeepsOthers
<1> QED
  BY <1>4, <1>6, <1>7

(* mm_init() makes a prologue and an epilogue, with nothing between them. *)
LEMMA PrologueHeap ==
    ASSUME NEW zero, zero = [a \in Addr |-> Pack(0, 0)],
           NEW m, m = Put(PutTags(zero, 2, 2, 1), HDRP(4), Pack(0, 1))
    PROVE  Allocates(m, 4, {2}, {2})
<1> DEFINE h == PutTags(zero, 2, 2, 1)
<1>1. /\ 1 \in Addr /\ 2 \in Addr /\ 3 \in Addr /\ 4 <= MaxHeap
  BY MallocAssumption DEF Addr
<1>2. zero \in [Addr -> Word]
  BY DEF Pack, Word
<1>3. Tagged(zero, h, 2, 4, Pack(2, 1))
  <2>1. /\ 2 \in Int /\ 4 \in Int /\ 2 - 1 \in Addr /\ 4 - 2 \in Addr /\ 2 + 2 <= 4
        /\ 2 = 4 - 2 /\ 1 \in {0, 1} /\ h = PutTags(zero, 2, 2, 1)
    BY <1>1
  <2> HIDE DEF h
  <2> QED
    BY <1>2, <2>1, PutTagsEffect
<1>4. m = [h EXCEPT ![3] = Pack(0, 1)]
  BY DEF Put, HDRP
<1> HIDE DEF h
<1>5. h \in [Addr -> Word] /\ h[1] = Pack(2, 1) /\ h[2] = Pack(2, 1)
  BY <1>3 DEF Tagged
<1>6. /\ m \in [Addr -> Word] /\ m[3] = Pack(0, 1) /\ m[1] = Pack(2, 1) /\ m[2] = Pack(2, 1)
  BY <1>1, <1>4, <1>5 DEF Pack, Word
<1>7. m[1].size = 2 /\ m[1].alloc = 1 /\ m[2].size = 2
  BY <1>6 DEF Pack
<1>8. Heap(m, 4, {2})
  <2>1. 4 \in Even /\ m[4 - 1] = Pack(0, 1)
    BY <1>6, EvenFacts
  <2>2. ASSUME NEW b \in {2}
        PROVE  /\ b \in Even /\ 2 <= b /\ b < 4
               /\ m[b - 1].size >= 2 /\ b + m[b - 1].size \in {2} \cup {4}
               /\ m[b + m[b - 1].size - 2] = m[b - 1]
    BY <1>6, <1>7, EvenFacts
  <2>3. ASSUME NEW e \in {2} \cup {4}, e # 2
        PROVE  e - m[e - 2].size \in {2} /\ m[e - 2].size = m[e - m[e - 2].size - 1].size
    BY <1>7, <2>3
  <2> QED
    BY <1>1, <1>6, <2>1, <2>2, <2>3, HeapIntro
<1>9. \A b \in {2} : b \in {2} <=> m[b - 1].alloc = 1
  BY <1>7
<1> QED
  BY <1>7, <1>8, <1>9, AllocatesIntro

(* mm_init() leaves one free block behind the prologue. *)
LEMMA InitInv == Init => IInv
<1> SUFFICES ASSUME Init PROVE IInv
  OBVIOUS
<1> DEFINE size == Chunk + (Chunk % 2)
           zero == [a \in Addr |-> Pack(0, 0)]
           m == Put(PutTags(zero, 2, 2, 1), HDRP(4), Pack(0, 1))
           x == ExtendHeap(m, 4, size)
<1>1. mem = x.mem /\ mem_brk = 4 + size /\ pre_listp = 2 /\ live = << >>
  BY DEF Init, heap_listp, OVERHEAD
<1>2. Allocates(m, 4, {2}, {2})
  BY PrologueHeap
<1>3. size \in Even /\ size >= 2 /\ 4 + size <= MaxHeap
  <2>1. Chunk \in Nat /\ Chunk # 0 /\ MaxHeap \in Nat /\ MaxHeap >= 4 + Chunk + (Chunk % 2)
    BY MallocAssumption
  <2>2. size \in Even
    BY <2>1, EvenFacts
  <2> QED
    BY <2>1, <2>2
<1>4. x = ExtendHeap(m, 4, size)
  OBVIOUS
<1> HIDE DEF x, m, size
<1>5. PICK B : Allocates(x.mem, 4 + size, B, {2}) /\ {2} \subseteq B
  BY <1>2, <1>3, <1>4, ExtendEffect
<1>6. DOMAIN live = {}
  BY <1>1
<1>7. {2} \cup DOMAIN live = {2}
  BY <1>6
<1>8. HeapInv(mem, mem_brk, pre_listp, live, B)
  BY <1>1, <1>5, <1>6, <1>7 DEF HeapInv
<1> QED
  BY <1>8 DEF IInv

(* The blocks in D, with what the client has written, are as they were. *)
Kept(m, lv, m2, lv2, D) ==
    \A a \in D : /\ a \in DOMAIN lv /\ lv2[a] = lv[a]
                 /\ \A i \in 1 .. lv[a] : m2[a + i - 1] = m[a + i - 1]

(* The client has got a new block and has all others as they were. *)
GotBlock(m, lv, r, lv2) ==
    /\ \E B2 : HeapInv(r.mem, r.brk, r.pre, lv2, B2)
    /\ r.bp \notin DOMAIN lv /\ r.bp # 2
    /\ Kept(m, lv, r.mem, lv2, DOMAIN lv)

(* mm_malloc() when it returns a block *)
LEMMA NewBlock ==
    ASSUME NEW m, NEW brk, NEW pre, NEW lv, NEW B, HeapInv(m, brk, pre, lv, B),
           NEW size \in Requests, NEW asize, asize \in Int, size + 2 <= asize,
           NEW r, Granted(m, brk, B, {2} \cup DOMAIN lv, asize, r),
           NEW lv2, lv2 = [a \in DOMAIN lv \cup {r.bp} |->
                              IF a = r.bp THEN size ELSE lv[a]]
    PROVE  GotBlock(m, lv, r, lv2)
<1> DEFINE U == {2} \cup DOMAIN lv
           bp == r.bp
<1>1. PICK B2 : Allocates(r.mem, r.brk, B2, U \cup {bp}) /\ bp \in B2 /\ r.pre = bp
  BY DEF Granted
<1>2. bp \notin U /\ r.mem[bp - 1].size = asize /\ Keeps(m, r.mem, U)
  BY DEF Granted
<1>3. Heap(m, brk, B) /\ U \in SUBSET B
  <2>1. Allocates(m, brk, B, U) /\ Heap(m, brk, B)
    BY HeapInvFacts
  <2> HIDE DEF U
  <2> QED
    BY <2>1, AllocatesFacts
<1>4. ASSUME NEW a \in DOMAIN lv
      PROVE  SameBlock(m, lv, r.mem, a)
  <2>1. a \in U
    OBVIOUS
  <2> HIDE DEF U
  <2> QED
    BY <1>2, <1>3, <2>1, KeptContents
<1>5. DOMAIN lv2 = DOMAIN lv \cup {bp} /\ lv2[bp] = size
      /\ \A a \in DOMAIN lv : lv2[a] = lv[a]
  BY <1>2
<1>6. {2} \cup DOMAIN lv2 = U \cup {bp} /\ bp # 2 /\ bp \notin DOMAIN lv
  BY <1>2, <1>5
<1>7. ASSUME NEW a \in DOMAIN lv2
      PROVE  lv2[a] \in Requests /\ lv2[a] <= r.mem[a - 1].size - 2
  <2>1. CASE a = bp
    <3>1. size \in Int
      BY MallocAssumption
    <3> QED
      BY <1>2, <1>5, <2>1, <3>1
  <2>2. CASE a # bp
    <3>1. a \in DOMAIN lv /\ lv2[a] = lv[a]
      BY <1>5, <2>2
    <3>2. lv[a] \in Requests /\ lv[a] <= m[a - 1].size - 2
      BY <3>1 DEF HeapInv
    <3> QED
      BY <1>4, <3>1, <3>2 DEF SameBlock
  <2> QED
    BY <2>1, <2>2
<1>8. 2 \notin DOMAIN lv
  BY HeapInvFacts
<1>9. HeapInv(r.mem, r.brk, r.pre, lv2, B2)
  <2> HIDE DEF U, bp
  <2>1. 2 \notin DOMAIN lv2
    BY <1>5, <1>6, <1>8
  <2> QED
    BY <1>1, <1>6, <1>7, <2>1 DEF HeapInv
<1>10. Kept(m, lv, r.mem, lv2, DOMAIN lv)
  BY <1>4, <1>5 DEF Kept, SameBlock
<1> QED
  BY <1>6, <1>9, <1>10 DEF GotBlock

(* mm_free() of a block of the client's *)
LEMMA FreeBlock ==
    ASSUME NEW m, NEW brk, NEW pre, NEW lv, NEW B, HeapInv(m, brk, pre, lv, B),
           NEW ptr \in DOMAIN lv, NEW r, r = MmFree(m, ptr),
           NEW lv2, lv2 = [a \in DOMAIN lv \ {ptr} |-> lv[a]]
    PROVE  /\ \E B2 : HeapInv(r.mem, brk, r.bp, lv2, B2)
           /\ Kept(m, lv, r.mem, lv2, DOMAIN lv \ {ptr})
<1> DEFINE U == {2} \cup DOMAIN lv
<1>1. /\ Allocates(m, brk, B, U) /\ Heap(m, brk, B) /\ DOMAIN lv \subseteq B
      /\ pre \in B /\ 2 \notin DOMAIN lv
  BY HeapInvFacts
<1>2. U \in SUBSET B /\ ptr \in U \ {2}
  BY <1>1, AllocatesFacts
<1>3. PICK B2 : /\ Allocates(r.mem, brk, B2, U \ {ptr}) /\ r.bp \in B2
                /\ Keeps(m, r.mem, U \ {ptr})
  <2> HIDE DEF U
  <2> QED
    BY <1>1, <1>2, FreeEffect
<1>4. ASSUME NEW a \in DOMAIN lv \ {ptr}
      PROVE  SameBlock(m, lv, r.mem, a)
  <2>1. a \in U \ {ptr} /\ a \in DOMAIN lv /\ U \ {ptr} \in SUBSET B
    BY <1>2
  <2> HIDE DEF U
  <2> QED
    BY <1>3, <2>1, KeptContents
<1>5. DOMAIN lv2 = DOMAIN lv \ {ptr} /\ \A a \in DOMAIN lv \ {ptr} : lv2[a] = lv[a]
  OBVIOUS
<1>6. {2} \cup DOMAIN lv2 = U \ {ptr} /\ 2 \notin DOMAIN lv2
  BY <1>1, <1>2, <1>5
<1>7. ASSUME NEW a \in DOMAIN lv2
      PROVE  lv2[a] \in Requests /\ lv2[a] <= r.mem[a - 1].size - 2
  <2>1. lv[a] \in Requests /\ lv[a] <= m[a - 1].size - 2
    BY <1>5 DEF HeapInv
  <2> QED
    BY <1>4, <1>5, <2>1 DEF SameBlock
<1>8. HeapInv(r.mem, brk, r.bp, lv2, B2)
  <2> HIDE DEF U
  <2> QED
    BY <1>3, <1>6, <1>7 DEF HeapInv
<1>9. Kept(m, lv, r.mem, lv2, DOMAIN lv \ {ptr})
  BY <1>4, <1>5 DEF Kept, SameBlock
<1> QED
  BY <1>8, <1>9

(* A client that keeps to its block disturbs nothing. *)
LEMMA Overwrite ==
    ASSUME NEW m, NEW brk, NEW pre, NEW lv, NEW B, HeapInv(m, brk, pre, lv, B),
           NEW bp \in DOMAIN lv, NEW m2 \in [Addr -> Word],
           \A a \in Addr : a \notin bp .. bp + lv[bp] - 1 => m2[a] = m[a]
    PROVE  HeapInv(m2, brk, pre, lv, B) /\ Kept(m, lv, m2, lv, DOMAIN lv \ {bp})
<1> DEFINE U == {2} \cup DOMAIN lv
<1>1. /\ Allocates(m, brk, B, U) /\ Heap(m, brk, B) /\ DOMAIN lv \subseteq B
      /\ pre \in B /\ 2 \notin DOMAIN lv /\ bp \in Int /\ m[bp - 1].size \in Int
      /\ lv[bp] \in Nat /\ lv[bp] + 2 <= m[bp - 1].size
  BY HeapInvFacts
<1>2. \A a \in Addr : a < bp \/ bp + m[bp - 1].size - 2 <= a => m2[a] = m[a]
  <2> TAKE a \in Addr
  <2> HAVE a < bp \/ bp + m[bp - 1].size - 2 <= a
  <2>1. a \in Int
    BY DEF Addr
  <2>2. a \notin bp .. bp + lv[bp] - 1
    BY <1>1, <2>1
  <2> QED
    BY <2>2
<1>3. /\ Allocates(m2, brk, B, U) /\ Keeps(m, m2, B \ {bp})
      /\ \A b \in B : m2[b - 1] = m[b - 1]
  <2>1. bp \in B
    BY <1>1
  <2> HIDE DEF U
  <2> QED
    BY <1>1, <1>2, <2>1, ContentsEffect
<1>4. HeapInv(m2, brk, pre, lv, B)
  BY <1>1, <1>3 DEF HeapInv
<1>5. ASSUME NEW a \in DOMAIN lv \ {bp}
      PROVE  SameBlock(m, lv, m2, a)
  <2>1. a \in DOMAIN lv /\ a \in B \ {bp} /\ B \ {bp} \in SUBSET B
    BY <1>1
  <2> QED
    BY <1>3, <2>1, KeptContents
<1> QED
  BY <1>4, <1>5 DEF Kept, SameBlock

(* From m to c block `new` has got the words of block `old`, as far as     *)
(* both hold them.                                                         *)
Copied(m, lv, c, new, old) ==
    /\ Kept(m, lv, c, lv, DOMAIN lv \ {new})
    /\ \A i \in 1 .. lv[new] : i <= lv[old] => c[new + i - 1] = m[old + i - 1]

(* memcpy() stays within both blocks, and copies all that both hold. *)
LEMMA CopyEffect ==
    ASSUME NEW m, NEW brk, NEW pre, NEW lv, NEW B, HeapInv(m, brk, pre, lv, B),
           NEW new \in DOMAIN lv, NEW old \in DOMAIN lv,
           NEW c, c = Copy(m, new, old, lv[new])
    PROVE  HeapInv(c, brk, pre, lv, B) /\ Copied(m, lv, c, new, old)
<1> DEFINE n == Min({lv[new], GetSize(m, old)})
<1>1. /\ Heap(m, brk, B) /\ DOMAIN lv \subseteq B /\ m \in [Addr -> Word]
      /\ new \in Int /\ old \in Int /\ m[old - 1].size \in Int /\ m[new - 1].size \in Int
      /\ lv[new] \in Nat /\ lv[new] + 2 <= m[new - 1].size
      /\ lv[old] \in Nat /\ lv[old] + 2 <= m[old - 1].size
  <2>1. Heap(m, brk, B)
    BY HeapInvFacts
  <2> QED
    BY <2>1, HeapInvFacts DEF Heap
<1>2. n = IF lv[new] <= m[old - 1].size THEN lv[new] ELSE m[old - 1].size
  <2> DEFINE S == {lv[new], m[old - 1].size}
  <2>0. n = Min(S)
    BY DEF GetSize, HDRP
  <2>1. \E x \in S : \A y \in S : x <= y
    BY <1>1
  <2>2. n \in S /\ \A y \in S : n <= y
    <3> HIDE DEF S, n
    <3> QED
      BY <2>0, <2>1 DEF Min
  <2> HIDE DEF n
  <2> QED
    BY <1>1, <2>2
<1>3. c = [a \in Addr |-> IF a \in new .. new + n - 1 THEN m[old + (a - new)] ELSE m[a]]
  BY DEF Copy
<1> HIDE DEF n
<1>4. n \in Int /\ n <= lv[new] /\ n <= m[old - 1].size
  BY <1>1, <1>2
<1>5. /\ 2 <= old /\ old + m[old - 1].size <= MaxHeap
      /\ 2 <= new /\ new + m[new - 1].size <= MaxHeap
  <2>1. new \in B /\ old \in B /\ brk \in Int /\ brk <= MaxHeap
    BY <1>1, HeapFacts
  <2> QED
    BY <1>1, <2>1, HeapFacts, MallocAssumption
<1>6. \A a \in Int : a \in Addr <=> 0 <= a /\ a < MaxHeap
  BY MallocAssumption DEF Addr
<1>7. c \in [Addr -> Word]
  <2>1. ASSUME NEW a \in Addr, a \in new .. new + n - 1
        PROVE  m[old + (a - new)] \in Word
    <3>1. a \in Int /\ new <= a /\ a <= new + n - 1
      BY <1>1, <1>4, <2>1
    <3>2. old + (a - new) \in Addr
      BY <1>1, <1>4, <1>5, <1>6, <3>1, MallocAssumption
    <3> QED
      BY <1>1, <3>2
  <2> QED
    BY <1>1, <1>3, <2>1
<1>8. \A a \in Addr : a \notin new .. new + lv[new] - 1 => c[a] = m[a]
  <2> TAKE a \in Addr
  <2> HAVE a \notin new .. new + lv[new] - 1
  <2>1. a \in Int
    BY DEF Addr
  <2>2. a \notin new .. new + n - 1
    BY <1>1, <1>4, <2>1
  <2> QED
    BY <1>3, <2>2
<1>9. HeapInv(c, brk, pre, lv, B) /\ Kept(m, lv, c, lv, DOMAIN lv \ {new})
  BY <1>7, <1>8, Overwrite
<1>10. ASSUME NEW i \in 1 .. lv[new], i <= lv[old]
       PROVE  c[new + i - 1] = m[old + i - 1]
  <2> DEFINE a == new + i - 1
  <2>1. i \in Int /\ 1 <= i /\ i <= lv[new]
    BY <1>1
  <2>2. i <= n
    BY <1>1, <1>2, <1>10, <2>1
  <2>3. a \in Int /\ a = new + (i - 1)
    BY <1>1, <2>1
  <2>4. a \in new .. new + n - 1
    BY <1>1, <1>4, <2>1, <2>2
  <2>5. a \in Addr
    BY <1>1, <1>4, <1>5, <1>6, <2>1, <2>2, <2>3, MallocAssumption
  <2>6. old + (a - new) = old + i - 1
    BY <1>1, <2>1, <2>3
  <2> HIDE DEF a
  <2>7. c[a] = m[old + (a - new)]
    BY <1>3, <2>4, <2>5
  <2> QED
    BY <2>6, <2>7 DEF a
<1> QED
  BY <1>9, <1>10 DEF Copied

------------------------------------------------------------------------------
(* What the actions do, for the invariant and for the client.              *)

(* The client gets block bp and has all others as they were. *)
Gains(bp) ==
    /\ bp \in Addr \ DOMAIN live /\ DOMAIN live' = DOMAIN live \cup {bp}
    /\ Kept(mem, live, mem', live', DOMAIN live)

(* mm_malloc() changes nothing, or the client gets a block. *)
MallocResult(r, lv2) ==
    \/ r.bp = 0 /\ r.mem = mem /\ r.brk = mem_brk /\ r.pre = pre_listp
    \/ r.bp # 0 /\ r.bp \in Addr /\ GotBlock(mem, live, r, lv2)

(* The cases of mm_malloc(), in a reachable state *)
LEMMA MallocCases ==
    ASSUME IInv, NEW size \in Requests,
           NEW r, r = MmMalloc(mem, mem_brk, pre_listp, size),
           NEW lv2, lv2 = [a \in DOMAIN live \cup {r.bp} |->
                              IF a = r.bp THEN size ELSE live[a]]
    PROVE  MallocResult(r, lv2)
<1> DEFINE asize == AdjustedSize(size)
           U == {2} \cup DOMAIN live
<1>1. PICK B : HeapInv(mem, mem_brk, pre_listp, live, B)
  BY DEF IInv
<1>2. Allocates(mem, mem_brk, B, U) /\ pre_listp \in B
  BY <1>1, HeapInvFacts
<1>3. size \in Nat \ {0}
  BY MallocAssumption
<1>4. asize \in Int /\ size + 2 <= asize
  <2>1. asize = AdjustedSize(size)
    OBVIOUS
  <2> HIDE DEF asize
  <2> QED
    BY <1>3, <2>1, AdjustedSizeFacts
<1>5. \/ Refused(mem, mem_brk, pre_listp, B, asize, r)
      \/ Granted(mem, mem_brk, B, U, asize, r)
  <2>1. asize = AdjustedSize(size)
    OBVIOUS
  <2> HIDE DEF asize, U
  <2> QED
    BY <1>2, <1>3, <2>1, MallocEffect
<1> HIDE DEF asize
<1>6. CASE Refused(mem, mem_brk, pre_listp, B, asize, r)
  BY <1>6 DEF Refused, MallocResult
<1>7. CASE Granted(mem, mem_brk, B, U, asize, r)
  <2>1. r.bp # 0
    BY <1>7 DEF Granted
  <2>2. GotBlock(mem, live, r, lv2)
    <3>1. Granted(mem, mem_brk, B, {2} \cup DOMAIN live, asize, r)
      BY <1>7
    <3> HIDE DEF U
    <3> QED
      BY <1>1, <1>4, <3>1, NewBlock
  <2>3. r.bp \in Addr
    <3>1. r.bp \in DOMAIN lv2
      OBVIOUS
    <3>2. PICK B2 : HeapInv(r.mem, r.brk, r.pre, lv2, B2)
      BY <2>2 DEF GotBlock
    <3>3. r.bp \in B2 /\ Heap(r.mem, r.brk, B2)
      <4>1. Allocates(r.mem, r.brk, B2, {2} \cup DOMAIN lv2)
        BY <3>2 DEF HeapInv
      <4>2. Heap(r.mem, r.brk, B2) /\ {2} \cup DOMAIN lv2 \subseteq B2
        BY <4>1, AllocatesFacts
      <4> QED
        BY <3>1, <4>2
    <3>4. r.bp \in Int /\ 2 <= r.bp /\ r.bp + 2 <= r.brk /\ r.brk <= MaxHeap /\ r.brk \in Int
      BY <3>3, HeapFacts
    <3> QED
      BY <3>4, MallocAssumption DEF Addr
  <2> QED
    BY <2>1, <2>2, <2>3 DEF MallocResult
<1> QED
  BY <1>5, <1>6, <1>7

(* The action Malloc *)
LEMMA MallocStep ==
    ASSUME IInv, NEW size \in Requests, Malloc(size)
    PROVE  IInv' /\ (UNCHANGED vars \/ \E bp : Gains(bp))
<1> DEFINE r == MmMalloc(mem, mem_brk, pre_listp, size)
           lv2 == [a \in DOMAIN live \cup {r.bp} |-> IF a = r.bp THEN size ELSE live[a]]
<1>1. /\ mem' = r.mem /\ mem_brk' = r.brk /\ pre_listp' = r.pre
      /\ live' = IF r.bp = 0 THEN live ELSE lv2
  BY DEF Malloc, NULL
<1>2. r = MmMalloc(mem, mem_brk, pre_listp, size)
  OBVIOUS
<1> HIDE DEF r
<1>3. lv2 = [a \in DOMAIN live \cup {r.bp} |-> IF a = r.bp THEN size ELSE live[a]]
      /\ DOMAIN lv2 = DOMAIN live \cup {r.bp}
  OBVIOUS
<1> HIDE DEF lv2
<1>4. MallocResult(r, lv2)
  BY <1>2, <1>3, MallocCases
<1>5. CASE r.bp = 0
  <2>1. UNCHANGED <<mem, mem_brk, pre_listp, live>>
    BY <1>1, <1>4, <1>5 DEF MallocResult
  <2> QED
    BY <2>1 DEF IInv, vars
<1>6. CASE r.bp # 0
  <2>1. r.bp \in Addr /\ GotBlock(mem, live, r, lv2) /\ live' = lv2
    BY <1>1, <1>4, <1>6 DEF MallocResult
  <2>2. IInv'
    BY <1>1, <2>1 DEF IInv, GotBlock
  <2>3. Gains(r.bp)
    BY <1>1, <1>3, <2>1 DEF Gains, GotBlock
  <2> QED
    BY <2>2, <2>3
<1> QED
  BY <1>5, <1>6

(* The client has block bp in place of ptr, with the words that both hold. *)
Moves(ptr, bp) ==
    /\ bp \in Addr \ DOMAIN live /\ DOMAIN live' = (DOMAIN live \ {ptr}) \cup {bp}
    /\ Kept(mem, live, mem', live', DOMAIN live \ {ptr})
    /\ live'[bp] \in Nat
    /\ \A i \in 1 .. live'[bp] : i <= live[ptr] => mem'[bp + i - 1] = mem[ptr + i - 1]

(* The action Realloc: mm_malloc(), the copy and mm_free() *)
LEMMA ReallocStep ==
    ASSUME IInv, NEW ptr \in DOMAIN live, NEW size \in Requests, Realloc(ptr, size)
    PROVE  IInv' /\ (UNCHANGED vars \/ \E bp : Moves(ptr, bp))
<1> DEFINE r == MmMalloc(mem, mem_brk, pre_listp, size)
           bp == r.bp
           lv1 == [a \in DOMAIN live \cup {r.bp} |-> IF a = r.bp THEN size ELSE live[a]]
           c == Copy(r.mem, r.bp, ptr, size)
           f == MmFree(c, ptr)
           lv2 == [a \in DOMAIN lv1 \ {ptr} |-> lv1[a]]
<1>1. /\ bp = 0 => /\ mem' = r.mem /\ mem_brk' = r.brk /\ pre_listp' = r.pre
                   /\ live' = live
      /\ bp # 0 => /\ mem' = f.mem /\ mem_brk' = r.brk /\ pre_listp' = f.bp
                   /\ live' = [a \in (DOMAIN live \ {ptr}) \cup {r.bp} |->
                                  IF a = r.bp THEN size ELSE live[a]]
  BY DEF Realloc, NULL
<1>2. /\ r = MmMalloc(mem, mem_brk, pre_listp, size) /\ c = Copy(r.mem, bp, ptr, size)
      /\ f = MmFree(c, ptr)
  OBVIOUS
<1> HIDE DEF f, c, r
<1>3. /\ lv1 = [a \in DOMAIN live \cup {r.bp} |-> IF a = r.bp THEN size ELSE live[a]]
      /\ DOMAIN lv1 = DOMAIN live \cup {bp} /\ lv1[bp] = size
  OBVIOUS
<1>4. MallocResult(r, lv1)
  <2> HIDE DEF lv1, bp
  <2> QED
    BY <1>2, <1>3, MallocCases
<1>5. CASE bp = 0
  <2>1. UNCHANGED <<mem, mem_brk, pre_listp, live>>
    BY <1>1, <1>4, <1>5 DEF MallocResult
  <2> QED
    BY <2>1 DEF IInv, vars
<1>6. CASE bp # 0
  <2>1. bp \in Addr /\ GotBlock(mem, live, r, lv1)
    BY <1>4, <1>6 DEF MallocResult
  <2>2. PICK B1 : HeapInv(r.mem, r.brk, r.pre, lv1, B1)
    BY <2>1 DEF GotBlock
  <2>3. bp \notin DOMAIN live /\ Kept(mem, live, r.mem, lv1, DOMAIN live)
    BY <2>1 DEF GotBlock
  <2>4. lv2 = live'
    BY <1>1, <1>6, <2>3
  <2>5. DOMAIN lv2 = (DOMAIN live \ {ptr}) \cup {bp} /\ bp # ptr
        /\ \A a \in DOMAIN lv2 : lv2[a] = lv1[a]
    BY <2>3
  <2>6. lv2 = [a \in DOMAIN lv1 \ {ptr} |-> lv1[a]]
    OBVIOUS
  <2> HIDE DEF lv2, lv1, bp
  <2>7. /\ HeapInv(c, r.brk, r.pre, lv1, B1) /\ Kept(r.mem, lv1, c, lv1, DOMAIN lv1 \ {bp})
        /\ \A i \in 1 .. lv1[bp] : i <= lv1[ptr] => c[bp + i - 1] = r.mem[ptr + i - 1]
    <3>1. bp \in DOMAIN lv1 /\ ptr \in DOMAIN lv1 /\ c = Copy(r.mem, bp, ptr, lv1[bp])
      BY <1>2, <1>3
    <3>2. HeapInv(c, r.brk, r.pre, lv1, B1) /\ Copied(r.mem, lv1, c, bp, ptr)
      BY <2>2, <3>1, CopyEffect
    <3> QED
      BY <3>2 DEF Copied
  <2>8. /\ \E B2 : HeapInv(f.mem, r.brk, f.bp, lv2, B2)
        /\ Kept(c, lv1, f.mem, lv2, DOMAIN lv1 \ {ptr})
    <3>1. ptr \in DOMAIN lv1
      BY <1>3
    <3> QED
      BY <1>2, <2>6, <2>7, <3>1, FreeBlock
  <2>9. IInv'
    BY <1>1, <1>6, <2>4, <2>8 DEF IInv
  <2>10. Kept(mem, live, f.mem, lv2, DOMAIN live \ {ptr})
    <3> SUFFICES ASSUME NEW a \in DOMAIN live \ {ptr}
                 PROVE  /\ lv2[a] = live[a]
                        /\ \A i \in 1 .. live[a] : f.mem[a + i - 1] = mem[a + i - 1]
      BY DEF Kept
    <3>1. /\ lv1[a] = live[a]
          /\ \A i \in 1 .. live[a] : r.mem[a + i - 1] = mem[a + i - 1]
      BY <2>3 DEF Kept
    <3>2. a \in DOMAIN lv1 \ {bp} /\ a \in DOMAIN lv1 \ {ptr}
      BY <1>3, <2>3
    <3>3. \A i \in 1 .. lv1[a] : c[a + i - 1] = r.mem[a + i - 1]
      BY <2>7, <3>2 DEF Kept
    <3>4. lv2[a] = lv1[a] /\ \A i \in 1 .. lv1[a] : f.mem[a + i - 1] = c[a + i - 1]
      BY <2>8, <3>2 DEF Kept
    <3> QED
      BY <3>1, <3>3, <3>4
  <2>11. lv2[bp] = lv1[bp] /\ \A i \in 1 .. lv1[bp] : f.mem[bp + i - 1] = c[bp + i - 1]
    <3>1. bp \in DOMAIN lv1 \ {ptr}
      BY <1>3, <2>5
    <3> QED
      BY <2>8, <3>1 DEF Kept
  <2>12. lv1[ptr] = live[ptr] /\ \A i \in 1 .. live[ptr] : r.mem[ptr + i - 1] = mem[ptr + i - 1]
    BY <2>3 DEF Kept
  <2>13. live[ptr] \in Nat /\ lv1[bp] \in Nat
    <3>1. PICK B : HeapInv(mem, mem_brk, pre_listp, live, B)
      BY DEF IInv
    <3>2. live[ptr] \in Nat
      BY <3>1, HeapInvFacts
    <3> QED
      BY <1>3, <3>2, MallocAssumption
  <2>14. ASSUME NEW i \in 1 .. lv2[bp], i <= live[ptr]
         PROVE  f.mem[bp + i - 1] = mem[ptr + i - 1]
    <3>1. i \in 1 .. lv1[bp] /\ i <= lv1[ptr] /\ i \in 1 .. live[ptr]
      BY <2>11, <2>12, <2>13, <2>14
    <3>2. f.mem[bp + i - 1] = c[bp + i - 1]
      BY <2>11, <3>1
    <3>3. c[bp + i - 1] = r.mem[ptr + i - 1]
      BY <2>7, <3>1
    <3>4. r.mem[ptr + i - 1] = mem[ptr + i - 1]
      BY <2>12, <3>1
    <3> QED
      BY <3>2, <3>3, <3>4
  <2>15. mem' = f.mem
    BY <1>1, <1>6
  <2>16. Moves(ptr, bp)
    BY <2>1, <2>3, <2>4, <2>5, <2>10, <2>11, <2>13, <2>14, <2>15 DEF Moves
  <2> QED
    BY <2>9, <2>16
<1> QED
  BY <1>5, <1>6

(* The action Free *)
LEMMA FreeStep ==
    ASSUME IInv, NEW ptr \in DOMAIN live, Free(ptr)
    PROVE  /\ IInv' /\ DOMAIN live' = DOMAIN live \ {ptr}
           /\ Kept(mem, live, mem', live', DOMAIN live \ {ptr})
<1> DEFINE r == MmFree(mem, ptr)
<1>1. PICK B : HeapInv(mem, mem_brk, pre_listp, live, B)
  BY DEF IInv
<1>2. /\ mem' = r.mem /\ pre_listp' = r.bp /\ mem_brk' = mem_brk
      /\ live' = [a \in DOMAIN live \ {ptr} |-> live[a]]
  BY DEF Free, Restrict
<1>3. r = MmFree(mem, ptr)
  OBVIOUS
<1> HIDE DEF r
<1>4. /\ \E B2 : HeapInv(r.mem, mem_brk, r.bp, live', B2)
      /\ Kept(mem, live, r.mem, live', DOMAIN live \ {ptr})
  BY <1>1, <1>2, <1>3, FreeBlock
<1> QED
  BY <1>2, <1>4 DEF IInv

(* The action Write *)
LEMMA WriteStep ==
    ASSUME IInv, NEW ptr \in DOMAIN live, NEW w \in Data, Write(ptr, w)
    PROVE  IInv' /\ live' = live /\ Kept(mem, live, mem', live', DOMAIN live \ {ptr})
<1>1. PICK B : HeapInv(mem, mem_brk, pre_listp, live, B)
  BY DEF IInv
<1>2. /\ mem' = [a \in Addr |-> IF a \in ptr .. ptr + live[ptr] - 1 THEN w ELSE mem[a]]
      /\ mem_brk' = mem_brk /\ pre_listp' = pre_listp /\ live' = live
  BY DEF Write
<1>3. mem \in [Addr -> Word]
  BY <1>1, HeapInvFacts DEF Heap
<1>4. mem' \in [Addr -> Word]
  BY <1>2, <1>3, MallocAssumption
<1>5. \A a \in Addr : a \notin ptr .. ptr + live[ptr] - 1 => mem'[a] = mem[a]
  BY <1>2
<1>6. HeapInv(mem', mem_brk, pre_listp, live, B)
      /\ Kept(mem, live, mem', live, DOMAIN live \ {ptr})
  BY <1>1, <1>4, <1>5, Overwrite
<1> QED
  BY <1>2, <1>6 DEF IInv

------------------------------------------------------------------------------
(* Each action keeps the heap a list of blocks. *)
LEMMA Inductive == IInv /\ [Next]_vars => IInv'
<1> SUFFICES ASSUME IInv, [Next]_vars PROVE IInv'
  OBVIOUS
<1>1. CASE UNCHANGED vars
  BY <1>1 DEF IInv, vars
<1>2. ASSUME NEW size \in Requests, Malloc(size) PROVE IInv'
  BY <1>2, MallocStep
<1>3. ASSUME NEW ptr \in DOMAIN live, Free(ptr) PROVE IInv'
  BY <1>3, FreeStep
<1>4. ASSUME NEW ptr \in DOMAIN live, NEW size \in Requests, Realloc(ptr, size) PROVE IInv'
  BY <1>4, ReallocStep
<1>5. ASSUME NEW ptr \in DOMAIN live, NEW w \in Data, Write(ptr, w) PROVE IInv'
  BY <1>5, WriteStep
<1> QED
  BY <1>1, <1>2, <1>3, <1>4, <1>5 DEF Next

(* In every reachable state there is a set of even addresses at which the  *)
(* blocks of the heap begin, each followed by the next, with equal tags at *)
(* both ends and no two free ones in a row; those in use are the client's. *)
THEOREM Invariance == Spec => []IInv
  BY InitInv, Inductive, PTL DEF Spec

(* The invariant gives the types. *)
LEMMA InvType == IInv => TypeOK
<1> SUFFICES ASSUME IInv PROVE TypeOK
  OBVIOUS
<1>1. PICK B : HeapInv(mem, mem_brk, pre_listp, live, B)
  BY DEF IInv
<1>2. /\ Heap(mem, mem_brk, B) /\ DOMAIN live \subseteq B /\ pre_listp \in B
      /\ \A a \in DOMAIN live : live[a] \in Requests
  BY <1>1, HeapInvFacts
<1>3. MaxHeap \in Int /\ mem_brk \in Int /\ mem_brk <= MaxHeap /\ 2 \in B
      /\ \A b \in B : b \in Int /\ 2 <= b /\ b + 2 <= mem_brk
  BY <1>2, HeapFacts, MallocAssumption
<1>4. mem \in [Addr -> Word]
  BY <1>2 DEF Heap
<1>5. B \subseteq Addr /\ mem_brk \in 0 .. MaxHeap
  <2>1. ASSUME NEW b \in B PROVE b \in Addr
    BY <1>3 DEF Addr
  <2>2. mem_brk \in 0 .. MaxHeap
    BY <1>3
  <2> QED
    BY <2>1, <2>2
<1> QED
  BY <1>2, <1>4, <1>5 DEF TypeOK

(* The heap is made of words, which tags and contents alike can be. *)
THEOREM TypeCorrectness == Spec => []TypeOK
  BY Invariance, InvType, PTL

(* The invariant gives the list of blocks. *)
LEMMA InvBlocks == IInv => HeapIsBlocks
<1> SUFFICES ASSUME IInv PROVE HeapIsBlocks
  OBVIOUS
<1>1. PICK B : HeapInv(mem, mem_brk, pre_listp, live, B)
  BY DEF IInv
<1>2. /\ Allocates(mem, mem_brk, B, {2} \cup DOMAIN live) /\ Heap(mem, mem_brk, B)
      /\ DOMAIN live \subseteq B /\ pre_listp \in B
      /\ \A a \in DOMAIN live : /\ live[a] \in Nat /\ mem[a - 1].size \in Int
                               /\ live[a] + 2 <= mem[a - 1].size
  BY <1>1, HeapInvFacts
<1>3. Blocks = B
  BY <1>2, BlocksOfHeap
<1>4. \A b \in B : b \in {2} \cup DOMAIN live <=> mem[b - 1].alloc = 1
  BY <1>2, AllocatesFacts
<1>5. FreeBlocks = {b \in B : ~(mem[b - 1].alloc = 1)}
  BY <1>3 DEF FreeBlocks, IsAlloc, HDRP
<1>6. \E bp \in Blocks : NextBlkp(mem, bp) = mem_brk
  <2>1. mem_brk \in Int /\ 2 \in B /\ \A b \in B : b + 2 <= mem_brk
    BY <1>2, HeapFacts
  <2>2. mem_brk \in (B \cup {mem_brk}) \ {heap_listp}
    BY <2>1 DEF heap_listp
  <2>3. /\ PrevBlkp(mem, mem_brk) \in B
        /\ NextBlkp(mem, PrevBlkp(mem, mem_brk)) = mem_brk
    BY <1>2, <2>2 DEF Heap
  <2> QED
    BY <1>3, <2>3
<1>7. mem[HDRP(mem_brk)] = Pack(0, 1)
  BY <1>2 DEF Heap
<1>8. \A bp \in Blocks : mem[FTRP(mem, bp)] = mem[HDRP(bp)]
  BY <1>2, <1>3 DEF Heap
<1>9. Blocks \ FreeBlocks = {heap_listp} \cup DOMAIN live
  <2>1. {2} \cup DOMAIN live \subseteq B
    BY <1>2, AllocatesFacts
  <2> QED
    BY <1>3, <1>4, <1>5, <2>1 DEF heap_listp
<1>10. \A a \in DOMAIN live : live[a] <= GetSize(mem, a) - OVERHEAD
  BY <1>2 DEF GetSize, HDRP, OVERHEAD
<1>11. \A bp \in FreeBlocks : NextBlkp(mem, bp) \notin FreeBlocks
  <2>1. \A b \in B : mem[b - 1].alloc = 1 \/ mem[(b + mem[b - 1].size) - 1].alloc = 1
    BY <1>2, AllocatesFacts
  <2> QED
    BY <1>5, <2>1 DEF NextBlkp, GetSize, HDRP
<1> QED
  BY <1>2, <1>3, <1>6, <1>7, <1>8, <1>9, <1>10, <1>11 DEF HeapIsBlocks

(* Whatever the client allocates, resizes, frees and writes, the headers   *)
(* and the footers agree on one division of the heap into blocks; those in *)
(* use are the client's, none smaller than it asked for, free neighbours   *)
(* are merged, and pre_listp stays at a block.                             *)
THEOREM BlocksStay == Spec => []HeapIsBlocks
  BY Invariance, InvBlocks, PTL

(* The invariant gives next-fit its completeness. *)
LEMMA InvGrows ==
    ASSUME Chunk % 2 = 0
    PROVE  IInv => GrowsOnlyWhenFull
<1> SUFFICES ASSUME IInv, NEW size \in Requests, MallocFails(size) \/ MallocGrows(size)
             PROVE  /\ \A bp \in FreeBlocks : GetSize(mem, bp) < size + OVERHEAD
                    /\ MallocFails(size) =>
                          mem_brk + Max({AdjustedSize(size), Chunk}) > MaxHeap
  BY DEF GrowsOnlyWhenFull
<1> DEFINE r == MmMalloc(mem, mem_brk, pre_listp, size)
           asize == AdjustedSize(size)
           U == {2} \cup DOMAIN live
<1>1. PICK B : HeapInv(mem, mem_brk, pre_listp, live, B)
  BY DEF IInv
<1>2. Allocates(mem, mem_brk, B, U) /\ Heap(mem, mem_brk, B) /\ pre_listp \in B
  BY <1>1, HeapInvFacts
<1>3. size \in Nat \ {0}
  BY MallocAssumption
<1>4. asize \in Even /\ asize \in Nat /\ asize >= 4
      /\ \A s \in Even : s < asize => s < size + 2
  <2>1. asize = AdjustedSize(size)
    OBVIOUS
  <2> HIDE DEF asize
  <2> QED
    BY <1>3, <2>1, AdjustedSizeFacts
<1>5. \/ Refused(mem, mem_brk, pre_listp, B, asize, r)
      \/ Granted(mem, mem_brk, B, U, asize, r)
  <2>1. asize = AdjustedSize(size) /\ r = MmMalloc(mem, mem_brk, pre_listp, size)
    OBVIOUS
  <2> HIDE DEF asize, r, U
  <2> QED
    BY <1>2, <1>3, <2>1, MallocEffect
<1>6. (r.bp = 0 \/ r.brk # mem_brk) /\ (MallocFails(size) => r.bp = 0)
  BY DEF MallocFails, MallocGrows, NULL
<1> HIDE DEF r
<1>7. \A b \in B : ~Fits(mem, b, asize)
  <2>1. CASE Refused(mem, mem_brk, pre_listp, B, asize, r)
    BY <2>1 DEF Refused
  <2>2. CASE Granted(mem, mem_brk, B, U, asize, r)
    BY <1>6, <2>2 DEF Granted
  <2> QED
    BY <1>5, <2>1, <2>2
<1>8. ASSUME NEW bp \in FreeBlocks
      PROVE  GetSize(mem, bp) < size + OVERHEAD
  <2> DEFINE s == mem[bp - 1].size
  <2>1. bp \in B /\ ~IsAlloc(mem, bp)
    BY <1>2, BlocksOfHeap DEF FreeBlocks
  <2>2. s \in Even /\ s \in Int
    BY <1>2, <2>1, HeapFacts
  <2>3. s # asize /\ ~(s >= asize + 2)
    BY <1>7, <2>1 DEF Fits, GetSize, HDRP, OVERHEAD
  <2> HIDE DEF s, asize
  <2>4. asize < s => asize + 2 <= s
    BY <1>4, <2>2, EvenFacts
  <2>5. s < asize
    BY <1>4, <2>2, <2>3, <2>4
  <2>6. s < size + 2
    BY <1>4, <2>2, <2>5
  <2> QED
    BY <2>6 DEF GetSize, HDRP, OVERHEAD, s
<1>9. ASSUME MallocFails(size)
      PROVE  mem_brk + Max({asize, Chunk}) > MaxHeap
  <2>1. mem_brk + ExtendSize(asize) > MaxHeap
    BY <1>5, <1>6, <1>9 DEF Refused, Granted
  <2>2. ExtendSize(asize) = Max({asize, Chunk})
    <3> DEFINE extra == ExtendSize(asize)
    <3>1. extra = ExtendSize(asize) /\ asize >= 2
      BY <1>4
    <3> HIDE DEF extra, asize
    <3>2. extra = Max({asize, Chunk})
      BY <1>4, <3>1, ExtendSizeFacts
    <3> QED
      BY <3>1, <3>2
  <2> QED
    BY <2>1, <2>2
<1> QED
  BY <1>8, <1>9

(* CHUNKSIZE, a power of two, is an even number of words: then mm_malloc() *)
(* extends the heap only if no free block has room for the request, and it *)
(* returns NULL only if moreover the heap is at its limit.                 *)
THEOREM GrowthIsNeeded ==
    ASSUME Chunk % 2 = 0
    PROVE  Spec => []GrowsOnlyWhenFull
  BY Invariance, InvGrows, PTL

------------------------------------------------------------------------------
(* What the client sees of memory m, as Abstract has it. *)
Store(m, lv) == [a \in DOMAIN lv |-> [i \in 1 .. lv[a] |-> m[a + i - 1]]]

(* The blocks of a store begin at even addresses, each with its words in   *)
(* the heap, and have none in common.                                      *)
SeparateIn(lv) ==
    \A a \in DOMAIN lv :
        /\ a % 2 = 0 /\ a .. a + lv[a] - 1 \subseteq Addr
        /\ \A b \in DOMAIN lv \ {a} : (a .. a + lv[a] - 1) \cap (b .. b + lv[b] - 1) = {}

(* Blocks of a heap do not overlap, and nor do their contents. *)
LEMMA BlocksAreSeparate ==
    ASSUME NEW m, NEW brk, NEW pre, NEW lv, NEW B, HeapInv(m, brk, pre, lv, B)
    PROVE  SeparateIn(lv)
<1>1. /\ Heap(m, brk, B) /\ DOMAIN lv \subseteq B
      /\ \A a \in DOMAIN lv : /\ lv[a] \in Nat /\ m[a - 1].size \in Int
                              /\ lv[a] + 2 <= m[a - 1].size
  BY HeapInvFacts
<1>2. /\ brk \in Int /\ brk <= MaxHeap /\ MaxHeap \in Int /\ B \subseteq Even /\ B \subseteq Int
      /\ \A b \in B : 2 <= b /\ b + m[b - 1].size <= brk
      /\ \A b, c \in B : b < c => b + m[b - 1].size <= c
  BY <1>1, HeapFacts, MallocAssumption
<1>3. ASSUME NEW a \in DOMAIN lv PROVE a % 2 = 0 /\ a .. a + lv[a] - 1 \subseteq Addr
  <2>1. a \in Even /\ a \in Int /\ 2 <= a /\ a + m[a - 1].size <= brk
    BY <1>1, <1>2
  <2>2. a % 2 = 0
    BY <2>1 DEF Even
  <2>3. ASSUME NEW j \in a .. a + lv[a] - 1 PROVE j \in Addr
    BY <1>1, <1>2, <2>1 DEF Addr
  <2> QED
    BY <2>2, <2>3
<1>4. ASSUME NEW a \in DOMAIN lv, NEW b \in DOMAIN lv \ {a}, NEW j,
             j \in a .. a + lv[a] - 1, j \in b .. b + lv[b] - 1
      PROVE  FALSE
  <2>1. /\ a \in B /\ b \in B /\ a \in Int /\ b \in Int /\ a # b
        /\ lv[a] \in Nat /\ m[a - 1].size \in Int /\ lv[a] + 2 <= m[a - 1].size
        /\ lv[b] \in Nat /\ m[b - 1].size \in Int /\ lv[b] + 2 <= m[b - 1].size
    BY <1>1, <1>2
  <2>2. /\ a < b => a + m[a - 1].size <= b
        /\ b < a => b + m[b - 1].size <= a
    BY <1>2, <2>1
  <2>3. j \in Int /\ a <= j /\ j <= a + lv[a] - 1 /\ b <= j /\ j <= b + lv[b] - 1
    BY <1>4, <2>1
  <2> QED
    BY <2>1, <2>2, <2>3
<1> QED
  BY <1>3, <1>4 DEF SeparateIn

(* The client finds in st what is in its blocks. *)
IsStore(m, lv, st) ==
    /\ DOMAIN st = DOMAIN lv
    /\ \A a \in DOMAIN lv : /\ DOMAIN st[a] = 1 .. lv[a] /\ Len(st[a]) = lv[a]
                            /\ \A i \in 1 .. lv[a] : st[a][i] = m[a + i - 1]
                            /\ st[a] = [i \in 1 .. lv[a] |-> m[a + i - 1]]

(* The store of Abstract holds the contents of the client's blocks. *)
LEMMA StoreFacts ==
    ASSUME NEW m, NEW brk, NEW pre, NEW lv, NEW B, HeapInv(m, brk, pre, lv, B),
           NEW st, st = Store(m, lv)
    PROVE  IsStore(m, lv, st)
<1>1. /\ DOMAIN st = DOMAIN lv
      /\ \A a \in DOMAIN lv : st[a] = [i \in 1 .. lv[a] |-> m[a + i - 1]]
  BY DEF Store
<1>2. ASSUME NEW a \in DOMAIN lv
      PROVE  /\ DOMAIN st[a] = 1 .. lv[a] /\ Len(st[a]) = lv[a]
             /\ \A i \in 1 .. lv[a] : st[a][i] = m[a + i - 1]
  <2> DEFINE s == st[a]
             n == lv[a]
  <2>1. s = [i \in 1 .. n |-> m[a + i - 1]] /\ n \in Nat
    <3>1. n \in Nat
      BY HeapInvFacts
    <3> QED
      BY <1>1, <3>1
  <2> HIDE DEF s, n
  <2>2. DOMAIN s = 1 .. n /\ \A i \in 1 .. n : s[i] = m[a + i - 1]
    BY <2>1
  <2>3. Len(s) = n
    BY <2>1
  <2> QED
    BY <2>2, <2>3 DEF s, n
<1> QED
  BY <1>1, <1>2 DEF IsStore

(* Becomes of Abstract, from store st to st2 *)
Becoming(st, st2, D, A) ==
    /\ DOMAIN st2 = D
    /\ \A a \in DOMAIN st2 :
          /\ a % DSIZE = 0 /\ a .. a + Len(st2[a]) - 1 \subseteq Addr
          /\ \A b \in DOMAIN st2 \ {a} :
                (a .. a + Len(st2[a]) - 1) \cap (b .. b + Len(st2[b]) - 1) = {}
    /\ \A a \in D \ A : st2[a] = st[a]

(* Blocks that are kept keep their place and contents in the store. *)
LEMMA BecomingIntro ==
    ASSUME NEW m, NEW lv, NEW st, IsStore(m, lv, st),
           NEW m2, NEW lv2, NEW st2, IsStore(m2, lv2, st2), SeparateIn(lv2),
           NEW D, NEW A, DOMAIN lv2 = D, Kept(m, lv, m2, lv2, D \ A)
    PROVE  Becoming(st, st2, D, A)
<1>1. DOMAIN st2 = D /\ \A a \in D : Len(st2[a]) = lv2[a]
  BY DEF IsStore
<1>2. ASSUME NEW a \in D \ A PROVE st2[a] = st[a]
  <2>1. /\ a \in DOMAIN lv /\ lv2[a] = lv[a]
        /\ \A i \in 1 .. lv[a] : m2[a + i - 1] = m[a + i - 1]
    BY DEF Kept
  <2>2. /\ st[a] = [i \in 1 .. lv[a] |-> m[a + i - 1]]
        /\ st2[a] = [i \in 1 .. lv2[a] |-> m2[a + i - 1]]
    BY <2>1 DEF IsStore
  <2> QED
    BY <2>1, <2>2
<1>3. \A a \in DOMAIN st2 :
          /\ a % 2 = 0 /\ a .. a + Len(st2[a]) - 1 \subseteq Addr
          /\ \A b \in DOMAIN st2 \ {a} :
                (a .. a + Len(st2[a]) - 1) \cap (b .. b + Len(st2[b]) - 1) = {}
  BY <1>1 DEF SeparateIn
<1> QED
  BY <1>1, <1>2, <1>3 DEF Becoming, DSIZE

(* At first the client has no block. *)
LEMMA InitRefines == Init => Abstract!Init
<1> SUFFICES ASSUME Init PROVE Abstract!Init
  OBVIOUS
<1> DEFINE st == [a \in DOMAIN live |-> [i \in 1 .. live[a] |-> mem[a + i - 1]]]
<1>1. live = << >>
  BY DEF Init
<1>2. DOMAIN live = {}
  BY <1>1
<1>3. st = << >>
  BY <1>2
<1> QED
  BY <1>3 DEF Abstract!Init

(* The abstract actions, on the stores of two memories *)
AbstractNext(st, st2) ==
    \/ \E a \in Addr \ DOMAIN st : Becoming(st, st2, DOMAIN st \cup {a}, {a})
    \/ \E a \in DOMAIN st : Becoming(st, st2, DOMAIN st \ {a}, {})
    \/ \E a \in DOMAIN st, b \in Addr \ DOMAIN st :
          /\ Becoming(st, st2, (DOMAIN st \ {a}) \cup {b}, {b})
          /\ \A i \in DOMAIN st[a] \cap DOMAIN st2[b] : st2[b][i] = st[a][i]
    \/ \E a \in DOMAIN st :
          /\ Becoming(st, st2, DOMAIN st, {a})
          /\ Len(st2[a]) = Len(st[a])

(* The actions of Abstract are these, on the stores before and after. *)
LEMMA AbstractStep ==
    AbstractNext(Store(mem, live), Store(mem', live')) => Abstract!Next
<1> DEFINE st == Store(mem, live)
           st2 == Store(mem', live')
<1>1. ASSUME NEW a \in Addr \ DOMAIN st, Becoming(st, st2, DOMAIN st \cup {a}, {a})
      PROVE  Abstract!Alloc
  BY <1>1, Zenon DEF Becoming, Store, Abstract!Alloc, Abstract!Becomes, Abstract!Separate,
              Abstract!Extent
<1>2. ASSUME NEW a \in DOMAIN st, Becoming(st, st2, DOMAIN st \ {a}, {})
      PROVE  Abstract!Free
  BY <1>2, Zenon DEF Becoming, Store, Abstract!Free, Abstract!Becomes, Abstract!Separate,
              Abstract!Extent
<1>3. ASSUME NEW a \in DOMAIN st, NEW b \in Addr \ DOMAIN st,
             Becoming(st, st2, (DOMAIN st \ {a}) \cup {b}, {b}),
             \A i \in DOMAIN st[a] \cap DOMAIN st2[b] : st2[b][i] = st[a][i]
      PROVE  Abstract!Realloc
  <2> DEFINE u == [k \in DOMAIN live |-> [i \in 1 .. live[k] |-> mem[k + i - 1]]]
             v == [k \in DOMAIN live' |-> [i \in 1 .. live'[k] |-> mem'[k + i - 1]]]
  <2>1. Abstract!Realloc <=>
           \E x \in DOMAIN u, y \in Addr \ DOMAIN u :
              /\ Becoming(u, v, (DOMAIN u \ {x}) \cup {y}, {y})
              /\ \A i \in DOMAIN u[x] \cap DOMAIN v[y] : v[y][i] = u[x][i]
    BY DEF Becoming, Abstract!Realloc, Abstract!Becomes, Abstract!Separate, Abstract!Extent
  <2>2. u = st /\ v = st2
    BY DEF Store
  <2> HIDE DEF u, v, st, st2
  <2>3. /\ a \in DOMAIN u /\ b \in Addr \ DOMAIN u
        /\ Becoming(u, v, (DOMAIN u \ {a}) \cup {b}, {b})
    BY <1>3, <2>2
  <2>4. \A i \in DOMAIN u[a] \cap DOMAIN v[b] : v[b][i] = u[a][i]
    BY <1>3, <2>2
  <2> HIDE <2>2
  <2> QED
    BY <2>1, <2>3, <2>4
<1>4. ASSUME NEW a \in DOMAIN st, Becoming(st, st2, DOMAIN st, {a}), Len(st2[a]) = Len(st[a])
      PROVE  Abstract!Write
  BY <1>4, Zenon DEF Becoming, Store, Abstract!Write, Abstract!Becomes, Abstract!Separate,
              Abstract!Extent
<1> HIDE DEF st, st2
<1>5. AbstractNext(st, st2) => Abstract!Next
  BY <1>1, <1>2, <1>3, <1>4 DEF AbstractNext, Abstract!Next
<1> QED
  BY <1>5 DEF st, st2

(* Each action is one of Abstract, or changes nothing. *)
LEMMA StepRefines ==
    ASSUME IInv, Next, NEW st, st = Store(mem, live), NEW st2, st2 = Store(mem', live')
    PROVE  AbstractNext(st, st2) \/ UNCHANGED vars
<1>1. IInv'
  BY Inductive
<1>2. IsStore(mem, live, st)
  BY StoreFacts DEF IInv
<1>3. IsStore(mem', live', st2) /\ SeparateIn(live')
  <2>1. PICK B : HeapInv(mem', mem_brk', pre_listp', live', B)
    BY <1>1 DEF IInv
  <2> QED
    BY <2>1, StoreFacts, BlocksAreSeparate
<1>4. ASSUME NEW D, NEW A, DOMAIN live' = D, Kept(mem, live, mem', live', D \ A)
      PROVE  Becoming(st, st2, D, A)
  BY <1>2, <1>3, <1>4, BecomingIntro
<1>5. DOMAIN st = DOMAIN live /\ DOMAIN st2 = DOMAIN live'
  BY <1>2, <1>3 DEF IsStore
<1>6. ASSUME NEW size \in Requests, Malloc(size)
      PROVE  AbstractNext(st, st2) \/ UNCHANGED vars
  <2>1. ASSUME NEW bp, Gains(bp) PROVE AbstractNext(st, st2)
    <3>1. bp \in Addr \ DOMAIN st /\ DOMAIN live' = DOMAIN st \cup {bp}
          /\ Kept(mem, live, mem', live', (DOMAIN st \cup {bp}) \ {bp})
      <4>1. (DOMAIN live \cup {bp}) \ {bp} = DOMAIN live
        BY <2>1 DEF Gains
      <4> QED
        BY <1>5, <2>1, <4>1 DEF Gains
    <3>2. Becoming(st, st2, DOMAIN st \cup {bp}, {bp})
      BY <1>4, <3>1
    <3> QED
      BY <3>1, <3>2 DEF AbstractNext
  <2> QED
    BY <1>6, <2>1, MallocStep
<1>7. ASSUME NEW ptr \in DOMAIN live, Free(ptr)
      PROVE  AbstractNext(st, st2)
  <2>1. DOMAIN live' = DOMAIN st \ {ptr}
        /\ Kept(mem, live, mem', live', (DOMAIN st \ {ptr}) \ {})
    <3>1. (DOMAIN live \ {ptr}) \ {} = DOMAIN live \ {ptr}
      OBVIOUS
    <3> QED
      BY <1>5, <1>7, <3>1, FreeStep
  <2>2. Becoming(st, st2, DOMAIN st \ {ptr}, {})
    BY <1>4, <2>1
  <2> QED
    BY <1>5, <2>2 DEF AbstractNext
<1>8. ASSUME NEW ptr \in DOMAIN live, NEW size \in Requests, Realloc(ptr, size)
      PROVE  AbstractNext(st, st2) \/ UNCHANGED vars
  <2>1. ASSUME NEW bp, Moves(ptr, bp) PROVE AbstractNext(st, st2)
    <3> DEFINE D == (DOMAIN st \ {ptr}) \cup {bp}
    <3>1. /\ bp \in Addr \ DOMAIN live /\ DOMAIN live' = D
          /\ Kept(mem, live, mem', live', DOMAIN live \ {ptr}) /\ live'[bp] \in Nat
          /\ \A i \in 1 .. live'[bp] : i <= live[ptr] => mem'[bp + i - 1] = mem[ptr + i - 1]
      BY <1>5, <2>1 DEF Moves
    <3>2. D \ {bp} = DOMAIN live \ {ptr}
      BY <1>5, <3>1
    <3>3. Becoming(st, st2, D, {bp})
      <4> HIDE DEF D
      <4> QED
        BY <1>4, <3>1, <3>2
    <3>4. ASSUME NEW i \in DOMAIN st[ptr] \cap DOMAIN st2[bp]
          PROVE  st2[bp][i] = st[ptr][i]
      <4>1. bp \in DOMAIN live'
        BY <3>1
      <4>2. i \in 1 .. live[ptr] /\ st[ptr][i] = mem[ptr + i - 1]
        BY <1>2 DEF IsStore
      <4>3. i \in 1 .. live'[bp] /\ st2[bp][i] = mem'[bp + i - 1]
        BY <1>3, <4>1 DEF IsStore
      <4>4. live[ptr] \in Int
        <5>1. PICK B : HeapInv(mem, mem_brk, pre_listp, live, B)
          BY DEF IInv
        <5>2. live[ptr] \in Nat \ {0}
          BY <5>1, HeapInvFacts
        <5> QED
          BY <5>2
      <4>5. i <= live[ptr]
        BY <4>2, <4>4
      <4> QED
        BY <3>1, <4>2, <4>3, <4>5
    <3>5. ptr \in DOMAIN st /\ bp \in Addr \ DOMAIN st
          /\ Becoming(st, st2, (DOMAIN st \ {ptr}) \cup {bp}, {bp})
      BY <1>5, <3>1, <3>3
    <3> QED
      BY <3>4, <3>5 DEF AbstractNext
  <2> QED
    BY <1>8, <2>1, ReallocStep
<1>9. ASSUME NEW ptr \in DOMAIN live, NEW w \in Data, Write(ptr, w)
      PROVE  AbstractNext(st, st2)
  <2>1. live' = live /\ Kept(mem, live, mem', live', DOMAIN st \ {ptr})
    BY <1>5, <1>9, WriteStep
  <2>2. Becoming(st, st2, DOMAIN st, {ptr})
    BY <1>4, <1>5, <2>1
  <2>3. Len(st2[ptr]) = Len(st[ptr])
    BY <1>2, <1>3, <2>1 DEF IsStore
  <2> QED
    BY <1>5, <2>2, <2>3 DEF AbstractNext
<1> QED
  BY <1>6, <1>7, <1>8, <1>9 DEF Next

(* So each step is a step of Abstract or a stutter. *)
LEMMA NextRefines ==
    IInv /\ [Next]_vars =>
       [Abstract!Next]_([a \in DOMAIN live |-> [i \in 1 .. live[a] |-> mem[a + i - 1]]])
<1> SUFFICES ASSUME IInv, [Next]_vars
             PROVE  \/ Abstract!Next
                    \/ UNCHANGED [a \in DOMAIN live |-> [i \in 1 .. live[a] |-> mem[a + i - 1]]]
  OBVIOUS
<1>1. UNCHANGED vars => UNCHANGED [a \in DOMAIN live |-> [i \in 1 .. live[a] |-> mem[a + i - 1]]]
  BY DEF vars
<1>2. CASE Next
  <2>1. AbstractNext(Store(mem, live), Store(mem', live')) \/ UNCHANGED vars
    BY <1>2, StepRefines
  <2> QED
    BY <1>1, <2>1, AbstractStep
<1> QED
  BY <1>1, <1>2

(* The client sees blocks of its own, apart from each other and within the *)
(* heap, that keep what it wrote until it frees them: the tags, the merges *)
(* and the growth of the heap do not show.                                 *)
THEOREM ClientsView == Spec => AllocatorSpec
  BY InitRefines, NextRefines, Invariance, PTL DEF Spec, AllocatorSpec, Abstract!Spec
==============================================================================
