----------------------------- MODULE ProxyProofs -----------------------------
(***************************************************************************)
(* What the proxy keeps true for any number of workers, connections and    *)
(* uris and any sizes of the buffer and the cache: the inductive invariant *)
(* of Proxy, what follows from it, and that the buffer is a queue.         *)
(***************************************************************************)
EXTENDS Proxy, FiniteSetTheorems, SequenceTheorems, WellFoundedInduction, TLAPS

(* The ring buffer: the connections in it are those counted by items and   *)
(* those on their way in or out, and lie between front and rear.           *)
Removing == {t \in Thread : pc[t] = "remove"}
Posting == {t \in Thread : pc[t] = "post"}

CountInv ==
    /\ Count = items + Cardinality(Removing) + (IF main_pc = "post" THEN 1 ELSE 0)
    /\ main_pc # "exited" => rear = (front + Count) % SBUFSIZE

(* The connections: who holds one, and that nobody else does.              *)
Place(i) == buf[(front + i) % SBUFSIZE]
WithMain(c) == main_fd = c /\ main_pc # "post"

HeldInv ==
    /\ \A i \in 1 .. Count : Place(i) \in open
    /\ \A i, j \in 1 .. Count : Place(i) = Place(j) => i = j
    /\ \A t \in Thread : fd[t] # None => fd[t] \in open
    /\ \A s, t \in Thread : fd[s] = fd[t] /\ fd[s] # None => s = t
    /\ \A t \in Thread, i \in 1 .. Count : fd[t] # Place(i)
    /\ \A t \in Thread : pc[t] \in {"items", "remove"} => fd[t] = None
    /\ main_pc \in {"slots", "insert"} =>
          /\ main_fd \in open
          /\ \A i \in 1 .. Count : Place(i) # main_fd
          /\ \A t \in Thread : fd[t] # main_fd
    /\ main_pc \in {"accept", "exited"} => main_fd = None
    /\ \A c \in open :
          \/ WithMain(c)
          \/ \E i \in 1 .. Count : Place(i) = c
          \/ \E t \in Thread : fd[t] = c

(* The cache: what a worker has fetched fits in a line, and each worker    *)
(* that has been told that its line fits may still add it.                 *)
Adding == {x \in Thread \X (1 .. MAX_OBJECT_SIZE) :
              pc[x[1]] = "add_line" /\ x[2] <= len[x[1]]}

FetchedInv ==
    \A t \in Thread :
        /\ pc[t] \in {"visit", "fetch", "fits", "remove_line", "add_line"} => uri[t] \in Uri
        /\ pc[t] \in {"fits", "remove_line", "add_line"} =>
              len[t] \in Sizes \cap (0 .. MAX_OBJECT_SIZE)

SizeInv ==
    /\ total_size = Sum(lines)
    /\ total_size + Cardinality(Adding)
         <= MAX_CACHE_SIZE + (Cardinality(Thread) - 1) * MAX_OBJECT_SIZE

IInv == TypeOK /\ CountInv /\ HeldInv /\ FetchedInv /\ SizeInv

------------------------------------------------------------------------------
(* Indices into the ring are added modulo its size.                        *)
LEMMA Wrap ==
    ASSUME NEW x \in Nat, x < 2 * SBUFSIZE
    PROVE  /\ x % SBUFSIZE = IF x < SBUFSIZE THEN x ELSE x - SBUFSIZE
           /\ x % SBUFSIZE \in Index
<1>0. SBUFSIZE \in Nat \ {0}
  BY ProxyAssumption
<1>1. CASE x < SBUFSIZE
  <2>1. x % SBUFSIZE = x
    BY <1>0, <1>1
  <2> QED
    BY <1>0, <1>1, <2>1 DEF Index
<1>2. CASE ~(x < SBUFSIZE)
  <2>1. x % SBUFSIZE = x - SBUFSIZE
    BY <1>0, <1>2
  <2> QED
    BY <1>0, <1>2, <2>1 DEF Index
<1> QED
  BY <1>1, <1>2

(* The i-th place after front, and the first after front + 1.              *)
LEMMA RingSlot ==
    ASSUME NEW f \in Index, NEW i \in 0 .. SBUFSIZE
    PROVE  /\ (f + i) % SBUFSIZE = IF f + i < SBUFSIZE THEN f + i ELSE f + i - SBUFSIZE
           /\ (f + i) % SBUFSIZE \in Index
<1>1. PICK x \in Nat : x = f + i /\ x < 2 * SBUFSIZE
  BY ProxyAssumption DEF Index
<1>2. PICK m : m = x % SBUFSIZE
  OBVIOUS
<1>3. m = (IF x < SBUFSIZE THEN x ELSE x - SBUFSIZE) /\ m \in Index
  BY <1>1, <1>2, Wrap
<1>4. m = (f + i) % SBUFSIZE
  BY <1>1, <1>2, Zenon
<1>5. m = IF f + i < SBUFSIZE THEN f + i ELSE f + i - SBUFSIZE
  BY <1>1, <1>3, ProxyAssumption DEF Index
<1> QED
  BY <1>3, <1>4, <1>5, Zenon

LEMMA Advance ==
    ASSUME NEW f \in Index, NEW i \in 0 .. SBUFSIZE - 1
    PROVE  /\ (f + 1) % SBUFSIZE \in Index
           /\ (((f + 1) % SBUFSIZE) + i) % SBUFSIZE = (f + (i + 1)) % SBUFSIZE
           /\ (((f + i) % SBUFSIZE) + 1) % SBUFSIZE = (f + (i + 1)) % SBUFSIZE
<1>0. /\ SBUFSIZE \in Nat \ {0} /\ f \in Nat /\ f < SBUFSIZE /\ i \in Nat /\ i < SBUFSIZE
      /\ i \in 0 .. SBUFSIZE /\ i + 1 \in 0 .. SBUFSIZE
  BY ProxyAssumption DEF Index
<1> DEFINE g == (f + 1) % SBUFSIZE
           h == (f + i) % SBUFSIZE
<1>1. g \in Index /\ g = IF f + 1 < SBUFSIZE THEN f + 1 ELSE f + 1 - SBUFSIZE
  BY <1>0, RingSlot
<1>2. h \in Index /\ h = IF f + i < SBUFSIZE THEN f + i ELSE f + i - SBUFSIZE
  BY <1>0, RingSlot
<1>3. (f + (i + 1)) % SBUFSIZE
        = IF f + (i + 1) < SBUFSIZE THEN f + (i + 1) ELSE f + (i + 1) - SBUFSIZE
  BY <1>0, RingSlot
<1>4. (g + i) % SBUFSIZE = IF g + i < SBUFSIZE THEN g + i ELSE g + i - SBUFSIZE
  <2> HIDE DEF g
  <2> QED
    BY <1>0, <1>1, RingSlot
<1>5. (h + 1) % SBUFSIZE = IF h + 1 < SBUFSIZE THEN h + 1 ELSE h + 1 - SBUFSIZE
  <2> HIDE DEF h
  <2> QED
    BY <1>0, <1>2, RingSlot
<1> HIDE DEF g, h
<1>6. (g + i) % SBUFSIZE = (f + (i + 1)) % SBUFSIZE
  BY <1>0, <1>1, <1>3, <1>4 DEF Index
<1>7. (h + 1) % SBUFSIZE = (f + (i + 1)) % SBUFSIZE
  BY <1>0, <1>2, <1>3, <1>5 DEF Index
<1> QED
  BY <1>1, <1>6, <1>7 DEF g, h

(* Different places of the ring are different slots.                       *)
LEMMA Apart ==
    ASSUME NEW f \in Index, NEW i \in 0 .. SBUFSIZE, NEW j \in 0 .. SBUFSIZE,
           i < j, j - i < SBUFSIZE
    PROVE  (f + i) % SBUFSIZE # (f + j) % SBUFSIZE
<1>0. SBUFSIZE \in Nat \ {0} /\ f \in Nat /\ f < SBUFSIZE /\ i \in Nat /\ j \in Nat
  BY ProxyAssumption DEF Index
<1>1. /\ (f + i) % SBUFSIZE = IF f + i < SBUFSIZE THEN f + i ELSE f + i - SBUFSIZE
      /\ (f + j) % SBUFSIZE = IF f + j < SBUFSIZE THEN f + j ELSE f + j - SBUFSIZE
  BY RingSlot
<1> QED
  BY <1>0, <1>1

------------------------------------------------------------------------------
(* Workers by where they are. *)
LEMMA CountIs ==
    /\ Count = SBUFSIZE - slots - (IF main_pc = "insert" THEN 1 ELSE 0) - Cardinality(Posting)
    /\ Count' = SBUFSIZE - slots' - (IF main_pc' = "insert" THEN 1 ELSE 0)
                  - Cardinality(Posting')
  BY DEF Count, Quantify, Posting

LEMMA Workers ==
    /\ IsFiniteSet(Removing) /\ Cardinality(Removing) \in Nat
    /\ IsFiniteSet(Posting) /\ Cardinality(Posting) \in Nat
<1>1. Removing \subseteq Thread /\ Posting \subseteq Thread
  BY DEF Removing, Posting
<1>2. IsFiniteSet(Removing) /\ IsFiniteSet(Posting)
  BY <1>1, ProxyAssumption, FS_Subset
<1> QED
  BY <1>2, FS_CardinalityType

LEMMA Bounds ==
    ASSUME IInv
    PROVE  /\ Count \in 0 .. SBUFSIZE
           /\ main_pc = "insert" => Count < SBUFSIZE
           /\ Removing # {} => Count > 0
<1>1. slots \in Nat /\ items \in Nat /\ SBUFSIZE \in Nat
  BY ProxyAssumption DEF IInv, TypeOK
<1>2. Count = items + Cardinality(Removing) + (IF main_pc = "post" THEN 1 ELSE 0)
  BY DEF IInv, CountInv
<1>3. Count \in 0 .. SBUFSIZE /\ (main_pc = "insert" => Count < SBUFSIZE)
  BY <1>1, <1>2, Workers, CountIs
<1>4. Removing # {} => Cardinality(Removing) > 0
  BY Workers, FS_EmptySet
<1> QED
  BY <1>1, <1>2, <1>3, <1>4, Workers

(* A worker that moves leaves one set and enters another.                  *)
LEMMA Moved ==
    ASSUME IInv, NEW t \in Thread, NEW l, Goto(t, l)
    PROVE  /\ Removing' = IF l = "remove" THEN Removing \cup {t} ELSE Removing \ {t}
           /\ Posting' = IF l = "post" THEN Posting \cup {t} ELSE Posting \ {t}
           /\ pc'[t] = l /\ \A s \in Thread \ {t} : pc'[s] = pc[s]
<1>1. DOMAIN pc = Thread
  BY DEF IInv, TypeOK
<1> QED
  BY <1>1 DEF Goto, Removing, Posting

LEMMA MovedCount ==
    ASSUME IInv, NEW t \in Thread, NEW l, Goto(t, l)
    PROVE  /\ Cardinality(Removing') = Cardinality(Removing)
                + (IF l = "remove" THEN 1 ELSE 0) - (IF pc[t] = "remove" THEN 1 ELSE 0)
           /\ Cardinality(Posting') = Cardinality(Posting)
                + (IF l = "post" THEN 1 ELSE 0) - (IF pc[t] = "post" THEN 1 ELSE 0)
<1>1. /\ t \in Removing <=> pc[t] = "remove"
      /\ t \in Posting <=> pc[t] = "post"
  BY DEF Removing, Posting
<1>2. /\ Cardinality(Removing \cup {t})
           = IF t \in Removing THEN Cardinality(Removing) ELSE Cardinality(Removing) + 1
      /\ Cardinality(Removing \ {t})
           = IF t \in Removing THEN Cardinality(Removing) - 1 ELSE Cardinality(Removing)
  BY Workers, FS_AddElement, FS_RemoveElement
<1>3. /\ Cardinality(Posting \cup {t})
           = IF t \in Posting THEN Cardinality(Posting) ELSE Cardinality(Posting) + 1
      /\ Cardinality(Posting \ {t})
           = IF t \in Posting THEN Cardinality(Posting) - 1 ELSE Cardinality(Posting)
  BY Workers, FS_AddElement, FS_RemoveElement
<1>4. /\ Removing' = IF l = "remove" THEN Removing \cup {t} ELSE Removing \ {t}
      /\ Posting' = IF l = "post" THEN Posting \cup {t} ELSE Posting \ {t}
  BY Moved
<1>5. Cardinality(Removing) \in Nat /\ Cardinality(Posting) \in Nat
  BY Workers
<1>6. CASE l = "remove"
  BY <1>1, <1>2, <1>3, <1>4, <1>5, <1>6
<1>7. CASE l = "post"
  BY <1>1, <1>2, <1>3, <1>4, <1>5, <1>7
<1>8. CASE l \notin {"remove", "post"}
  BY <1>1, <1>2, <1>3, <1>4, <1>5, <1>8
<1> QED
  BY <1>6, <1>7, <1>8

(* Outside the buffer a worker only moves between places where it has a    *)
(* connection, or from the one where it closes it.                         *)
LEMMA Elsewhere ==
    ASSUME IInv, NEW t \in Thread, Doit(t) \/ Close(t)
    PROVE  /\ pc[t] \notin {"items", "remove", "post"}
           /\ \E l : Goto(t, l) /\ l \notin {"remove", "post"} /\ (Doit(t) => l # "items")
           /\ UNCHANGED <<sbuf, main>>
<1>1. CASE Doit(t)
  BY <1>1 DEF Doit, Reject, EndInHeaders, Request, Hit, Miss, Fetch, Fits, RemoveLine, AddLine,
     Done, sbuf, main, cache
<1>2. CASE Close(t)
  BY <1>2 DEF Close, Doit, Reject, EndInHeaders, Request, Hit, Miss, Fetch, Fits, RemoveLine,
     AddLine, sbuf, main
<1> QED
  BY <1>1, <1>2

(* The steps, by what they do to the buffer.                               *)
LEMMA Steps ==
    ASSUME Next
    PROVE  \/ Accept \/ InsertWait \/ Insert \/ InsertPost
           \/ \E t \in Thread : \/ RemoveWait(t) \/ Take(t) \/ RemovePost(t)
                                \/ Doit(t) \/ Close(t) \/ Exit(t)
  BY DEF Next, Main, Worker

------------------------------------------------------------------------------
(* What each step does to the buffer. *)
Same == front' = front /\ rear' = rear /\ buf' = buf /\ Count' = Count

Outside(t) == RemoveWait(t) \/ RemovePost(t) \/ Doit(t) \/ Close(t)

LEMMA CountStep ==
    ASSUME IInv, Next
    PROVE  /\ CountInv' /\ slots' \in Nat /\ items' \in Nat
           /\ Accept \/ InsertWait \/ InsertPost \/ (\E t \in Thread : Outside(t)) => Same
           /\ Insert => Count' = Count + 1
           /\ \A t \in Thread : Take(t) => Count' = Count - 1
           /\ \A t \in Thread : Exit(t) => Count' = 0
<1> DEFINE P == Cardinality(Posting)
           R == Cardinality(Removing)
           Inv == CountInv' /\ slots' \in Nat /\ items' \in Nat
<1>t. /\ slots \in Nat /\ items \in Nat /\ SBUFSIZE \in Nat \ {0} /\ front \in Index
      /\ P \in Nat /\ R \in Nat
  BY ProxyAssumption, Workers DEF IInv, TypeOK
<1>c. /\ Count = items + R + (IF main_pc = "post" THEN 1 ELSE 0)
      /\ main_pc # "exited" => rear = (front + Count) % SBUFSIZE
  BY DEF IInv, CountInv
<1>d. /\ Count = SBUFSIZE - slots - (IF main_pc = "insert" THEN 1 ELSE 0) - P
      /\ Count' = SBUFSIZE - slots' - (IF main_pc' = "insert" THEN 1 ELSE 0) - P'
  BY CountIs
<1>b. Count \in 0 .. SBUFSIZE
  BY Bounds
<1>1. ASSUME Accept PROVE Inv /\ Same
  <2>1. /\ main_pc = "accept" /\ main_pc' = "slots" /\ UNCHANGED <<front, rear, buf, pc>>
        /\ slots' = slots /\ items' = items
    BY <1>1 DEF Accept, sbuf, workers
  <2>2. P' = P /\ R' = R
    BY <2>1 DEF Removing, Posting
  <2> HIDE DEF P, R
  <2>3. Count' = Count
    BY <1>d, <1>t, <2>1, <2>2
  <2>4. Count' = items' + R' + (IF main_pc' = "post" THEN 1 ELSE 0)
    BY <1>c, <1>t, <2>1, <2>2, <2>3
  <2> QED
    BY <1>c, <1>t, <2>1, <2>3, <2>4 DEF CountInv, Same, R
<1>2. ASSUME InsertWait PROVE Inv /\ Same
  <2>1. /\ main_pc = "slots" /\ main_pc' = "insert" /\ UNCHANGED <<front, rear, buf, pc>>
        /\ slots > 0 /\ slots' = slots - 1 /\ items' = items
    BY <1>2 DEF InsertWait, sbuf, workers
  <2>2. P' = P /\ R' = R
    BY <2>1 DEF Removing, Posting
  <2> HIDE DEF P, R
  <2>3. Count' = Count
    BY <1>d, <1>t, <2>1, <2>2
  <2>4. Count' = items' + R' + (IF main_pc' = "post" THEN 1 ELSE 0)
    BY <1>c, <1>t, <2>1, <2>2, <2>3
  <2> QED
    BY <1>c, <1>t, <2>1, <2>3, <2>4 DEF CountInv, Same, R
<1>3. ASSUME InsertPost PROVE Inv /\ Same
  <2>1. /\ main_pc = "post" /\ main_pc' = "accept" /\ UNCHANGED <<front, rear, buf, pc>>
        /\ slots' = slots /\ items' = items + 1
    BY <1>3 DEF InsertPost, sbuf, workers
  <2>2. P' = P /\ R' = R
    BY <2>1 DEF Removing, Posting
  <2> HIDE DEF P, R
  <2>3. Count' = Count
    BY <1>d, <1>t, <2>1, <2>2
  <2>4. Count' = items' + R' + (IF main_pc' = "post" THEN 1 ELSE 0)
    BY <1>c, <1>t, <2>1, <2>2, <2>3
  <2> QED
    BY <1>c, <1>t, <2>1, <2>3, <2>4 DEF CountInv, Same, R
<1>4. ASSUME Insert PROVE Inv /\ Count' = Count + 1
  <2>1. P' = P /\ R' = R /\ front' = front /\ slots' = slots /\ items' = items
    BY <1>4 DEF Insert, workers, Removing, Posting
  <2>2. main_pc = "insert" /\ main_pc' = "post" /\ rear' = (rear + 1) % SBUFSIZE
    BY <1>4 DEF Insert
  <2> HIDE DEF P, R
  <2>3. Count' = Count + 1 /\ Count \in 0 .. SBUFSIZE - 1
    BY <1>b, <1>d, <1>t, <2>1, <2>2, Bounds
  <2>4. rear' = (front' + Count') % SBUFSIZE
    <3>1. rear' = (((front + Count) % SBUFSIZE) + 1) % SBUFSIZE
      BY <1>c, <2>2
    <3>2. rear' = (front + (Count + 1)) % SBUFSIZE
      BY <1>t, <2>3, <3>1, Advance
    <3> QED
      BY <2>1, <2>3, <3>2
  <2>5. Count' = items' + R' + (IF main_pc' = "post" THEN 1 ELSE 0)
    BY <1>c, <1>t, <2>1, <2>2, <2>3
  <2> QED
    BY <1>4, <1>t, <2>1, <2>3, <2>4, <2>5 DEF CountInv, R
<1>5. ASSUME NEW t \in Thread, RemoveWait(t) PROVE Inv /\ Same
  <2>1. /\ pc[t] = "items" /\ Goto(t, "remove") /\ items > 0 /\ items' = items - 1
        /\ slots' = slots /\ main_pc' = main_pc /\ UNCHANGED <<front, rear, buf>>
    BY <1>5 DEF RemoveWait, main
  <2>2. P' = P /\ R' = R + 1
    BY <2>1, <1>t, MovedCount
  <2> HIDE DEF P, R
  <2>3. Count' = Count /\ items' \in Nat
    BY <1>d, <1>t, <2>1, <2>2
  <2>4. Count' = items' + R' + (IF main_pc' = "post" THEN 1 ELSE 0)
    BY <1>c, <1>t, <2>1, <2>2, <2>3
  <2> QED
    BY <1>c, <1>t, <2>1, <2>3, <2>4 DEF CountInv, Same, R
<1>6. ASSUME NEW t \in Thread, Take(t) PROVE Inv /\ Count' = Count - 1
  <2>1. /\ pc[t] = "remove" /\ Goto(t, "post") /\ front' = (front + 1) % SBUFSIZE
        /\ slots' = slots /\ items' = items /\ main_pc' = main_pc /\ UNCHANGED <<rear, buf>>
    BY <1>6 DEF Take, main
  <2>2. P' = P + 1 /\ R' = R - 1
    BY <2>1, <1>t, MovedCount
  <2>3. Count > 0
    BY <2>1, Bounds DEF Removing
  <2> HIDE DEF P, R
  <2>4. Count' = Count - 1 /\ Count - 1 \in 0 .. SBUFSIZE - 1
    BY <1>b, <1>d, <1>t, <2>1, <2>2, <2>3
  <2>5. Count' = items' + R' + (IF main_pc' = "post" THEN 1 ELSE 0)
    BY <1>c, <1>t, <2>1, <2>2, <2>4
  <2>6. main_pc # "exited" => rear' = (front' + Count') % SBUFSIZE
    <3>1. (((front + 1) % SBUFSIZE) + (Count - 1)) % SBUFSIZE
            = (front + ((Count - 1) + 1)) % SBUFSIZE
      BY <1>t, <2>4, Advance
    <3>2. (Count - 1) + 1 = Count
      BY <1>b
    <3> QED
      BY <1>c, <2>1, <2>4, <3>1, <3>2
  <2> QED
    BY <1>6, <1>t, <2>1, <2>4, <2>5, <2>6 DEF CountInv, R
<1>7. ASSUME NEW t \in Thread, RemovePost(t) PROVE Inv /\ Same
  <2>1. /\ pc[t] = "post" /\ Goto(t, "doit") /\ slots' = slots + 1
        /\ items' = items /\ main_pc' = main_pc /\ UNCHANGED <<front, rear, buf>>
    BY <1>7 DEF RemovePost, main
  <2>2. P' = P - 1 /\ R' = R
    BY <2>1, <1>t, MovedCount
  <2> HIDE DEF P, R
  <2>3. Count' = Count
    BY <1>d, <1>t, <2>1, <2>2
  <2>4. Count' = items' + R' + (IF main_pc' = "post" THEN 1 ELSE 0)
    BY <1>c, <1>t, <2>1, <2>2, <2>3
  <2> QED
    BY <1>c, <1>t, <2>1, <2>3, <2>4 DEF CountInv, Same, R
<1>8. ASSUME NEW t \in Thread, Doit(t) \/ Close(t) PROVE Inv /\ Same
  <2>1. PICK l : Goto(t, l) /\ l \notin {"remove", "post"}
    BY <1>8, Elsewhere
  <2>2. pc[t] \notin {"remove", "post"} /\ UNCHANGED <<sbuf, main>>
    BY <1>8, Elsewhere
  <2>3. P' = P /\ R' = R
    BY <2>1, <2>2, <1>t, MovedCount
  <2>4. /\ slots' = slots /\ items' = items /\ main_pc' = main_pc
        /\ UNCHANGED <<front, rear, buf>>
    BY <2>2 DEF sbuf, main
  <2> HIDE DEF P, R
  <2>5. Count' = Count
    BY <1>d, <1>t, <2>3, <2>4
  <2>6. Count' = items' + R' + (IF main_pc' = "post" THEN 1 ELSE 0)
    BY <1>c, <1>t, <2>3, <2>4, <2>5
  <2> QED
    BY <1>c, <1>t, <2>3, <2>4, <2>5, <2>6 DEF CountInv, Same, R
<1>9. ASSUME NEW t \in Thread, Exit(t) PROVE Inv /\ Count' = 0
  <2>1. /\ pc' = [s \in Thread |-> "exited"] /\ main_pc' = "exited"
        /\ slots' = SBUFSIZE /\ items' = 0
    BY <1>9 DEF Exit
  <2>2. Posting' = {} /\ Removing' = {}
    BY <2>1 DEF Posting, Removing
  <2>3. P' = 0 /\ R' = 0
    BY <2>2, FS_EmptySet
  <2> HIDE DEF P, R
  <2>4. Count' = 0
    BY <1>d, <1>t, <2>1, <2>3
  <2>5. Count' = items' + R' + (IF main_pc' = "post" THEN 1 ELSE 0)
    BY <2>1, <2>3, <2>4
  <2> QED
    BY <1>9, <1>t, <2>1, <2>4, <2>5 DEF CountInv, R
<1> HIDE DEF Inv
<1>10. Inv
  BY <1>1, <1>2, <1>3, <1>4, <1>5, <1>6, <1>7, <1>8, <1>9, Steps, Zenon
<1> QED
  BY <1>1, <1>2, <1>3, <1>4, <1>5, <1>6, <1>7, <1>8, <1>9, <1>10 DEF Inv, Outside

------------------------------------------------------------------------------
(* What each step does to the connections in the buffer. *)
LEMMA PlacesStep ==
    ASSUME IInv, Next
    PROVE  /\ Same => \A i \in 1 .. Count : Place(i)' = Place(i)
           /\ Insert => /\ \A i \in 1 .. Count : Place(i)' = Place(i)
                        /\ buf'[(front' + Count') % SBUFSIZE] = main_fd
           /\ \A t \in Thread : Take(t) =>
                 /\ Count > 0 /\ fd'[t] = Place(1)
                 /\ \A i \in 1 .. Count - 1 : Place(i)' = Place(i + 1)
<1>t. /\ SBUFSIZE \in Nat \ {0} /\ front \in Index /\ rear \in Index
      /\ DOMAIN buf = Index /\ DOMAIN fd = Thread /\ Count \in 0 .. SBUFSIZE
  BY ProxyAssumption, Bounds DEF IInv, TypeOK
<1>1. Same => \A i \in 1 .. Count : Place(i)' = Place(i)
  BY DEF Same, Place
<1>2. ASSUME Insert
      PROVE  /\ \A i \in 1 .. Count : Place(i)' = Place(i)
             /\ buf'[(front' + Count') % SBUFSIZE] = main_fd
  <2>1. /\ main_pc = "insert" /\ rear' = (rear + 1) % SBUFSIZE /\ front' = front
        /\ buf' = [buf EXCEPT ![rear'] = main_fd]
    BY <1>2 DEF Insert
  <2>2. Count < SBUFSIZE /\ Count + 1 \in 0 .. SBUFSIZE /\ Count \in 0 .. SBUFSIZE - 1
    BY <1>t, <2>1, Bounds
  <2>3. rear' = (front + (Count + 1)) % SBUFSIZE
    <3>1. rear = (front + Count) % SBUFSIZE
      BY <2>1 DEF IInv, CountInv
    <3> QED
      BY <1>t, <2>1, <2>2, <3>1, Advance
  <2>4. rear' \in Index
    BY <1>t, <2>2, <2>3, RingSlot
  <2>5. buf'[(front' + Count') % SBUFSIZE] = main_fd
    <3>1. Count' = Count + 1
      BY <1>2, CountStep
    <3> QED
      BY <1>t, <2>1, <2>3, <2>4, <3>1
  <2>6. ASSUME NEW i \in 1 .. Count PROVE Place(i)' = Place(i)
    <3>1. /\ i \in 0 .. SBUFSIZE /\ i < Count + 1 /\ (Count + 1) - i < SBUFSIZE + 1
          /\ (Count + 1) - i < SBUFSIZE
      BY <1>t, <2>2
    <3>2. (front + i) % SBUFSIZE # rear'
      BY <1>t, <2>2, <2>3, <3>1, Apart
    <3> QED
      BY <1>t, <2>1, <3>2 DEF Place
  <2> QED
    BY <2>5, <2>6
<1>3. ASSUME NEW t \in Thread, Take(t)
      PROVE  /\ Count > 0 /\ fd'[t] = Place(1)
             /\ \A i \in 1 .. Count - 1 : Place(i)' = Place(i + 1)
  <2>1. /\ pc[t] = "remove" /\ front' = (front + 1) % SBUFSIZE /\ buf' = buf
        /\ fd' = [fd EXCEPT ![t] = buf[front']]
    BY <1>3 DEF Take
  <2>2. Count > 0
    BY <2>1, Bounds DEF Removing
  <2>3. fd'[t] = Place(1)
    BY <1>t, <2>1 DEF Place
  <2>4. ASSUME NEW i \in 1 .. Count - 1 PROVE Place(i)' = Place(i + 1)
    <3>1. i \in 0 .. SBUFSIZE - 1
      BY <1>t, <2>2
    <3>2. (((front + 1) % SBUFSIZE) + i) % SBUFSIZE = (front + (i + 1)) % SBUFSIZE
      BY <1>t, <3>1, Advance
    <3>3. Place(i)' = buf[(front' + i) % SBUFSIZE]
      BY <2>1 DEF Place
    <3> QED
      BY <2>1, <3>2, <3>3 DEF Place
  <2> QED
    BY <2>2, <2>3, <2>4
<1> QED
  BY <1>1, <1>2, <1>3

LEMMA HeldStep ==
    ASSUME IInv, Next
    PROVE  HeldInv'
<1>t. /\ fd \in [Thread -> Conn \cup {None}] /\ open \subseteq Conn /\ None \notin Conn
      /\ DOMAIN pc = Thread /\ Count \in 0 .. SBUFSIZE /\ SBUFSIZE \in Nat
  BY ProxyAssumption, Bounds DEF IInv, TypeOK
<1>i. HeldInv
  BY DEF IInv
<1>s. Same => Count' = Count /\ \A i \in 1 .. Count : Place(i)' = Place(i)
  BY PlacesStep DEF Same
<1>1. CASE Accept
  <2>1. Same /\ UNCHANGED <<pc, fd>>
    BY <1>1, CountStep DEF Accept, workers
  <2>2. PICK c \in Conn \ open : main_fd' = c /\ open' = open \cup {c}
    BY <1>1 DEF Accept
  <2>3. main_pc = "accept" /\ main_pc' = "slots"
    BY <1>1 DEF Accept
  <2> QED
    BY <1>t, <1>i, <1>s, <2>1, <2>2, <2>3 DEF HeldInv, WithMain
<1>2. CASE InsertWait
  <2>1. Same /\ UNCHANGED <<pc, fd, open, main_fd>>
    BY <1>2, CountStep DEF InsertWait, workers
  <2>2. main_pc = "slots" /\ main_pc' = "insert"
    BY <1>2 DEF InsertWait
  <2> QED
    BY <1>t, <1>i, <1>s, <2>1, <2>2 DEF HeldInv, WithMain
<1>3. CASE InsertPost
  <2>1. Same /\ UNCHANGED <<pc, fd, open>>
    BY <1>3, CountStep DEF InsertPost, workers
  <2>2. main_pc = "post" /\ main_pc' = "accept" /\ main_fd' = None
    BY <1>3 DEF InsertPost
  <2> QED
    BY <1>t, <1>i, <1>s, <2>1, <2>2 DEF HeldInv, WithMain
<1>4. CASE Insert
  <2>1. /\ UNCHANGED <<pc, fd, open, main_fd>>
        /\ main_pc = "insert" /\ main_pc' = "post"
    BY <1>4 DEF Insert, workers
  <2>2. Count' = Count + 1
    BY <1>4, CountStep
  <2>3. /\ \A i \in 1 .. Count : Place(i)' = Place(i)
        /\ \A i \in 1 .. Count' : i = Count' => Place(i)' = main_fd
    BY <1>4, PlacesStep DEF Place
  <2>4. \A i \in 1 .. Count' : i \in 1 .. Count \/ i = Count'
    BY <1>t, <2>2
  <2>5. Count' \in 1 .. Count' /\ \A i \in 1 .. Count : i \in 1 .. Count'
    BY <1>t, <2>2
  <2>6. \A c \in open' :
          \/ WithMain(c)'
          \/ \E i \in 1 .. Count' : Place(i)' = c
          \/ \E t \in Thread : fd'[t] = c
    BY <1>i, <2>1, <2>3, <2>5 DEF HeldInv, WithMain
  <2>7. /\ \A i \in 1 .. Count' : Place(i)' \in open'
        /\ \A i, j \in 1 .. Count' : Place(i)' = Place(j)' => i = j
        /\ \A t \in Thread, i \in 1 .. Count' : fd'[t] # Place(i)'
    BY <1>i, <2>1, <2>3, <2>4 DEF HeldInv
  <2> QED
    BY <1>i, <2>1, <2>6, <2>7 DEF HeldInv
<1>5. ASSUME NEW t \in Thread, RemoveWait(t) \/ RemovePost(t) \/ Doit(t)
      PROVE  HeldInv'
  <2>1. /\ Same /\ UNCHANGED <<fd, open, main_pc, main_fd>>
    <3>1. Same
      BY <1>5, CountStep DEF Outside
    <3>2. Doit(t) => UNCHANGED <<fd, open, main_pc, main_fd>>
      BY DEF Doit, Reject, EndInHeaders, Request, Hit, Miss, Fetch, Fits, RemoveLine, AddLine,
         main
    <3>3. RemoveWait(t) \/ RemovePost(t) => UNCHANGED <<fd, open, main_pc, main_fd>>
      BY DEF RemoveWait, RemovePost, main
    <3> QED
      BY <1>5, <3>1, <3>2, <3>3
  <2>2. \A s \in Thread : pc'[s] \in {"items", "remove"} => pc[s] \in {"items", "remove"}
    BY <1>5, <1>t, Elsewhere, Moved DEF RemoveWait, RemovePost
  <2> QED
    BY <1>t, <1>i, <1>s, <2>1, <2>2 DEF HeldInv, WithMain
<1>6. ASSUME NEW t \in Thread, Take(t) PROVE HeldInv'
  <2>1. /\ UNCHANGED <<open, main_pc, main_fd>> /\ pc[t] = "remove" /\ fd[t] = None
        /\ Goto(t, "post") /\ \A s \in Thread \ {t} : fd'[s] = fd[s]
    BY <1>6, <1>t, <1>i DEF Take, main, HeldInv
  <2>2. /\ Count > 0 /\ fd'[t] = Place(1)
        /\ \A i \in 1 .. Count - 1 : Place(i)' = Place(i + 1)
    BY <1>6, PlacesStep
  <2>3. Count' = Count - 1
    BY <1>6, CountStep
  <2>4. 1 \in 1 .. Count /\ \A i \in 1 .. Count' : i + 1 \in 1 .. Count /\ i + 1 # 1
    BY <1>t, <2>2, <2>3
  <2>5. \A i \in 1 .. Count : i = 1 \/ \E j \in 1 .. Count' : i = j + 1
    <3> TAKE i \in 1 .. Count
    <3>1. i = 1 \/ (i - 1 \in 1 .. Count' /\ i = (i - 1) + 1)
      BY <1>t, <2>3
    <3> QED
      BY <3>1
  <2>6. \A i \in 1 .. Count' : Place(i)' = Place(i + 1)
    BY <2>2, <2>3
  <2>7. \A s \in Thread : pc'[s] \in {"items", "remove"} =>
            s # t /\ pc[s] \in {"items", "remove"}
    BY <2>1, Moved
  <2>8. /\ \A i \in 1 .. Count' : Place(i)' \in open'
        /\ \A i, j \in 1 .. Count' : Place(i)' = Place(j)' => i = j
    <3>1. \A i \in 1 .. Count' : Place(i)' \in open'
      BY <1>i, <2>1, <2>4, <2>6 DEF HeldInv
    <3>2. ASSUME NEW i \in 1 .. Count', NEW j \in 1 .. Count', Place(i)' = Place(j)'
          PROVE  i = j
      <4>1. i + 1 = j + 1
        BY <1>i, <2>4, <2>6, <3>2 DEF HeldInv
      <4> QED
        BY <4>1
    <3> QED
      BY <3>1, <3>2
  <2>9. /\ \A s \in Thread : fd'[s] # None => fd'[s] \in open'
        /\ \A r, s \in Thread : fd'[r] = fd'[s] /\ fd'[r] # None => r = s
    BY <1>i, <2>1, <2>2, <2>4 DEF HeldInv
  <2>10. \A s \in Thread, i \in 1 .. Count' : fd'[s] # Place(i)'
    BY <1>i, <2>1, <2>2, <2>4, <2>6 DEF HeldInv
  <2>11. main_pc' \in {"slots", "insert"} =>
          /\ main_fd' \in open'
          /\ \A i \in 1 .. Count' : Place(i)' # main_fd'
          /\ \A s \in Thread : fd'[s] # main_fd'
    BY <1>i, <2>1, <2>2, <2>4, <2>6 DEF HeldInv
  <2>12. \A c \in open' :
          \/ WithMain(c)'
          \/ \E i \in 1 .. Count' : Place(i)' = c
          \/ \E s \in Thread : fd'[s] = c
    <3> TAKE c \in open'
    <3>0. c \in Conn /\ c \in open
      BY <1>t, <2>1
    <3>1. CASE WithMain(c)
      BY <2>1, <3>1 DEF WithMain
    <3>2. ASSUME NEW i \in 1 .. Count, Place(i) = c
          PROVE  \/ \E j \in 1 .. Count' : Place(j)' = c
                 \/ \E s \in Thread : fd'[s] = c
      BY <2>2, <2>5, <2>6, <3>2
    <3>3. ASSUME NEW s \in Thread, fd[s] = c PROVE fd'[s] = c
      BY <1>t, <2>1, <3>0, <3>3
    <3> QED
      BY <1>i, <3>0, <3>1, <3>2, <3>3 DEF HeldInv
  <2> QED
    BY <1>i, <2>1, <2>7, <2>8, <2>9, <2>10, <2>11, <2>12 DEF HeldInv
<1>7. ASSUME NEW t \in Thread, Close(t) PROVE HeldInv'
  <2>1. /\ Same /\ UNCHANGED <<main_pc, main_fd>>
    BY <1>7, CountStep DEF Close, Outside, main
  <2>2. /\ open' = open \ {fd[t]} /\ fd'[t] = None
        /\ \A s \in Thread \ {t} : fd'[s] = fd[s] /\ pc'[s] = pc[s]
    BY <1>7, <1>t, Moved DEF Close
  <2>3. \A i \in 1 .. Count : Place(i) \in open'
    BY <1>i, <2>2 DEF HeldInv
  <2>4. \A c \in open' : c # None /\ c \in open /\ c # fd[t]
    BY <1>t, <2>2
  <2> QED
    BY <1>t, <1>i, <1>s, <2>1, <2>2, <2>3, <2>4 DEF HeldInv, WithMain
<1>8. ASSUME NEW t \in Thread, Exit(t) PROVE HeldInv'
  <2>1. /\ main_pc' = "exited" /\ main_fd' = None /\ open' = {}
        /\ \A s \in Thread : fd'[s] = None /\ pc'[s] = "exited"
    BY <1>8 DEF Exit
  <2>2. Count' = 0
    BY <1>8, CountStep
  <2>3. 1 .. Count' = {}
    BY <2>2
  <2> QED
    BY <1>t, <2>1, <2>3 DEF HeldInv
<1> QED
  BY <1>1, <1>2, <1>3, <1>4, <1>5, <1>6, <1>7, <1>8, Steps

------------------------------------------------------------------------------
(* Sums of sizes, as numbers of bytes. *)
LEMMA BytesFinite ==
    ASSUME NEW s \in Seq(Line)
    PROVE  IsFiniteSet(Bytes(s)) /\ Sum(s) \in Nat
<1>1. IsFiniteSet(1 .. Len(s)) /\ IsFiniteSet(1 .. MAX_OBJECT_SIZE)
  BY ProxyAssumption, FS_Interval
<1>2. IsFiniteSet((1 .. Len(s)) \X (1 .. MAX_OBJECT_SIZE))
  BY <1>1, FS_Product
<1>3. Bytes(s) \subseteq (1 .. Len(s)) \X (1 .. MAX_OBJECT_SIZE)
  BY DEF Bytes
<1>4. IsFiniteSet(Bytes(s))
  BY <1>2, <1>3, FS_Subset
<1> QED
  BY <1>4, FS_CardinalityType DEF Sum

(* What one pair of first element a adds. *)
LEMMA Row ==
    ASSUME NEW a, NEW n \in 0 .. MAX_OBJECT_SIZE
    PROVE  IsFiniteSet({a} \X (1 .. n)) /\ Cardinality({a} \X (1 .. n)) = n
<1>1. n \in Nat
  BY ProxyAssumption
<1>2. IsFiniteSet(1 .. n) /\ Cardinality(1 .. n) = n
  BY <1>1, FS_Interval
<1>3. IsFiniteSet({a}) /\ Cardinality({a}) = 1
  BY FS_Singleton
<1>4. Cardinality({a} \X (1 .. n)) = 1 * n
  BY <1>2, <1>3, FS_Product
<1> QED
  BY <1>1, <1>2, <1>3, <1>4, FS_Product

(* Two disjoint finite sets. *)
LEMMA Disjoint ==
    ASSUME NEW S, NEW T, IsFiniteSet(S), IsFiniteSet(T), S \cap T = {}
    PROVE  IsFiniteSet(S \cup T) /\ Cardinality(S \cup T) = Cardinality(S) + Cardinality(T)
<1>1. Cardinality(S \cap T) = 0
  BY FS_EmptySet
<1>2. Cardinality(S) \in Nat /\ Cardinality(T) \in Nat
  BY FS_CardinalityType
<1>3. /\ IsFiniteSet(S \cup T)
      /\ Cardinality(S \cup T) = Cardinality(S) + Cardinality(T) - Cardinality(S \cap T)
  BY FS_Union
<1> QED
  BY <1>1, <1>2, <1>3

(* A sequence whose lines are those of another, in another order: pi says  *)
(* where each line was.                                                    *)
LEMMA Renumbered ==
    ASSUME NEW s \in Seq(Line), NEW t \in Seq(Line),
           NEW pi \in [1 .. Len(t) -> 1 .. Len(s)],
           \A i, j \in 1 .. Len(t) : pi[i] = pi[j] => i = j,
           \A i \in 1 .. Len(s) : \E j \in 1 .. Len(t) : pi[j] = i,
           \A i \in 1 .. Len(t) : t[i] = s[pi[i]]
    PROVE  Sum(t) = Sum(s)
<1> DEFINE f == [x \in Bytes(t) |-> <<pi[x[1]], x[2]>>]
<1>1. \A x \in Bytes(t) : /\ x = <<x[1], x[2]>> /\ x[1] \in 1 .. Len(t)
                          /\ x[2] \in 1 .. MAX_OBJECT_SIZE /\ x[2] <= t[x[1]].size
  BY DEF Bytes
<1>2. ASSUME NEW i \in 1 .. Len(s), NEW b \in 1 .. MAX_OBJECT_SIZE, b <= s[i].size
      PROVE  <<i, b>> \in Bytes(s)
  BY <1>2 DEF Bytes
<1>3. ASSUME NEW i \in 1 .. Len(t), NEW b \in 1 .. MAX_OBJECT_SIZE, b <= t[i].size
      PROVE  <<i, b>> \in Bytes(t)
  BY <1>3 DEF Bytes
<1>4. \A x \in Bytes(s) : /\ x = <<x[1], x[2]>> /\ x[1] \in 1 .. Len(s)
                          /\ x[2] \in 1 .. MAX_OBJECT_SIZE /\ x[2] <= s[x[1]].size
  BY DEF Bytes
<1>5. f \in [Bytes(t) -> Bytes(s)]
  <2>1. ASSUME NEW x \in Bytes(t) PROVE <<pi[x[1]], x[2]>> \in Bytes(s)
    BY <1>1, <1>2
  <2> QED
    BY <2>1
<1>6. \A x, y \in Bytes(t) : f[x] = f[y] => x = y
  BY <1>1
<1>7. \A y \in Bytes(s) : \E x \in Bytes(t) : f[x] = y
  <2> TAKE y \in Bytes(s)
  <2>1. PICK j \in 1 .. Len(t) : pi[j] = y[1]
    BY <1>4
  <2>2. <<j, y[2]>> \in Bytes(t)
    BY <1>3, <1>4, <2>1
  <2>3. f[<<j, y[2]>>] = <<pi[j], y[2]>>
    BY <2>2
  <2> QED
    BY <1>4, <2>1, <2>2, <2>3
<1> HIDE DEF f
<1>8. f \in Bijection(Bytes(t), Bytes(s))
  BY <1>5, <1>6, <1>7 DEF Bijection, Injection, IsInjective, Surjection
<1>9. ExistsBijection(Bytes(t), Bytes(s))
  BY <1>8 DEF ExistsBijection
<1> QED
  BY <1>9, BytesFinite, FS_Bijection DEF Sum

(* A sequence with one line more, the last. *)
LEMMA SumExtend ==
    ASSUME NEW s \in Seq(Line), NEW t \in Seq(Line), NEW l \in Line, Len(t) = Len(s) + 1,
           t[Len(t)] = l, \A i \in 1 .. Len(s) : t[i] = s[i]
    PROVE  Sum(t) = Sum(s) + l.size
<1> DEFINE n == Len(t)
           D == {n} \X (1 .. l.size)
<1>1. /\ n \in Nat /\ Len(s) \in Nat /\ l.size \in 0 .. MAX_OBJECT_SIZE
      /\ 1 .. n = 1 .. Len(s) \cup {n} /\ n \notin 1 .. Len(s)
  BY DEF Line
<1>2. \A i, b : <<i, b>> \in Bytes(s) <=>
          i \in 1 .. Len(s) /\ b \in 1 .. MAX_OBJECT_SIZE /\ b <= s[i].size
  BY DEF Bytes
<1>3. \A i, b : <<i, b>> \in Bytes(t) <=>
          i \in 1 .. n /\ b \in 1 .. MAX_OBJECT_SIZE /\ b <= t[i].size
  BY DEF Bytes
<1>4. \A i, b : <<i, b>> \in D <=> i = n /\ b \in 1 .. MAX_OBJECT_SIZE /\ b <= l.size
  BY <1>1, ProxyAssumption
<1>5. \A i, b : <<i, b>> \in Bytes(t) <=> <<i, b>> \in Bytes(s) \/ <<i, b>> \in D
  <2> HIDE DEF D
  <2> QED
    BY <1>1, <1>2, <1>3, <1>4
<1>6. \A x \in Bytes(t) \cup Bytes(s) \cup D : \E i, b : x = <<i, b>>
  <2>1. \A x \in Bytes(t) \cup Bytes(s) \cup D : x = <<x[1], x[2]>>
    BY DEF Bytes
  <2> QED
    BY <2>1
<1> HIDE DEF D
<1>7. Bytes(t) = Bytes(s) \cup D
  <2>1. ASSUME NEW x \in Bytes(t) \cup Bytes(s) \cup D
        PROVE  x \in Bytes(t) <=> x \in Bytes(s) \/ x \in D
    <3>1. PICK i, b : x = <<i, b>>
      BY <1>6
    <3> QED
      BY <1>5, <3>1
  <2> QED
    BY <2>1, Zenon
<1>8. Bytes(s) \cap D = {}
  <2>1. \A i, b : ~(<<i, b>> \in Bytes(s) /\ <<i, b>> \in D)
    BY <1>1, <1>2, <1>4
  <2>2. ASSUME NEW x \in Bytes(s), x \in D PROVE FALSE
    <3>1. PICK i, b : x = <<i, b>>
      BY <1>6
    <3> QED
      BY <2>1, <2>2, <3>1
  <2> QED
    BY <2>2
<1>9. IsFiniteSet(D) /\ Cardinality(D) = l.size
  BY <1>1, Row DEF D
<1>10. IsFiniteSet(Bytes(s))
  BY BytesFinite
<1> QED
  BY <1>7, <1>8, <1>9, <1>10, Disjoint DEF Sum

(* add_line(): a line in front. *)
LEMMA SumAdd ==
    ASSUME NEW s \in Seq(Line), NEW l \in Line
    PROVE  <<l>> \o s \in Seq(Line) /\ Sum(<<l>> \o s) = Sum(s) + l.size
<1> DEFINE t == s \o <<l>>
           u == <<l>> \o s
           n == Len(s)
           pi == [i \in 1 .. n + 1 |-> IF i = 1 THEN n + 1 ELSE i - 1]
<1>1. /\ t \in Seq(Line) /\ u \in Seq(Line) /\ Len(t) = n + 1 /\ Len(u) = n + 1 /\ n \in Nat
      /\ t[n + 1] = l /\ \A i \in 1 .. n : t[i] = s[i]
      /\ u[1] = l /\ \A i \in 1 .. n : u[i + 1] = s[i]
  OBVIOUS
<1>2. Sum(t) = Sum(s) + l.size
  <2> HIDE DEF t
  <2> QED
    BY <1>1, SumExtend
<1>3. Sum(u) = Sum(t)
  <2>1. /\ pi \in [1 .. n + 1 -> 1 .. n + 1]
        /\ \A i, j \in 1 .. n + 1 : pi[i] = pi[j] => i = j
    BY <1>1
  <2>2. \A i \in 1 .. n + 1 : \E j \in 1 .. n + 1 : pi[j] = i
    <3> TAKE i \in 1 .. n + 1
    <3>1. CASE i = n + 1
      BY <1>1, <3>1
    <3>2. CASE i # n + 1
      <4>1. i + 1 \in 1 .. n + 1 /\ i + 1 # 1 /\ (i + 1) - 1 = i
        BY <1>1, <3>2
      <4> QED
        BY <4>1
    <3> QED
      BY <3>1, <3>2
  <2>3. \A i \in 1 .. n + 1 : u[i] = t[pi[i]]
    <3> TAKE i \in 1 .. n + 1
    <3>1. CASE i = 1
      BY <1>1, <3>1
    <3>2. CASE i # 1
      <4>1. i - 1 \in 1 .. n /\ (i - 1) + 1 = i /\ pi[i] = i - 1
        BY <1>1, <3>2
      <4>2. u[i] = s[i - 1]
        BY <1>1, <4>1
      <4> QED
        BY <1>1, <4>1, <4>2
    <3> QED
      BY <3>1, <3>2
  <2> HIDE DEF pi, t, u, n
  <2>4. /\ pi \in [1 .. Len(u) -> 1 .. Len(t)]
        /\ \A i, j \in 1 .. Len(u) : pi[i] = pi[j] => i = j
        /\ \A i \in 1 .. Len(t) : \E j \in 1 .. Len(u) : pi[j] = i
        /\ \A i \in 1 .. Len(u) : u[i] = t[pi[i]]
    BY <1>1, <2>1, <2>2, <2>3
  <2>5. u \in Seq(Line) /\ t \in Seq(Line)
    BY <1>1
  <2> QED
    BY <2>4, <2>5, Renumbered
<1> QED
  BY <1>1, <1>2, <1>3

(* remove_line(): the last line. *)
LEMMA SumRemove ==
    ASSUME NEW s \in Seq(Line), s # << >>
    PROVE  /\ Front(s) \in Seq(Line) /\ Last(s) \in Line
           /\ Sum(s) = Sum(Front(s)) + Last(s).size
<1> DEFINE t == SubSeq(s, 1, Len(s) - 1)
<1>1. Len(s) \in Nat \ {0}
  OBVIOUS
<1>2. t \in Seq(Line) /\ Len(t) = Len(s) - 1 /\ \A i \in 1 .. Len(s) - 1 : t[i] = s[i]
  <2>1. \A i \in 1 .. Len(s) - 1 : s[i] \in Line
    BY <1>1
  <2>2. PICK m \in Int : m = Len(s) - 1 /\ m >= 0
    BY <1>1
  <2>3. /\ SubSeq(s, 1, m) \in Seq(Line)
        /\ Len(SubSeq(s, 1, m)) = IF 1 <= m THEN m - 1 + 1 ELSE 0
        /\ \A i \in 1 .. m - 1 + 1 : SubSeq(s, 1, m)[i] = s[1 + i - 1]
    BY <2>1, <2>2, SubSeqProperties
  <2>4. \A i \in 1 .. m : SubSeq(s, 1, m)[i] = s[i]
    <3> TAKE i \in 1 .. m
    <3>1. i \in 1 .. m - 1 + 1 /\ 1 + i - 1 = i
      BY <2>2
    <3> QED
      BY <2>3, <3>1
  <2>5. Len(SubSeq(s, 1, m)) = m
    BY <2>2, <2>3
  <2> QED
    BY <2>2, <2>3, <2>4, <2>5
<1>3. s[Len(s)] \in Line
  BY <1>1
<1>4. Len(s) = Len(t) + 1
  BY <1>1, <1>2
<1> HIDE DEF t
<1>5. \A i \in 1 .. Len(t) : s[i] = t[i]
  BY <1>2
<1>6. Sum(s) = Sum(t) + s[Len(s)].size
  BY <1>2, <1>3, <1>4, <1>5, SumExtend
<1> QED
  BY <1>2, <1>3, <1>6 DEF t, Front, Last

(* visit_line(): the i-th line moves to the front. *)
LEMMA SumMove ==
    ASSUME NEW s \in Seq(Line), NEW i \in 1 .. Len(s)
    PROVE  /\ <<s[i]>> \o RemoveAt(s, i) \in Seq(Line)
           /\ Sum(<<s[i]>> \o RemoveAt(s, i)) = Sum(s)
<1> DEFINE n == Len(s)
           r == RemoveAt(s, i)
           t == <<s[i]>> \o r
           pi == [j \in 1 .. n |-> IF j = 1 THEN i ELSE IF j <= i THEN j - 1 ELSE j]
<1>1. /\ r \in Seq(Line) /\ Len(r) = n - 1 /\ n \in Nat
      /\ \A j \in 1 .. n - 1 : r[j] = IF j < i THEN s[j] ELSE s[j + 1]
  <2> DEFINE a == SubSeq(s, 1, i - 1)
             b == SubSeq(s, i + 1, Len(s))
  <2>1. n \in Nat /\ i \in 1 .. n
    OBVIOUS
  <2>2. a \in Seq(Line) /\ Len(a) = i - 1 /\ \A j \in 1 .. i - 1 : a[j] = s[j]
    BY <2>1
  <2>3. b \in Seq(Line) /\ Len(b) = n - i /\ \A j \in 1 .. n - i : b[j] = s[i + j]
    BY <2>1
  <2> HIDE DEF a, b
  <2>4. a \o b \in Seq(Line) /\ Len(a \o b) = n - 1
    <3>1. a \o b \in Seq(Line) /\ Len(a \o b) = Len(a) + Len(b)
      BY <2>2, <2>3, ConcatProperties
    <3> QED
      BY <2>1, <2>2, <2>3, <3>1
  <2>5. ASSUME NEW j \in 1 .. n - 1
        PROVE  (a \o b)[j] = IF j < i THEN s[j] ELSE s[j + 1]
    <3>1. CASE j < i
      BY <2>1, <2>2, <2>3, <3>1
    <3>2. CASE ~(j < i)
      <4>1. j - (i - 1) \in 1 .. n - i /\ i + (j - (i - 1)) = j + 1
        BY <2>1, <3>2
      <4>2. (a \o b)[j] = b[j - (i - 1)]
        BY <2>1, <2>2, <2>3, <3>2, <4>1
      <4> QED
        BY <2>3, <3>2, <4>1, <4>2
    <3> QED
      BY <3>1, <3>2
  <2>6. r = a \o b
    BY DEF a, b, RemoveAt
  <2> QED
    BY <2>1, <2>4, <2>5, <2>6
<1>2. /\ t \in Seq(Line) /\ Len(t) = n /\ t[1] = s[i]
      /\ \A j \in 2 .. n : t[j] = r[j - 1]
  <2> HIDE DEF r
  <2> QED
    BY <1>1
<1>3. \A j \in 1 .. n : t[j] = s[pi[j]]
  <2> TAKE j \in 1 .. n
  <2> HIDE DEF t, r
  <2>1. CASE j = 1
    BY <1>1, <1>2, <2>1
  <2>2. CASE j # 1 /\ j <= i
    <3>1. j \in 2 .. n /\ j - 1 \in 1 .. n - 1 /\ j - 1 < i /\ pi[j] = j - 1
      BY <1>1, <2>2
    <3> QED
      BY <1>1, <1>2, <3>1
  <2>3. CASE j # 1 /\ ~(j <= i)
    <3>1. j \in 2 .. n /\ j - 1 \in 1 .. n - 1 /\ ~(j - 1 < i) /\ pi[j] = j /\ (j - 1) + 1 = j
      BY <1>1, <2>3
    <3> QED
      BY <1>1, <1>2, <3>1
  <2> QED
    BY <2>1, <2>2, <2>3
<1>4. /\ pi \in [1 .. n -> 1 .. n]
      /\ \A j, k \in 1 .. n : pi[j] = pi[k] => j = k
  BY <1>1
<1>5. \A j \in 1 .. n : \E k \in 1 .. n : pi[k] = j
  <2> TAKE j \in 1 .. n
  <2>1. CASE j = i
    BY <1>1, <2>1
  <2>2. CASE j < i
    <3>1. j + 1 \in 1 .. n /\ j + 1 # 1 /\ j + 1 <= i /\ (j + 1) - 1 = j
      BY <1>1, <2>2
    <3> QED
      BY <3>1
  <2>3. CASE j > i
    BY <1>1, <2>3
  <2> QED
    BY <1>1, <2>1, <2>2, <2>3
<1> HIDE DEF pi, t, r
<1>6. Sum(t) = Sum(s)
  <2>1. /\ pi \in [1 .. Len(t) -> 1 .. Len(s)]
        /\ \A j, k \in 1 .. Len(t) : pi[j] = pi[k] => j = k
        /\ \A j \in 1 .. Len(s) : \E k \in 1 .. Len(t) : pi[k] = j
        /\ \A j \in 1 .. Len(t) : t[j] = s[pi[j]]
    BY <1>2, <1>3, <1>4, <1>5
  <2>2. t \in Seq(Line)
    BY <1>2
  <2> QED
    BY <2>1, <2>2, Renumbered
<1> QED
  BY <1>2, <1>6 DEF t, r

------------------------------------------------------------------------------
(* The cache: what workers have fetched, and its size. *)
LEMMA FetchedStep ==
    ASSUME IInv, Next
    PROVE  FetchedInv'
<1>t. /\ DOMAIN pc = Thread /\ DOMAIN uri = Thread /\ DOMAIN len = Thread
  BY DEF IInv, TypeOK
<1>i. FetchedInv
  BY DEF IInv
<1>1. CASE Accept \/ InsertWait \/ Insert \/ InsertPost
  BY <1>1, <1>i DEF Accept, InsertWait, Insert, InsertPost, workers, FetchedInv
<1>2. ASSUME NEW t \in Thread, RemoveWait(t) \/ Take(t) \/ RemovePost(t) \/ Close(t)
      PROVE  FetchedInv'
  BY <1>2, <1>i, <1>t DEF RemoveWait, Take, RemovePost, Close, Goto, FetchedInv
<1>3. ASSUME NEW t \in Thread, Reject(t) \/ EndInHeaders(t) \/ Miss(t) \/ Fits(t) \/ RemoveLine(t)
      PROVE  FetchedInv'
  BY <1>3, <1>i, <1>t DEF Reject, EndInHeaders, Miss, Fits, RemoveLine, Goto, FetchedInv
<1>4. ASSUME NEW t \in Thread, NEW u \in Uri, Request(t, u)
      PROVE  FetchedInv'
  BY <1>4, <1>i, <1>t DEF Request, Goto, FetchedInv
<1>5. ASSUME NEW t \in Thread, Hit(t) \/ AddLine(t)
      PROVE  FetchedInv'
  BY <1>5, <1>i, <1>t DEF Hit, AddLine, Done, Goto, FetchedInv
<1>6. ASSUME NEW t \in Thread, NEW n \in Sizes, Fetch(t, n)
      PROVE  FetchedInv'
  <2>1. n \in Nat /\ MAX_OBJECT_SIZE \in Nat
    BY ProxyAssumption
  <2>2. CASE n <= MAX_OBJECT_SIZE
    BY <1>6, <1>i, <1>t, <2>1, <2>2 DEF Fetch, Goto, FetchedInv
  <2>3. CASE ~(n <= MAX_OBJECT_SIZE)
    BY <1>6, <1>i, <1>t, <2>3 DEF Fetch, Done, Goto, FetchedInv
  <2> QED
    BY <2>2, <2>3
<1>7. ASSUME NEW t \in Thread, Exit(t)
      PROVE  FetchedInv'
  BY <1>7 DEF Exit, FetchedInv
<1> QED
  BY <1>1, <1>2, <1>3, <1>4, <1>5, <1>6, <1>7, Steps DEF Doit

(* A set of natural numbers has a least element: among the sets of numbers *)
(* below its elements, the smallest.                                       *)
LEMMA LeastNat ==
    ASSUME NEW T, T \subseteq Nat, T # {}
    PROVE  \E x \in T : \A y \in T : x <= y
<1> DEFINE Below(x) == {y \in Nat : y < x}
           F == {Below(x) : x \in T}
<1>1. \A x \in Nat : IsFiniteSet(Below(x)) /\ Below(x) \subseteq Nat
  <2> TAKE x \in Nat
  <2>1. Below(x) \subseteq Nat /\ \A y \in Below(x) : y < x
    OBVIOUS
  <2> HIDE DEF Below
  <2> QED
    BY <2>1, FS_BoundedSetOfNaturals
<1>2. F \subseteq FiniteSubsetsOf(Nat) /\ F # {}
  BY <1>1 DEF FiniteSubsetsOf
<1>3. PICK B \in F : \A C \in F : ~(<<C, B>> \in StrictSubsetOrdering(Nat))
  <2> HIDE DEF F
  <2> QED
    BY <1>2, FS_StrictSubsetOrderingWellFounded, WFMin
<1>4. PICK x \in T : B = Below(x)
  OBVIOUS
<1>5. ASSUME NEW y \in T, y < x PROVE FALSE
  <2>1. Below(y) \subseteq Below(x) /\ x \in Nat /\ y \in Nat
    BY <1>5
  <2>2. y \in Below(x) /\ y \notin Below(y)
    BY <1>5
  <2>3. Below(y) \in F /\ Below(y) # Below(x)
    BY <2>2
  <2> HIDE DEF Below, F
  <2> QED
    BY <1>1, <1>3, <1>4, <2>1, <2>3 DEF StrictSubsetOrdering
<1> QED
  BY <1>5

(* The lines, after each step that changes them.                           *)
LEMMA Found ==
    ASSUME NEW u, Hits(u) # {}, lines \in Seq(Line)
    PROVE  Min(Hits(u)) \in 1 .. Len(lines)
<1>1. Hits(u) \subseteq Nat /\ Hits(u) \subseteq 1 .. Len(lines)
  BY DEF Hits
<1>2. \E x \in Hits(u) : \A y \in Hits(u) : x <= y
  BY <1>1, LeastNat
<1> QED
  BY <1>1, <1>2 DEF Min

LEMMA AddingFinite ==
    IsFiniteSet(Adding) /\ Cardinality(Adding) \in Nat
<1>1. IsFiniteSet(Thread) /\ IsFiniteSet(1 .. MAX_OBJECT_SIZE)
  BY ProxyAssumption, FS_Interval
<1>2. IsFiniteSet(Thread \X (1 .. MAX_OBJECT_SIZE))
  BY <1>1, FS_Product
<1>3. Adding \subseteq Thread \X (1 .. MAX_OBJECT_SIZE)
  BY DEF Adding
<1>4. IsFiniteSet(Adding)
  BY <1>2, <1>3, FS_Subset
<1> QED
  BY <1>4, FS_CardinalityType

(* What the other workers may still add.                                   *)
LEMMA OthersAdd ==
    ASSUME NEW t \in Thread, pc[t] # "add_line"
    PROVE  Cardinality(Adding) <= (Cardinality(Thread) - 1) * MAX_OBJECT_SIZE
<1> DEFINE O == Thread \ {t}
           M == MAX_OBJECT_SIZE
<1>1. IsFiniteSet(O) /\ Cardinality(O) = Cardinality(Thread) - 1
  BY ProxyAssumption, FS_RemoveElement
<1>2. M \in Nat
  BY ProxyAssumption
<1>3. IsFiniteSet(1 .. M) /\ Cardinality(1 .. M) = M
  BY <1>2, FS_Interval
<1>4. IsFiniteSet(O \X (1 .. M)) /\ Cardinality(O \X (1 .. M)) = Cardinality(O) * M
  BY <1>1, <1>3, FS_Product
<1>5. Adding \subseteq O \X (1 .. M)
  BY DEF Adding
<1>6. Cardinality(Adding) <= Cardinality(O \X (1 .. M))
  BY <1>4, <1>5, FS_Subset
<1> QED
  BY <1>1, <1>4, <1>6

LEMMA SameAdding ==
    ASSUME NEW t \in Thread, pc[t] # "add_line", pc'[t] # "add_line",
           \A s \in Thread \ {t} : pc'[s] = pc[s] /\ len'[s] = len[s]
    PROVE  Adding' = Adding
<1>1. ASSUME NEW x \in Thread \X (1 .. MAX_OBJECT_SIZE)
      PROVE  pc'[x[1]] = "add_line" /\ x[2] <= len'[x[1]]
               <=> pc[x[1]] = "add_line" /\ x[2] <= len[x[1]]
  <2>1. x[1] \in Thread
    BY <1>1
  <2>2. CASE x[1] = t
    BY <2>2
  <2>3. CASE x[1] # t
    BY <2>1, <2>3
  <2> QED
    BY <2>2, <2>3
<1> QED
  BY <1>1 DEF Adding

(* The lines are a sequence of lines, and total_size is their sum.         *)
LEMMA LinesStep ==
    ASSUME IInv, Next
    PROVE  lines' \in Seq(Line) /\ total_size' = Sum(lines')
<1>t. lines \in Seq(Line) /\ total_size = Sum(lines) /\ Sum(lines) \in Nat
  BY BytesFinite DEF IInv, TypeOK, SizeInv
<1>0. UNCHANGED cache => lines' \in Seq(Line) /\ total_size' = Sum(lines')
  BY <1>t DEF cache
<1>1. CASE Accept \/ InsertWait \/ Insert \/ InsertPost
  BY <1>0, <1>1 DEF Accept, InsertWait, Insert, InsertPost
<1>2. ASSUME NEW t \in Thread, RemoveWait(t) \/ Take(t) \/ RemovePost(t) \/ Close(t)
      PROVE  lines' \in Seq(Line) /\ total_size' = Sum(lines')
  BY <1>0, <1>2 DEF RemoveWait, Take, RemovePost, Close
<1>3. ASSUME NEW t \in Thread, Reject(t) \/ EndInHeaders(t) \/ (\E u \in Uri : Request(t, u))
                                 \/ Miss(t) \/ (\E n \in Sizes : Fetch(t, n)) \/ Fits(t)
      PROVE  lines' \in Seq(Line) /\ total_size' = Sum(lines')
  BY <1>0, <1>3 DEF Reject, EndInHeaders, Request, Miss, Fetch, Fits
<1>4. ASSUME NEW t \in Thread, Hit(t)
      PROVE  lines' \in Seq(Line) /\ total_size' = Sum(lines')
  <2>1. PICK i \in 1 .. Len(lines) : lines' = <<lines[i]>> \o RemoveAt(lines, i)
    BY <1>4, <1>t, Found DEF Hit
  <2>2. total_size' = total_size
    BY <1>4 DEF Hit
  <2> QED
    BY <1>t, <2>1, <2>2, SumMove
<1>5. ASSUME NEW t \in Thread, RemoveLine(t)
      PROVE  lines' \in Seq(Line) /\ total_size' = Sum(lines')
  <2>1. CASE lines = << >>
    BY <1>0, <1>5, <2>1 DEF RemoveLine
  <2>2. CASE lines # << >>
    <3>1. lines' = Front(lines) /\ total_size' = total_size - Last(lines).size
      BY <1>5, <2>2 DEF RemoveLine
    <3>2. /\ Front(lines) \in Seq(Line) /\ Last(lines) \in Line
          /\ Sum(lines) = Sum(Front(lines)) + Last(lines).size
      BY <1>t, <2>2, SumRemove
    <3>3. Sum(Front(lines)) \in Nat /\ Last(lines).size \in Nat
      BY <3>2, BytesFinite, ProxyAssumption DEF Line
    <3> QED
      BY <1>t, <3>1, <3>2, <3>3
  <2> QED
    BY <2>1, <2>2
<1>6. ASSUME NEW t \in Thread, AddLine(t)
      PROVE  lines' \in Seq(Line) /\ total_size' = Sum(lines')
  <2> DEFINE l == [uri |-> uri[t], size |-> len[t]]
  <2>1. lines' = <<l>> \o lines /\ total_size' = total_size + len[t]
    BY <1>6 DEF AddLine
  <2>2. l \in Line /\ l.size = len[t]
    BY <1>6 DEF AddLine, IInv, FetchedInv, Line
  <2> HIDE DEF l
  <2> QED
    BY <1>t, <2>1, <2>2, SumAdd
<1>7. ASSUME NEW t \in Thread, Exit(t)
      PROVE  lines' \in Seq(Line) /\ total_size' = Sum(lines')
  <2>1. Bytes(<< >>) = {}
    BY DEF Bytes
  <2>2. lines' = << >> /\ total_size' = 0
    BY <1>7 DEF Exit
  <2>3. Sum(<< >>) = 0
    BY <2>1, FS_EmptySet DEF Sum
  <2> QED
    BY <2>2, <2>3
<1> QED
  BY <1>1, <1>2, <1>3, <1>4, <1>5, <1>6, <1>7, Steps DEF Doit

(* One worker's line, among those that may still be added.                 *)
LEMMA AddingRow ==
    ASSUME NEW t \in Thread, NEW n \in 0 .. MAX_OBJECT_SIZE, NEW S,
           S \subseteq (Thread \ {t}) \X (1 .. MAX_OBJECT_SIZE)
    PROVE  Cardinality(S \cup ({t} \X (1 .. n))) = Cardinality(S) + n
<1>1. IsFiniteSet(Thread \ {t}) /\ IsFiniteSet(1 .. MAX_OBJECT_SIZE)
  BY ProxyAssumption, FS_RemoveElement, FS_Interval
<1>2. IsFiniteSet((Thread \ {t}) \X (1 .. MAX_OBJECT_SIZE))
  BY <1>1, FS_Product
<1>3. IsFiniteSet(S)
  BY <1>2, FS_Subset
<1>4. S \cap ({t} \X (1 .. n)) = {}
  OBVIOUS
<1>5. IsFiniteSet({t} \X (1 .. n)) /\ Cardinality({t} \X (1 .. n)) = n
  BY Row
<1> QED
  BY <1>3, <1>4, <1>5, Disjoint

LEMMA SizeStep ==
    ASSUME IInv, Next
    PROVE  SizeInv'
<1> DEFINE A == Cardinality(Adding)
           M == MAX_OBJECT_SIZE
           B == (Cardinality(Thread) - 1) * M
<1>t. /\ total_size \in Nat /\ A \in Nat /\ M \in Nat
      /\ MAX_CACHE_SIZE \in Nat /\ M <= MAX_CACHE_SIZE
      /\ Cardinality(Thread) \in Nat
      /\ DOMAIN pc = Thread /\ DOMAIN len = Thread
  BY ProxyAssumption, AddingFinite, FS_CardinalityType DEF IInv, TypeOK
<1>b. B \in Int
  BY <1>t
<1>i. total_size + A <= MAX_CACHE_SIZE + B
  BY DEF IInv, SizeInv
<1>0. ASSUME Adding' = Adding, total_size' \in Int, total_size' <= total_size
      PROVE  total_size' + A' <= MAX_CACHE_SIZE + B
  BY <1>0, <1>b, <1>t, <1>i
<1>1. ASSUME Accept \/ InsertWait \/ Insert \/ InsertPost
      PROVE  total_size' + A' <= MAX_CACHE_SIZE + B
  <2>1. UNCHANGED <<pc, len, total_size>>
    BY <1>1 DEF Accept, InsertWait, Insert, InsertPost, workers, cache
  <2>2. Adding' = Adding
    BY <2>1 DEF Adding
  <2> QED
    BY <1>0, <1>t, <2>1, <2>2
<1>2. ASSUME NEW t \in Thread, RemoveWait(t) \/ Take(t) \/ RemovePost(t) \/ Close(t)
      PROVE  total_size' + A' <= MAX_CACHE_SIZE + B
  <2>1. UNCHANGED <<len, total_size>> /\ pc[t] # "add_line" /\ pc'[t] # "add_line"
        /\ \A s \in Thread \ {t} : pc'[s] = pc[s]
    BY <1>2, <1>t DEF RemoveWait, Take, RemovePost, Close, cache, Goto
  <2>2. Adding' = Adding
    BY <2>1, SameAdding
  <2> QED
    BY <1>0, <1>t, <2>1, <2>2
<1>3. ASSUME NEW t \in Thread, Reject(t) \/ EndInHeaders(t) \/ (\E u \in Uri : Request(t, u))
                                 \/ Miss(t) \/ (\E n \in Sizes : Fetch(t, n)) \/ Hit(t)
      PROVE  total_size' + A' <= MAX_CACHE_SIZE + B
  <2>1. UNCHANGED total_size /\ pc[t] # "add_line" /\ pc'[t] # "add_line"
        /\ \A s \in Thread \ {t} : pc'[s] = pc[s] /\ len'[s] = len[s]
    BY <1>3, <1>t DEF Reject, EndInHeaders, Request, Miss, Fetch, Hit, Done, cache, Goto
  <2>2. Adding' = Adding
    BY <2>1, SameAdding
  <2> QED
    BY <1>0, <1>t, <2>1, <2>2
<1>4. ASSUME NEW t \in Thread, RemoveLine(t)
      PROVE  total_size' + A' <= MAX_CACHE_SIZE + B
  <2>1. UNCHANGED len /\ pc[t] # "add_line" /\ pc'[t] # "add_line"
        /\ \A s \in Thread \ {t} : pc'[s] = pc[s]
    BY <1>4, <1>t DEF RemoveLine, Goto
  <2>2. Adding' = Adding
    BY <2>1, SameAdding
  <2>3. total_size' \in Int /\ total_size' <= total_size
    <3>1. CASE lines = << >>
      BY <1>4, <1>t, <3>1 DEF RemoveLine, cache
    <3>2. CASE lines # << >>
      <4>1. Last(lines).size \in Nat
        BY <3>2, SumRemove, ProxyAssumption DEF IInv, TypeOK, Line
      <4> QED
        BY <1>4, <1>t, <3>2, <4>1 DEF RemoveLine
    <3> QED
      BY <3>1, <3>2
  <2> QED
    BY <1>0, <2>2, <2>3
<1>5. ASSUME NEW t \in Thread, Fits(t)
      PROVE  total_size' + A' <= MAX_CACHE_SIZE + B
  <2>1. /\ UNCHANGED <<len, total_size>> /\ pc[t] = "fits"
        /\ \A s \in Thread \ {t} : pc'[s] = pc[s]
    BY <1>5, <1>t DEF Fits, Goto, cache
  <2>2. len[t] \in 0 .. M
    BY <2>1 DEF IInv, FetchedInv
  <2>3. CASE total_size + len[t] > MAX_CACHE_SIZE
    <3>1. pc'[t] = "remove_line"
      BY <1>5, <1>t, <2>3 DEF Fits, Goto
    <3>2. Adding' = Adding
      BY <2>1, <3>1, SameAdding
    <3> QED
      BY <1>0, <1>t, <2>1, <3>2
  <2>4. CASE ~(total_size + len[t] > MAX_CACHE_SIZE)
    <3>1. pc'[t] = "add_line"
      BY <1>5, <1>t, <2>4 DEF Fits, Goto
    <3>2. Adding \subseteq (Thread \ {t}) \X (1 .. M)
      BY <2>1 DEF Adding
    <3>3. Adding' = Adding \cup ({t} \X (1 .. len[t]))
      <4>1. ASSUME NEW s \in Thread, NEW k \in 1 .. M
            PROVE  <<s, k>> \in Adding' <=> <<s, k>> \in Adding \/ (s = t /\ k \in 1 .. len[t])
        BY <1>t, <2>1, <2>2, <3>1 DEF Adding
      <4>2. \A x \in Adding' \cup Adding \cup ({t} \X (1 .. len[t])) :
              \E s \in Thread, k \in 1 .. M : x = <<s, k>>
        <5>1. \A x \in Adding' \cup Adding : x \in Thread \X (1 .. M)
          BY DEF Adding
        <5>2. \A x \in {t} \X (1 .. len[t]) : x \in Thread \X (1 .. M)
          BY <1>t, <2>2
        <5> QED
          BY <5>1, <5>2
      <4>3. \A s, k : <<s, k>> \in {t} \X (1 .. len[t]) <=> s = t /\ k \in 1 .. len[t]
        OBVIOUS
      <4> QED
        BY <4>1, <4>2, <4>3
    <3>4. A' = A + len[t]
      BY <2>2, <3>2, <3>3, AddingRow
    <3>5. A <= B
      BY <2>1, OthersAdd
    <3> HIDE DEF A, B
    <3> QED
      BY <1>b, <1>t, <2>1, <2>2, <2>4, <3>4, <3>5
  <2> QED
    BY <2>3, <2>4
<1>6. ASSUME NEW t \in Thread, AddLine(t)
      PROVE  total_size' + A' <= MAX_CACHE_SIZE + B
  <2>1. /\ pc[t] = "add_line" /\ pc'[t] = "close" /\ total_size' = total_size + len[t]
        /\ \A s \in Thread \ {t} : pc'[s] = pc[s] /\ len'[s] = len[s]
    BY <1>6, <1>t DEF AddLine, Done, Goto
  <2>2. len[t] \in 0 .. M
    BY <2>1 DEF IInv, FetchedInv
  <2>3. Adding' \subseteq (Thread \ {t}) \X (1 .. M)
    BY <2>1 DEF Adding
  <2>4. Adding = Adding' \cup ({t} \X (1 .. len[t]))
    <3>1. ASSUME NEW s \in Thread, NEW k \in 1 .. M
          PROVE  <<s, k>> \in Adding <=> <<s, k>> \in Adding' \/ (s = t /\ k \in 1 .. len[t])
      BY <1>t, <2>1, <2>2 DEF Adding
    <3>2. \A x \in Adding' \cup Adding \cup ({t} \X (1 .. len[t])) :
            \E s \in Thread, k \in 1 .. M : x = <<s, k>>
      <4>1. \A x \in Adding' \cup Adding : x \in Thread \X (1 .. M)
        BY DEF Adding
      <4>2. \A x \in {t} \X (1 .. len[t]) : x \in Thread \X (1 .. M)
        BY <1>t, <2>2
      <4> QED
        BY <4>1, <4>2
    <3>3. \A s, k : <<s, k>> \in {t} \X (1 .. len[t]) <=> s = t /\ k \in 1 .. len[t]
      OBVIOUS
    <3> QED
      BY <3>1, <3>2, <3>3
  <2>5. A = A' + len[t]
    BY <2>2, <2>3, <2>4, AddingRow
  <2>6. A' \in Nat
    <3>1. IsFiniteSet(Adding')
      <4>1. IsFiniteSet(Adding) /\ Adding' \subseteq Adding
        BY <2>4, AddingFinite
      <4> QED
        BY <4>1, FS_Subset
    <3> QED
      BY <3>1, FS_CardinalityType
  <2> HIDE DEF A, B
  <2> QED
    BY <1>b, <1>i, <1>t, <2>1, <2>2, <2>5, <2>6
<1>7. ASSUME NEW t \in Thread, Exit(t)
      PROVE  total_size' + A' <= MAX_CACHE_SIZE + B
  <2>1. total_size' = 0 /\ \A s \in Thread : pc'[s] = "exited"
    BY <1>7 DEF Exit
  <2>2. Adding' = {}
    BY <2>1 DEF Adding
  <2>3. A' = 0
    BY <2>2, FS_EmptySet
  <2>4. B >= 0
    <3>1. Cardinality(Thread) # 0
      BY ProxyAssumption, FS_EmptySet
    <3>2. PICK k \in Nat : k = Cardinality(Thread) - 1
      BY <1>t, <3>1
    <3>3. k * M >= 0
      BY <1>t
    <3> QED
      BY <3>2, <3>3
  <2> QED
    BY <1>b, <1>t, <2>1, <2>3, <2>4
<1> HIDE DEF A, B
<1>8. total_size' + A' <= MAX_CACHE_SIZE + B
  BY <1>1, <1>2, <1>3, <1>4, <1>5, <1>6, <1>7, Steps DEF Doit
<1> QED
  BY <1>8, LinesStep DEF SizeInv, A, B

------------------------------------------------------------------------------
(* Types. *)
LEMMA TypeStep ==
    ASSUME IInv, Next
    PROVE  TypeOK'
<1> DEFINE Pc == {"items", "remove", "post", "doit", "headers", "visit", "fetch",
                  "fits", "remove_line", "add_line", "close", "exited"}
           Rest == /\ buf' \in [Index -> Conn \cup {None}]
                   /\ front' \in Index /\ rear' \in Index
                   /\ main_pc' \in {"accept", "slots", "insert", "post", "exited"}
                   /\ main_fd' \in Conn \cup {None} /\ open' \subseteq Conn
                   /\ pc' \in [Thread -> Pc]
                   /\ fd' \in [Thread -> Conn \cup {None}]
                   /\ uri' \in [Thread -> Uri \cup {None}]
                   /\ len' \in [Thread -> Sizes \cup {0}]
<1>t. /\ buf \in [Index -> Conn \cup {None}]
      /\ front \in Index /\ rear \in Index
      /\ main_pc \in {"accept", "slots", "insert", "post", "exited"}
      /\ main_fd \in Conn \cup {None} /\ open \subseteq Conn
      /\ pc \in [Thread -> Pc]
      /\ fd \in [Thread -> Conn \cup {None}]
      /\ uri \in [Thread -> Uri \cup {None}]
      /\ len \in [Thread -> Sizes \cup {0}]
  BY DEF IInv, TypeOK
<1>n. (front + 1) % SBUFSIZE \in Index /\ (rear + 1) % SBUFSIZE \in Index
  BY <1>t, ProxyAssumption, RingSlot
<1>1. ASSUME Accept \/ InsertWait \/ InsertPost PROVE Rest
  BY <1>1, <1>t DEF Accept, InsertWait, InsertPost, sbuf, workers
<1>2. ASSUME Insert PROVE Rest
  BY <1>2, <1>t, <1>n DEF Insert, workers
<1>3. ASSUME NEW t \in Thread, RemoveWait(t) \/ RemovePost(t) \/ Close(t) PROVE Rest
  BY <1>3, <1>t DEF RemoveWait, RemovePost, Close, Goto, main, sbuf
<1>4. ASSUME NEW t \in Thread, Take(t) PROVE Rest
  BY <1>4, <1>t, <1>n DEF Take, Goto, main
<1>5. ASSUME NEW t \in Thread, Reject(t) \/ EndInHeaders(t) \/ Miss(t) \/ Fits(t) \/ RemoveLine(t)
      PROVE  Rest
  BY <1>5, <1>t DEF Reject, EndInHeaders, Miss, Fits, RemoveLine, Goto, main, sbuf
<1>6. ASSUME NEW t \in Thread, NEW u \in Uri, Request(t, u) PROVE Rest
  BY <1>6, <1>t DEF Request, Goto, main, sbuf
<1>7. ASSUME NEW t \in Thread, Hit(t) \/ AddLine(t) PROVE Rest
  BY <1>7, <1>t DEF Hit, AddLine, Done, Goto, main, sbuf
<1>8. ASSUME NEW t \in Thread, NEW n \in Sizes, Fetch(t, n) PROVE Rest
  BY <1>8, <1>t DEF Fetch, Done, Goto, main, sbuf
<1>9. ASSUME NEW t \in Thread, Exit(t) PROVE Rest
  BY <1>9, <1>t DEF Exit
<1> HIDE DEF Rest
<1>10. Rest
  BY <1>1, <1>2, <1>3, <1>4, <1>5, <1>6, <1>7, <1>8, <1>9, Steps DEF Doit
<1>11. slots' \in 0 .. SBUFSIZE /\ items' \in 0 .. SBUFSIZE
  <2>1. /\ CountInv' /\ slots' \in Nat /\ items' \in Nat
    BY CountStep
  <2>2. Posting' \subseteq Thread /\ Removing' \subseteq Thread
    BY DEF Posting, Removing
  <2>3. IsFiniteSet(Posting') /\ IsFiniteSet(Removing')
    BY <2>2, ProxyAssumption, FS_Subset
  <2>4. Cardinality(Posting') \in Nat /\ Cardinality(Removing') \in Nat
    BY <2>3, FS_CardinalityType
  <2>5. Count' = items' + Cardinality(Removing') + (IF main_pc' = "post" THEN 1 ELSE 0)
    BY <2>1 DEF CountInv
  <2>6. Count' = SBUFSIZE - slots' - (IF main_pc' = "insert" THEN 1 ELSE 0)
                   - Cardinality(Posting')
    BY CountIs
  <2>7. PICK u \in {0, 1}, v \in {0, 1} :
           /\ Count' = items' + Cardinality(Removing') + u
           /\ Count' = SBUFSIZE - slots' - v - Cardinality(Posting')
    BY <2>5, <2>6
  <2>8. SBUFSIZE \in Nat
    BY ProxyAssumption
  <2> QED
    BY <2>1, <2>4, <2>7, <2>8
<1>12. lines' \in Seq(Line) /\ total_size' \in Nat
  BY LinesStep, BytesFinite
<1> QED
  BY <1>10, <1>11, <1>12 DEF Rest, TypeOK

------------------------------------------------------------------------------
LEMMA InitInvariant == Init => IInv
<1> SUFFICES ASSUME Init PROVE IInv
  OBVIOUS
<1>t. SBUFSIZE \in Nat \ {0} /\ MAX_OBJECT_SIZE \in Nat /\ MAX_CACHE_SIZE \in Nat
      /\ MAX_OBJECT_SIZE <= MAX_CACHE_SIZE
  BY ProxyAssumption
<1>1. Posting = {} /\ Removing = {} /\ Adding = {} /\ Bytes(<< >>) = {}
  BY DEF Init, Posting, Removing, Adding, Bytes
<1>2. Count = 0 /\ CountInv
  <2>1. Count = 0
    BY <1>1, <1>t, FS_EmptySet, CountIs DEF Init
  <2>2. 0 % SBUFSIZE = 0
    BY <1>t, Wrap
  <2> QED
    BY <1>1, <2>1, <2>2, FS_EmptySet DEF Init, CountInv
<1>3. TypeOK
  <2>1. 0 \in Index /\ SBUFSIZE \in 0 .. SBUFSIZE /\ 0 \in 0 .. SBUFSIZE
    BY <1>t DEF Index
  <2>2. /\ buf \in [Index -> Conn \cup {None}]
        /\ fd \in [Thread -> Conn \cup {None}]
        /\ uri \in [Thread -> Uri \cup {None}]
        /\ len \in [Thread -> Sizes \cup {0}]
    BY DEF Init
  <2>3. lines \in Seq(Line) /\ total_size \in Nat
    BY DEF Init
  <2>4. pc \in [Thread -> {"items", "remove", "post", "doit", "headers", "visit", "fetch",
                           "fits", "remove_line", "add_line", "close", "exited"}]
    BY DEF Init
  <2> QED
    BY <2>1, <2>2, <2>3, <2>4 DEF Init, TypeOK
<1>4. HeldInv
  <2>1. 1 .. Count = {}
    BY <1>2
  <2> QED
    BY <2>1 DEF Init, HeldInv
<1>5. FetchedInv
  BY DEF Init, FetchedInv
<1>6. SizeInv
  <2>1. Sum(lines) = 0 /\ Cardinality(Adding) = 0
    BY <1>1, FS_EmptySet DEF Init, Sum
  <2>2. (Cardinality(Thread) - 1) * MAX_OBJECT_SIZE >= 0 - MAX_OBJECT_SIZE
    <3>1. Cardinality(Thread) \in Nat
      BY ProxyAssumption, FS_CardinalityType
    <3>2. CASE Cardinality(Thread) = 0
      BY <1>t, <3>2
    <3>3. CASE Cardinality(Thread) # 0
      <4>1. PICK k \in Nat : k = Cardinality(Thread) - 1
        BY <3>1, <3>3
      <4>2. k * MAX_OBJECT_SIZE >= 0
        BY <1>t
      <4> QED
        BY <1>t, <4>1, <4>2
    <3> QED
      BY <3>2, <3>3
  <2>3. (Cardinality(Thread) - 1) * MAX_OBJECT_SIZE \in Int
    BY <1>t, ProxyAssumption, FS_CardinalityType
  <2> QED
    BY <1>t, <2>1, <2>2, <2>3 DEF Init, SizeInv
<1> QED
  BY <1>2, <1>3, <1>4, <1>5, <1>6 DEF IInv

LEMMA StepInvariant == IInv /\ [Next]_vars => IInv'
<1> SUFFICES ASSUME IInv, [Next]_vars PROVE IInv'
  OBVIOUS
<1>1. CASE Next
  BY <1>1, TypeStep, CountStep, HeldStep, FetchedStep, SizeStep DEF IInv
<1>2. CASE UNCHANGED vars
  <2> USE <1>2 DEF vars, sbuf, main, workers, cache
  <2>1. Posting' = Posting /\ Removing' = Removing /\ Adding' = Adding
    BY DEF Posting, Removing, Adding
  <2>2. Count' = Count
    BY <2>1, CountIs
  <2>3. TypeOK' /\ CountInv' /\ FetchedInv' /\ SizeInv'
    BY <2>1, <2>2 DEF IInv, TypeOK, CountInv, FetchedInv, SizeInv
  <2>4. HeldInv'
    BY <2>2 DEF IInv, HeldInv, Place, WithMain
  <2> QED
    BY <2>3, <2>4 DEF IInv
<1> QED
  BY <1>1, <1>2

(* The inductive invariant of the proxy, for any number of workers,        *)
(* connections and uris.                                                   *)
THEOREM Invariance == Spec => []IInv
  BY InitInvariant, StepInvariant, PTL DEF Spec

(* Every variable keeps its type; no semaphore exceeds the buffer's size.  *)
THEOREM TypeCorrectness == Spec => []TypeOK
<1>1. IInv => TypeOK
  BY DEF IInv
<1> QED
  BY <1>1, Invariance, PTL

(* total_size is the sum of the sizes of the lines, and the cache outgrows *)
(* its limit by an object for each other worker at most (proxy.c:217).     *)
THEOREM BoundedCache == Spec => []CacheBound
<1>1. IInv => CacheBound
  <2> SUFFICES ASSUME IInv PROVE CacheBound
    OBVIOUS
  <2>1. total_size \in Nat /\ Cardinality(Adding) \in Nat
    BY AddingFinite DEF IInv, TypeOK
  <2>2. (Cardinality(Thread) - 1) * MAX_OBJECT_SIZE \in Int /\ MAX_CACHE_SIZE \in Nat
    BY ProxyAssumption, FS_CardinalityType
  <2> QED
    BY <2>1, <2>2 DEF IInv, SizeInv, CacheBound
<1> QED
  BY <1>1, Invariance, PTL

------------------------------------------------------------------------------
LEMMA AtMostOne ==
    ASSUME NEW S, \A x, y \in S : x = y
    PROVE  IsFiniteSet(S) /\ Cardinality(S) = IF S = {} THEN 0 ELSE 1
<1>1. CASE S = {}
  BY <1>1, FS_EmptySet
<1>2. CASE S # {}
  <2>1. PICK x \in S : S = {x}
    BY <1>2
  <2>2. IsFiniteSet({x}) /\ Cardinality({x}) = 1
    BY FS_Singleton
  <2> QED
    BY <2>1, <2>2
<1> QED
  BY <1>1, <1>2

(* A connection is open as long as one of main(), the buffer and a worker  *)
(* has it, and then one has it, once (sbuf.h:41).                          *)
THEOREM OneHolder == Spec => []HeldOnce
<1>1. IInv => HeldOnce
  <2> SUFFICES ASSUME IInv, NEW c \in Conn
               PROVE  Places(c) = IF c \in open THEN 1 ELSE 0
    BY DEF HeldOnce
  <2> DEFINE W == {i \in 1 .. Count : Waiting[i] = c}
             F == {t \in Thread : fd[t] = c}
  <2>1. Places(c) = (IF WithMain(c) THEN 1 ELSE 0) + Cardinality(W) + Cardinality(F)
    BY DEF Places, WithMain, Quantify
  <2>2. W = {i \in 1 .. Count : Place(i) = c}
    BY DEF Waiting, Place
  <2>3. c # None
    BY ProxyAssumption
  <2>4. (\A i, j \in W : i = j) /\ (\A s, t \in F : s = t)
    BY <2>2, <2>3 DEF IInv, HeldInv
  <2>5. /\ Cardinality(W) = IF W = {} THEN 0 ELSE 1
        /\ Cardinality(F) = IF F = {} THEN 0 ELSE 1
    <3> HIDE DEF W, F
    <3> QED
      BY <2>4, AtMostOne
  <2>6. WithMain(c) => main_pc \in {"slots", "insert"}
    BY <2>3 DEF WithMain, IInv, HeldInv, TypeOK
  <2>7. /\ WithMain(c) => W = {} /\ F = {} /\ c \in open
        /\ W # {} => F = {} /\ c \in open
        /\ F # {} => c \in open
        /\ c \in open => WithMain(c) \/ W # {} \/ F # {}
    BY <2>2, <2>3, <2>6 DEF WithMain, IInv, HeldInv
  <2> HIDE DEF W, F
  <2> QED
    BY <2>1, <2>5, <2>7
<1> QED
  BY <1>1, Invariance, PTL

------------------------------------------------------------------------------
(* The buffer is a queue. *)
LEMMA WaitingSeq ==
    ASSUME IInv
    PROVE  Waiting \in Seq(Conn) /\ Len(Waiting) = Count /\ Count \in Nat
<1>1. Count \in Nat
  BY Bounds
<1>2. Waiting \in [1 .. Count -> Conn]
  BY DEF Waiting, Place, IInv, HeldInv, TypeOK
<1>3. Waiting \in Seq(Conn)
  BY <1>1, <1>2
<1>4. Len(Waiting) \in Nat /\ DOMAIN Waiting = 1 .. Len(Waiting)
  BY <1>3
<1>5. 1 .. Len(Waiting) = 1 .. Count
  BY <1>2, <1>4
<1>6. Len(Waiting) = Count
  BY <1>1, <1>2, <1>3
<1> QED
  BY <1>1, <1>3, <1>6

LEMMA QueueStep ==
    ASSUME IInv, IInv', Next
    PROVE  Queue!Insert \/ Queue!Remove \/ Queue!Drop \/ Waiting' = Waiting
<1>s. /\ Waiting \in Seq(Conn) /\ Len(Waiting) = Count /\ Count \in Nat
      /\ Waiting = [i \in 1 .. Count |-> Place(i)]
  BY WaitingSeq DEF Waiting, Place
<1>n. Waiting' = [i \in 1 .. Count' |-> Place(i)']
  BY DEF Waiting, Place
<1>1. CASE Same
  <2>1. Count' = Count /\ \A i \in 1 .. Count : Place(i)' = Place(i)
    BY <1>1, PlacesStep DEF Same
  <2> QED
    BY <1>s, <1>n, <2>1
<1>2. CASE Insert
  <2>1. Count' = Count + 1 /\ main_pc = "insert"
    BY <1>2, CountStep DEF Insert
  <2>2. Count < SBUFSIZE /\ main_fd \in Conn
    BY <2>1, Bounds DEF IInv, HeldInv, TypeOK
  <2>3. /\ \A i \in 1 .. Count : Place(i)' = Place(i)
        /\ \A i \in 1 .. Count' : i = Count' => Place(i)' = main_fd
    BY <1>2, PlacesStep DEF Place
  <2>4. Waiting' = Append(Waiting, main_fd)
    <3>1. /\ Append(Waiting, main_fd) \in Seq(Conn) /\ Len(Append(Waiting, main_fd)) = Count + 1
          /\ Append(Waiting, main_fd)[Count + 1] = main_fd
          /\ \A i \in 1 .. Count : Append(Waiting, main_fd)[i] = Waiting[i]
      BY <1>s, <2>2
    <3>2. Append(Waiting, main_fd) = [i \in 1 .. Count + 1 |-> Append(Waiting, main_fd)[i]]
      <4>1. PICK t \in Seq(Conn) : t = Append(Waiting, main_fd)
        BY <3>1
      <4>2. t \in [1 .. Len(t) -> Conn]
        BY <4>1, LenProperties
      <4>3. t = [i \in 1 .. Len(t) |-> t[i]]
        BY <4>2
      <4>4. Len(t) = Count + 1
        BY <3>1, <4>1
      <4> QED
        BY <4>1, <4>3, <4>4
    <3>3. \A i \in 1 .. Count + 1 : i \in 1 .. Count \/ i = Count + 1
      BY <1>s
    <3>4. \A i \in 1 .. Count + 1 : Place(i)' = Append(Waiting, main_fd)[i]
      BY <1>s, <2>1, <2>3, <3>1, <3>3
    <3> QED
      BY <1>n, <2>1, <3>2, <3>4
  <2> QED
    BY <1>s, <2>2, <2>4 DEF Queue!Insert
<1>3. ASSUME NEW t \in Thread, Take(t) PROVE Queue!Remove
  <2>1. Count' = Count - 1 /\ Count > 0 /\ \A i \in 1 .. Count - 1 : Place(i)' = Place(i + 1)
    BY <1>3, CountStep, PlacesStep
  <2>2. Waiting # << >>
    BY <1>s, <2>1
  <2>3. Waiting' = Tail(Waiting)
    <3>1. Tail(Waiting) = [i \in 1 .. Count - 1 |-> Waiting[i + 1]]
      BY <1>s, <2>1, <2>2
    <3>2. \A i \in 1 .. Count - 1 : Place(i)' = Waiting[i + 1]
      BY <1>s, <2>1
    <3> QED
      BY <1>n, <2>1, <3>1, <3>2
  <2> QED
    BY <2>2, <2>3 DEF Queue!Remove
<1>4. ASSUME NEW t \in Thread, Exit(t) PROVE Queue!Drop
  <2>1. Count' = 0
    BY <1>4, CountStep
  <2>2. Waiting' = << >>
    BY <1>n, <2>1
  <2> QED
    BY <2>2 DEF Queue!Drop
<1> QED
  BY <1>1, <1>2, <1>3, <1>4, CountStep, Steps DEF Outside

(* The buffer with its semaphores is a bounded queue: connections leave it *)
(* in the order in which main() put them there, and none is put into a     *)
(* full buffer or taken from an empty one.                                 *)
THEOREM BufferIsQueue == Spec => QueueSpec
<1>1. Init => Queue!Init
  <2> SUFFICES ASSUME Init PROVE Queue!Init
    OBVIOUS
  <2>1. Waiting \in Seq(Conn) /\ Len(Waiting) = Count
    BY InitInvariant, WaitingSeq
  <2>2. Posting = {} /\ SBUFSIZE \in Nat
    BY ProxyAssumption DEF Init, Posting
  <2>3. Count = 0
    BY <2>2, FS_EmptySet, CountIs DEF Init
  <2> QED
    BY <2>1, <2>3 DEF Queue!Init
<1>2. IInv /\ IInv' /\ [Next]_vars => [Queue!Insert \/ Queue!Remove \/ Queue!Drop]_Waiting
  <2>1. UNCHANGED vars => Waiting' = Waiting
    <3> SUFFICES ASSUME UNCHANGED vars PROVE Waiting' = Waiting
      OBVIOUS
    <3>1. Posting' = Posting
      BY DEF Posting, vars, workers
    <3>2. Count' = Count
      BY <3>1, CountIs DEF vars, sbuf, main
    <3> QED
      BY <3>2 DEF Waiting, vars, sbuf
  <2> QED
    BY <2>1, QueueStep
<1> QED
  BY <1>1, <1>2, Invariance, PTL DEF Spec, QueueSpec, Queue!Spec
=============================================================================
