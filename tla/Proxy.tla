-------------------------------- MODULE Proxy --------------------------------
(***************************************************************************)
(* The caching proxy of the proxy lab (proxy.c, cache.c, sbuf.h): the main *)
(* thread accepts connections and puts them into a bounded buffer, from    *)
(* which worker threads take them; the workers share a cache, a list in    *)
(* order of use under one lock, whose size they test without it.           *)
(***************************************************************************)
EXTENDS Integers, FiniteSetsExt, SequencesExt

CONSTANTS
    Thread,         \* the NTHREADS workers
    Conn,           \* descriptors of connections with clients
    None,           \* no connection, no uri
    Uri,            \* uris that parse_uri() accepts
    SBUFSIZE,
    MAX_CACHE_SIZE,
    MAX_OBJECT_SIZE,
    Sizes           \* the lengths of the answers servers give

ASSUME ProxyAssumption ==
    /\ IsFiniteSet(Thread)
    /\ SBUFSIZE \in Nat \ {0} /\ MAX_CACHE_SIZE \in Nat
    /\ MAX_OBJECT_SIZE \in 0 .. MAX_CACHE_SIZE
    /\ Sizes \subseteq Nat /\ None \notin Conn \cup Uri

VARIABLES
    buf,            \* sbuf.buf
    front, rear,    \* sbuf.front and sbuf.rear, modulo n
    slots, items,   \* semaphores
    main_pc,        \* where main() is
    main_fd,        \* its connfd
    open,           \* the connections accepted and not yet closed
    pc,             \* where each worker is
    fd,             \* its connfd
    uri,            \* the uri its client asks for
    len,            \* total_len of serve_as_client()
    lines,          \* cache->head->next and on
    total_size      \* cache->total_size

sbuf == <<buf, front, rear, slots, items>>
main == <<main_pc, main_fd>>
workers == <<pc, fd, uri, len>>
cache == <<lines, total_size>>
vars == <<sbuf, main, open, workers, cache>>

Index == 0 .. SBUFSIZE - 1
Line == [uri : Uri, size : Sizes \cap (0 .. MAX_OBJECT_SIZE)]

(* The sum of the sizes of lines, as the number of their bytes. *)
Bytes(s) == {x \in (DOMAIN s) \X (1 .. MAX_OBJECT_SIZE) : x[2] <= s[x[1]].size}
Sum(s) == Cardinality(Bytes(s))

Init ==
    /\ buf = [i \in Index |-> None] /\ front = 0 /\ rear = 0
    /\ slots = SBUFSIZE /\ items = 0
    /\ main_pc = "accept" /\ main_fd = None
    /\ open = {}
    /\ pc = [t \in Thread |-> "items"]
    /\ fd = [t \in Thread |-> None]
    /\ uri = [t \in Thread |-> None]
    /\ len = [t \in Thread |-> 0]
    /\ lines = << >> /\ total_size = 0

------------------------------------------------------------------------------
(* main() and sbuf_insert(): what sbuf.mutex protects is one step. *)

(* The kernel gives a descriptor that is closed. *)
Accept ==
    /\ main_pc = "accept"
    /\ \E c \in Conn \ open : main_fd' = c /\ open' = open \cup {c}
    /\ main_pc' = "slots"
    /\ UNCHANGED <<sbuf, workers, cache>>

(* Mutant of InsertWait: the buffer is not waited for. *)
InsertUnbounded ==
    /\ main_pc = "slots"
    /\ slots' = slots - 1
    /\ main_pc' = "insert"
    /\ UNCHANGED <<buf, front, rear, items, main_fd, open, workers, cache>>

InsertWait ==
    /\ main_pc = "slots" /\ slots > 0
    /\ slots' = slots - 1
    /\ main_pc' = "insert"
    /\ UNCHANGED <<buf, front, rear, items, main_fd, open, workers, cache>>

Insert ==
    /\ main_pc = "insert"
    /\ rear' = (rear + 1) % SBUFSIZE
    /\ buf' = [buf EXCEPT ![rear'] = main_fd]
    /\ main_pc' = "post"
    /\ UNCHANGED <<front, slots, items, main_fd, open, workers, cache>>

InsertPost ==
    /\ main_pc = "post"
    /\ items' = items + 1
    /\ main_pc' = "accept" /\ main_fd' = None
    /\ UNCHANGED <<buf, front, rear, slots, open, workers, cache>>

Main == Accept \/ InsertWait \/ Insert \/ InsertPost

------------------------------------------------------------------------------
(* thread() and sbuf_remove() *)

Goto(t, label) == pc' = [pc EXCEPT ![t] = label]

(* Mutant of RemoveWait: items is tested and not taken. *)
RemovePeek(t) ==
    /\ pc[t] = "items" /\ items > 0
    /\ Goto(t, "remove")
    /\ UNCHANGED <<sbuf, main, open, fd, uri, len, cache>>

RemoveWait(t) ==
    /\ pc[t] = "items" /\ items > 0
    /\ items' = items - 1
    /\ Goto(t, "remove")
    /\ UNCHANGED <<buf, front, rear, slots, main, open, fd, uri, len, cache>>

(* Mutant of Take: the index goes up after the slot is read. *)
TakeBefore(t) ==
    /\ pc[t] = "remove"
    /\ front' = (front + 1) % SBUFSIZE
    /\ fd' = [fd EXCEPT ![t] = buf[front]]
    /\ Goto(t, "post")
    /\ UNCHANGED <<buf, rear, slots, items, main, open, uri, len, cache>>

Take(t) ==
    /\ pc[t] = "remove"
    /\ front' = (front + 1) % SBUFSIZE
    /\ fd' = [fd EXCEPT ![t] = buf[front']]
    /\ Goto(t, "post")
    /\ UNCHANGED <<buf, rear, slots, items, main, open, uri, len, cache>>

(* Mutant of RemovePost: the slot is not given back. *)
RemoveKeepsSlot(t) ==
    /\ pc[t] = "post"
    /\ Goto(t, "doit")
    /\ UNCHANGED <<sbuf, main, open, fd, uri, len, cache>>

RemovePost(t) ==
    /\ pc[t] = "post"
    /\ slots' = slots + 1
    /\ Goto(t, "doit")
    /\ UNCHANGED <<buf, front, rear, items, main, open, fd, uri, len, cache>>

Close(t) ==
    /\ pc[t] = "close"
    /\ open' = open \ {fd[t]}
    /\ fd' = [fd EXCEPT ![t] = None]
    /\ Goto(t, "items")
    /\ UNCHANGED <<sbuf, main, uri, len, cache>>

------------------------------------------------------------------------------
(* doit() and serve_as_client() *)

(* Back to thread(), out of the scope of uri and total_len. *)
Done(t) ==
    /\ uri' = [uri EXCEPT ![t] = None]
    /\ len' = [len EXCEPT ![t] = 0]
    /\ Goto(t, "close")

(* The request: nothing, a method other than GET, a uri that does not      *)
(* parse, which nothing in the cache has; or a uri.                        *)
Reject(t) ==
    /\ pc[t] = "doit"
    /\ Goto(t, "close")
    /\ UNCHANGED <<sbuf, main, open, fd, uri, len, cache>>

(* The client closes before the blank line: read_requesthdrs() reads end   *)
(* of file again and again.                                                *)
EndInHeaders(t) ==
    /\ pc[t] = "doit"
    /\ Goto(t, "headers")
    /\ UNCHANGED <<sbuf, main, open, fd, uri, len, cache>>

Request(t, u) ==
    /\ pc[t] = "doit"
    /\ uri' = [uri EXCEPT ![t] = u]
    /\ Goto(t, "visit")
    /\ UNCHANGED <<sbuf, main, open, fd, len, cache>>

Hits(u) == {i \in DOMAIN lines : lines[i].uri = u}

(* visit_line(): the line moves to the front. *)
Hit(t) ==
    /\ pc[t] = "visit" /\ Hits(uri[t]) # {}
    /\ LET i == Min(Hits(uri[t]))
       IN  lines' = <<lines[i]>> \o RemoveAt(lines, i)
    /\ Done(t)
    /\ UNCHANGED <<sbuf, main, open, fd, total_size>>

Miss(t) ==
    /\ pc[t] = "visit" /\ Hits(uri[t]) = {}
    /\ Goto(t, "fetch")
    /\ UNCHANGED <<sbuf, main, open, fd, uri, len, cache>>

(* The server's answer, on its way to the client. *)
Fetch(t, n) ==
    /\ pc[t] = "fetch"
    /\ IF n <= MAX_OBJECT_SIZE
       THEN len' = [len EXCEPT ![t] = n] /\ Goto(t, "fits") /\ UNCHANGED uri
       ELSE Done(t)
    /\ UNCHANGED <<sbuf, main, open, fd, cache>>

(* Mutant of Fits: the test leaves out what is to be added. *)
FitsNow(t) ==
    /\ pc[t] = "fits"
    /\ Goto(t, IF total_size > MAX_CACHE_SIZE THEN "remove_line" ELSE "add_line")
    /\ UNCHANGED <<sbuf, main, open, fd, uri, len, cache>>

(* total_size is read without rwlock. *)
Fits(t) ==
    /\ pc[t] = "fits"
    /\ Goto(t, IF total_size + len[t] > MAX_CACHE_SIZE
               THEN "remove_line" ELSE "add_line")
    /\ UNCHANGED <<sbuf, main, open, fd, uri, len, cache>>

RemoveLine(t) ==
    /\ pc[t] = "remove_line"
    /\ IF lines = << >> THEN UNCHANGED cache
       ELSE /\ lines' = Front(lines)
            /\ total_size' = total_size - Last(lines).size
    /\ Goto(t, "fits")
    /\ UNCHANGED <<sbuf, main, open, fd, uri, len>>

AddLine(t) ==
    /\ pc[t] = "add_line"
    /\ lines' = <<[uri |-> uri[t], size |-> len[t]]>> \o lines
    /\ total_size' = total_size + len[t]
    /\ Done(t)
    /\ UNCHANGED <<sbuf, main, open, fd>>

------------------------------------------------------------------------------
(* An error on any descriptor, of accept(), a client or a server, ends the *)
(* process (unix_error() of csapp.c), and with it all connections.         *)
Exit(t) ==
    /\ pc[t] \in {"doit", "fetch", "close"} \/ main_pc = "accept"
    /\ main_pc' = "exited" /\ main_fd' = None /\ open' = {}
    /\ pc' = [s \in Thread |-> "exited"]
    /\ fd' = [s \in Thread |-> None] /\ uri' = [s \in Thread |-> None]
    /\ len' = [s \in Thread |-> 0]
    /\ slots' = SBUFSIZE /\ items' = 0
    /\ lines' = << >> /\ total_size' = 0
    /\ UNCHANGED <<buf, front, rear>>

Doit(t) ==
    \/ Reject(t) \/ EndInHeaders(t) \/ \E u \in Uri : Request(t, u)
    \/ Hit(t) \/ Miss(t)
    \/ \E n \in Sizes : Fetch(t, n)
    \/ Fits(t) \/ RemoveLine(t) \/ AddLine(t)

Worker(t) ==
    \/ RemoveWait(t) \/ Take(t) \/ RemovePost(t)
    \/ Doit(t) \/ Close(t)

Next == Main \/ \E t \in Thread : Worker(t) \/ Exit(t)

(* Clients and servers answer in the end, and threads run.  Nobody needs   *)
(* to connect.                                                             *)
Spec ==
    /\ Init /\ [][Next]_vars
    /\ WF_vars(Main /\ main_pc # "accept")
    /\ \A t \in Thread : WF_vars(Worker(t))

------------------------------------------------------------------------------
TypeOK ==
    /\ buf \in [Index -> Conn \cup {None}]
    /\ front \in Index /\ rear \in Index
    /\ slots \in 0 .. SBUFSIZE /\ items \in 0 .. SBUFSIZE
    /\ main_pc \in {"accept", "slots", "insert", "post", "exited"}
    /\ main_fd \in Conn \cup {None} /\ open \subseteq Conn
    /\ pc \in [Thread -> {"items", "remove", "post", "doit", "headers", "visit", "fetch",
                          "fits", "remove_line", "add_line", "close", "exited"}]
    /\ fd \in [Thread -> Conn \cup {None}]
    /\ uri \in [Thread -> Uri \cup {None}]
    /\ len \in [Thread -> Sizes \cup {0}]
    /\ lines \in Seq(Line) /\ total_size \in Nat

(* The connections in the buffer, oldest first. *)
Count ==
    SBUFSIZE - slots
      - (IF main_pc = "insert" THEN 1 ELSE 0)
      - Quantify(Thread, LAMBDA t : pc[t] = "post")

Waiting == [i \in 1 .. Count |-> buf[(front + i) % SBUFSIZE]]

Queue == INSTANCE ConnQueue WITH
    Conn <- Conn, Bound <- SBUFSIZE, queue <- Waiting

QueueSpec == Queue!Spec

(* Each open connection is in one place: with main(), in the buffer once,  *)
(* or with one worker.  None is lost, or given to two workers.             *)
Places(c) ==
    (IF main_fd = c /\ main_pc # "post" THEN 1 ELSE 0)
      + Quantify(1 .. Count, LAMBDA i : Waiting[i] = c)
      + Quantify(Thread, LAMBDA t : fd[t] = c)

HeldOnce == \A c \in Conn : Places(c) = IF c \in open THEN 1 ELSE 0

(* The test and the insertion are apart, so the cache may outgrow its      *)
(* limit, but by no more than an object for each of the other workers.     *)
CacheBound ==
    /\ total_size = Sum(lines)
    /\ total_size <= MAX_CACHE_SIZE + (Cardinality(Thread) - 1) * MAX_OBJECT_SIZE

(* Every connection is closed in the end, but for that of a client that    *)
(* ends in mid-request, of a worker that evicts lines (others may fill the *)
(* cache again each time before it looks), and when the former kind has    *)
(* taken all workers.                                                      *)
Served ==
    \A c \in Conn :
        c \in open ~>
            \/ c \notin open
            \/ \E t \in Thread : fd[t] = c /\ pc[t] \in {"headers", "remove_line"}
            \/ \A t \in Thread : pc[t] = "headers"
=============================================================================
