------------------------------ MODULE LogProofs ------------------------------
(***************************************************************************)
(* Proofs about Log, for any calls, blocks, sizes and number of crashes.   *)
(* Its control: types, that commits exclude calls and each other, that     *)
(* no call is left asleep, and that log_write() and end_op() do not panic. *)
(***************************************************************************)
EXTENDS Log, FiniteSetTheorems, TLAPS

(* Where calls are, and recovery. *)
Label == {"begin", "asleep", "run", "modified", "write_log", "write_head",
          "install", "clear", "wake", "done", "lost", "read_head", "up"}

(* A call in the commit phase of end_op(), and those that use log.lh there. *)
CommitPc == {"write_log", "write_head", "install", "clear", "wake"}
Logs == {"write_log", "write_head", "install", "clear"}

(* The phases of calls and of recovery exclude each other. *)
PhaseInv ==
    /\ pc[Boot] \in {"read_head", "install", "clear", "up"}
    /\ \A o \in Op : pc[o] \notin {"read_head", "up"}
    /\ pc[Boot] # "up" =>
          /\ ~committing
          /\ \A o \in Op : pc[o] \in {"begin", "done", "lost"}

(* One thread commits, while no call is active. *)
CommitInv ==
    /\ \A o \in Op : pc[o] \in CommitPc => committing
    /\ committing => outstanding = 0
    /\ \A o, q \in Op : pc[o] \in CommitPc /\ pc[q] \in CommitPc => o = q

(* outstanding counts the calls between begin_op() and end_op(). *)
CountInv == outstanding = Cardinality(Active)

(* An active call holds at most one buffer, alone, and log_write() has     *)
(* seen all it wrote but that buffer.                                      *)
TargetInv ==
    \A o \in Op :
        /\ target[o] # NoBlock <=> pc[o] = "modified"
        /\ target[o] # NoBlock => target[o] \in wrote[o] /\ target[o] \in cached
        /\ \A q \in Op : target[o] = target[q] /\ target[o] # NoBlock => o = q
        /\ wrote[o] # {} => pc[o] \in {"run", "modified"}
        /\ Cardinality(wrote[o]) <= OpWrites
        /\ \A b \in wrote[o] : Logged(b) \/ target[o] = b

(* The log has each block once, and leaves room for the header. *)
LogInv ==
    /\ \A i, j \in DOMAIN lh : lh[i] = lh[j] => i = j
    /\ Len(lh) < Nlog

(* The log is empty between two commits, and not empty in one. *)
EmptyInv ==
    /\ pc[Boot] = "up" /\ outstanding = 0 /\ ~committing => lh = <<>>
    /\ pc[Boot] = "install" => lh # <<>>
    /\ \A o \in Op : /\ pc[o] \in Logs => lh # <<>>
                     /\ pc[o] = "wake" => lh = <<>>

(* The loops over the log stay inside it. *)
TailInv ==
    \A t \in Thread :
        /\ pc[t] \notin {"write_log", "install"} => tail[t] = 1
        /\ pc[t] \in {"write_log", "install"} => tail[t] <= Len(lh)

(* The header on the disk is empty, or that of the log being installed. *)
HeadInv ==
    /\ \A i, j \in DOMAIN head : head[i] = head[j] => i = j
    /\ Len(head) < Nlog
    /\ \A t \in Thread : pc[t] \in {"install", "clear"} => head = lh
    /\ pc[Boot] = "up" /\ (\A o \in Op : pc[o] \notin {"install", "clear"})
          => head = <<>>

(* The log space that active calls may still use: a credit for each block  *)
(* of a reservation but those that are in the log.                         *)
Spent(o) == {b \in wrote[o] : Logged(b)}
Credits ==
    {c \in Op \X (1 .. MaxOpBlocks) :
        c[1] \in Active /\ c[2] > Cardinality(Spent(c[1]))}
SpaceInv == pc[Boot] = "up" => Len(lh) + Cardinality(Credits) <= LogSize

(* The inductive invariant. *)
IInv ==
    /\ TypeOK /\ PhaseInv /\ CommitInv /\ CountInv /\ TargetInv
    /\ LogInv /\ EmptyInv /\ TailInv /\ HeadInv /\ SpaceInv /\ NoMissedWakeup

------------------------------------------------------------------------------
(* What the proofs use of the constants. *)
LEMMA ThreadFacts ==
    /\ Thread = Op \cup {Boot} /\ Boot \notin Op /\ NoBlock \notin Block
    /\ LogSize \in Nat /\ Nlog \in Nat /\ MaxOpBlocks \in Nat
    /\ OpWrites \in Nat /\ MaxCrash \in Nat /\ MaxOpBlocks >= 1 /\ LogSize >= 1
    /\ Nlog >= 1 /\ OpWrites <= MaxOpBlocks
BY ThreadAssumption, BlockAssumption, SizeAssumption DEF Thread

(* The steps, with Install and Clear for calls and for recovery. *)
LEMMA StepCases ==
    ASSUME [Next]_vars
    PROVE  \/ \E o \in Op : BeginOp(o) \/ LogWrite(o) \/ EndOp(o) \/ WriteLog(o)
                            \/ WriteHead(o) \/ Wake(o)
           \/ \E t \in Thread : Install(t) \/ Clear(t)
           \/ \E o \in Op, b \in Block : Modify(o, b)
           \/ \E b \in Block : Recycle(b)
           \/ ReadHead \/ Crash \/ UNCHANGED vars
BY DEF Next, OpStep, BootStep, Thread

(* Sequences of blocks, and what Append() does to them. *)
LEMMA SeqFacts ==
    ASSUME NEW s \in Seq(Block)
    PROVE  /\ Len(s) \in Nat /\ DOMAIN s = 1 .. Len(s)
           /\ \A i \in 1 .. Len(s) : s[i] \in Block
           /\ s = <<>> <=> Len(s) = 0
OBVIOUS

LEMMA AppendFacts ==
    ASSUME NEW s \in Seq(Block), NEW b \in Block
    PROVE  /\ Append(s, b) \in Seq(Block) /\ Len(Append(s, b)) = Len(s) + 1
           /\ \A i \in 1 .. Len(s) : Append(s, b)[i] = s[i]
           /\ Append(s, b)[Len(s) + 1] = b
OBVIOUS

(* begin_op(), which sleeps or goes on. *)
Begun(o) ==
    /\ pc[o] = "begin" /\ pc[Boot] = "up"
    /\ \/ /\ MustWait /\ pc' = [pc EXCEPT ![o] = "asleep"]
          /\ UNCHANGED outstanding
       \/ /\ ~MustWait /\ ~committing /\ pc' = [pc EXCEPT ![o] = "run"]
          /\ outstanding' = outstanding + 1
    /\ UNCHANGED <<storage, buffers, lh, committing, tail, target, wrote,
                   crashes>>

(* It is what begin_op() does. *)
LEMMA BeginOpEffect == ASSUME NEW o \in Op, BeginOp(o) PROVE Begun(o)
BY Zenon DEF BeginOp, Begun, MustWait, Goto

(* What the steps do to pc and tail keeps their types. *)
LEMMA GotoType ==
    ASSUME TypeOK, NEW t \in Thread, NEW l \in Label, Goto(t, l)
    PROVE  pc' \in [Thread -> Label]
<1>1. pc \in [Thread -> Label]
  BY DEF TypeOK, Label
<1>. QED BY <1>1 DEF Goto

LEMMA WakeupAtType ==
    ASSUME TypeOK, NEW t \in Thread, NEW l \in Label, WakeupAt(t, l)
    PROVE  pc' \in [Thread -> Label]
<1>1. pc \in [Thread -> Label] /\ "begin" \in Label
  BY DEF TypeOK, Label
<1>. QED BY <1>1 DEF WakeupAt

LEMMA IterateType ==
    ASSUME TypeOK, NEW t \in Thread, NEW l \in Label, Iterate(t, l)
    PROVE  pc' \in [Thread -> Label] /\ tail' \in [Thread -> 1 .. LogSize]
<1>1. pc \in [Thread -> Label] /\ tail \in [Thread -> 1 .. LogSize]
  BY DEF TypeOK, Label
<1>2. Len(lh) \in Nat /\ Len(lh) <= LogSize
  BY SeqFacts DEF TypeOK
<1>3. CASE tail[t] < Len(lh)
  BY <1>1, <1>2, <1>3, ThreadFacts DEF Iterate
<1>4. CASE ~(tail[t] < Len(lh))
  BY <1>1, <1>4, GotoType, ThreadFacts DEF Iterate
<1>. QED BY <1>3, <1>4

(* A buffer and a home block have contents of the same type. *)
LEMMA ReadType ==
    ASSUME TypeOK, NEW b \in Block
    PROVE  Read(b) \in Content
BY DEF TypeOK, Read

(* The loops over the log stay inside it. *)
LEMMA LoopIndex ==
    ASSUME TypeOK, LogInv, TailInv, NEW t \in Thread,
           pc[t] \in {"write_log", "install"}
    PROVE  /\ tail[t] \in DOMAIN lh /\ tail[t] \in LogBlock
           /\ lh[tail[t]] \in Block
<1>1. tail[t] \in 1 .. LogSize /\ lh \in Seq(Block)
  BY DEF TypeOK
<1>2. tail[t] <= Len(lh) /\ Len(lh) < Nlog
  BY DEF LogInv, TailInv
<1>. QED BY <1>1, <1>2, SeqFacts, ThreadFacts DEF LogBlock

(* outstanding counts the active calls. *)
LEMMA ActiveFacts ==
    ASSUME TypeOK, CountInv
    PROVE  /\ IsFiniteSet(Active)
           /\ outstanding = 0 <=> \A o \in Op : pc[o] \notin {"run", "modified"}
           /\ \A o, q \in Op :
                 (/\ outstanding = 1
                  /\ pc[o] \in {"run", "modified"}
                  /\ pc[q] \in {"run", "modified"}) => o = q
<1>1. IsFiniteSet(Active)
  BY ThreadAssumption, FS_Subset DEF Active
<1>2. outstanding = 0 <=> Active = {}
  BY <1>1, FS_EmptySet DEF CountInv
<1>3. ASSUME outstanding = 1 PROVE \E o : Active = {o}
  BY <1>1, <1>3, FS_Singleton DEF CountInv
<1>4. ASSUME NEW o \in Op, NEW q \in Op, outstanding = 1,
             pc[o] \in {"run", "modified"}, pc[q] \in {"run", "modified"}
      PROVE  o = q
  <2>1. o \in Active /\ q \in Active
    BY <1>4 DEF Active
  <2>. QED BY <1>3, <1>4, <2>1
<1>5. Active = {} <=> \A o \in Op : pc[o] \notin {"run", "modified"}
  BY DEF Active
<1>. QED BY <1>1, <1>2, <1>4, <1>5

(* A call that is active becomes so in begin_op(), and no more in end_op(). *)
LEMMA ActiveStep ==
    ASSUME TypeOK, NEW o \in Op
    PROVE  /\ pc' = [pc EXCEPT ![o] = "run"] => Active' = Active \cup {o}
           /\ pc' = [pc EXCEPT ![o] = "modified"] => Active' = Active \cup {o}
           /\ \A l \in {"asleep", "write_log", "write_head", "install", "clear",
                         "wake", "done"} :
                 /\ pc' = [pc EXCEPT ![o] = l] => Active' = Active \ {o}
                 /\ WakeupAt(o, l) => Active' = Active \ {o}
BY ThreadFacts DEF Active, TypeOK, WakeupAt

(* What is in the log stays in it, and log_write() adds one block. *)
LEMMA LoggedSame ==
    ASSUME lh' = lh
    PROVE  \A b : Logged(b)' <=> Logged(b)
BY DEF Logged

LEMMA LoggedAppend ==
    ASSUME lh \in Seq(Block), NEW c \in Block, lh' = Append(lh, c)
    PROVE  \A b \in Block : Logged(b)' <=> Logged(b) \/ b = c
<1>1. DOMAIN lh' = 1 .. Len(lh) + 1 /\ DOMAIN lh = 1 .. Len(lh) /\ Len(lh) \in Nat
  BY SeqFacts, AppendFacts
<1>2. ASSUME NEW b \in Block, Logged(b)' PROVE Logged(b) \/ b = c
  BY <1>1, <1>2, AppendFacts DEF Logged
<1>3. ASSUME NEW b \in Block, Logged(b) PROVE Logged(b)'
  BY <1>1, <1>3, AppendFacts DEF Logged
<1>4. Logged(c)'
  <2>1. Len(lh) + 1 \in DOMAIN lh' /\ lh'[Len(lh) + 1] = c
    BY <1>1, AppendFacts
  <2>. QED BY <2>1 DEF Logged
<1>. QED BY <1>2, <1>3, <1>4

(* log_write() with its buffer, which is in the log already or appended. *)
LogWritten(o) ==
    /\ pc[o] = "modified" /\ Len(lh) < LogSize /\ Len(lh) < Nlog - 1
    /\ target[o] \in Block /\ target[o] \in cached /\ target[o] \in wrote[o]
    /\ \/ /\ Logged(target[o]) /\ lh' = lh /\ pinned' = pinned
       \/ /\ ~Logged(target[o]) /\ lh' = Append(lh, target[o])
          /\ pinned' = pinned \cup {target[o]}
    /\ \A b \in Block : Logged(b)' <=> Logged(b) \/ b = target[o]
    /\ target' = [target EXCEPT ![o] = NoBlock]
    /\ pc' = [pc EXCEPT ![o] = "run"]
    /\ UNCHANGED <<storage, cached, cache, outstanding, committing, tail, wrote,
                   crashes>>

(* It is what log_write() does to a locked buffer. *)
LEMMA LogWriteEffect ==
    ASSUME TypeOK, TargetInv, NEW o \in Op, LogWrite(o)
    PROVE  LogWritten(o)
<1>1. pc[o] = "modified"
  BY DEF LogWrite
<1>2. target[o] \in Block /\ target[o] \in cached /\ target[o] \in wrote[o]
  BY <1>1 DEF TypeOK, TargetInv
<1>3. \/ Logged(target[o]) /\ lh' = lh /\ pinned' = pinned
      \/ /\ ~Logged(target[o]) /\ lh' = Append(lh, target[o])
         /\ pinned' = pinned \cup {target[o]}
  BY Zenon DEF LogWrite
<1>4. \A b \in Block : Logged(b)' <=> Logged(b) \/ b = target[o]
  BY <1>2, <1>3, LoggedSame, LoggedAppend DEF TypeOK
<1>5. ~Full
  BY Zenon DEF LogWrite
<1>6. Len(lh) < LogSize /\ Len(lh) < Nlog - 1
  BY <1>5, ThreadFacts, SeqFacts DEF TypeOK, Full
<1>. QED BY <1>1, <1>2, <1>3, <1>4, <1>6, Zenon DEF LogWrite, LogWritten, Goto

(* end_op(), by the last active call or another. *)
Ended(o) ==
    /\ pc[o] = "run" /\ ~committing /\ outstanding >= 1
    /\ outstanding' = outstanding - 1
    /\ \/ /\ outstanding = 1 /\ committing' = TRUE
          /\ \/ lh = <<>> /\ pc' = [pc EXCEPT ![o] = "wake"]
             \/ lh # <<>> /\ pc' = [pc EXCEPT ![o] = "write_log"]
       \/ outstanding # 1 /\ committing' = FALSE /\ WakeupAt(o, "done")
    /\ \A t \in Thread \ {o} :
          pc'[t] = pc[t] \/ (pc[t] = "asleep" /\ pc'[t] = "begin")
    /\ pc'[o] \in {"wake", "write_log", "done"}
    /\ wrote' = [wrote EXCEPT ![o] = {}]
    /\ UNCHANGED <<storage, buffers, lh, tail, target, crashes>>

(* It is what end_op() does. *)
LEMMA EndOpEffect ==
    ASSUME TypeOK, CountInv, NEW o \in Op, EndOp(o)
    PROVE  Ended(o)
<1>1. pc[o] = "run" /\ outstanding' = outstanding - 1
  BY DEF EndOp
<1>2. outstanding >= 1
  BY <1>1, ActiveFacts DEF TypeOK
<1>3. \/ /\ outstanding = 1 /\ committing' = TRUE
         /\ \/ lh = <<>> /\ pc' = [pc EXCEPT ![o] = "wake"]
            \/ lh # <<>> /\ pc' = [pc EXCEPT ![o] = "write_log"]
      \/ outstanding # 1 /\ committing' = committing /\ WakeupAt(o, "done")
  BY Zenon DEF EndOp, Goto
<1>4. /\ \A t \in Thread \ {o} :
            pc'[t] = pc[t] \/ (pc[t] = "asleep" /\ pc'[t] = "begin")
      /\ pc'[o] \in {"wake", "write_log", "done"}
  <2>1. pc \in [Thread -> Label] /\ o \in Thread
    BY ThreadFacts DEF TypeOK, Label
  <2>2. CASE WakeupAt(o, "done")
    BY <2>1, <2>2 DEF WakeupAt
  <2>3. CASE \E l \in {"wake", "write_log"} : pc' = [pc EXCEPT ![o] = l]
    BY <2>1, <2>3
  <2>. QED BY <1>3, <2>2, <2>3
<1>5. ~committing /\ committing \in BOOLEAN
  BY DEF EndOp, TypeOK
<1>. QED BY <1>1, <1>2, <1>3, <1>4, <1>5, Zenon DEF EndOp, Ended

(* Credits are finitely many, and a step that makes no call active and     *)
(* takes nothing out of the log does not add to them.                      *)
LEMMA CreditsFinite == ASSUME CountInv, TypeOK PROVE IsFiniteSet(Credits)
<1>1. IsFiniteSet(Op) /\ IsFiniteSet(1 .. MaxOpBlocks)
  BY ThreadAssumption, ThreadFacts, FS_Interval
<1>2. IsFiniteSet(Op \X (1 .. MaxOpBlocks))
  BY <1>1, FS_Product
<1>. QED BY <1>2, FS_Subset DEF Credits

(* A call spends no more of its reservation than it has written. *)
LEMMA SpentFacts ==
    ASSUME TypeOK, NEW o \in Op
    PROVE  /\ Spent(o) \subseteq wrote[o] /\ IsFiniteSet(wrote[o])
           /\ IsFiniteSet(Spent(o)) /\ Cardinality(Spent(o)) \in Nat
           /\ Cardinality(Spent(o)) <= Cardinality(wrote[o])
<1>1. wrote[o] \subseteq Block /\ Spent(o) \subseteq wrote[o]
  BY DEF TypeOK, Spent
<1>2. IsFiniteSet(wrote[o])
  BY <1>1, BlockAssumption, FS_Subset
<1>. QED BY <1>1, <1>2, FS_Subset, FS_CardinalityType

(* Fewer active calls, or more blocks spent: fewer credits. *)
LEMMA CreditsShrink ==
    ASSUME TypeOK, TypeOK', CountInv, Active' \subseteq Active,
           \A o \in Active' : Spent(o) \subseteq Spent(o)'
    PROVE  /\ Credits' \subseteq Credits
           /\ Cardinality(Credits') <= Cardinality(Credits)
           /\ Cardinality(Credits') \in Nat /\ Cardinality(Credits) \in Nat
<1>1. ASSUME NEW o \in Active'
      PROVE  /\ Cardinality(Spent(o)) \in Nat /\ Cardinality(Spent(o))' \in Nat
             /\ Cardinality(Spent(o)) <= Cardinality(Spent(o))'
  <2>1. o \in Op
    BY DEF Active
  <2>2. IsFiniteSet(Spent(o))'
    BY <2>1, BlockAssumption, FS_Subset DEF TypeOK, Spent
  <2>3. Cardinality(Spent(o))' \in Nat
    BY <2>2, FS_CardinalityType
  <2>. QED BY <2>1, <2>2, <2>3, SpentFacts, FS_Subset
<1>2. Credits' \subseteq Credits
  BY <1>1, ThreadFacts DEF Credits
<1>. QED BY <1>2, CreditsFinite, FS_Subset, FS_CardinalityType

(* A step that does so needs no more of the log. *)
LEMMA SpaceStep ==
    ASSUME TypeOK, TypeOK', CountInv, SpaceInv, Active' \subseteq Active,
           \A o \in Active' : Spent(o) \subseteq Spent(o)',
           pc'[Boot] = "up" => pc[Boot] = "up", Len(lh') = Len(lh)
    PROVE  SpaceInv'
<1>1. Cardinality(Credits') <= Cardinality(Credits)
  BY CreditsShrink
<1>2. Cardinality(Credits') \in Nat /\ Cardinality(Credits) \in Nat
  BY CreditsShrink
<1>3. Len(lh) \in Nat
  BY DEF TypeOK
<1>. QED BY <1>1, <1>2, <1>3, ThreadFacts DEF SpaceInv

(* Each step keeps the types. *)
LEMMA TypeOKStep == ASSUME IInv, [Next]_vars PROVE TypeOK'
<1>. USE ThreadFacts, SeqFacts, AppendFacts DEF IInv, storage, buffers, log,
   locals
<1>1. ASSUME NEW o \in Op, BeginOp(o) PROVE TypeOK'
  <2>0. Begun(o)
    BY <1>1, BeginOpEffect, Zenon
  <2>1. outstanding' \in Nat
    BY <2>0 DEF Begun, TypeOK
  <2>2. pc' \in [Thread -> Label]
    BY <1>1, GotoType DEF BeginOp, Label
  <2>3. UNCHANGED <<disk, logdisk, head, lh, cached, cache, pinned, tail,
     target, wrote, committing, crashes>>
    BY <2>0 DEF Begun
  <2>. QED BY <2>1, <2>2, <2>3 DEF TypeOK, Label
<1>2. ASSUME NEW o \in Op, LogWrite(o) PROVE TypeOK'
  <2>0. LogWritten(o)
    BY <1>2, LogWriteEffect
  <2>1. lh' \in Seq(Block) /\ Len(lh') <= LogSize
    <3>1. lh \in Seq(Block) /\ Len(lh) + 1 <= LogSize /\ target[o] \in Block
      BY <2>0 DEF LogWritten, TypeOK
    <3>2. lh' = lh \/ lh' = Append(lh, target[o])
      BY <2>0 DEF LogWritten
    <3>. QED BY <3>1, <3>2
  <2>2. pinned' \subseteq cached'
    BY <2>0 DEF LogWritten, TypeOK
  <2>3. pc' \in [Thread -> Label]
    BY <1>2, GotoType DEF LogWrite, Label
  <2>4. target' \in [Op -> Block \cup {NoBlock}] /\ wrote' \in [Op -> SUBSET Block]
    BY <2>0 DEF LogWritten, TypeOK
  <2>5. UNCHANGED <<disk, logdisk, head, cached, cache, outstanding, tail,
     committing, crashes>>
    BY <2>0 DEF LogWritten
  <2>. QED BY <2>1, <2>2, <2>3, <2>4, <2>5 DEF TypeOK, Label
<1>3. ASSUME NEW o \in Op, EndOp(o) PROVE TypeOK'
  <2>0. Ended(o)
    BY <1>3, EndOpEffect
  <2>1. outstanding' \in Nat
    BY <2>0 DEF Ended, TypeOK
  <2>2. pc' \in [Thread -> Label]
    BY <1>3, GotoType, WakeupAtType DEF EndOp, Label
  <2>3. target' \in [Op -> Block \cup {NoBlock}] /\ wrote' \in [Op -> SUBSET Block]
    BY <2>0 DEF Ended, TypeOK
  <2>4. committing' \in BOOLEAN
    BY <2>0 DEF Ended, TypeOK
  <2>5. UNCHANGED <<disk, logdisk, head, lh, cached, cache, pinned, tail,
     crashes>>
    BY <2>0 DEF Ended
  <2>. QED BY <2>1, <2>2, <2>3, <2>4, <2>5 DEF TypeOK, Label
<1>4. ASSUME NEW o \in Op, WriteLog(o) PROVE TypeOK'
  <2>1. disk' \in [Block -> Content] /\ logdisk' \in [LogBlock -> Content]
    BY <1>4, LoopIndex, ReadType DEF TypeOK, WriteLog
  <2>2. pc' \in [Thread -> Label]
    BY <1>4, IterateType DEF WriteLog, Label
  <2>3. tail' \in [Thread -> 1 .. LogSize]
    BY <1>4, IterateType DEF WriteLog, Label
  <2>4. UNCHANGED <<head, lh, cached, cache, pinned, outstanding, target,
     wrote, committing, crashes>>
    BY <1>4 DEF WriteLog
  <2>. QED BY <2>1, <2>2, <2>3, <2>4 DEF TypeOK, Label
<1>5. ASSUME NEW o \in Op, WriteHead(o) PROVE TypeOK'
  <2>1. head' \in Seq(Block) /\ Len(head') <= LogSize
    BY <1>5 DEF TypeOK, WriteHead
  <2>2. pc' \in [Thread -> Label]
    BY <1>5, GotoType DEF WriteHead, Label
  <2>3. UNCHANGED <<disk, logdisk, lh, cached, cache, pinned, outstanding,
     tail, target, wrote, committing, crashes>>
    BY <1>5 DEF WriteHead
  <2>. QED BY <2>1, <2>2, <2>3 DEF TypeOK, Label
<1>6. ASSUME NEW t \in Thread, Install(t) PROVE TypeOK'
  <2>1. disk' \in [Block -> Content] /\ logdisk' \in [LogBlock -> Content]
    BY <1>6, LoopIndex DEF TypeOK, Install
  <2>2. cached' \subseteq Block /\ cache' \in [Block -> Content]
    BY <1>6, LoopIndex DEF TypeOK, Install
  <2>3. pinned' \subseteq cached'
    BY <1>6 DEF TypeOK, Install
  <2>4. pc' \in [Thread -> Label]
    BY <1>6, IterateType DEF Install, Label
  <2>5. tail' \in [Thread -> 1 .. LogSize]
    BY <1>6, IterateType DEF Install, Label
  <2>6. UNCHANGED <<head, lh, outstanding, target, wrote, committing,
     crashes>>
    BY <1>6 DEF Install
  <2>. QED BY <2>1, <2>2, <2>3, <2>4, <2>5, <2>6 DEF TypeOK, Label
<1>7. ASSUME NEW t \in Thread, Clear(t) PROVE TypeOK'
  <2>1. head' \in Seq(Block) /\ Len(head') <= LogSize
    BY <1>7 DEF TypeOK, Clear
  <2>2. lh' \in Seq(Block) /\ Len(lh') <= LogSize
    BY <1>7 DEF TypeOK, Clear
  <2>3. pc' \in [Thread -> Label]
    BY <1>7, GotoType DEF Clear, Label
  <2>4. UNCHANGED <<disk, logdisk, cached, cache, pinned, outstanding, tail,
     target, wrote, committing, crashes>>
    BY <1>7 DEF Clear
  <2>. QED BY <2>1, <2>2, <2>3, <2>4 DEF TypeOK, Label
<1>8. ASSUME NEW o \in Op, Wake(o) PROVE TypeOK'
  <2>1. pc' \in [Thread -> Label]
    BY <1>8, GotoType, WakeupAtType DEF Wake, Label
  <2>2. committing' \in BOOLEAN
    BY <1>8 DEF TypeOK, Wake
  <2>3. UNCHANGED <<disk, logdisk, head, lh, cached, cache, pinned,
     outstanding, tail, target, wrote, crashes>>
    BY <1>8 DEF Wake
  <2>. QED BY <2>1, <2>2, <2>3 DEF TypeOK, Label
<1>9. ASSUME NEW o \in Op, NEW b \in Block, Modify(o, b) PROVE TypeOK'
  <2>1. cached' \subseteq Block /\ cache' \in [Block -> Content]
    BY <1>9, ReadType DEF TypeOK, Modify, Content
  <2>2. pinned' \subseteq cached'
    BY <1>9 DEF TypeOK, Modify
  <2>3. pc' \in [Thread -> Label]
    BY <1>9, GotoType DEF Modify, Label
  <2>4. target' \in [Op -> Block \cup {NoBlock}] /\ wrote' \in [Op -> SUBSET Block]
    BY <1>9 DEF TypeOK, Modify
  <2>5. UNCHANGED <<disk, logdisk, head, lh, outstanding, tail, committing,
     crashes>>
    BY <1>9 DEF Modify
  <2>. QED BY <2>1, <2>2, <2>3, <2>4, <2>5 DEF TypeOK, Label
<1>10. CASE ReadHead
  <2>1. lh' \in Seq(Block) /\ Len(lh') <= LogSize
    BY <1>10 DEF TypeOK, ReadHead
  <2>2. pc' \in [Thread -> Label]
    BY <1>10, GotoType DEF ReadHead, Label
  <2>3. UNCHANGED <<disk, logdisk, head, cached, cache, pinned, outstanding,
     tail, target, wrote, committing, crashes>>
    BY <1>10 DEF ReadHead
  <2>. QED BY <2>1, <2>2, <2>3 DEF TypeOK, Label
<1>11. ASSUME NEW b \in Block, Recycle(b) PROVE TypeOK'
  <2>1. cached' \subseteq Block /\ cache' \in [Block -> Content]
    BY <1>11 DEF TypeOK, Recycle, Content
  <2>2. pinned' \subseteq cached'
    BY <1>11 DEF TypeOK, Recycle
  <2>3. UNCHANGED <<disk, logdisk, head, lh, outstanding, pc, tail, target,
     wrote, committing, crashes>>
    BY <1>11 DEF Recycle
  <2>. QED BY <2>1, <2>2, <2>3 DEF TypeOK, Label
<1>12. CASE Crash
  <2>1. lh' \in Seq(Block) /\ Len(lh') <= LogSize
    BY <1>12 DEF TypeOK, Crash
  <2>2. cached' \subseteq Block /\ cache' \in [Block -> Content]
    BY <1>12 DEF TypeOK, Crash, Content
  <2>3. pinned' \subseteq cached'
    BY <1>12 DEF TypeOK, Crash
  <2>4. outstanding' \in Nat
    BY <1>12 DEF TypeOK, Crash
  <2>5. pc' \in [Thread -> Label]
    BY <1>12 DEF TypeOK, Crash, Label
  <2>6. tail' \in [Thread -> 1 .. LogSize]
    BY <1>12 DEF TypeOK, Crash
  <2>7. target' \in [Op -> Block \cup {NoBlock}] /\ wrote' \in [Op -> SUBSET Block]
    BY <1>12 DEF TypeOK, Crash
  <2>8. committing' \in BOOLEAN
    BY <1>12 DEF TypeOK, Crash
  <2>9. crashes' \in 0 .. MaxCrash
    BY <1>12 DEF TypeOK, Crash
  <2>10. UNCHANGED <<disk, logdisk, head>>
    BY <1>12 DEF Crash
  <2>. QED BY <2>1, <2>2, <2>3, <2>4, <2>5, <2>6, <2>7, <2>8, <2>9, <2>10 DEF
     TypeOK, Label
<1>13. CASE UNCHANGED vars
  BY <1>13 DEF vars, TypeOK
<1>. QED BY <1>1, <1>2, <1>3, <1>4, <1>5, <1>6, <1>7, <1>8, <1>9, <1>10,
   <1>11, <1>12, <1>13, StepCases

(* Recovery is over before a call begins, and a crash ends all calls. *)
LEMMA PhaseInvStep == ASSUME IInv, [Next]_vars PROVE PhaseInv'
<1>. USE ThreadFacts DEF IInv, storage, buffers, log, locals
<1>1. ASSUME NEW o \in Op, BeginOp(o) PROVE PhaseInv'
  <2>1. Begun(o)
    BY <1>1, BeginOpEffect, Zenon
  <2>. QED BY <2>1 DEF Begun, TypeOK, PhaseInv
<1>2. ASSUME NEW o \in Op, LogWrite(o) PROVE PhaseInv'
  <2>1. LogWritten(o)
    BY <1>2, LogWriteEffect, Zenon
  <2>. QED BY <2>1 DEF LogWritten, TypeOK, PhaseInv
<1>3. ASSUME NEW o \in Op, EndOp(o) PROVE PhaseInv'
  <2>1. Ended(o)
    BY <1>3, EndOpEffect, Zenon
  <2>. QED BY <2>1 DEF Ended, WakeupAt, TypeOK, PhaseInv
<1>4. ASSUME NEW o \in Op, WriteLog(o) PROVE PhaseInv'
  BY <1>4 DEF WriteLog, Iterate, Goto, TypeOK, PhaseInv
<1>5. ASSUME NEW o \in Op, WriteHead(o) PROVE PhaseInv'
  BY <1>5 DEF WriteHead, Goto, TypeOK, PhaseInv
<1>6. ASSUME NEW t \in Thread, Install(t) PROVE PhaseInv'
  BY <1>6 DEF Install, Iterate, Goto, TypeOK, PhaseInv
<1>7. ASSUME NEW t \in Thread, Clear(t) PROVE PhaseInv'
  BY <1>7 DEF Clear, Goto, TypeOK, PhaseInv
<1>8. ASSUME NEW o \in Op, Wake(o) PROVE PhaseInv'
  BY <1>8 DEF Wake, WakeupAt, TypeOK, PhaseInv
<1>9. ASSUME NEW o \in Op, NEW b \in Block, Modify(o, b) PROVE PhaseInv'
  BY <1>9 DEF Modify, Goto, TypeOK, PhaseInv
<1>10. CASE ReadHead
  BY <1>10 DEF ReadHead, Goto, TypeOK, PhaseInv
<1>11. ASSUME NEW b \in Block, Recycle(b) PROVE PhaseInv'
  BY <1>11 DEF Recycle, TypeOK, PhaseInv
<1>12. CASE Crash
  BY <1>12 DEF Crash, TypeOK, PhaseInv
<1>13. CASE UNCHANGED vars
  BY <1>13 DEF vars, TypeOK, PhaseInv
<1>. QED BY <1>1, <1>2, <1>3, <1>4, <1>5, <1>6, <1>7, <1>8, <1>9, <1>10,
   <1>11, <1>12, <1>13, StepCases

(* end_op() sets committing before it commits, and clears it last. *)
LEMMA CommitInvStep == ASSUME IInv, [Next]_vars PROVE CommitInv'
<1>. USE ThreadFacts DEF IInv, storage, buffers, log, locals
<1>1. ASSUME NEW o \in Op, BeginOp(o) PROVE CommitInv'
  <2>1. Begun(o)
    BY <1>1, BeginOpEffect, Zenon
  <2>. QED BY <2>1 DEF Begun, TypeOK, CommitInv, CommitPc
<1>2. ASSUME NEW o \in Op, LogWrite(o) PROVE CommitInv'
  <2>1. LogWritten(o)
    BY <1>2, LogWriteEffect, Zenon
  <2>. QED BY <2>1 DEF LogWritten, TypeOK, CommitInv, CommitPc
<1>3. ASSUME NEW o \in Op, EndOp(o) PROVE CommitInv'
  <2>1. Ended(o)
    BY <1>3, EndOpEffect
  <2>2. \A q \in Op : pc[q] \notin CommitPc
    BY <2>1 DEF Ended, CommitInv
  <2>3. \A q \in Op : pc'[q] \in CommitPc => q = o /\ committing'
    BY <2>1, <2>2 DEF Ended, WakeupAt, TypeOK, CommitPc
  <2>4. committing' => outstanding' = 0
    BY <2>1 DEF Ended, TypeOK
  <2>. QED BY <2>3, <2>4 DEF CommitInv
<1>4. ASSUME NEW o \in Op, WriteLog(o) PROVE CommitInv'
  BY <1>4 DEF WriteLog, Iterate, Goto, TypeOK, CommitInv, CommitPc
<1>5. ASSUME NEW o \in Op, WriteHead(o) PROVE CommitInv'
  BY <1>5 DEF WriteHead, Goto, TypeOK, CommitInv, CommitPc
<1>6. ASSUME NEW t \in Thread, Install(t) PROVE CommitInv'
  BY <1>6 DEF Install, Iterate, Goto, TypeOK, CommitInv, CommitPc
<1>7. ASSUME NEW t \in Thread, Clear(t) PROVE CommitInv'
  BY <1>7 DEF Clear, Goto, TypeOK, CommitInv, CommitPc
<1>8. ASSUME NEW o \in Op, Wake(o) PROVE CommitInv'
  BY <1>8 DEF Wake, WakeupAt, TypeOK, CommitInv, CommitPc
<1>9. ASSUME NEW o \in Op, NEW b \in Block, Modify(o, b) PROVE CommitInv'
  BY <1>9 DEF Modify, Goto, TypeOK, CommitInv, CommitPc
<1>10. CASE ReadHead
  BY <1>10 DEF ReadHead, Goto, TypeOK, CommitInv, CommitPc
<1>11. ASSUME NEW b \in Block, Recycle(b) PROVE CommitInv'
  BY <1>11 DEF Recycle, TypeOK, CommitInv, CommitPc
<1>12. CASE Crash
  BY <1>12 DEF Crash, TypeOK, CommitInv, CommitPc
<1>13. CASE UNCHANGED vars
  BY <1>13 DEF vars, TypeOK, CommitInv, CommitPc
<1>. QED BY <1>1, <1>2, <1>3, <1>4, <1>5, <1>6, <1>7, <1>8, <1>9, <1>10,
   <1>11, <1>12, <1>13, StepCases

(* begin_op() and end_op() count the calls between them. *)
LEMMA CountInvStep == ASSUME IInv, [Next]_vars PROVE CountInv'
<1>. USE ThreadFacts DEF IInv, storage, buffers, log, locals
<1>1. ASSUME NEW o \in Op, BeginOp(o) PROVE CountInv'
  <2>0. Begun(o)
    BY <1>1, BeginOpEffect, Zenon
  <2>1. CASE pc' = [pc EXCEPT ![o] = "asleep"] /\ UNCHANGED outstanding
    <3>1. Active' = Active
      BY <2>0, <2>1, ActiveStep DEF Begun, Active
    <3>. QED BY <2>1, <3>1 DEF CountInv
  <2>2. CASE pc' = [pc EXCEPT ![o] = "run"] /\ outstanding' = outstanding + 1
    <3>1. Active' = Active \cup {o} /\ o \notin Active
      BY <2>0, <2>2, ActiveStep DEF Begun, Active
    <3>. QED BY <2>2, <3>1, ActiveFacts, FS_AddElement DEF CountInv
  <2>. QED BY <2>0, <2>1, <2>2 DEF Begun
<1>2. ASSUME NEW o \in Op, LogWrite(o) PROVE CountInv'
  <2>0. LogWritten(o)
    BY <1>2, LogWriteEffect
  <2>1. Active' = Active
    BY <2>0, ActiveStep DEF LogWritten, Active
  <2>. QED BY <2>0, <2>1 DEF LogWritten, CountInv
<1>3. ASSUME NEW o \in Op, EndOp(o) PROVE CountInv'
  <2>1. Active' = Active \ {o} /\ o \in Active
    BY <1>3, ActiveStep DEF EndOp, Goto, Active
  <2>2. outstanding' = outstanding - 1
    BY <1>3 DEF EndOp
  <2>. QED BY <2>1, <2>2, ActiveFacts, FS_RemoveElement DEF CountInv
<1>4. ASSUME NEW o \in Op, WriteLog(o) PROVE CountInv'
  BY <1>4 DEF WriteLog, Iterate, Goto, TypeOK, CountInv, Active
<1>5. ASSUME NEW o \in Op, WriteHead(o) PROVE CountInv'
  BY <1>5 DEF WriteHead, Goto, TypeOK, CountInv, Active
<1>6. ASSUME NEW t \in Thread, Install(t) PROVE CountInv'
  BY <1>6 DEF Install, Iterate, Goto, TypeOK, CountInv, Active
<1>7. ASSUME NEW t \in Thread, Clear(t) PROVE CountInv'
  BY <1>7 DEF Clear, Goto, TypeOK, CountInv, Active
<1>8. ASSUME NEW o \in Op, Wake(o) PROVE CountInv'
  BY <1>8 DEF Wake, WakeupAt, TypeOK, CountInv, Active
<1>9. ASSUME NEW o \in Op, NEW b \in Block, Modify(o, b) PROVE CountInv'
  BY <1>9 DEF Modify, Goto, TypeOK, CountInv, Active
<1>10. CASE ReadHead
  BY <1>10 DEF ReadHead, Goto, TypeOK, CountInv, Active
<1>11. ASSUME NEW b \in Block, Recycle(b) PROVE CountInv'
  BY <1>11 DEF Recycle, TypeOK, CountInv, Active
<1>12. CASE Crash
  <2>1. Active' = {} /\ outstanding' = 0
    BY <1>12 DEF Crash, Active
  <2>. QED BY <2>1, FS_EmptySet DEF CountInv
<1>13. CASE UNCHANGED vars
  BY <1>13 DEF vars, TypeOK, CountInv, Active
<1>. QED BY <1>1, <1>2, <1>3, <1>4, <1>5, <1>6, <1>7, <1>8, <1>9, <1>10,
   <1>11, <1>12, <1>13, StepCases

(* A buffer is locked from its change to log_write(). *)
LEMMA TargetInvStep == ASSUME IInv, [Next]_vars PROVE TargetInv'
<1>. USE ThreadFacts DEF IInv, storage, buffers, log, locals
<1>1. ASSUME NEW o \in Op, BeginOp(o) PROVE TargetInv'
  <2>1. Begun(o)
    BY <1>1, BeginOpEffect, Zenon
  <2>. QED BY <2>1, LoggedSame DEF Begun, TypeOK, TargetInv
<1>2. ASSUME NEW o \in Op, LogWrite(o) PROVE TargetInv'
  <2>1. LogWritten(o)
    BY <1>2, LogWriteEffect, Zenon
  <2>. QED BY <2>1 DEF LogWritten, TypeOK, TargetInv
<1>3. ASSUME NEW o \in Op, EndOp(o) PROVE TargetInv'
  <2>1. Ended(o)
    BY <1>3, EndOpEffect, Zenon
  <2>. QED BY <2>1, LoggedSame, FS_EmptySet DEF Ended, WakeupAt, TypeOK,
     TargetInv
<1>4. ASSUME NEW o \in Op, WriteLog(o) PROVE TargetInv'
  BY <1>4, LoggedSame DEF WriteLog, Iterate, Goto, TypeOK, TargetInv
<1>5. ASSUME NEW o \in Op, WriteHead(o) PROVE TargetInv'
  BY <1>5, LoggedSame DEF WriteHead, Goto, TypeOK, TargetInv
<1>6. ASSUME NEW t \in Thread, Install(t) PROVE TargetInv'
  BY <1>6, LoggedSame DEF Install, Iterate, Goto, TypeOK, TargetInv
<1>7. ASSUME NEW t \in Thread, Clear(t) PROVE TargetInv'
  BY <1>7, ActiveFacts DEF Clear, Goto, TypeOK, TargetInv, CommitInv,
     PhaseInv, CountInv, CommitPc, Active
<1>8. ASSUME NEW o \in Op, Wake(o) PROVE TargetInv'
  BY <1>8, LoggedSame DEF Wake, WakeupAt, TypeOK, TargetInv
<1>9. ASSUME NEW o \in Op, NEW b \in Block, Modify(o, b) PROVE TargetInv'
  BY <1>9, LoggedSame DEF Modify, Goto, TypeOK, TargetInv
<1>10. CASE ReadHead
  BY <1>10, ActiveFacts DEF ReadHead, Goto, TypeOK, TargetInv, CommitInv,
     PhaseInv, CountInv, CommitPc, Active
<1>11. ASSUME NEW b \in Block, Recycle(b) PROVE TargetInv'
  BY <1>11, LoggedSame DEF Recycle, TypeOK, TargetInv
<1>12. CASE Crash
  BY <1>12, FS_EmptySet DEF Crash, TypeOK, TargetInv
<1>13. CASE UNCHANGED vars
  BY <1>13, LoggedSame DEF vars, TypeOK, TargetInv
<1>. QED BY <1>1, <1>2, <1>3, <1>4, <1>5, <1>6, <1>7, <1>8, <1>9, <1>10,
   <1>11, <1>12, <1>13, StepCases

(* log_write() absorbs a block that is in the log. *)
LEMMA LogInvStep == ASSUME IInv, [Next]_vars PROVE LogInv'
<1>. USE ThreadFacts, SeqFacts, AppendFacts DEF IInv, storage, buffers, log,
   locals
<1>1. ASSUME NEW o \in Op, BeginOp(o) PROVE LogInv'
  <2>1. Begun(o)
    BY <1>1, BeginOpEffect, Zenon
  <2>. QED BY <2>1 DEF Begun, TypeOK, LogInv
<1>2. ASSUME NEW o \in Op, LogWrite(o) PROVE LogInv'
  <2>1. LogWritten(o)
    BY <1>2, LogWriteEffect
  <2>2. CASE lh' = lh
    BY <2>2 DEF LogInv
  <2>3. CASE lh' = Append(lh, target[o]) /\ ~Logged(target[o])
    <3>1. lh \in Seq(Block) /\ target[o] \in Block /\ Len(lh) + 1 < Nlog
      BY <2>1 DEF LogWritten, TypeOK
    <3>2. \A i \in 1 .. Len(lh) : lh[i] # target[o]
      BY <2>3, <3>1 DEF Logged
    <3>3. DOMAIN lh' = 1 .. Len(lh) + 1 /\ Len(lh') = Len(lh) + 1
      BY <2>3, <3>1
    <3>4. ASSUME NEW i \in DOMAIN lh', NEW j \in DOMAIN lh', lh'[i] = lh'[j]
          PROVE  i = j
      BY <2>3, <3>1, <3>2, <3>3, <3>4 DEF LogInv
    <3>. QED BY <3>1, <3>3, <3>4 DEF LogInv
  <2>. QED BY <2>1, <2>2, <2>3 DEF LogWritten
<1>3. ASSUME NEW o \in Op, EndOp(o) PROVE LogInv'
  <2>1. Ended(o)
    BY <1>3, EndOpEffect, Zenon
  <2>. QED BY <2>1 DEF Ended, WakeupAt, TypeOK, LogInv
<1>4. ASSUME NEW o \in Op, WriteLog(o) PROVE LogInv'
  BY <1>4 DEF WriteLog, Iterate, Goto, TypeOK, LogInv
<1>5. ASSUME NEW o \in Op, WriteHead(o) PROVE LogInv'
  BY <1>5 DEF WriteHead, Goto, TypeOK, LogInv
<1>6. ASSUME NEW t \in Thread, Install(t) PROVE LogInv'
  BY <1>6 DEF Install, Iterate, Goto, TypeOK, LogInv
<1>7. ASSUME NEW t \in Thread, Clear(t) PROVE LogInv'
  BY <1>7 DEF Clear, Goto, TypeOK, LogInv
<1>8. ASSUME NEW o \in Op, Wake(o) PROVE LogInv'
  BY <1>8 DEF Wake, WakeupAt, TypeOK, LogInv
<1>9. ASSUME NEW o \in Op, NEW b \in Block, Modify(o, b) PROVE LogInv'
  BY <1>9 DEF Modify, Goto, TypeOK, LogInv
<1>10. CASE ReadHead
  BY <1>10 DEF ReadHead, Goto, TypeOK, LogInv, HeadInv
<1>11. ASSUME NEW b \in Block, Recycle(b) PROVE LogInv'
  BY <1>11 DEF Recycle, TypeOK, LogInv
<1>12. CASE Crash
  BY <1>12 DEF Crash, TypeOK, LogInv
<1>13. CASE UNCHANGED vars
  BY <1>13 DEF vars, TypeOK, LogInv
<1>. QED BY <1>1, <1>2, <1>3, <1>4, <1>5, <1>6, <1>7, <1>8, <1>9, <1>10,
   <1>11, <1>12, <1>13, StepCases

(* The log is emptied by the last step of a commit. *)
LEMMA EmptyInvStep == ASSUME IInv, [Next]_vars PROVE EmptyInv'
<1>. USE ThreadFacts DEF IInv, storage, buffers, log, locals
<1>1. ASSUME NEW o \in Op, BeginOp(o) PROVE EmptyInv'
  <2>1. Begun(o)
    BY <1>1, BeginOpEffect, Zenon
  <2>2. pc[Boot] = "up" /\ pc'[Boot] = "up" /\ lh' = lh
        /\ committing' = committing
    BY <2>1 DEF Begun, TypeOK
  <2>3. outstanding' = 0 => outstanding = 0
    BY <2>1 DEF Begun, TypeOK
  <2>4. \A q \in Op : pc'[q] = pc[q] \/ pc'[q] \in {"asleep", "run"}
    BY <2>1 DEF Begun, TypeOK
  <2>. QED BY <2>2, <2>3, <2>4 DEF EmptyInv, Logs
<1>2. ASSUME NEW o \in Op, LogWrite(o) PROVE EmptyInv'
  <2>1. LogWritten(o)
    BY <1>2, LogWriteEffect, Zenon
  <2>. QED BY <2>1, ActiveFacts, AppendFacts, SeqFacts DEF LogWritten,
     TypeOK, EmptyInv, CommitInv, CountInv, PhaseInv, Logs, CommitPc, Active
<1>3. ASSUME NEW o \in Op, EndOp(o) PROVE EmptyInv'
  <2>1. Ended(o)
    BY <1>3, EndOpEffect, Zenon
  <2>. QED BY <2>1, ActiveFacts DEF Ended, WakeupAt, TypeOK, EmptyInv,
     CountInv, PhaseInv, CommitInv, Logs, Active, CommitPc
<1>4. ASSUME NEW o \in Op, WriteLog(o) PROVE EmptyInv'
  BY <1>4 DEF WriteLog, Iterate, Goto, TypeOK, EmptyInv, PhaseInv, CommitInv,
     Logs, CommitPc
<1>5. ASSUME NEW o \in Op, WriteHead(o) PROVE EmptyInv'
  BY <1>5 DEF WriteHead, Goto, TypeOK, EmptyInv, PhaseInv, CommitInv, Logs,
     CommitPc
<1>6. ASSUME NEW t \in Thread, Install(t) PROVE EmptyInv'
  BY <1>6 DEF Install, Iterate, Goto, TypeOK, EmptyInv, PhaseInv, CommitInv,
     Logs, CommitPc
<1>7. ASSUME NEW t \in Thread, Clear(t) PROVE EmptyInv'
  BY <1>7 DEF Clear, Goto, TypeOK, EmptyInv, PhaseInv, CommitInv, Logs,
     CommitPc
<1>8. ASSUME NEW o \in Op, Wake(o) PROVE EmptyInv'
  BY <1>8 DEF Wake, WakeupAt, TypeOK, EmptyInv, PhaseInv, CommitInv, Logs,
     CommitPc
<1>9. ASSUME NEW o \in Op, NEW b \in Block, Modify(o, b) PROVE EmptyInv'
  BY <1>9 DEF Modify, Goto, TypeOK, EmptyInv, Logs
<1>10. CASE ReadHead
  BY <1>10 DEF ReadHead, Goto, TypeOK, EmptyInv, PhaseInv, CommitInv, Logs,
     CommitPc
<1>11. ASSUME NEW b \in Block, Recycle(b) PROVE EmptyInv'
  BY <1>11 DEF Recycle, TypeOK, EmptyInv, Logs
<1>12. CASE Crash
  BY <1>12 DEF Crash, TypeOK, EmptyInv, Logs
<1>13. CASE UNCHANGED vars
  BY <1>13 DEF vars, TypeOK, EmptyInv, Logs
<1>. QED BY <1>1, <1>2, <1>3, <1>4, <1>5, <1>6, <1>7, <1>8, <1>9, <1>10,
   <1>11, <1>12, <1>13, StepCases

(* The loops start at the first block and end after the last. *)
LEMMA TailInvStep == ASSUME IInv, [Next]_vars PROVE TailInv'
<1>. USE ThreadFacts, SeqFacts DEF IInv, storage, buffers, log, locals
<1>1. ASSUME NEW o \in Op, BeginOp(o) PROVE TailInv'
  <2>1. Begun(o)
    BY <1>1, BeginOpEffect, Zenon
  <2>. QED BY <2>1 DEF Begun, TypeOK, TailInv
<1>2. ASSUME NEW o \in Op, LogWrite(o) PROVE TailInv'
  <2>1. LogWritten(o)
    BY <1>2, LogWriteEffect, Zenon
  <2>. QED BY <2>1 DEF LogWritten, TypeOK, TailInv
<1>3. ASSUME NEW o \in Op, EndOp(o) PROVE TailInv'
  <2>1. Ended(o)
    BY <1>3, EndOpEffect
  <2>2. lh \in Seq(Block) /\ tail \in [Thread -> 1 .. LogSize]
    BY DEF TypeOK
  <2>3. lh # <<>> => 1 <= Len(lh)
    BY <2>2
  <2>4. pc'[o] = "write_log" => lh # <<>>
    BY <2>1 DEF Ended, WakeupAt, TypeOK
  <2>5. pc[o] = "run" /\ pc'[o] \in {"wake", "write_log", "done"}
        /\ tail' = tail /\ lh' = lh
    BY <2>1 DEF Ended
  <2>6. \A t \in Thread \ {o} :
           pc'[t] = pc[t] \/ (pc[t] = "asleep" /\ pc'[t] = "begin")
    BY <2>1 DEF Ended
  <2>. QED BY <2>2, <2>3, <2>4, <2>5, <2>6 DEF TailInv
<1>4. ASSUME NEW o \in Op, WriteLog(o) PROVE TailInv'
  <2>1. /\ lh \in Seq(Block) /\ tail \in [Thread -> 1 .. LogSize]
        /\ pc \in [Thread -> Label] /\ Len(lh) \in Nat /\ lh' = lh
    BY <1>4 DEF WriteLog, TypeOK, Label
  <2>2. CASE tail[o] < Len(lh)
    BY <1>4, <2>1, <2>2 DEF WriteLog, Iterate, TailInv
  <2>3. CASE ~(tail[o] < Len(lh))
    BY <1>4, <2>1, <2>3 DEF WriteLog, Iterate, Goto, TailInv
  <2>. QED BY <2>2, <2>3
<1>5. ASSUME NEW o \in Op, WriteHead(o) PROVE TailInv'
  BY <1>5 DEF WriteHead, Goto, TypeOK, TailInv, EmptyInv, Logs
<1>6. ASSUME NEW t \in Thread, Install(t) PROVE TailInv'
  BY <1>6 DEF Install, Iterate, Goto, TypeOK, TailInv, PhaseInv, CommitInv,
     LogInv, CommitPc
<1>7. ASSUME NEW t \in Thread, Clear(t) PROVE TailInv'
  BY <1>7 DEF Clear, Goto, TypeOK, TailInv, PhaseInv, CommitInv, LogInv,
     CommitPc
<1>8. ASSUME NEW o \in Op, Wake(o) PROVE TailInv'
  BY <1>8 DEF Wake, WakeupAt, TypeOK, TailInv
<1>9. ASSUME NEW o \in Op, NEW b \in Block, Modify(o, b) PROVE TailInv'
  BY <1>9 DEF Modify, Goto, TypeOK, TailInv
<1>10. CASE ReadHead
  BY <1>10 DEF ReadHead, Goto, TypeOK, TailInv, PhaseInv, CommitInv, LogInv,
     CommitPc
<1>11. ASSUME NEW b \in Block, Recycle(b) PROVE TailInv'
  BY <1>11 DEF Recycle, TypeOK, TailInv
<1>12. CASE Crash
  BY <1>12 DEF Crash, TypeOK, TailInv
<1>13. CASE UNCHANGED vars
  BY <1>13 DEF vars, TypeOK, TailInv
<1>. QED BY <1>1, <1>2, <1>3, <1>4, <1>5, <1>6, <1>7, <1>8, <1>9, <1>10,
   <1>11, <1>12, <1>13, StepCases

(* The header changes at the commit point and when all is installed. *)
LEMMA HeadInvStep == ASSUME IInv, [Next]_vars PROVE HeadInv'
<1>. USE ThreadFacts, SeqFacts DEF IInv, storage, buffers, log, locals
<1>1. ASSUME NEW o \in Op, BeginOp(o) PROVE HeadInv'
  <2>1. Begun(o)
    BY <1>1, BeginOpEffect, Zenon
  <2>. QED BY <2>1 DEF Begun, TypeOK, HeadInv, PhaseInv
<1>2. ASSUME NEW o \in Op, LogWrite(o) PROVE HeadInv'
  <2>1. LogWritten(o)
    BY <1>2, LogWriteEffect, Zenon
  <2>. QED BY <2>1, ActiveFacts DEF LogWritten, TypeOK, HeadInv, PhaseInv,
     CommitInv, CountInv, CommitPc, Active
<1>3. ASSUME NEW o \in Op, EndOp(o) PROVE HeadInv'
  <2>1. Ended(o)
    BY <1>3, EndOpEffect, Zenon
  <2>. QED BY <2>1 DEF Ended, WakeupAt, TypeOK, HeadInv, PhaseInv, CommitInv,
     CommitPc
<1>4. ASSUME NEW o \in Op, WriteLog(o) PROVE HeadInv'
  BY <1>4 DEF WriteLog, Iterate, Goto, TypeOK, HeadInv, PhaseInv
<1>5. ASSUME NEW o \in Op, WriteHead(o) PROVE HeadInv'
  BY <1>5 DEF WriteHead, Goto, TypeOK, HeadInv, PhaseInv, LogInv, CommitInv,
     CommitPc
<1>6. ASSUME NEW t \in Thread, Install(t) PROVE HeadInv'
  BY <1>6 DEF Install, Iterate, Goto, TypeOK, HeadInv, PhaseInv
<1>7. ASSUME NEW t \in Thread, Clear(t) PROVE HeadInv'
  BY <1>7 DEF Clear, Goto, TypeOK, HeadInv, PhaseInv
<1>8. ASSUME NEW o \in Op, Wake(o) PROVE HeadInv'
  BY <1>8 DEF Wake, WakeupAt, TypeOK, HeadInv, PhaseInv
<1>9. ASSUME NEW o \in Op, NEW b \in Block, Modify(o, b) PROVE HeadInv'
  BY <1>9 DEF Modify, Goto, TypeOK, HeadInv, PhaseInv
<1>10. CASE ReadHead
  BY <1>10 DEF ReadHead, Goto, TypeOK, HeadInv, PhaseInv
<1>11. ASSUME NEW b \in Block, Recycle(b) PROVE HeadInv'
  BY <1>11 DEF Recycle, TypeOK, HeadInv, PhaseInv
<1>12. CASE Crash
  BY <1>12 DEF Crash, TypeOK, HeadInv, PhaseInv
<1>13. CASE UNCHANGED vars
  BY <1>13 DEF vars, TypeOK, HeadInv
<1>. QED BY <1>1, <1>2, <1>3, <1>4, <1>5, <1>6, <1>7, <1>8, <1>9, <1>10,
   <1>11, <1>12, <1>13, StepCases

(* A reservation pays for each block appended to the log. *)
LEMMA SpaceInvStep == ASSUME IInv, [Next]_vars PROVE SpaceInv'
<1>0. TypeOK' /\ CountInv'
  BY TypeOKStep, CountInvStep
<1>. USE ThreadFacts DEF IInv, storage, buffers, log, locals
<1>1. ASSUME NEW o \in Op, BeginOp(o) PROVE SpaceInv'
  <2>0. Begun(o)
    BY <1>1, BeginOpEffect, Zenon
  <2>1. CASE pc' = [pc EXCEPT ![o] = "asleep"]
    <3>1. Active' \subseteq Active /\ Len(lh') = Len(lh)
      BY <2>0, <2>1, ActiveStep DEF Begun
    <3>2. \A q \in Op : Spent(q) \subseteq Spent(q)'
      BY <2>0, LoggedSame DEF Begun, Spent
    <3>3. pc[Boot] = "up"
      BY <2>0 DEF Begun
    <3>. QED BY <1>0, <3>1, <3>2, <3>3, SpaceStep DEF Active
  <2>2. CASE outstanding' = outstanding + 1 /\ ~MustWait
    <3>1. outstanding' = Cardinality(Active') /\ IsFiniteSet(Active')
      BY <1>0, ThreadAssumption, FS_Subset DEF CountInv, Active
    <3>2. Credits' \subseteq Active' \X (1 .. MaxOpBlocks)
      BY DEF Credits
    <3>3. /\ IsFiniteSet(1 .. MaxOpBlocks)
          /\ Cardinality(1 .. MaxOpBlocks) = MaxOpBlocks
      BY FS_Interval
    <3>4. /\ IsFiniteSet(Active' \X (1 .. MaxOpBlocks))
          /\ Cardinality(Active' \X (1 .. MaxOpBlocks))
                = (outstanding + 1) * MaxOpBlocks
      <4> DEFINE S == Active'
                 T == 1 .. MaxOpBlocks
      <4>1. IsFiniteSet(S) /\ IsFiniteSet(T)
        BY <3>1, <3>3
      <4>2. Cardinality(S) = outstanding + 1 /\ Cardinality(T) = MaxOpBlocks
        BY <2>2, <3>1, <3>3
      <4> HIDE DEF S, T
      <4>3. /\ IsFiniteSet(S \X T)
            /\ Cardinality(S \X T) = Cardinality(S) * Cardinality(T)
        BY <4>1, FS_Product, Zenon
      <4>4. IsFiniteSet(S \X T) /\ Cardinality(S \X T) = (outstanding + 1) * MaxOpBlocks
        BY <4>2, <4>3, Zenon
      <4>. QED BY <4>4 DEF S, T
    <3>5. /\ Cardinality(Credits') \in Nat
          /\ Cardinality(Credits') <= (outstanding + 1) * MaxOpBlocks
      BY <3>2, <3>4, FS_Subset, FS_CardinalityType
    <3>6. Len(lh') = Len(lh) /\ Len(lh) \in Nat
      BY <2>0 DEF Begun, TypeOK
    <3>7. Len(lh) + (outstanding + 1) * MaxOpBlocks <= LogSize
      <4> DEFINE reserved == (outstanding + 1) * MaxOpBlocks
      <4>1. reserved \in Nat
        BY DEF TypeOK
      <4>2. ~(Len(lh) + reserved > LogSize)
        BY <2>2, Zenon DEF MustWait
      <4> HIDE DEF reserved
      <4>3. Len(lh) + reserved <= LogSize
        BY <3>6, <4>1, <4>2
      <4>. QED BY <4>3 DEF reserved
    <3>8. Cardinality(Credits') <= LogSize - Len(lh)
      <4> DEFINE reserved == (outstanding + 1) * MaxOpBlocks
      <4>1. reserved \in Nat
        BY DEF TypeOK
      <4>2. Cardinality(Credits') <= reserved /\ Len(lh) + reserved <= LogSize
        BY <3>5, <3>7
      <4> HIDE DEF reserved
      <4>. QED BY <3>5, <3>6, <4>1, <4>2
    <3>. QED BY <3>5, <3>6, <3>8 DEF SpaceInv
  <2>. QED BY <2>0, <2>1, <2>2 DEF Begun
<1>2. ASSUME NEW o \in Op, LogWrite(o) PROVE SpaceInv'
  <2>1. LogWritten(o)
    BY <1>2, LogWriteEffect
  <2>2. Active' = Active /\ o \in Active
    BY <2>1, ActiveStep DEF LogWritten, Active
  <2>3. \A q \in Op : Spent(q) \subseteq Spent(q)'
    BY <2>1 DEF LogWritten, TypeOK, Spent
  <2>4. CASE lh' = lh
    BY <1>0, <2>1, <2>2, <2>3, <2>4, SpaceStep DEF LogWritten, Active
  <2>5. CASE lh' = Append(lh, target[o]) /\ ~Logged(target[o])
    <3> DEFINE n == Cardinality(Spent(o))
    <3>1. Spent(o)' = Spent(o) \cup {target[o]} /\ target[o] \notin Spent(o)
      BY <2>1, <2>5 DEF LogWritten, TypeOK, Spent
    <3>2. Cardinality(Spent(o)') = n + 1 /\ n \in Nat
      BY <3>1, SpentFacts, FS_AddElement
    <3>3. n + 1 <= MaxOpBlocks
      <4>1. Spent(o)' \subseteq wrote[o]
        BY <2>1, <3>1, SpentFacts DEF LogWritten
      <4>2. Cardinality(wrote[o]) \in Nat /\ n + 1 <= Cardinality(wrote[o])
        BY <3>2, <4>1, SpentFacts, FS_Subset, FS_CardinalityType
      <4>. QED BY <3>2, <4>2 DEF TargetInv
    <3>4. <<o, n + 1>> \in Credits \ Credits'
      BY <2>2, <3>2, <3>3 DEF Credits
    <3>5. Credits' \subseteq Credits \ {<<o, n + 1>>}
      BY <1>0, <2>2, <2>3, <3>4, CreditsShrink DEF Active
    <3>6. /\ Cardinality(Credits') <= Cardinality(Credits) - 1
          /\ Cardinality(Credits') \in Nat /\ Cardinality(Credits) \in Nat
      BY <3>4, <3>5, CreditsFinite, FS_RemoveElement, FS_Subset,
         FS_CardinalityType
    <3>7. /\ Len(lh') = Len(lh) + 1 /\ Len(lh) \in Nat
          /\ pc'[Boot] = "up" => pc[Boot] = "up"
      BY <2>1, <2>5, AppendFacts DEF LogWritten, TypeOK
    <3>. QED BY <3>6, <3>7 DEF SpaceInv
  <2>. QED BY <2>1, <2>4, <2>5 DEF LogWritten
<1>3. ASSUME NEW o \in Op, EndOp(o) PROVE SpaceInv'
  <2>0. Ended(o)
    BY <1>3, EndOpEffect
  <2>1. Active' \subseteq Active \ {o} /\ Len(lh') = Len(lh)
    BY <2>0 DEF Ended, Active, Thread
  <2>2. \A q \in Op \ {o} : Spent(q) \subseteq Spent(q)'
    BY <2>0, LoggedSame DEF Ended, TypeOK, Spent
  <2>3. pc'[Boot] = "up" => pc[Boot] = "up"
    BY <2>0 DEF Ended
  <2>. QED BY <1>0, <2>1, <2>2, <2>3, SpaceStep DEF Active
<1>4. ASSUME NEW o \in Op, WriteLog(o) PROVE SpaceInv'
  <2>1. Active' \subseteq Active /\ Len(lh') = Len(lh)
    BY <1>4 DEF WriteLog, Iterate, Goto, TypeOK, Active
  <2>2. \A q \in Op : Spent(q) \subseteq Spent(q)'
    BY <1>4, LoggedSame DEF WriteLog, Spent
  <2>3. pc'[Boot] = "up" => pc[Boot] = "up"
    BY <1>4 DEF WriteLog, Iterate, Goto, TypeOK
  <2>. QED BY <1>0, <2>1, <2>2, <2>3, SpaceStep DEF Active
<1>5. ASSUME NEW o \in Op, WriteHead(o) PROVE SpaceInv'
  <2>1. Active' \subseteq Active /\ Len(lh') = Len(lh)
    BY <1>5 DEF WriteHead, Goto, TypeOK, Active
  <2>2. \A q \in Op : Spent(q) \subseteq Spent(q)'
    BY <1>5, LoggedSame DEF WriteHead, Spent
  <2>3. pc'[Boot] = "up" => pc[Boot] = "up"
    BY <1>5 DEF WriteHead, Goto, TypeOK
  <2>. QED BY <1>0, <2>1, <2>2, <2>3, SpaceStep DEF Active
<1>6. ASSUME NEW t \in Thread, Install(t) PROVE SpaceInv'
  <2>1. Active' \subseteq Active /\ Len(lh') = Len(lh)
    BY <1>6 DEF Install, Iterate, Goto, TypeOK, Active
  <2>2. \A q \in Op : Spent(q) \subseteq Spent(q)'
    BY <1>6, LoggedSame DEF Install, Spent
  <2>3. pc'[Boot] = "up" => pc[Boot] = "up"
    BY <1>6 DEF Install, Iterate, Goto, TypeOK
  <2>. QED BY <1>0, <2>1, <2>2, <2>3, SpaceStep DEF Active
<1>7. ASSUME NEW t \in Thread, Clear(t) PROVE SpaceInv'
  <2>1. \A q \in Op : pc[q] \notin {"run", "modified"}
    BY <1>7, ActiveFacts DEF Clear, PhaseInv, CommitInv, CommitPc
  <2>2. Active' = {} /\ Len(lh') = 0
    BY <1>7, <2>1 DEF Clear, Goto, TypeOK, Active
  <2>3. Credits' = {}
    BY <2>2 DEF Credits
  <2>. QED BY <2>2, <2>3, FS_EmptySet DEF SpaceInv
<1>8. ASSUME NEW o \in Op, Wake(o) PROVE SpaceInv'
  <2>1. Active' \subseteq Active /\ Len(lh') = Len(lh)
    BY <1>8 DEF Wake, WakeupAt, TypeOK, Active
  <2>2. \A q \in Op : Spent(q) \subseteq Spent(q)'
    BY <1>8, LoggedSame DEF Wake, Spent
  <2>3. pc'[Boot] = "up" => pc[Boot] = "up"
    BY <1>8 DEF Wake, WakeupAt, TypeOK
  <2>. QED BY <1>0, <2>1, <2>2, <2>3, SpaceStep DEF Active
<1>9. ASSUME NEW o \in Op, NEW b \in Block, Modify(o, b) PROVE SpaceInv'
  <2>1. Active' \subseteq Active /\ Len(lh') = Len(lh)
    BY <1>9 DEF Modify, Goto, TypeOK, Active
  <2>2. \A q \in Op : Spent(q) \subseteq Spent(q)'
    BY <1>9, LoggedSame DEF Modify, TypeOK, Spent
  <2>3. pc'[Boot] = "up" => pc[Boot] = "up"
    BY <1>9 DEF Modify, Goto, TypeOK
  <2>. QED BY <1>0, <2>1, <2>2, <2>3, SpaceStep DEF Active
<1>10. CASE ReadHead
  BY <1>10 DEF ReadHead, Goto, TypeOK, SpaceInv
<1>11. ASSUME NEW b \in Block, Recycle(b) PROVE SpaceInv'
  <2>1. Active' \subseteq Active /\ Len(lh') = Len(lh)
    BY <1>11 DEF Recycle, Active
  <2>2. \A q \in Op : Spent(q) \subseteq Spent(q)'
    BY <1>11, LoggedSame DEF Recycle, Spent
  <2>3. pc'[Boot] = "up" => pc[Boot] = "up"
    BY <1>11 DEF Recycle
  <2>. QED BY <1>0, <2>1, <2>2, <2>3, SpaceStep DEF Active
<1>12. CASE Crash
  BY <1>12 DEF Crash, TypeOK, SpaceInv
<1>13. CASE UNCHANGED vars
  <2>1. Active' \subseteq Active /\ Len(lh') = Len(lh)
    BY <1>13 DEF vars, Active
  <2>2. \A q \in Op : Spent(q) \subseteq Spent(q)'
    BY <1>13, LoggedSame DEF vars, Spent
  <2>3. pc'[Boot] = "up" => pc[Boot] = "up"
    BY <1>13 DEF vars
  <2>. QED BY <1>0, <2>1, <2>2, <2>3, SpaceStep DEF Active
<1>. QED BY <1>1, <1>2, <1>3, <1>4, <1>5, <1>6, <1>7, <1>8, <1>9, <1>10,
   <1>11, <1>12, <1>13, StepCases

(* Who makes room in the log wakes the calls that wait for it. *)
LEMMA NoMissedWakeupStep == ASSUME IInv, [Next]_vars PROVE NoMissedWakeup'
<1>. USE ThreadFacts DEF IInv, storage, buffers, log, locals
<1>1. ASSUME NEW o \in Op, BeginOp(o) PROVE NoMissedWakeup'
  <2>1. Begun(o)
    BY <1>1, BeginOpEffect, Zenon
  <2>. QED BY <2>1 DEF Begun, TypeOK, NoMissedWakeup, MustWait
<1>2. ASSUME NEW o \in Op, LogWrite(o) PROVE NoMissedWakeup'
  <2>1. LogWritten(o)
    BY <1>2, LogWriteEffect, Zenon
  <2>. QED BY <2>1 DEF LogWritten, TypeOK, NoMissedWakeup, MustWait
<1>3. ASSUME NEW o \in Op, EndOp(o) PROVE NoMissedWakeup'
  <2>1. Ended(o)
    BY <1>3, EndOpEffect, Zenon
  <2>. QED BY <2>1 DEF Ended, WakeupAt, TypeOK, NoMissedWakeup, MustWait
<1>4. ASSUME NEW o \in Op, WriteLog(o) PROVE NoMissedWakeup'
  BY <1>4 DEF WriteLog, Iterate, Goto, TypeOK, NoMissedWakeup, MustWait
<1>5. ASSUME NEW o \in Op, WriteHead(o) PROVE NoMissedWakeup'
  BY <1>5 DEF WriteHead, Goto, TypeOK, NoMissedWakeup, MustWait
<1>6. ASSUME NEW t \in Thread, Install(t) PROVE NoMissedWakeup'
  BY <1>6 DEF Install, Iterate, Goto, TypeOK, NoMissedWakeup, MustWait
<1>7. ASSUME NEW t \in Thread, Clear(t) PROVE NoMissedWakeup'
  BY <1>7 DEF Clear, Goto, TypeOK, NoMissedWakeup, PhaseInv, CommitInv,
     MustWait, CommitPc
<1>8. ASSUME NEW o \in Op, Wake(o) PROVE NoMissedWakeup'
  BY <1>8 DEF Wake, WakeupAt, TypeOK, NoMissedWakeup, MustWait
<1>9. ASSUME NEW o \in Op, NEW b \in Block, Modify(o, b) PROVE
   NoMissedWakeup'
  BY <1>9 DEF Modify, Goto, TypeOK, NoMissedWakeup, MustWait
<1>10. CASE ReadHead
  BY <1>10 DEF ReadHead, Goto, TypeOK, NoMissedWakeup, PhaseInv, CommitInv,
     MustWait, CommitPc
<1>11. ASSUME NEW b \in Block, Recycle(b) PROVE NoMissedWakeup'
  BY <1>11 DEF Recycle, TypeOK, NoMissedWakeup, MustWait
<1>12. CASE Crash
  BY <1>12 DEF Crash, TypeOK, NoMissedWakeup, MustWait
<1>13. CASE UNCHANGED vars
  BY <1>13 DEF vars, TypeOK, NoMissedWakeup, MustWait
<1>. QED BY <1>1, <1>2, <1>3, <1>4, <1>5, <1>6, <1>7, <1>8, <1>9, <1>10,
   <1>11, <1>12, <1>13, StepCases

(* No call has begun, and recovery has an empty log to read. *)
LEMMA InitInv == Init => IInv
<1>. SUFFICES ASSUME Init PROVE IInv
  OBVIOUS
<1>. USE ThreadFacts, SeqFacts
<1>1. TypeOK
  <2>1. /\ head \in Seq(Block) /\ lh \in Seq(Block) /\ Len(head) <= LogSize
        /\ Len(lh) <= LogSize
    BY DEF Init
  <2>2. /\ pc \in [Thread -> Label] /\ tail \in [Thread -> 1 .. LogSize]
        /\ crashes \in 0 .. MaxCrash
    BY DEF Init, Label
  <2>. QED BY <2>1, <2>2 DEF Init, TypeOK, Content, Label
<1>2. PhaseInv /\ CommitInv /\ LogInv /\ EmptyInv /\ TailInv /\ HeadInv
  BY DEF Init, PhaseInv, CommitInv, CommitPc, LogInv, EmptyInv, Logs, TailInv,
     HeadInv
<1>3. CountInv
  <2>1. Active = {} /\ outstanding = 0
    BY DEF Init, Active
  <2>. QED BY <2>1, FS_EmptySet DEF CountInv
<1>4. TargetInv
  BY FS_EmptySet DEF Init, TargetInv
<1>5. SpaceInv /\ NoMissedWakeup
  BY DEF Init, SpaceInv, NoMissedWakeup
<1>. QED BY <1>1, <1>2, <1>3, <1>4, <1>5 DEF IInv

(* Each part of the invariant is kept. *)
LEMMA InvStep == ASSUME IInv, [Next]_vars PROVE IInv'
BY TypeOKStep, PhaseInvStep, CommitInvStep, CountInvStep, TargetInvStep,
   LogInvStep, EmptyInvStep, TailInvStep, HeadInvStep, SpaceInvStep,
   NoMissedWakeupStep DEF IInv

(* The invariant holds in every reachable state. *)
THEOREM Invariance == Spec => []IInv
<1>1. Init => IInv
  BY InitInv
<1>2. IInv /\ [Next]_vars => IInv'
  BY InvStep
<1>. QED BY <1>1, <1>2, PTL DEF Spec

(* Every variable keeps its type; log.lh never outgrows its array. *)
THEOREM TypeCorrectness == Spec => []TypeOK
<1>1. IInv => TypeOK
  BY DEF IInv
<1>. QED BY <1>1, Invariance, PTL

(* begin_op() sleeps only while it must: end_op() lets nobody sleep on. *)
THEOREM WakeupsReachCalls == Spec => []NoMissedWakeup
<1>1. IInv => NoMissedWakeup
  BY DEF IInv
<1>. QED BY <1>1, Invariance, PTL

(* Calls that leave some of their reservation unused: one block of it, or  *)
(* two when log.size is no larger than LOGSIZE, as in the code.            *)
Slack ==
    /\ OpWrites < MaxOpBlocks
    /\ LogSize + OpWrites < MaxOpBlocks + Nlog - 1

(* Each active call has credits for what it has left of its reservation. *)
LEMMA CreditsOfCall ==
    ASSUME IInv, NEW o \in Active
    PROVE  /\ Cardinality(Credits) \in Nat
           /\ MaxOpBlocks - OpWrites <= Cardinality(Credits)
<1> DEFINE n == Cardinality(Spent(o))
           mine == {o} \X (n + 1 .. MaxOpBlocks)
<1>1. o \in Op /\ TypeOK /\ CountInv /\ TargetInv
  BY DEF Active, IInv
<1>2. n \in Nat /\ n <= OpWrites
  <2>1. /\ Cardinality(wrote[o]) \in Nat /\ n \in Nat
        /\ n <= Cardinality(wrote[o])
    BY <1>1, SpentFacts, FS_CardinalityType
  <2>2. Cardinality(wrote[o]) <= OpWrites
    BY <1>1 DEF TargetInv
  <2>. QED BY <2>1, <2>2, ThreadFacts
<1>3. IsFiniteSet(mine) /\ Cardinality(mine) = MaxOpBlocks - n
  <2>1. IsFiniteSet({o}) /\ Cardinality({o}) = 1
    BY FS_Singleton
  <2>2. /\ IsFiniteSet(n + 1 .. MaxOpBlocks)
        /\ Cardinality(n + 1 .. MaxOpBlocks) = MaxOpBlocks - n
    <3>1. n + 1 \in Int /\ MaxOpBlocks \in Int
      BY <1>2, ThreadFacts
    <3>2. /\ IsFiniteSet(n + 1 .. MaxOpBlocks)
          /\ Cardinality(n + 1 .. MaxOpBlocks)
                = IF n + 1 > MaxOpBlocks THEN 0 ELSE MaxOpBlocks - (n + 1) + 1
      BY <3>1, FS_Interval
    <3>3. n <= MaxOpBlocks
      BY <1>2, ThreadFacts
    <3>. QED BY <1>2, <3>2, <3>3, ThreadFacts
  <2>3. IsFiniteSet(mine) /\ Cardinality(mine) = 1 * (MaxOpBlocks - n)
    <3> DEFINE rest == n + 1 .. MaxOpBlocks
    <3>1. IsFiniteSet(rest) /\ Cardinality(rest) = MaxOpBlocks - n
      BY <2>2
    <3> HIDE DEF rest
    <3>2. /\ IsFiniteSet({o} \X rest)
          /\ Cardinality({o} \X rest) = Cardinality({o}) * Cardinality(rest)
      BY <2>1, <3>1, FS_Product
    <3>. QED BY <2>1, <3>1, <3>2 DEF rest
  <2>. QED BY <1>2, <2>3, ThreadFacts
<1>4. mine \subseteq Credits
  BY <1>1, <1>2, ThreadFacts DEF Credits
<1>5. Cardinality(mine) <= Cardinality(Credits) /\ Cardinality(Credits) \in Nat
  BY <1>1, <1>4, CreditsFinite, FS_Subset, FS_CardinalityType
<1>. QED BY <1>2, <1>3, <1>5, ThreadFacts

(* log_write() never finds the log full, nor end_op() a commit under way. *)
THEOREM PanicFreedom == Slack => (Spec => []NoPanic)
<1>. SUFFICES ASSUME Slack PROVE Spec => []NoPanic
  OBVIOUS
<1>1. IInv => NoPanic
  <2>. SUFFICES ASSUME IInv, NEW o \in Op, pc[o] \in {"run", "modified"}
                PROVE  ~Full /\ outstanding >= 1 /\ ~committing
    BY DEF NoPanic
  <2>1. outstanding >= 1 /\ ~committing
    BY ActiveFacts DEF IInv, TypeOK, CommitInv
  <2>2. o \in Active /\ pc[Boot] = "up"
    BY DEF Active, IInv, PhaseInv
  <2>3. Len(lh) + Cardinality(Credits) <= LogSize /\ Len(lh) \in Nat
    BY <2>2 DEF IInv, SpaceInv, TypeOK
  <2>4. Len(lh) < LogSize /\ Len(lh) < Nlog - 1
    BY <2>2, <2>3, CreditsOfCall, ThreadFacts DEF Slack
  <2>. QED BY <2>1, <2>3, <2>4, ThreadFacts DEF Full
<1>. QED BY <1>1, Invariance, PTL

(***************************************************************************)
(* The data: Log implements AtomicDisk.  File system calls see one disk,   *)
(* and a crash takes it back to a moment when no call was active.          *)
(***************************************************************************)
(* The i-th block of the log is not at home yet. *)
Pending(i) ==
    /\ pc[Boot] = "up"
    /\ \A o \in Op : pc[o] # "clear" /\ (pc[o] = "install" => tail[o] <= i)

(* bpin() holds what is in the log and not at home yet. *)
PinInv ==
    /\ \A b \in pinned : Logged(b)
    /\ pc[Boot] # "up" => pinned = {}
    /\ \A i \in DOMAIN lh : lh[i] \in pinned <=> Pending(i)

(* A buffer is like its home block, unless it is pinned or being changed. *)
CleanInv ==
    \A b \in cached :
        b \notin pinned /\ (\A o \in Op : target[o] # b) => cache[b] = disk[b]

(* The on-disk log has what is to be installed, and the home blocks what   *)
(* has been.                                                               *)
CopyInv ==
    /\ \A o \in Op : \A i \in DOMAIN lh :
          (\/ pc[o] = "write_log" /\ i < tail[o]
           \/ pc[o] = "write_head"
           \/ pc[o] = "install" /\ i >= tail[o]) => logdisk[i] = cache[lh[i]]
    /\ \A t \in Thread : \A i \in DOMAIN lh :
          (\/ pc[t] = "install" /\ i < tail[t]
           \/ pc[t] = "clear") => disk[lh[i]] = logdisk[i]

(* The inductive invariant about the data. *)
DInv == IInv /\ PinInv /\ CleanInv /\ CopyInv

------------------------------------------------------------------------------
(* A call is active only when nobody commits and recovery is over. *)
LEMMA ActiveAlone ==
    ASSUME IInv, NEW o \in Op, pc[o] \in {"run", "modified"}
    PROVE  /\ pc[Boot] = "up" /\ ~committing
           /\ \A t \in Thread : pc[t] \notin CommitPc
<1>1. pc[Boot] = "up"
  BY DEF IInv, PhaseInv
<1>2. ~committing
  BY ActiveFacts DEF IInv, CommitInv
<1>. QED BY <1>1, <1>2, ThreadFacts DEF IInv, CommitInv, CommitPc

(* Who commits or recovers is alone, and no call holds a buffer. *)
LEMMA CommitAlone ==
    ASSUME IInv, NEW t \in Thread, pc[t] \in CommitPc
    PROVE  /\ t # Boot => pc[Boot] = "up"
           /\ \A u \in Thread \ {t} : pc[u] \notin CommitPc
           /\ \A o \in Op : pc[o] \notin {"run", "modified"}
           /\ \A o \in Op : target[o] = NoBlock
<1>1. \A o \in Op : pc[o] \notin {"run", "modified"}
  BY ActiveAlone, ThreadFacts
<1>2. \A o \in Op : target[o] = NoBlock
  BY <1>1 DEF IInv, TargetInv
<1>3. t # Boot => pc[Boot] = "up"
  BY ThreadFacts DEF IInv, PhaseInv, CommitPc
<1>4. \A u \in Thread \ {t} : pc[u] \notin CommitPc
  BY ThreadFacts DEF IInv, PhaseInv, CommitInv, CommitPc
<1>. QED BY <1>1, <1>2, <1>3, <1>4

(* Steps that leave the log, the pins and the loop of install_trans() alone. *)
LEMMA PinKeep ==
    ASSUME PinInv, UNCHANGED <<lh, pinned>>, pc'[Boot] = pc[Boot],
           \A o \in Op :
              pc[o] \in {"install", "clear"} \/ pc'[o] \in {"install", "clear"}
                  => pc'[o] = pc[o] /\ tail'[o] = tail[o]
    PROVE  PinInv'
<1>1. \A i : Pending(i)' <=> Pending(i)
  BY DEF Pending
<1>2. \A b : Logged(b)' <=> Logged(b)
  BY LoggedSame
<1>. QED BY <1>1, <1>2 DEF PinInv

(* Steps that no commit or recovery is in the middle of. *)
LEMMA CopyIdle ==
    ASSUME \A t \in Thread : pc'[t] \notin CommitPc
    PROVE  CopyInv'
BY ThreadFacts DEF CopyInv, CommitPc

(* Steps that leave what is copied alone. *)
LEMMA CopyKeep ==
    ASSUME IInv, CopyInv, UNCHANGED <<lh, logdisk, disk, cache>>,
           \A t \in Thread :
              \/ pc'[t] \notin CommitPc \/ pc'[t] = "wake"
              \/ pc'[t] = pc[t] /\ tail'[t] = tail[t]
              \/ pc'[t] = "write_log" /\ tail'[t] = 1
    PROVE  CopyInv'
<1>1. DOMAIN lh = 1 .. Len(lh) /\ Len(lh) \in Nat
  BY SeqFacts DEF IInv, TypeOK
<1>2. ASSUME NEW o \in Op, NEW i \in DOMAIN lh',
             \/ pc'[o] = "write_log" /\ i < tail'[o]
             \/ pc'[o] = "write_head"
             \/ pc'[o] = "install" /\ i >= tail'[o]
      PROVE  logdisk'[i] = cache'[lh'[i]]
  BY <1>1, <1>2, ThreadFacts DEF CopyInv, CommitPc
<1>3. ASSUME NEW t \in Thread, NEW i \in DOMAIN lh',
             \/ pc'[t] = "install" /\ i < tail'[t]
             \/ pc'[t] = "clear"
      PROVE  disk'[lh'[i]] = logdisk'[i]
  BY <1>1, <1>3 DEF CopyInv, CommitPc
<1>. QED BY <1>2, <1>3 DEF CopyInv

(* A block is pinned when it enters the log, unpinned when it is home. *)
LEMMA PinInvStep == ASSUME DInv, [Next]_vars PROVE PinInv'
<1>. USE ThreadFacts DEF DInv, IInv, storage, buffers, log, locals
<1>1. ASSUME NEW o \in Op, BeginOp(o) PROVE PinInv'
  <2>1. UNCHANGED <<lh, pinned>>
    BY <1>1, BeginOpEffect DEF Begun
  <2>2. pc'[Boot] = pc[Boot]
    BY <1>1, BeginOpEffect DEF Begun, TypeOK
  <2>3. \A q \in Op :
           pc[q] \in {"install", "clear"} \/ pc'[q] \in {"install", "clear"}
               => pc'[q] = pc[q] /\ tail'[q] = tail[q]
    BY <1>1, BeginOpEffect DEF Begun, TypeOK
  <2>. QED BY <2>1, <2>2, <2>3, PinKeep
<1>2. ASSUME NEW o \in Op, LogWrite(o) PROVE PinInv'
  <2>1. LogWritten(o)
    BY <1>2, LogWriteEffect
  <2>2. pc[Boot] = "up" /\ \A t \in Thread : pc[t] \notin CommitPc
    BY <2>1, ActiveAlone DEF LogWritten
  <2>3. pc'[Boot] = "up" /\ \A t \in Thread : pc'[t] \notin CommitPc
    BY <2>1, <2>2 DEF LogWritten, TypeOK, CommitPc
  <2>4. (\A i : Pending(i)) /\ \A i : Pending(i)'
    BY <2>2, <2>3 DEF Pending, CommitPc
  <2>5. lh \in Seq(Block) /\ target[o] \in Block /\ pinned \subseteq Block
    BY <2>1 DEF LogWritten, TypeOK
  <2>6. \A b \in pinned' : Logged(b)'
    BY <2>1, <2>5 DEF LogWritten, PinInv
  <2>7. \A i \in DOMAIN lh' : lh'[i] \in pinned'
    <3>1. CASE lh' = lh /\ pinned' = pinned
      BY <2>4, <3>1 DEF PinInv
    <3>2. CASE lh' = Append(lh, target[o]) /\ pinned' = pinned \cup {target[o]}
      BY <2>4, <2>5, <3>2, SeqFacts, AppendFacts DEF PinInv
    <3>. QED BY <2>1, <3>1, <3>2 DEF LogWritten
  <2>. QED BY <2>3, <2>4, <2>6, <2>7 DEF PinInv
<1>3. ASSUME NEW o \in Op, EndOp(o) PROVE PinInv'
  <2>1. Ended(o)
    BY <1>3, EndOpEffect
  <2>2. UNCHANGED <<lh, pinned, tail>> /\ pc[o] = "run"
    BY <2>1 DEF Ended
  <2>3. \A t \in Thread \ {o} :
           pc'[t] = pc[t] \/ (pc[t] = "asleep" /\ pc'[t] = "begin")
    BY <2>1 DEF Ended
  <2>4. pc[Boot] = "up" /\ pc'[o] \in {"wake", "write_log", "done"}
    BY <2>1, ActiveAlone DEF Ended
  <2>. QED BY <2>2, <2>3, <2>4, PinKeep
<1>4. ASSUME NEW o \in Op, WriteLog(o) PROVE PinInv'
  <2>1. UNCHANGED <<lh, pinned>>
    BY <1>4 DEF WriteLog
  <2>2. pc'[Boot] = pc[Boot]
    BY <1>4 DEF WriteLog, Iterate, Goto, TypeOK
  <2>3. \A q \in Op :
           pc[q] \in {"install", "clear"} \/ pc'[q] \in {"install", "clear"}
               => pc'[q] = pc[q] /\ tail'[q] = tail[q]
    BY <1>4 DEF WriteLog, Iterate, Goto, TypeOK
  <2>. QED BY <2>1, <2>2, <2>3, PinKeep
<1>5. ASSUME NEW o \in Op, WriteHead(o) PROVE PinInv'
  <2>1. UNCHANGED <<lh, pinned, tail>> /\ pc' = [pc EXCEPT ![o] = "install"]
    BY <1>5 DEF WriteHead, Goto
  <2>2. pc[Boot] = "up" /\ pc[o] = "write_head" /\ tail[o] = 1
    BY <1>5, CommitAlone DEF WriteHead, CommitPc, TailInv
  <2>3. pc'[Boot] = "up"
    BY <2>1, <2>2 DEF TypeOK
  <2>4. DOMAIN lh = 1 .. Len(lh) /\ Len(lh) \in Nat
    BY SeqFacts DEF TypeOK
  <2>5. \A i \in DOMAIN lh : Pending(i)' <=> Pending(i)
    BY <2>1, <2>2, <2>3, <2>4 DEF Pending, TypeOK
  <2>. QED BY <2>1, <2>2, <2>3, <2>5, LoggedSame DEF PinInv
<1>6. ASSUME NEW t \in Thread, Install(t) PROVE PinInv'
  <2>1. /\ lh' = lh /\ pc[t] = "install"
        /\ pinned' = IF t = Boot THEN pinned ELSE pinned \ {lh[tail[t]]}
    BY <1>6 DEF Install
  <2>2. lh \in Seq(Block) /\ DOMAIN lh = 1 .. Len(lh) /\ Len(lh) \in Nat
    BY SeqFacts DEF TypeOK
  <2>3. tail[t] \in DOMAIN lh
    BY <2>1, LoopIndex
  <2>4. \A b \in pinned' : Logged(b)'
    BY <2>1, LoggedSame DEF PinInv
  <2>5. CASE t = Boot
    <3>1. pinned = {} /\ pc[Boot] # "up"
      BY <2>1, <2>5 DEF PinInv
    <3>2. pc'[Boot] # "up"
      BY <1>6, <2>5, <3>1 DEF Install, Iterate, Goto, TypeOK
    <3>. QED BY <2>1, <2>4, <2>5, <3>1, <3>2 DEF PinInv, Pending
  <2>6. CASE t # Boot
    <3>1. t \in Op /\ pc[Boot] = "up"
      BY <2>1, <2>6, CommitAlone DEF CommitPc
    <3>2. pc'[Boot] = "up"
      BY <1>6, <2>6, <3>1 DEF Install, Iterate, Goto, TypeOK
    <3>3. \A o \in Op \ {t} : pc[o] \notin CommitPc /\ pc'[o] = pc[o]
      BY <1>6, <2>1, CommitAlone DEF Install, Iterate, Goto, TypeOK, CommitPc
    <3>4. \A i \in DOMAIN lh : Pending(i) <=> tail[t] <= i
      BY <2>1, <3>1, <3>3 DEF Pending, CommitPc
    <3>5. \A i \in DOMAIN lh : Pending(i)' <=> tail[t] < i
      <4>0. tail \in [Thread -> 1 .. LogSize] /\ pc \in [Thread -> Label]
        BY DEF TypeOK, Label
      <4>1. CASE tail[t] < Len(lh)
        <5>1. pc'[t] = "install" /\ tail'[t] = tail[t] + 1
          BY <1>6, <2>1, <4>0, <4>1 DEF Install, Iterate
        <5>. QED BY <2>2, <2>3, <3>1, <3>2, <3>3, <5>1 DEF Pending, CommitPc
      <4>2. CASE ~(tail[t] < Len(lh))
        <5>1. pc'[t] = "clear"
          BY <1>6, <4>0, <4>2 DEF Install, Iterate, Goto
        <5>. QED BY <2>2, <2>3, <3>1, <4>2, <5>1 DEF Pending
      <4>. QED BY <4>1, <4>2
    <3>6. \A i \in DOMAIN lh : lh[i] \in pinned' <=> tail[t] < i
      BY <2>1, <2>2, <2>3, <2>6, <3>4 DEF PinInv, LogInv
    <3>. QED BY <2>1, <2>4, <3>2, <3>5, <3>6 DEF PinInv
  <2>. QED BY <2>5, <2>6
<1>7. ASSUME NEW t \in Thread, Clear(t) PROVE PinInv'
  <2>1. pc[t] = "clear" /\ lh' = <<>> /\ pinned' = pinned
    BY <1>7 DEF Clear
  <2>2. \A i : ~Pending(i)
    BY <2>1 DEF Pending
  <2>3. pinned = {}
    BY <2>2 DEF PinInv, Logged
  <2>4. DOMAIN lh' = {}
    BY <2>1
  <2>. QED BY <2>1, <2>3, <2>4 DEF PinInv
<1>8. ASSUME NEW o \in Op, Wake(o) PROVE PinInv'
  <2>1. UNCHANGED <<lh, pinned>>
    BY <1>8 DEF Wake
  <2>2. pc'[Boot] = pc[Boot]
    BY <1>8 DEF Wake, WakeupAt, PhaseInv, TypeOK
  <2>3. \A q \in Op :
           pc[q] \in {"install", "clear"} \/ pc'[q] \in {"install", "clear"}
               => pc'[q] = pc[q] /\ tail'[q] = tail[q]
    BY <1>8 DEF Wake, WakeupAt, PhaseInv, TypeOK
  <2>. QED BY <2>1, <2>2, <2>3, PinKeep
<1>9. ASSUME NEW o \in Op, NEW b \in Block, Modify(o, b) PROVE PinInv'
  <2>1. UNCHANGED <<lh, pinned>>
    BY <1>9 DEF Modify
  <2>2. pc'[Boot] = pc[Boot]
    BY <1>9 DEF Modify, Goto, TypeOK
  <2>3. \A q \in Op :
           pc[q] \in {"install", "clear"} \/ pc'[q] \in {"install", "clear"}
               => pc'[q] = pc[q] /\ tail'[q] = tail[q]
    BY <1>9 DEF Modify, Goto, TypeOK
  <2>. QED BY <2>1, <2>2, <2>3, PinKeep
<1>10. CASE ReadHead
  <2>1. pinned = {} /\ pinned' = pinned
    BY <1>10 DEF ReadHead, PinInv
  <2>2. pc'[Boot] # "up"
    BY <1>10 DEF ReadHead, Goto, TypeOK
  <2>. QED BY <2>1, <2>2 DEF PinInv, Pending
<1>11. ASSUME NEW b \in Block, Recycle(b) PROVE PinInv'
  <2>1. UNCHANGED <<lh, pinned>>
    BY <1>11 DEF Recycle
  <2>2. pc'[Boot] = pc[Boot]
    BY <1>11 DEF Recycle, TypeOK
  <2>3. \A q \in Op :
           pc[q] \in {"install", "clear"} \/ pc'[q] \in {"install", "clear"}
               => pc'[q] = pc[q] /\ tail'[q] = tail[q]
    BY <1>11 DEF Recycle, TypeOK
  <2>. QED BY <2>1, <2>2, <2>3, PinKeep
<1>12. CASE Crash
  <2>1. pinned' = {} /\ lh' = <<>>
    BY <1>12 DEF Crash
  <2>. QED BY <2>1 DEF PinInv
<1>13. CASE UNCHANGED vars
  <2>1. UNCHANGED <<lh, pinned>>
    BY <1>13 DEF vars
  <2>2. pc'[Boot] = pc[Boot]
    BY <1>13 DEF vars, TypeOK
  <2>3. \A q \in Op :
           pc[q] \in {"install", "clear"} \/ pc'[q] \in {"install", "clear"}
               => pc'[q] = pc[q] /\ tail'[q] = tail[q]
    BY <1>13 DEF vars, TypeOK
  <2>. QED BY <2>1, <2>2, <2>3, PinKeep
<1>. QED BY <1>1, <1>2, <1>3, <1>4, <1>5, <1>6, <1>7, <1>8, <1>9, <1>10,
   <1>11, <1>12, <1>13, StepCases

(* A buffer that differs from the disk is pinned or held. *)
LEMMA CleanInvStep == ASSUME DInv, [Next]_vars PROVE CleanInv'
<1>. USE ThreadFacts DEF DInv, IInv, storage, buffers, log, locals
<1>1. ASSUME NEW o \in Op, BeginOp(o) PROVE CleanInv'
  <2>1. Begun(o)
    BY <1>1, BeginOpEffect, Zenon
  <2>. QED BY <2>1 DEF Begun, TypeOK, CleanInv
<1>2. ASSUME NEW o \in Op, LogWrite(o) PROVE CleanInv'
  <2>1. LogWritten(o)
    BY <1>2, LogWriteEffect
  <2>2. target[o] \in pinned'
    <3>1. CASE Logged(target[o])
      <4>1. \A i : Pending(i)
        BY <2>1, ActiveAlone DEF LogWritten, Pending, CommitPc
      <4>. QED BY <2>1, <3>1, <4>1 DEF LogWritten, PinInv, Logged
    <3>2. CASE ~Logged(target[o])
      BY <2>1, <3>2 DEF LogWritten
    <3>. QED BY <3>1, <3>2
  <2>3. ASSUME NEW b \in cached', b \notin pinned',
               \A q \in Op : target'[q] # b
        PROVE  cache'[b] = disk'[b]
    <3>1. b \in cached /\ b \notin pinned /\ b # target[o]
      BY <2>1, <2>2, <2>3 DEF LogWritten
    <3>2. \A q \in Op : target[q] # b
      BY <2>1, <2>3, <3>1 DEF LogWritten, TypeOK
    <3>. QED BY <2>1, <3>1, <3>2 DEF LogWritten, CleanInv
  <2>. QED BY <2>3 DEF CleanInv
<1>3. ASSUME NEW o \in Op, EndOp(o) PROVE CleanInv'
  <2>1. Ended(o)
    BY <1>3, EndOpEffect, Zenon
  <2>. QED BY <2>1 DEF Ended, WakeupAt, TypeOK, CleanInv
<1>4. ASSUME NEW o \in Op, WriteLog(o) PROVE CleanInv'
  BY <1>4 DEF WriteLog, Iterate, Goto, TypeOK, CleanInv
<1>5. ASSUME NEW o \in Op, WriteHead(o) PROVE CleanInv'
  BY <1>5 DEF WriteHead, Goto, TypeOK, CleanInv
<1>6. ASSUME NEW t \in Thread, Install(t) PROVE CleanInv'
  <2>1. tail[t] \in DOMAIN lh /\ lh[tail[t]] \in Block
    BY <1>6, LoopIndex DEF Install
  <2>2. ASSUME NEW b \in cached', b \notin pinned',
               \A q \in Op : target'[q] # b
        PROVE  cache'[b] = disk'[b]
    <3>1. CASE b = lh[tail[t]]
      BY <1>6, <2>1, <3>1 DEF Install, TypeOK
    <3>2. CASE b # lh[tail[t]]
      <4>1. /\ b \in cached /\ b \notin pinned /\ target' = target
            /\ cache'[b] = cache[b] /\ disk'[b] = disk[b]
        BY <1>6, <2>1, <2>2, <3>2 DEF Install, TypeOK
      <4>. QED BY <2>2, <4>1 DEF CleanInv
    <3>. QED BY <3>1, <3>2
  <2>. QED BY <2>2 DEF CleanInv
<1>7. ASSUME NEW t \in Thread, Clear(t) PROVE CleanInv'
  BY <1>7 DEF Clear, Goto, TypeOK, CleanInv
<1>8. ASSUME NEW o \in Op, Wake(o) PROVE CleanInv'
  BY <1>8 DEF Wake, WakeupAt, TypeOK, CleanInv
<1>9. ASSUME NEW o \in Op, NEW b \in Block, Modify(o, b) PROVE CleanInv'
  <2>1. ASSUME NEW c \in cached', c \notin pinned',
               \A q \in Op : target'[q] # c
        PROVE  cache'[c] = disk'[c]
    <3>1. c # b /\ pc[o] = "run" /\ target[o] = NoBlock
      BY <1>9, <2>1 DEF Modify, TypeOK, TargetInv
    <3>2. /\ c \in cached /\ c \notin pinned /\ disk' = disk
          /\ cache'[c] = cache[c] /\ c \in Block
      BY <1>9, <2>1, <3>1 DEF Modify, TypeOK
    <3>3. \A q \in Op : target[q] # c
      BY <1>9, <2>1, <3>1, <3>2 DEF Modify, TypeOK
    <3>. QED BY <3>2, <3>3 DEF CleanInv
  <2>. QED BY <2>1 DEF CleanInv
<1>10. CASE ReadHead
  BY <1>10 DEF ReadHead, Goto, TypeOK, CleanInv
<1>11. ASSUME NEW b \in Block, Recycle(b) PROVE CleanInv'
  BY <1>11 DEF Recycle, TypeOK, CleanInv
<1>12. CASE Crash
  BY <1>12 DEF Crash, TypeOK, CleanInv
<1>13. CASE UNCHANGED vars
  BY <1>13 DEF vars, TypeOK, CleanInv
<1>. QED BY <1>1, <1>2, <1>3, <1>4, <1>5, <1>6, <1>7, <1>8, <1>9, <1>10,
   <1>11, <1>12, <1>13, StepCases

(* The loops leave behind them blocks that are copied. *)
LEMMA CopyInvStep == ASSUME DInv, [Next]_vars PROVE CopyInv'
<1>. USE ThreadFacts DEF DInv, IInv, storage, buffers, log, locals
<1>1. ASSUME NEW o \in Op, BeginOp(o) PROVE CopyInv'
  <2>1. UNCHANGED <<lh, logdisk, disk, cache>>
    BY <1>1, BeginOpEffect DEF Begun
  <2>2. \A t \in Thread :
           \/ pc'[t] \notin CommitPc \/ pc'[t] = "wake"
           \/ pc'[t] = pc[t] /\ tail'[t] = tail[t]
           \/ pc'[t] = "write_log" /\ tail'[t] = 1
    BY <1>1, BeginOpEffect DEF Begun, TypeOK, CommitPc
  <2>. QED BY <2>1, <2>2, CopyKeep
<1>2. ASSUME NEW o \in Op, LogWrite(o) PROVE CopyInv'
  <2>1. LogWritten(o)
    BY <1>2, LogWriteEffect
  <2>2. \A t \in Thread : pc[t] \notin CommitPc
    BY <2>1, ActiveAlone DEF LogWritten
  <2>3. \A t \in Thread : pc'[t] \notin CommitPc
    BY <2>1, <2>2 DEF LogWritten, TypeOK, CommitPc
  <2>. QED BY <2>3, CopyIdle
<1>3. ASSUME NEW o \in Op, EndOp(o) PROVE CopyInv'
  <2>1. Ended(o)
    BY <1>3, EndOpEffect
  <2>2. UNCHANGED <<lh, logdisk, disk, cache, tail>> /\ pc[o] = "run"
    BY <2>1 DEF Ended
  <2>3. tail[o] = 1
    BY <2>2 DEF TailInv
  <2>4. \A t \in Thread \ {o} :
           pc'[t] = pc[t] \/ (pc[t] = "asleep" /\ pc'[t] = "begin")
    BY <2>1 DEF Ended
  <2>5. pc'[o] \in {"wake", "write_log", "done"}
    BY <2>1 DEF Ended
  <2>. QED BY <2>2, <2>3, <2>4, <2>5, CopyKeep DEF CommitPc
<1>4. ASSUME NEW o \in Op, WriteLog(o) PROVE CopyInv'
  <2> DEFINE k == tail[o]
  <2>1. /\ UNCHANGED <<disk, cache, cached, lh>> /\ pc[o] = "write_log"
        /\ logdisk' = [logdisk EXCEPT ![k] = Read(lh[k])]
    BY <1>4 DEF WriteLog
  <2>2. k \in DOMAIN lh /\ k \in LogBlock /\ lh[k] \in Block
    BY <2>1, LoopIndex
  <2>3. DOMAIN lh = 1 .. Len(lh) /\ Len(lh) \in Nat
    BY SeqFacts DEF TypeOK
  <2>4. pc[Boot] = "up" /\ \A q \in Thread \ {o} : pc[q] \notin CommitPc
    BY <2>1, CommitAlone DEF CommitPc
  <2>5. Read(lh[k]) = cache[lh[k]]
    <3>1. Pending(k)
      BY <2>1, <2>4 DEF Pending, CommitPc
    <3>. QED BY <2>2, <3>1 DEF PinInv, TypeOK, Read
  <2>6. \A i \in DOMAIN lh : i <= k => logdisk'[i] = cache[lh[i]]
    <3>1. logdisk'[k] = cache[lh[k]]
      BY <2>1, <2>2, <2>5 DEF TypeOK
    <3>2. \A i \in DOMAIN lh : i # k => logdisk'[i] = logdisk[i]
      BY <2>1
    <3>. QED BY <2>1, <2>2, <2>3, <3>1, <3>2 DEF CopyInv
  <2>7. /\ \A q \in Thread \ {o} : pc'[q] = pc[q]
        /\ \/ pc'[o] = "write_log" /\ tail'[o] = k + 1
           \/ pc'[o] = "write_head" /\ k >= Len(lh)
    <3>1. pc \in [Thread -> Label] /\ tail \in [Thread -> 1 .. LogSize]
      BY DEF TypeOK, Label
    <3>. QED BY <1>4, <2>1, <2>3, <3>1 DEF WriteLog, Iterate, Goto
  <2>. QED BY <2>1, <2>2, <2>3, <2>4, <2>6, <2>7 DEF CopyInv, CommitPc
<1>5. ASSUME NEW o \in Op, WriteHead(o) PROVE CopyInv'
  <2>1. /\ UNCHANGED <<disk, logdisk, cache, lh, tail>> /\ pc[o] = "write_head"
        /\ pc' = [pc EXCEPT ![o] = "install"]
    BY <1>5 DEF WriteHead, Goto
  <2>2. tail[o] = 1
    BY <2>1 DEF TailInv
  <2>3. \A q \in Thread \ {o} : pc'[q] = pc[q] /\ pc[q] \notin CommitPc
    BY <2>1, CommitAlone DEF TypeOK, CommitPc
  <2>4. pc'[o] = "install"
    BY <2>1 DEF TypeOK
  <2>5. DOMAIN lh = 1 .. Len(lh) /\ Len(lh) \in Nat
    BY SeqFacts DEF TypeOK
  <2>. QED BY <2>1, <2>2, <2>3, <2>4, <2>5 DEF CopyInv, CommitPc
<1>6. ASSUME NEW t \in Thread, Install(t) PROVE CopyInv'
  <2> DEFINE k == tail[t]
  <2>1. UNCHANGED <<logdisk, lh>> /\ pc[t] = "install"
    BY <1>6 DEF Install
  <2>2. k \in DOMAIN lh /\ lh[k] \in Block
    BY <2>1, LoopIndex
  <2>3. lh \in Seq(Block) /\ DOMAIN lh = 1 .. Len(lh) /\ Len(lh) \in Nat
    BY SeqFacts DEF TypeOK
  <2>4. \A q \in Thread \ {t} : pc[q] \notin CommitPc
    BY <2>1, CommitAlone DEF CommitPc
  <2>5. \A i \in DOMAIN lh : /\ lh[i] \in Block
                             /\ i # k => lh[i] # lh[k]
    BY <2>2, <2>3 DEF LogInv
  <2>6. /\ disk'[lh[k]] = logdisk[k] /\ cache'[lh[k]] = logdisk[k]
        /\ \A c \in Block \ {lh[k]} : disk'[c] = disk[c] /\ cache'[c] = cache[c]
    BY <1>6, <2>2 DEF Install, TypeOK
  <2>7. \A i \in DOMAIN lh : i <= k => disk'[lh[i]] = logdisk[i]
    BY <2>1, <2>2, <2>3, <2>5, <2>6 DEF CopyInv
  <2>8. t \in Op => \A i \in DOMAIN lh : i > k => logdisk[i] = cache'[lh[i]]
    BY <2>1, <2>2, <2>3, <2>5, <2>6 DEF CopyInv
  <2>9. /\ \A q \in Thread \ {t} : pc'[q] = pc[q]
        /\ \/ pc'[t] = "install" /\ tail'[t] = k + 1
           \/ pc'[t] = "clear" /\ k >= Len(lh)
    <3>1. pc \in [Thread -> Label] /\ tail \in [Thread -> 1 .. LogSize]
      BY DEF TypeOK, Label
    <3>. QED BY <1>6, <2>1, <2>3, <3>1 DEF Install, Iterate, Goto
  <2>. QED BY <2>1, <2>2, <2>3, <2>4, <2>7, <2>8, <2>9 DEF CopyInv, CommitPc
<1>7. ASSUME NEW t \in Thread, Clear(t) PROVE CopyInv'
  <2>1. DOMAIN lh' = {}
    BY <1>7 DEF Clear
  <2>. QED BY <2>1 DEF CopyInv
<1>8. ASSUME NEW o \in Op, Wake(o) PROVE CopyInv'
  <2>1. UNCHANGED <<lh, logdisk, disk, cache>>
    BY <1>8 DEF Wake
  <2>2. \A t \in Thread :
           \/ pc'[t] \notin CommitPc \/ pc'[t] = "wake"
           \/ pc'[t] = pc[t] /\ tail'[t] = tail[t]
           \/ pc'[t] = "write_log" /\ tail'[t] = 1
    BY <1>8 DEF Wake, WakeupAt, TypeOK, CommitPc
  <2>. QED BY <2>1, <2>2, CopyKeep
<1>9. ASSUME NEW o \in Op, NEW b \in Block, Modify(o, b) PROVE CopyInv'
  <2>1. pc[o] = "run" /\ pc' = [pc EXCEPT ![o] = "modified"]
    BY <1>9 DEF Modify, Goto
  <2>2. \A t \in Thread : pc[t] \notin CommitPc
    BY <2>1, ActiveAlone
  <2>3. \A t \in Thread : pc'[t] \notin CommitPc
    BY <2>1, <2>2 DEF TypeOK, CommitPc
  <2>. QED BY <2>3, CopyIdle
<1>10. CASE ReadHead
  <2>1. /\ pc[Boot] = "read_head" /\ lh' = head /\ tail' = tail
        /\ pc' = [pc EXCEPT ![Boot] = IF head = <<>> THEN "clear" ELSE "install"]
    BY <1>10 DEF ReadHead, Goto
  <2>2. tail[Boot] = 1
    BY <2>1 DEF TailInv
  <2>3. \A o \in Op : pc'[o] \in {"begin", "done", "lost"}
    BY <2>1 DEF PhaseInv, TypeOK
  <2>4. DOMAIN head = 1 .. Len(head) /\ Len(head) \in Nat
    BY SeqFacts DEF TypeOK
  <2>5. pc'[Boot] = "clear" => DOMAIN lh' = {}
    BY <2>1 DEF TypeOK
  <2>. QED BY <2>1, <2>2, <2>3, <2>4, <2>5 DEF CopyInv
<1>11. ASSUME NEW b \in Block, Recycle(b) PROVE CopyInv'
  <2>1. /\ b \notin pinned /\ UNCHANGED <<storage, lh, pc, tail>>
        /\ \A c \in Block \ {b} : cache'[c] = cache[c]
    BY <1>11 DEF Recycle, TypeOK
  <2>2. lh \in Seq(Block) /\ \A i \in DOMAIN lh : lh[i] \in Block
    BY DEF TypeOK
  <2>3. ASSUME NEW o \in Op, NEW i \in DOMAIN lh,
               \/ pc[o] = "write_log" /\ i < tail[o]
               \/ pc[o] = "write_head"
               \/ pc[o] = "install" /\ i >= tail[o]
        PROVE  lh[i] # b
    <3>1. pc[Boot] = "up" /\ \A q \in Op \ {o} : pc[q] \notin CommitPc
      BY <2>3, CommitAlone DEF CommitPc
    <3>2. tail[o] \in Nat /\ i \in Nat
      BY <2>2 DEF TypeOK
    <3>3. Pending(i)
      BY <2>3, <3>1, <3>2 DEF Pending, CommitPc
    <3>. QED BY <2>1, <3>3 DEF PinInv
  <2>. QED BY <2>1, <2>2, <2>3 DEF CopyInv
<1>12. CASE Crash
  <2>1. DOMAIN lh' = {}
    BY <1>12 DEF Crash
  <2>. QED BY <2>1 DEF CopyInv
<1>13. CASE UNCHANGED vars
  <2>1. UNCHANGED <<lh, logdisk, disk, cache>>
    BY <1>13 DEF vars
  <2>2. \A t \in Thread :
           \/ pc'[t] \notin CommitPc \/ pc'[t] = "wake"
           \/ pc'[t] = pc[t] /\ tail'[t] = tail[t]
           \/ pc'[t] = "write_log" /\ tail'[t] = 1
    BY <1>13 DEF vars, TypeOK, CommitPc
  <2>. QED BY <2>1, <2>2, CopyKeep
<1>. QED BY <1>1, <1>2, <1>3, <1>4, <1>5, <1>6, <1>7, <1>8, <1>9, <1>10,
   <1>11, <1>12, <1>13, StepCases

(* Each part of the invariant is kept, and holds at the start. *)
LEMMA DInvStep == ASSUME DInv, [Next]_vars PROVE DInv'
<1>1. IInv'
  BY InvStep DEF DInv
<1>. QED BY <1>1, PinInvStep, CleanInvStep, CopyInvStep DEF DInv

(* The disk is empty at the start, and so is the cache. *)
LEMMA InitDInv == Init => DInv
<1>. SUFFICES ASSUME Init PROVE DInv
  OBVIOUS
<1>1. PinInv /\ CleanInv /\ CopyInv
  BY DEF Init, PinInv, CleanInv, CopyInv
<1>. QED BY <1>1, InitInv DEF DInv

(* Pins, buffers and both copies of a block agree in every reachable state. *)
THEOREM DataInvariance == Spec => []DInv
<1>1. DInv /\ [Next]_vars => DInv'
  BY DInvStep
<1>. QED BY <1>1, InitDInv, PTL DEF Spec

------------------------------------------------------------------------------
(* What a crash leaves, and what calls see, block by block. *)
StableShape ==
    /\ \A i \in DOMAIN head : Stable[head[i]] = logdisk[i]
    /\ \A b \in Block :
          (\A i \in DOMAIN head : head[i] # b) => Stable[b] = disk[b]
    /\ Stable = [b \in Block |-> Stable[b]]

MemShape ==
    /\ pc[Boot] = "up" => \A b \in Block : Mem[b] = Read(b)
    /\ pc[Boot] # "up" => Mem = Stable
    /\ Mem = [b \in Block |-> Mem[b]]

(* Both are so. *)
LEMMA StableFacts == IInv => StableShape
<1>. SUFFICES ASSUME IInv PROVE StableShape
  OBVIOUS
<1>1. ASSUME NEW i \in DOMAIN head PROVE Stable[head[i]] = logdisk[i]
  <2>1. head[i] \in Block
    BY SeqFacts DEF IInv, TypeOK
  <2>2. (CHOOSE j \in DOMAIN head : head[j] = head[i]) = i
    BY DEF IInv, HeadInv
  <2>. QED BY <2>1, <2>2 DEF Stable
<1>. QED BY <1>1 DEF Stable, StableShape

LEMMA MemFacts == MemShape
BY DEF Mem, Stable, MemShape

(* The same in the next state. *)
LEMMA ShapesNext == IInv' => StableShape' /\ MemShape'
BY StableFacts, MemFacts, PTL

(* Between two commits the disk is what the calls see, and in a crash too. *)
LEMMA IdleFacts ==
    ASSUME DInv, pc[Boot] = "up", outstanding = 0, ~committing
    PROVE  Stable = Mem
<1>. USE DEF DInv, IInv
<1>1. \A t \in Thread : pc[t] \notin CommitPc
  BY ThreadFacts DEF CommitInv, CommitPc
<1>2. head = <<>> /\ lh = <<>>
  BY <1>1, ThreadFacts DEF HeadInv, EmptyInv, CommitPc
<1>3. pinned = {}
  BY <1>2 DEF PinInv, Logged
<1>4. \A o \in Op : target[o] = NoBlock
  BY ActiveFacts DEF TargetInv
<1>5. \A b \in Block : Read(b) = disk[b]
  BY <1>3, <1>4, ThreadFacts DEF CleanInv, Read
<1>6. \A b \in Block : Stable[b] = Mem[b]
  BY <1>2, <1>5, StableFacts, MemFacts DEF StableShape, MemShape
<1>. QED BY <1>6, StableFacts, MemFacts DEF StableShape, MemShape

------------------------------------------------------------------------------
(* Steps that touch neither the disk nor the cache. *)
LEMMA DataKeep ==
    ASSUME UNCHANGED <<disk, logdisk, head, cached, cache>>,
           pc'[Boot] = pc[Boot]
    PROVE  Mem' = Mem /\ Stable' = Stable
BY DEF Mem, Stable, Read

(* write_head(): the transaction is in the log, and there at once. *)
LEMMA WriteHeadStep ==
    ASSUME DInv, IInv', NEW o \in Op, WriteHead(o)
    PROVE  Mem' = Mem /\ Stable' = Mem
<1>. USE DEF DInv, IInv
<1>0. StableShape /\ MemShape /\ StableShape' /\ MemShape'
  BY StableFacts, MemFacts, ShapesNext
<1>1. /\ UNCHANGED <<disk, logdisk, cached, cache, lh>> /\ head' = lh
      /\ pc[o] = "write_head" /\ pc' = [pc EXCEPT ![o] = "install"]
  BY DEF WriteHead, Goto, buffers, log
<1>2. /\ pc[Boot] = "up" /\ \A q \in Thread \ {o} : pc[q] \notin CommitPc
      /\ \A q \in Op : target[q] = NoBlock
  BY <1>1, CommitAlone, ThreadFacts DEF CommitPc
<1>3. pc'[Boot] = "up"
  BY <1>1, <1>2, ThreadFacts DEF TypeOK
<1>4. ASSUME NEW b \in Block PROVE Stable'[b] = Mem[b]
  <2>1. CASE \E i \in DOMAIN lh : lh[i] = b
    <3>1. PICK i \in DOMAIN lh : lh[i] = b
      BY <2>1
    <3>2. Stable'[b] = logdisk[i]
      BY <1>0, <1>1, <3>1 DEF StableShape
    <3>3. b \in pinned
      BY <1>1, <1>2, <3>1, ThreadFacts DEF PinInv, Pending, CommitPc
    <3>. QED BY <1>0, <1>1, <1>2, <3>1, <3>2, <3>3
             DEF MemShape, CopyInv, TypeOK, Read
  <2>2. CASE ~\E i \in DOMAIN lh : lh[i] = b
    <3>1. Stable'[b] = disk[b]
      BY <1>0, <1>1, <2>2 DEF StableShape
    <3>2. b \notin pinned
      BY <2>2 DEF PinInv, Logged
    <3>. QED BY <1>0, <1>2, <3>1, <3>2, ThreadFacts DEF MemShape, CleanInv, Read
  <2>. QED BY <2>1, <2>2
<1>5. Stable' = Mem
  BY <1>0, <1>4 DEF StableShape, MemShape
<1>6. Mem' = Mem
  BY <1>1, <1>2, <1>3 DEF Mem, Read
<1>. QED BY <1>5, <1>6

(* install_trans() writes what is in the log, and in the cache. *)
LEMMA InstallStep ==
    ASSUME DInv, IInv', NEW t \in Thread, Install(t)
    PROVE  Mem' = Mem /\ Stable' = Stable
<1>. USE DEF DInv, IInv
<1> DEFINE k == tail[t]
<1>0. StableShape /\ MemShape /\ StableShape' /\ MemShape'
  BY StableFacts, MemFacts, ShapesNext
<1>1. UNCHANGED <<logdisk, head, lh>> /\ pc[t] = "install" /\ head = lh
  BY DEF Install, HeadInv, log
<1>2. k \in DOMAIN lh /\ lh[k] \in Block
  BY <1>1, LoopIndex
<1>3. /\ \A b \in Block \ {lh[k]} : /\ disk'[b] = disk[b] /\ cache'[b] = cache[b]
                                    /\ b \in cached' <=> b \in cached
      /\ cache'[lh[k]] = logdisk[k] /\ lh[k] \in cached'
  BY <1>2 DEF Install, TypeOK
<1>4. \A b \in Block : Stable'[b] = Stable[b]
  <2>1. ASSUME NEW b \in Block, NEW i \in DOMAIN lh, lh[i] = b
        PROVE  Stable'[b] = Stable[b]
    BY <1>0, <1>1, <2>1 DEF StableShape
  <2>2. ASSUME NEW b \in Block, \A i \in DOMAIN lh : lh[i] # b
        PROVE  Stable'[b] = Stable[b]
    BY <1>0, <1>1, <1>2, <1>3, <2>2 DEF StableShape
  <2>. QED BY <2>1, <2>2
<1>5. Stable' = Stable
  BY <1>0, <1>4 DEF StableShape
<1>6. pc'[Boot] = "up" <=> pc[Boot] = "up"
  <2>1. pc' = pc \/ pc' = [pc EXCEPT ![t] = "clear"]
    BY DEF Install, Iterate, Goto
  <2>2. CASE t = Boot
    BY <1>1, <2>1, <2>2, ThreadFacts DEF TypeOK
  <2>3. CASE t # Boot
    BY <2>1, <2>3, ThreadFacts DEF TypeOK
  <2>. QED BY <2>2, <2>3
<1>7. CASE pc[Boot] # "up"
  BY <1>0, <1>5, <1>6, <1>7 DEF MemShape
<1>8. CASE pc[Boot] = "up"
  <2>1. t \in Op /\ \A q \in Thread \ {t} : pc[q] \notin CommitPc
    BY <1>1, <1>8, CommitAlone, ThreadFacts DEF CommitPc
  <2>2. lh[k] \in cached /\ cache[lh[k]] = logdisk[k]
    <3>1. k \in Nat
      BY ThreadFacts DEF TypeOK
    <3>2. Pending(k)
      BY <1>1, <1>8, <2>1, <3>1, ThreadFacts DEF Pending, CommitPc
    <3>. QED BY <1>1, <1>2, <2>1, <3>1, <3>2 DEF PinInv, CopyInv, TypeOK
  <2>3. \A b \in Block : Mem'[b] = Mem[b]
    <3>1. \A b \in Block : Read(b)' = Read(b)
      BY <1>3, <2>2 DEF Read
    <3>2. \A b \in Block : Mem'[b] = Read(b)' /\ Mem[b] = Read(b)
      BY <1>6, <1>8 DEF Mem
    <3>. QED BY <3>1, <3>2
  <2>. QED BY <1>0, <1>5, <2>3 DEF MemShape
<1>. QED BY <1>5, <1>7, <1>8

(* The header is cleared when all is at home; after recovery calls may run. *)
LEMMA ClearStep ==
    ASSUME DInv, IInv', NEW t \in Thread, Clear(t)
    PROVE  Mem' = Mem /\ Stable' = Stable
<1>. USE DEF DInv, IInv
<1>0. StableShape /\ MemShape /\ StableShape' /\ MemShape'
  BY StableFacts, MemFacts, ShapesNext
<1>1. /\ UNCHANGED <<disk, logdisk, cached, cache>> /\ pc[t] = "clear"
      /\ head' = <<>> /\ head = lh
      /\ pc' = [pc EXCEPT ![t] = IF t = Boot THEN "up" ELSE "wake"]
  BY DEF Clear, Goto, HeadInv, buffers
<1>2. \A b \in Block : Stable[b] = disk[b]
  BY <1>0, <1>1 DEF StableShape, CopyInv
<1>3. \A b \in Block : Stable'[b] = disk[b]
  BY <1>0, <1>1 DEF StableShape
<1>4. Stable' = Stable
  BY <1>0, <1>2, <1>3 DEF StableShape
<1>5. CASE t = Boot
  <2>1. pc[Boot] # "up" /\ pc'[Boot] = "up"
    BY <1>1, <1>5, ThreadFacts DEF TypeOK
  <2>2. pinned = {} /\ \A o \in Op : target[o] = NoBlock
    BY <1>1, <1>5, <2>1, CommitAlone DEF PinInv, CommitPc
  <2>3. \A b \in Block : Read(b)' = disk[b]
    BY <1>1, <2>2, ThreadFacts DEF CleanInv, Read
  <2>4. \A b \in Block : Mem'[b] = Mem[b]
    <3>1. \A b \in Block : Mem'[b] = Read(b)'
      BY <2>1 DEF Mem
    <3>. QED BY <1>0, <1>2, <2>1, <2>3, <3>1 DEF MemShape
  <2>. QED BY <1>0, <1>4, <2>4 DEF MemShape
<1>6. CASE t # Boot
  <2>1. pc[Boot] = "up" /\ pc'[Boot] = "up"
    BY <1>1, <1>6, CommitAlone, ThreadFacts DEF CommitPc, TypeOK
  <2>2. Mem' = Mem
    BY <1>1, <2>1 DEF Mem, Read
  <2>. QED BY <1>4, <2>2
<1>. QED BY <1>5, <1>6

(* Each step of Log is a step of AtomicDisk, or none. *)
LEMMA StepRefines ==
    ASSUME DInv, IInv', [Next]_vars
    PROVE  [Atomic!Next]_(Atomic!vars)
<1>. USE ThreadFacts DEF DInv, IInv
<1>s. StableShape /\ MemShape /\ StableShape' /\ MemShape'
  BY StableFacts, MemFacts, ShapesNext
<1> DEFINE Same == Mem' = Mem /\ Stable' = Stable /\ Active' = Active
<1>0. ASSUME Same PROVE UNCHANGED Atomic!vars
  BY <1>0 DEF Atomic!vars
<1>1. ASSUME NEW o \in Op, BeginOp(o) PROVE Same \/ Atomic!Begin(o)
  <2>0. Begun(o)
    BY <1>1, BeginOpEffect
  <2>1. Mem' = Mem /\ Stable' = Stable
    BY <2>0, DataKeep DEF Begun, storage, buffers, TypeOK
  <2>2. pc[o] = "begin"
    BY <2>0 DEF Begun
  <2>3. o \notin Active
    BY <2>2 DEF Active
  <2>4. Active' = Active \/ Active' = Active \cup {o}
    <3>1. \/ pc' = [pc EXCEPT ![o] = "asleep"]
          \/ pc' = [pc EXCEPT ![o] = "run"]
      BY <2>0 DEF Begun
    <3>2. Active \ {o} = Active
      BY <2>3
    <3>. QED BY <3>1, <3>2, ActiveStep
  <2>. QED BY <2>1, <2>3, <2>4 DEF Atomic!Begin
<1>2. ASSUME NEW o \in Op, LogWrite(o) PROVE Same
  <2>1. LogWritten(o)
    BY <1>2, LogWriteEffect
  <2>2. Active' = Active
    BY <2>1, ActiveStep DEF LogWritten, Active
  <2>3. Mem' = Mem /\ Stable' = Stable
    BY <2>1, DataKeep DEF LogWritten, storage, TypeOK
  <2>. QED BY <2>2, <2>3
<1>3. ASSUME NEW o \in Op, EndOp(o) PROVE Atomic!End(o)
  <2>1. Ended(o)
    BY <1>3, EndOpEffect
  <2>2. o \in Active /\ Active' = Active \ {o}
    BY <2>1, ActiveStep DEF Ended, Active
  <2>3. Mem' = Mem /\ Stable' = Stable
    <3>1. pc'[Boot] = pc[Boot]
      BY <2>1, ActiveAlone DEF Ended
    <3>. QED BY <2>1, <3>1, DataKeep DEF Ended, storage, buffers
  <2>. QED BY <2>2, <2>3 DEF Atomic!End
<1>4. ASSUME NEW o \in Op, WriteLog(o) PROVE Same
  <2>1. /\ UNCHANGED <<disk, head, cached, cache>> /\ pc[o] = "write_log"
    BY <1>4 DEF WriteLog, buffers
  <2>2. /\ pc[Boot] = "up" /\ \A q \in Thread \ {o} : pc[q] \notin CommitPc
    BY <2>1, CommitAlone DEF CommitPc
  <2>3. head = <<>>
    BY <2>1, <2>2 DEF HeadInv, CommitPc
  <2>4. Stable' = Stable
    BY <1>s, <2>1, <2>3 DEF StableShape
  <2>5. pc'[Boot] = "up" /\ Active' = Active
    BY <1>4, <2>2 DEF WriteLog, Iterate, Goto, Active, TypeOK
  <2>6. Mem' = Mem
    BY <2>1, <2>2, <2>5 DEF Mem, Read
  <2>. QED BY <2>4, <2>5, <2>6
<1>5. ASSUME NEW o \in Op, WriteHead(o) PROVE Atomic!Commit
  <2>1. pc[o] = "write_head" /\ pc' = [pc EXCEPT ![o] = "install"]
    BY <1>5 DEF WriteHead, Goto
  <2>2. Active = {}
    BY <2>1, CommitAlone DEF Active, CommitPc
  <2>3. Active' = Active
    BY <2>1, <2>2, ActiveStep
  <2>. QED BY <1>5, <2>2, <2>3, WriteHeadStep DEF Atomic!Commit
<1>6. ASSUME NEW t \in Thread, Install(t) PROVE Same
  <2>1. Active' = Active
    BY <1>6 DEF Install, Iterate, Goto, Active, TypeOK
  <2>. QED BY <1>6, <2>1, InstallStep
<1>7. ASSUME NEW t \in Thread, Clear(t) PROVE Same
  <2>1. Active' = Active
    BY <1>7 DEF Clear, Goto, Active, TypeOK
  <2>. QED BY <1>7, <2>1, ClearStep
<1>8. ASSUME NEW o \in Op, Wake(o) PROVE Same
  <2>1. Active' = Active /\ pc'[Boot] = pc[Boot]
    BY <1>8 DEF Wake, WakeupAt, Active, TypeOK, PhaseInv
  <2>. QED BY <1>8, <2>1, DataKeep DEF Wake, storage, buffers
<1>9. ASSUME NEW o \in Op, NEW b \in Block, Modify(o, b)
      PROVE  Atomic!Write(o, b)
  <2>1. /\ pc[o] = "run" /\ pc' = [pc EXCEPT ![o] = "modified"]
        /\ UNCHANGED storage
    BY <1>9 DEF Modify, Goto
  <2>2. o \in Active /\ Active' = Active
    BY <2>1, ActiveStep DEF Active
  <2>3. pc[Boot] = "up" /\ pc'[Boot] = "up"
    BY <2>1, ActiveAlone DEF TypeOK
  <2>4. \A c \in Block : Mem'[c] = IF c = b THEN Mem[c] \cup {o} ELSE Mem[c]
    <3>1. \A c \in Block :
             Read(c)' = IF c = b THEN Read(c) \cup {o} ELSE Read(c)
      <4>1. /\ cached' = cached \cup {b} /\ disk' = disk
            /\ cache' = [cache EXCEPT ![b] = Read(b) \cup {o}]
        BY <1>9 DEF Modify, storage
      <4>. QED BY <4>1 DEF Read, TypeOK
    <3>2. \A c \in Block : Mem'[c] = Read(c)' /\ Mem[c] = Read(c)
      BY <2>3 DEF Mem
    <3>. QED BY <3>1, <3>2
  <2>5. Mem' = [Mem EXCEPT ![b] = @ \cup {o}]
    BY <1>s, <2>4 DEF MemShape
  <2>6. Stable' = Stable
    BY <2>1 DEF Stable, storage
  <2>. QED BY <2>2, <2>5, <2>6 DEF Atomic!Write
<1>10. CASE ReadHead
  <2>1. pc[Boot] # "up" /\ pc'[Boot] # "up" /\ UNCHANGED storage
    BY <1>10 DEF ReadHead, Goto, TypeOK
  <2>2. Stable' = Stable
    BY <2>1 DEF Stable, storage
  <2>3. Active' = Active
    BY <1>10 DEF ReadHead, Goto, Active, TypeOK
  <2>4. Mem' = Mem
    BY <2>1, <2>2 DEF Mem
  <2>5. Same
    BY <2>2, <2>3, <2>4
  <2>. QED BY <1>0, <2>5
<1>11. ASSUME NEW b \in Block, Recycle(b) PROVE Same
  <2>1. /\ UNCHANGED <<storage, pc>> /\ cached' = cached \ {b}
        /\ \A c \in Block \ {b} : cache'[c] = cache[c]
        /\ b \in cached => cache[b] = disk[b]
    BY <1>11 DEF Recycle, locals, TypeOK, CleanInv
  <2>2. \A c \in Block : Read(c)' = Read(c)
    BY <2>1 DEF Read, storage
  <2>3. Stable' = Stable /\ Active' = Active
    BY <2>1 DEF Stable, Active, storage
  <2>. QED BY <2>1, <2>2, <2>3 DEF Mem
<1>12. CASE Crash
  <2>1. UNCHANGED storage /\ pc'[Boot] = "read_head" /\ Active' = {}
    BY <1>12 DEF Crash, Active
  <2>2. Stable' = Stable
    BY <2>1 DEF Stable, storage
  <2>3. Mem' = Stable
    BY <2>1, <2>2 DEF Mem
  <2>4. Atomic!Crash
    BY <2>1, <2>2, <2>3 DEF Atomic!Crash
  <2>. QED BY <2>4 DEF Atomic!Next
<1>13. CASE UNCHANGED vars
  <2>1. Same
    BY <1>13 DEF vars, storage, buffers, log, locals, Mem, Stable, Read, Active
  <2>. QED BY <1>0, <2>1
<1>. HIDE DEF Same
<1>. QED BY <1>0, <1>1, <1>2, <1>3, <1>4, <1>5, <1>6, <1>7, <1>8, <1>9, <1>10,
   <1>11, <1>12, <1>13, StepCases DEF Atomic!Next

(* The log makes the transactions of file system calls atomic and durable   *)
(* against crashes at any moment, those during recovery included.          *)
THEOREM Refinement == Spec => AtomicDiskSpec
<1>1. Init => Atomic!Init
  <2>. SUFFICES ASSUME Init PROVE Atomic!Init
    OBVIOUS
  <2>1. pc[Boot] = "read_head" /\ \A o \in Op : pc[o] = "begin"
    BY ThreadFacts DEF Init
  <2>2. Mem = Stable /\ Active = {}
    BY <2>1 DEF Mem, Active
  <2>3. Stable = [b \in Block |-> {}]
    <3>1. StableShape
      BY InitInv, StableFacts
    <3>. QED BY <3>1 DEF Init, StableShape
  <2>. QED BY <2>2, <2>3 DEF Atomic!Init
<1>2. DInv /\ DInv' /\ [Next]_vars => [Atomic!Next]_(Atomic!vars)
  BY StepRefines DEF DInv
<1>. QED BY <1>1, <1>2, DataInvariance, PTL DEF Spec, AtomicDiskSpec, Atomic!Spec

(* When the last end_op() returns, its transaction would survive a crash. *)
THEOREM DurabilityHolds == Spec => []Durability
<1>1. DInv => Durability
  BY IdleFacts DEF Durability
<1>. QED BY <1>1, DataInvariance, PTL
=============================================================================
