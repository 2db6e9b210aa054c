------------------------------ MODULE TshProofs ------------------------------
(***************************************************************************)
(* What the shell keeps true between two of its steps, its handlers' or    *)
(* its children's, for any number of children, jobs and handlers: the      *)
(* inductive invariant of Tsh, and what follows from it.                   *)
(***************************************************************************)
EXTENDS Tsh, FiniteSetTheorems, WellFoundedInduction, TLAPS

(* Handlers: each signal has at most one at work.  What waitpid() reported *)
(* belongs to that of SIGCHLD, a victim to that of the key; and eval() is  *)
(* not interrupted between fork() and addjob().                            *)
Interrupted(s) == \E i \in DOMAIN stack : stack[i] = s

Distinct == \A i, j \in DOMAIN stack : stack[i] = stack[j] => i = j

StackInv ==
    /\ Distinct
    /\ reaped # NoReport => Interrupted("CHLD")
    /\ \A s \in Keyboard : victim[s] # NoPid => Interrupted(s)
    /\ pc \in {"addfg", "addbg"} => blocked /\ stack = <<>>

(* Who is in the foreground, by where the main program is.                 *)
Idle == {"prompt", "addfg", "addbg", "unblock", "bg", "bgcont", "fg"}

ForegroundInv ==
    /\ \A i, j \in Foreground : i = j
    /\ pc \in Idle => Foreground = {}
    /\ pc \in {"test", "suspended"} /\ fg_pid # NoPid => Foreground = {}

(* What is reported, listed and forked.                                    *)
ReportInv ==
    /\ reaped.pid = NoPid <=> reaped = NoReport
    /\ reaped.status = "none" => reaped = NoReport
    /\ reaped.status = "ended" => child[reaped.pid] = "none"

ListInv ==
    /\ \A i, j \in Job : jobs[i].pid = jobs[j].pid /\ jobs[i].pid # NoPid => i = j
    /\ \A i \in Job : jobs[i].pid # NoPid =>
          \/ child[jobs[i].pid] # "none"
          \/ reaped.pid = jobs[i].pid /\ reaped.status = "ended"
    /\ pc \in {"addfg", "addbg"} =>
          /\ pid # NoPid /\ child[pid] # "none"
          /\ \A i \in Job : jobs[i].pid # pid

IInv == TypeOK /\ StackInv /\ ForegroundInv /\ ReportInv /\ ListInv /\ BackgroundUndisturbed

------------------------------------------------------------------------------
(* A set whose elements are all the same has one element at most.          *)
LEMMA AtMostOne ==
    ASSUME NEW S, \A x, y \in S : x = y
    PROVE  IsFiniteSet(S) /\ Cardinality(S) <= 1
<1>1. CASE S = {}
  BY <1>1, FS_EmptySet
<1>2. CASE S # {}
  <2>1. PICK x \in S : TRUE
    BY <1>2
  <2>2. S = {x}
    BY <2>1
  <2>3. IsFiniteSet({x}) /\ Cardinality({x}) = 1
    BY FS_Singleton
  <2> QED
    BY <2>2, <2>3
<1> QED
  BY <1>1, <1>2

(* The foreground job, when there is one, is the one that fgpid() finds.   *)
LEMMA OneForeground ==
    ASSUME \A i, j \in Foreground : i = j, NEW k \in Foreground
    PROVE  FgPid = jobs[k].pid /\ Foreground = {k} /\ Victims \subseteq {k}
<1>1. Foreground = {k} /\ k \in Int
  BY JobAssumption DEF Foreground, Job
<1>2. Min({k}) = k
  BY <1>1 DEF Min
<1> QED
  BY <1>1, <1>2 DEF FgPid, Victims

(* A handler that begins goes on top of the stack ...                      *)
LEMMA PushFacts ==
    ASSUME stack \in Seq(Signal), NEW s \in Signal, stack' = <<s>> \o stack
    PROVE  /\ stack' \in Seq(Signal) /\ stack' # <<>>
           /\ Distinct /\ (\A i \in DOMAIN stack : stack[i] # s) => Distinct'
           /\ \A r \in Signal : Interrupted(r)' <=> r = s \/ Interrupted(r)
<1>1. /\ stack' \in Seq(Signal) /\ 1 \in DOMAIN stack' /\ stack'[1] = s
      /\ \A i \in DOMAIN stack : i + 1 \in DOMAIN stack' /\ stack'[i + 1] = stack[i]
      /\ \A i \in DOMAIN stack' :
            i = 1 \/ (i - 1 \in DOMAIN stack /\ stack'[i] = stack[i - 1])
      /\ \A i \in DOMAIN stack' : i \in Int
  OBVIOUS
<1>2. ASSUME Distinct, \A i \in DOMAIN stack : stack[i] # s,
             NEW i \in DOMAIN stack', NEW j \in DOMAIN stack', stack'[i] = stack'[j]
      PROVE  i = j
  <2>1. CASE i = 1 \/ j = 1
    BY <1>1, <1>2, <2>1
  <2>2. CASE i # 1 /\ j # 1
    <3>1. i - 1 = j - 1
      BY <1>1, <1>2, <2>2 DEF Distinct
    <3> QED
      BY <1>1, <3>1
  <2> QED
    BY <2>1, <2>2
<1>3. ASSUME NEW r \in Signal PROVE Interrupted(r)' <=> r = s \/ Interrupted(r)
  <2>1. ASSUME Interrupted(r)' PROVE r = s \/ Interrupted(r)
    BY <1>1, <2>1 DEF Interrupted
  <2>2. ASSUME r = s \/ Interrupted(r) PROVE Interrupted(r)'
    BY <1>1, <2>2 DEF Interrupted
  <2> QED
    BY <2>1, <2>2
<1>4. stack' # <<>>
  BY <1>1
<1> QED
  BY <1>1, <1>2, <1>3, <1>4 DEF Distinct

(* ... and one that returns leaves those below.                            *)
LEMMA PopFacts ==
    ASSUME stack \in Seq(Signal), stack # <<>>, stack' = Tail(stack)
    PROVE  /\ stack' \in Seq(Signal)
           /\ Distinct => Distinct'
           /\ \A r \in Signal : Interrupted(r) /\ r # stack[1] => Interrupted(r)'
<1>1. /\ stack' \in Seq(Signal)
      /\ \A i \in DOMAIN stack' : i + 1 \in DOMAIN stack /\ stack'[i] = stack[i + 1]
      /\ \A i \in DOMAIN stack :
            i = 1 \/ (i - 1 \in DOMAIN stack' /\ stack'[i - 1] = stack[i])
      /\ \A i \in DOMAIN stack' : i \in Int
      /\ \A i \in DOMAIN stack : i \in Int
  OBVIOUS
<1>2. ASSUME Distinct, NEW i \in DOMAIN stack', NEW j \in DOMAIN stack',
             stack'[i] = stack'[j]
      PROVE  i = j
  <2>1. i + 1 = j + 1
    BY <1>1, <1>2 DEF Distinct
  <2> QED
    BY <1>1, <2>1
<1>3. ASSUME NEW r \in Signal, Interrupted(r), r # stack[1] PROVE Interrupted(r)'
  BY <1>1, <1>3 DEF Interrupted
<1> QED
  BY <1>1, <1>2, <1>3 DEF Distinct

(* Every step is one of these.                                             *)
LEMMA Steps ==
    ASSUME Next
    PROVE  \/ RunCommand \/ Builtin \/ Quit \/ AddForeground \/ AddBackground
           \/ TestForeground \/ Unblock \/ SetState \/ Continue \/ WaitFg
           \/ DeliverChld \/ Waitpid \/ RecordReport
           \/ \E s \in Keyboard : DeliverKey(s) \/ KillForeground(s) \/ TypeKey(s)
           \/ \E p \in Pid : Setpgid(p) \/ Terminate(p) \/ Stop(p)
  BY DEF Next, Command, ShellStep, ChildStep

LEMMA StackStep ==
    ASSUME IInv, Next
    PROVE  StackInv'
<1>t. /\ stack \in Seq(Signal) /\ "CHLD" \in Signal /\ Keyboard \subseteq Signal
      /\ "CHLD" \notin Keyboard /\ victim \in [Keyboard -> Pid \cup {NoPid}]
  BY KeyboardAssumption DEF IInv, TypeOK, Signal
<1>i. StackInv
  BY DEF IInv
<1>0. ASSUME UNCHANGED <<stack, reaped, victim>>,
             pc' \in {"addfg", "addbg"} => blocked' /\ stack = <<>>
      PROVE  StackInv'
  BY <1>0, <1>i DEF StackInv, Interrupted, Distinct
<1>1. CASE RunCommand \/ Builtin \/ Quit
  BY <1>0, <1>1 DEF RunCommand, Builtin, Quit, Main, handlers
<1>2. CASE AddForeground \/ AddBackground \/ TestForeground \/ Unblock \/ WaitFg
  BY <1>0, <1>2 DEF AddForeground, AddBackground, TestForeground, Unblock, WaitFg, handlers
<1>3. CASE SetState
  BY <1>0, <1>3 DEF SetState, handlers
<1>4. CASE Continue
  <2>1. pc' \notin {"addfg", "addbg"} /\ UNCHANGED handlers
    BY <1>4 DEF Continue, Error
  <2> QED
    BY <1>0, <2>1 DEF handlers
<1>5. CASE DeliverChld
  <2>1. /\ stack' = <<"CHLD">> \o stack /\ UNCHANGED <<reaped, victim, pc>>
        /\ \A i \in DOMAIN stack : stack[i] # "CHLD"
        /\ pc \notin {"addfg", "addbg"}
    BY <1>5, <1>i DEF DeliverChld, Deliverable, shell, StackInv
  <2> QED
    BY <1>i, <1>t, <2>1, PushFacts DEF StackInv
<1>6. CASE Waitpid
  <2>1. 1 \in DOMAIN stack /\ stack[1] = "CHLD"
    BY <1>6, <1>t DEF Waitpid, HandlerAt
  <2>2. UNCHANGED <<stack, victim>> /\ pc' \notin {"addfg", "addbg"}
    <3>1. pc \notin {"addfg", "addbg"}
      BY <1>i, <2>1 DEF StackInv
    <3> QED
      BY <1>6, <3>1 DEF Waitpid, shell, Error
  <2> QED
    BY <1>i, <2>1, <2>2 DEF StackInv, Interrupted, Distinct
<1>7. CASE RecordReport
  <2>1. /\ stack # <<>> /\ stack[1] = "CHLD" /\ reaped' = NoReport /\ UNCHANGED victim
        /\ stack' = Tail(stack) \/ UNCHANGED stack
    BY <1>7 DEF RecordReport, HandlerAt, ReturnFromHandler
  <2>2. pc' \notin {"addfg", "addbg"}
    <3>1. pc \notin {"addfg", "addbg"}
      BY <1>i, <2>1 DEF StackInv
    <3> QED
      BY <1>7, <3>1 DEF RecordReport, ReturnFromHandler, Resume, Error
  <2>3. CASE stack' = Tail(stack)
    BY <1>i, <1>t, <2>1, <2>2, <2>3, PopFacts DEF StackInv
  <2>4. CASE UNCHANGED stack
    BY <1>i, <2>1, <2>2, <2>4 DEF StackInv, Interrupted, Distinct
  <2> QED
    BY <2>1, <2>3, <2>4
<1>8. ASSUME NEW s \in Keyboard, DeliverKey(s) PROVE StackInv'
  <2>1. CASE Victims = {}
    <3>1. UNCHANGED <<stack, victim, reaped, blocked>>
      BY <1>8, <2>1 DEF DeliverKey
    <3>2. pc' = pc \/ pc' = "test"
      BY <1>8, <2>1 DEF DeliverKey, Resume
    <3> QED
      BY <1>0, <1>i, <3>1, <3>2 DEF StackInv
  <2>2. CASE Victims # {}
    <3>1. /\ victim' = [victim EXCEPT ![s] = jobs[Min(Victims)].pid]
          /\ stack' = <<s>> \o stack /\ UNCHANGED <<pc, reaped>>
          /\ \A i \in DOMAIN stack : stack[i] # s
      BY <1>8, <2>2 DEF DeliverKey, Deliverable
    <3>2. pc \notin {"addfg", "addbg"}
      BY <2>2 DEF IInv, ForegroundInv, Idle, Victims
    <3> QED
      BY <1>i, <1>t, <3>1, <3>2, PushFacts DEF StackInv
  <2> QED
    BY <2>1, <2>2
<1>9. ASSUME NEW s \in Keyboard, KillForeground(s) PROVE StackInv'
  <2>1. /\ stack # <<>> /\ stack[1] = s /\ UNCHANGED reaped
        /\ victim' = [victim EXCEPT ![s] = NoPid]
        /\ stack' = Tail(stack) \/ UNCHANGED stack
    BY <1>9 DEF KillForeground, HandlerAt, ReturnFromHandler
  <2>2. pc' \notin {"addfg", "addbg"}
    <3>1. pc \notin {"addfg", "addbg"}
      BY <1>i, <2>1 DEF StackInv
    <3> QED
      BY <1>9, <3>1 DEF KillForeground, ReturnFromHandler, Resume, Error
  <2>3. CASE stack' = Tail(stack)
    BY <1>i, <1>t, <2>1, <2>2, <2>3, PopFacts DEF StackInv
  <2>4. CASE UNCHANGED stack
    BY <1>i, <1>t, <2>1, <2>2, <2>4 DEF StackInv, Interrupted, Distinct
  <2> QED
    BY <2>1, <2>3, <2>4
<1>10. CASE \E s \in Keyboard : TypeKey(s)
  BY <1>0, <1>10, <1>i DEF TypeKey, shell, handlers, StackInv
<1>11. CASE \E p \in Pid : Setpgid(p) \/ Terminate(p) \/ Stop(p)
  BY <1>0, <1>11, <1>i DEF Setpgid, Terminate, Stop, shell, handlers, StackInv
<1> QED
  BY <1>1, <1>2, <1>3, <1>4, <1>5, <1>6, <1>7, <1>8, <1>9, <1>10, <1>11, Steps

(* The job list only loses foreground jobs to a report.                    *)
LEMMA ReportEffect ==
    ASSUME IInv, RecordReport
    PROVE  /\ reaped.pid \in Pid /\ reaped.status \in {"ended", "stopped", "continued"}
           /\ jobs' = [i \in Job |->
                 IF jobs[i].pid # reaped.pid \/ reaped.status = "continued" THEN jobs[i]
                 ELSE IF reaped.status = "ended" THEN Empty
                 ELSE [jobs[i] EXCEPT !.state = "ST"]]
           /\ Foreground' \subseteq Foreground
           /\ reaped' = NoReport /\ UNCHANGED <<victim, child, news, pid, job, blocked>>
           /\ pc' = pc \/ (pc = "suspended" /\ pc' = "test") \/ pc' = "error"
<1>t. /\ reaped.pid \in Pid \cup {NoPid}
      /\ reaped.status \in {"none", "ended", "stopped", "continued"}
      /\ jobs \in [Job -> [pid : Pid \cup {NoPid}, state : {"UNDEF", "FG", "BG", "ST"}]]
  BY DEF IInv, TypeOK
<1>1. reaped.pid \in Pid /\ reaped.status # "none"
  BY <1>t DEF IInv, ReportInv, RecordReport
<1>2. jobs' = [i \in Job |->
                 IF jobs[i].pid # reaped.pid \/ reaped.status = "continued" THEN jobs[i]
                 ELSE IF reaped.status = "ended" THEN Empty
                 ELSE [jobs[i] EXCEPT !.state = "ST"]]
  <2>1. CASE reaped.status = "ended"
    BY <2>1 DEF RecordReport, DeleteJob
  <2>2. CASE reaped.status = "stopped"
    BY <2>2 DEF RecordReport
  <2>3. CASE reaped.status = "continued"
    <3>1. jobs' = jobs
      BY <2>3 DEF RecordReport
    <3> QED
      BY <1>t, <2>3, <3>1
  <2> QED
    BY <1>t, <1>1, <2>1, <2>2, <2>3
<1>3. Foreground' \subseteq Foreground
  BY <1>t, <1>2 DEF Foreground, Empty
<1>4. pc' = pc \/ (pc = "suspended" /\ pc' = "test") \/ pc' = "error"
  BY DEF RecordReport, ReturnFromHandler, Resume, Error
<1>5. UNCHANGED <<victim, child, news, pid, job, blocked>> /\ reaped' = NoReport
  BY DEF RecordReport, ReturnFromHandler, Error, children
<1> QED
  BY <1>t, <1>1, <1>2, <1>3, <1>4, <1>5

LEMMA ForegroundStep ==
    ASSUME IInv, Next
    PROVE  ForegroundInv'
<1>i. ForegroundInv
  BY DEF IInv
<1>t. jobs \in [Job -> [pid : Pid \cup {NoPid}, state : {"UNDEF", "FG", "BG", "ST"}]]
  BY DEF IInv, TypeOK
<1>0. ASSUME UNCHANGED <<jobs, fg_pid>>,
             \/ pc' = pc \/ (pc = "suspended" /\ pc' = "test")
             \/ pc' \notin Idle \cup {"test", "suspended"}
      PROVE  ForegroundInv'
  BY <1>0, <1>i DEF ForegroundInv, Foreground, Idle
<1>1. CASE RunCommand \/ Builtin \/ Quit \/ Unblock
  BY <1>1, <1>i DEF RunCommand, Builtin, Quit, Unblock, Main, ForegroundInv, Foreground, Idle
<1>2. CASE AddForeground
  <2>1. Foreground = {} /\ fg_pid' = NoPid /\ pc' = "test"
    BY <1>2, <1>i DEF AddForeground, Main, ForegroundInv, Idle
  <2>2. jobs' = jobs \/ \E k : jobs' = [jobs EXCEPT ![k] = [pid |-> pid, state |-> "FG"]]
    BY <1>2 DEF AddForeground, AddJob
  <2>3. \A i, j \in Foreground' : i = j
    BY <1>t, <2>1, <2>2 DEF Foreground
  <2> QED
    BY <2>1, <2>3 DEF ForegroundInv, Idle
<1>3. CASE AddBackground
  <2>1. Foreground = {} /\ pc' = "unblock"
    BY <1>3, <1>i DEF AddBackground, Main, ForegroundInv, Idle
  <2>2. jobs' = jobs \/ \E k : jobs' = [jobs EXCEPT ![k] = [pid |-> pid, state |-> "BG"]]
    BY <1>3 DEF AddBackground, AddJob
  <2>3. Foreground' = {}
    BY <1>t, <2>1, <2>2 DEF Foreground
  <2> QED
    BY <2>1, <2>3 DEF ForegroundInv
<1>4. CASE TestForeground
  BY <1>4, <1>i DEF TestForeground, Main, ForegroundInv, Foreground, Idle
<1>5. CASE SetState
  <2>1. Foreground = {}
    BY <1>5, <1>i DEF SetState, Main, ForegroundInv, Idle
  <2>2. \/ jobs' = [jobs EXCEPT ![job].state = "BG"] /\ pc' = "bgcont"
        \/ jobs' = [jobs EXCEPT ![job].state = "FG"] /\ pc' = "fgcont"
    BY <1>5 DEF SetState
  <2>3. \A i \in Foreground' : i = job /\ pc' = "fgcont"
    BY <1>t, <2>1, <2>2 DEF Foreground
  <2>4. pc' \in {"bgcont", "fgcont"}
    BY <2>2
  <2> QED
    BY <2>3, <2>4 DEF ForegroundInv, Idle
<1>6. CASE Continue
  BY <1>6, <1>i DEF Continue, Main, Error, ForegroundInv, Foreground, Idle
<1>7. CASE WaitFg
  BY <1>7, <1>i DEF WaitFg, ForegroundInv, Foreground, Idle
<1>8. CASE DeliverChld \/ Waitpid
  BY <1>0, <1>8 DEF DeliverChld, Waitpid, shell, Error, Idle
<1>9. CASE RecordReport
  <2>1. /\ Foreground' \subseteq Foreground
        /\ pc' = pc \/ (pc = "suspended" /\ pc' = "test") \/ pc' = "error"
    BY <1>9, ReportEffect
  <2>2. ASSUME fg_pid' # fg_pid PROVE Foreground' = {}
    <3>1. ForegroundEnded
      BY <1>9, <2>2 DEF RecordReport
    <3>2. reaped.pid = FgPid /\ reaped.pid # NoPid
      BY <1>9, <3>1, ReportEffect, PidAssumption DEF ForegroundEnded
    <3>3. PICK k \in Foreground : TRUE
      BY <3>2 DEF FgPid
    <3>4. Foreground = {k} /\ jobs[k].pid = reaped.pid
      BY <1>i, <3>2, <3>3, OneForeground DEF ForegroundInv
    <3>5. k \notin Foreground'
      BY <1>9, <1>t, <3>1, <3>3, <3>4, ReportEffect DEF ForegroundEnded, Foreground, Empty
    <3> QED
      BY <2>1, <3>4, <3>5
  <2> QED
    BY <1>i, <2>1, <2>2 DEF ForegroundInv, Idle
<1>10. ASSUME NEW s \in Keyboard, DeliverKey(s) \/ KillForeground(s) \/ TypeKey(s)
       PROVE  ForegroundInv'
  BY <1>0, <1>10 DEF DeliverKey, KillForeground, ReturnFromHandler, TypeKey, Resume, Error,
     shell, Idle
<1>11. CASE \E p \in Pid : Setpgid(p) \/ Terminate(p) \/ Stop(p)
  BY <1>0, <1>11 DEF Setpgid, Terminate, Stop, shell
<1> QED
  BY <1>1, <1>2, <1>3, <1>4, <1>5, <1>6, <1>7, <1>8, <1>9, <1>10, <1>11, Steps

LEMMA ReportStep ==
    ASSUME IInv, Next
    PROVE  ReportInv'
<1>t. /\ reaped \in [pid : Pid \cup {NoPid},
                     status : {"none", "ended", "stopped", "continued"}]
      /\ child \in [Pid -> {"none", "forked", "running", "stopped", "zombie"}]
      /\ news \in [Pid -> {"none", "stopped", "continued"}]
  BY DEF IInv, TypeOK
<1>i. ReportInv
  BY DEF IInv
<1>0. ASSUME reaped' = reaped,
             \A p \in Pid : child[p] = "none" => child'[p] = "none"
      PROVE  ReportInv'
  BY <1>0, <1>i, <1>t, PidAssumption DEF ReportInv, NoReport
<1>1. CASE RunCommand
  <2>1. reaped = NoReport
    BY <1>1 DEF RunCommand, Main, IInv, StackInv, Interrupted
  <2>2. reaped' = reaped
    BY <1>1 DEF RunCommand, handlers
  <2> QED
    BY <2>1, <2>2 DEF ReportInv, NoReport
<1>2. CASE Builtin \/ Quit \/ AddForeground \/ AddBackground \/ TestForeground \/ Unblock
           \/ SetState \/ WaitFg
  BY <1>0, <1>2 DEF Builtin, Quit, AddForeground, AddBackground, TestForeground, Unblock,
     SetState, WaitFg, handlers, children
<1>3. CASE Continue
  <2>1. reaped' = reaped
    BY <1>3 DEF Continue, handlers
  <2>2. child' = child \/ \E p : child[p] = "stopped" /\ child' = [child EXCEPT ![p] = "running"]
    BY <1>3 DEF Continue, children
  <2> QED
    BY <1>0, <1>t, <2>1, <2>2
<1>4. CASE DeliverChld
  BY <1>0, <1>4 DEF DeliverChld, children
<1>5. CASE Waitpid
  <2>1. CASE UNCHANGED <<reaped, children>>
    BY <1>0, <2>1 DEF children
  <2>2. CASE \E p \in Pid :
            /\ Report(p) # "none"
            /\ reaped' = [pid |-> p, status |-> Report(p)]
            /\ child' = [child EXCEPT ![p] = IF @ = "zombie" THEN "none" ELSE @]
    BY <1>t, <2>2, PidAssumption DEF ReportInv, NoReport, Report
  <2> QED
    BY <1>5, <2>1, <2>2 DEF Waitpid
<1>6. CASE RecordReport
  BY <1>6, ReportEffect DEF ReportInv, NoReport
<1>7. ASSUME NEW s \in Keyboard, DeliverKey(s) \/ KillForeground(s) \/ TypeKey(s)
       PROVE  ReportInv'
  BY <1>0, <1>7 DEF DeliverKey, KillForeground, TypeKey, children, handlers
<1>8. CASE \E p \in Pid : Setpgid(p) \/ Terminate(p) \/ Stop(p)
  BY <1>0, <1>8, <1>t DEF Setpgid, Terminate, Stop, handlers
<1> QED
  BY <1>1, <1>2, <1>3, <1>4, <1>5, <1>6, <1>7, <1>8, Steps

LEMMA ListStep ==
    ASSUME IInv, Next
    PROVE  ListInv'
<1>t. /\ jobs \in [Job -> [pid : Pid \cup {NoPid}, state : {"UNDEF", "FG", "BG", "ST"}]]
      /\ child \in [Pid -> {"none", "forked", "running", "stopped", "zombie"}]
      /\ NoPid \notin Pid /\ pid \in Pid \cup {NoPid}
  BY PidAssumption DEF IInv, TypeOK
<1>i. ListInv
  BY DEF IInv
<1>0. ASSUME \A i \in Job : jobs'[i].pid = jobs[i].pid, reaped' = reaped,
             \A p \in Pid : child[p] # "none" => child'[p] # "none",
             pc' \in {"addfg", "addbg"} => pc' = pc /\ pid' = pid
      PROVE  ListInv'
  <2>1. /\ \A i, j \in Job : jobs'[i].pid = jobs'[j].pid /\ jobs'[i].pid # NoPid => i = j
        /\ \A i \in Job : jobs'[i].pid # NoPid =>
              \/ child'[jobs'[i].pid] # "none"
              \/ reaped'.pid = jobs'[i].pid /\ reaped'.status = "ended"
    <3>1. \A i \in Job : jobs[i].pid # NoPid => jobs[i].pid \in Pid
      BY <1>t
    <3>2. \A i, j \in Job : jobs[i].pid = jobs[j].pid /\ jobs[i].pid # NoPid => i = j
      BY <1>i DEF ListInv
    <3>3. \A i \in Job : jobs[i].pid # NoPid =>
             \/ child[jobs[i].pid] # "none"
             \/ reaped.pid = jobs[i].pid /\ reaped.status = "ended"
      BY <1>i DEF ListInv
    <3>4. ASSUME NEW i \in Job, NEW j \in Job,
                 jobs'[i].pid = jobs'[j].pid, jobs'[i].pid # NoPid
          PROVE  i = j
      <4>1. jobs[i].pid = jobs[j].pid /\ jobs[i].pid # NoPid
        BY <1>0, <3>4
      <4> QED
        BY <3>2, <4>1
    <3>5. ASSUME NEW i \in Job, jobs'[i].pid # NoPid
          PROVE  \/ child'[jobs'[i].pid] # "none"
                 \/ reaped'.pid = jobs'[i].pid /\ reaped'.status = "ended"
      <4>1. jobs'[i].pid = jobs[i].pid /\ jobs[i].pid # NoPid
        BY <1>0, <3>5
      <4>2. jobs[i].pid \in Pid /\ reaped' = reaped
        BY <1>0, <3>1, <4>1
      <4>3. CASE child[jobs[i].pid] # "none"
        BY <1>0, <4>1, <4>2, <4>3
      <4>4. CASE reaped.pid = jobs[i].pid /\ reaped.status = "ended"
        BY <4>1, <4>2, <4>4
      <4> QED
        BY <3>3, <4>1, <4>3, <4>4
    <3>6. \A i, j \in Job : jobs'[i].pid = jobs'[j].pid /\ jobs'[i].pid # NoPid => i = j
      BY <3>4
    <3>7. \A i \in Job : jobs'[i].pid # NoPid =>
             \/ child'[jobs'[i].pid] # "none"
             \/ reaped'.pid = jobs'[i].pid /\ reaped'.status = "ended"
      BY <3>5
    <3> QED
      BY <3>6, <3>7, Zenon
  <2>2. pc' \in {"addfg", "addbg"} =>
           /\ pid' # NoPid /\ child'[pid'] # "none"
           /\ \A i \in Job : jobs'[i].pid # pid'
    BY <1>0, <1>i, <1>t DEF ListInv
  <2> QED
    BY <2>1, <2>2 DEF ListInv
<1>1. CASE RunCommand
  <2>1. reaped = NoReport /\ UNCHANGED <<jobs, reaped>>
    BY <1>1 DEF RunCommand, Main, IInv, StackInv, Interrupted, handlers
  <2>2. PICK p \in Pid : /\ child[p] = "none" /\ pid' = p
                         /\ child' = [child EXCEPT ![p] = "forked"]
    BY <1>1 DEF RunCommand
  <2>3. \A i \in Job : jobs[i].pid # NoPid => child[jobs[i].pid] # "none"
    BY <1>i, <2>1 DEF ListInv, NoReport
  <2>4. \A i \in Job : jobs'[i].pid # NoPid => child'[jobs'[i].pid] # "none"
    BY <1>t, <2>1, <2>2, <2>3
  <2>5. pid' # NoPid /\ child'[pid'] # "none" /\ \A i \in Job : jobs'[i].pid # pid'
    BY <1>t, <2>1, <2>2, <2>3
  <2> QED
    BY <1>i, <2>1, <2>4, <2>5 DEF ListInv
<1>2. CASE AddForeground \/ AddBackground
  <2>1. /\ pid # NoPid /\ child[pid] # "none" /\ \A i \in Job : jobs[i].pid # pid
        /\ pc' \notin {"addfg", "addbg"} /\ UNCHANGED <<child, reaped>>
    BY <1>2, <1>i DEF AddForeground, AddBackground, Main, ListInv, children, handlers
  <2>2. PICK k, x : jobs' = jobs \/ jobs' = [jobs EXCEPT ![k] = [pid |-> pid, state |-> x]]
    BY <1>2 DEF AddForeground, AddBackground, AddJob
  <2>3. \A i \in Job : jobs'[i].pid = jobs[i].pid \/ (i = k /\ jobs'[i].pid = pid)
    BY <1>t, <2>2
  <2> QED
    BY <1>i, <2>1, <2>3 DEF ListInv
<1>3. CASE Builtin \/ Quit \/ TestForeground \/ Unblock \/ WaitFg
  BY <1>0, <1>3 DEF Builtin, Quit, TestForeground, Unblock, WaitFg, handlers, children
<1>4. CASE SetState
  <2>1. \A i \in Job : jobs'[i].pid = jobs[i].pid
    BY <1>t, <1>4 DEF SetState
  <2> QED
    BY <1>0, <1>4, <2>1 DEF SetState, handlers, children
<1>5. CASE Continue
  <2>1. /\ UNCHANGED <<jobs, reaped>> /\ pc' \notin {"addfg", "addbg"}
    BY <1>5 DEF Continue, Error, handlers
  <2>2. child' = child \/ \E p : child' = [child EXCEPT ![p] = "running"]
    BY <1>5 DEF Continue, children
  <2>3. \A p \in Pid : child[p] # "none" => child'[p] # "none"
    BY <1>t, <2>2
  <2> QED
    BY <1>0, <2>1, <2>3
<1>6. CASE DeliverChld
  BY <1>0, <1>6 DEF DeliverChld, shell, children
<1>7. CASE Waitpid
  <2>1. reaped = NoReport /\ UNCHANGED jobs /\ stack # <<>>
    BY <1>7 DEF Waitpid, HandlerAt
  <2>2. pc' \notin {"addfg", "addbg"}
    BY <1>7, <2>1 DEF Waitpid, shell, Error, IInv, StackInv
  <2>3. \A i \in Job : jobs[i].pid # NoPid => child[jobs[i].pid] # "none"
    BY <1>i, <2>1 DEF ListInv, NoReport
  <2>4. CASE UNCHANGED <<reaped, children>>
    BY <1>0, <2>1, <2>2, <2>4 DEF children
  <2>5. CASE \E p \in Pid :
            /\ Report(p) # "none"
            /\ reaped' = [pid |-> p, status |-> Report(p)]
            /\ child' = [child EXCEPT ![p] = IF @ = "zombie" THEN "none" ELSE @]
    BY <1>i, <1>t, <2>1, <2>2, <2>3, <2>5 DEF ListInv, Report
  <2> QED
    BY <1>7, <2>4, <2>5 DEF Waitpid
<1>8. CASE RecordReport
  <2>1. pc' \notin {"addfg", "addbg"} /\ UNCHANGED child
    <3>1. stack # <<>>
      BY <1>8 DEF RecordReport, HandlerAt
    <3> QED
      BY <1>8, <3>1, ReportEffect DEF IInv, StackInv
  <2>2. \A i \in Job : jobs'[i].pid # NoPid =>
           /\ jobs'[i].pid = jobs[i].pid
           /\ ~(reaped.pid = jobs[i].pid /\ reaped.status = "ended")
    BY <1>8, <1>t, ReportEffect DEF Empty
  <2> QED
    BY <1>i, <2>1, <2>2 DEF ListInv
<1>9. ASSUME NEW s \in Keyboard, DeliverKey(s) \/ KillForeground(s) \/ TypeKey(s)
      PROVE  ListInv'
  BY <1>0, <1>9 DEF DeliverKey, KillForeground, TypeKey, ReturnFromHandler, Resume, Error,
     children, handlers, shell
<1>10. CASE \E p \in Pid : Setpgid(p) \/ Terminate(p) \/ Stop(p)
  BY <1>0, <1>10, <1>t DEF Setpgid, Terminate, Stop, handlers, shell
<1> QED
  BY <1>1, <1>2, <1>3, <1>4, <1>5, <1>6, <1>7, <1>8, <1>9, <1>10, Steps

LEMMA BackgroundStep ==
    ASSUME IInv, Next
    PROVE  BackgroundUndisturbed'
<1>t. /\ jobs \in [Job -> [pid : Pid \cup {NoPid}, state : {"UNDEF", "FG", "BG", "ST"}]]
      /\ victim \in [Keyboard -> Pid \cup {NoPid}]
  BY DEF IInv, TypeOK
<1>i. BackgroundUndisturbed
  BY DEF IInv
<1>0. ASSUME UNCHANGED <<jobs, victim>> PROVE BackgroundUndisturbed'
  BY <1>0, <1>i DEF BackgroundUndisturbed
<1>s. ASSUME stack = <<>>, UNCHANGED victim PROVE BackgroundUndisturbed'
  BY <1>s DEF BackgroundUndisturbed, IInv, StackInv, Interrupted
<1>1. CASE RunCommand \/ Builtin \/ Quit \/ TestForeground \/ Unblock \/ WaitFg
  BY <1>0, <1>1 DEF RunCommand, Builtin, Quit, TestForeground, Unblock, WaitFg, handlers
<1>2. CASE AddForeground \/ AddBackground \/ SetState
  BY <1>s, <1>2 DEF AddForeground, AddBackground, SetState, Main, handlers
<1>3. CASE Continue \/ DeliverChld \/ Waitpid
  BY <1>0, <1>3 DEF Continue, DeliverChld, Waitpid, handlers
<1>4. CASE RecordReport
  <2>1. UNCHANGED victim
    BY <1>4, ReportEffect
  <2>2. \A i \in Job : jobs'[i].pid # NoPid =>
           jobs'[i] = jobs[i] \/ (jobs'[i].pid = jobs[i].pid /\ jobs'[i].state = "ST")
    BY <1>4, <1>t, ReportEffect DEF Empty
  <2> QED
    BY <1>i, <2>1, <2>2 DEF BackgroundUndisturbed
<1>5. ASSUME NEW s \in Keyboard, DeliverKey(s) PROVE BackgroundUndisturbed'
  <2>1. CASE Victims = {}
    BY <1>0, <1>5, <2>1 DEF DeliverKey
  <2>2. CASE Victims # {}
    <3>1. PICK k \in Victims : TRUE
      BY <2>2
    <3>2. k \in Foreground /\ k \in Job /\ k \in Int /\ jobs[k].pid # NoPid /\ Victims = {k}
      BY <3>1, OneForeground, JobAssumption DEF Victims, Foreground, IInv, ForegroundInv, Job
    <3>3. Min(Victims) = k
      BY <3>2 DEF Min
    <3>4. victim' = [victim EXCEPT ![s] = jobs[k].pid] /\ jobs' = jobs
      BY <1>5, <2>2, <3>3 DEF DeliverKey
    <3>5. \A i \in Job : jobs[i].pid = jobs[k].pid => jobs[i].state # "BG"
      BY <3>2 DEF IInv, ListInv, Foreground
    <3> QED
      BY <1>i, <1>t, <3>4, <3>5 DEF BackgroundUndisturbed
  <2> QED
    BY <2>1, <2>2
<1>6. ASSUME NEW s \in Keyboard, KillForeground(s) PROVE BackgroundUndisturbed'
  BY <1>6, <1>i, <1>t DEF KillForeground, BackgroundUndisturbed
<1>7. CASE \E s \in Keyboard : TypeKey(s)
  BY <1>0, <1>7 DEF TypeKey, handlers
<1>8. CASE \E p \in Pid : Setpgid(p) \/ Terminate(p) \/ Stop(p)
  BY <1>0, <1>8 DEF Setpgid, Terminate, Stop, handlers
<1> QED
  BY <1>1, <1>2, <1>3, <1>4, <1>5, <1>6, <1>7, <1>8, Steps

LEMMA TypeStep ==
    ASSUME IInv, Next
    PROVE  TypeOK'
<1>t. TypeOK /\ NoPid \notin Pid /\ Keyboard \subseteq Signal /\ "CHLD" \in Signal
  BY PidAssumption DEF IInv, Signal
<1>c. \A s \in Signal : Cardinality({i \in DOMAIN stack' : stack'[i] = s}) <= 1
  <2>1. Distinct'
    BY StackStep DEF StackInv
  <2> TAKE s \in Signal
  <2>2. \A x, y \in {i \in DOMAIN stack' : stack'[i] = s} : x = y
    BY <2>1 DEF Distinct
  <2> QED
    BY <2>2, AtMostOne
<1>e. Empty \in [pid : Pid \cup {NoPid}, state : {"UNDEF", "FG", "BG", "ST"}]
  BY DEF Empty
<1>1. CASE RunCommand
  BY <1>1, <1>t, <1>c DEF TypeOK, RunCommand, handlers
<1>2. CASE Builtin \/ Quit \/ TestForeground \/ Unblock \/ WaitFg
  BY <1>2, <1>t, <1>c DEF TypeOK, Builtin, Quit, TestForeground, Unblock, WaitFg, handlers,
     children
<1>3. CASE AddForeground \/ AddBackground
  BY <1>3, <1>t, <1>c DEF TypeOK, AddForeground, AddBackground, AddJob, handlers, children
<1>4. CASE SetState
  <2>1. jobs' \in [Job -> [pid : Pid \cup {NoPid}, state : {"UNDEF", "FG", "BG", "ST"}]]
    <3>1. jobs' = [jobs EXCEPT ![job].state = "BG"] \/ jobs' = [jobs EXCEPT ![job].state = "FG"]
      BY <1>4 DEF SetState
    <3> QED
      BY <1>t, <3>1 DEF TypeOK
  <2>2. pc' \in {"bgcont", "fgcont"}
    BY <1>4 DEF SetState
  <2> QED
    BY <1>4, <1>t, <1>c, <2>1, <2>2 DEF TypeOK, SetState, handlers, children
<1>5. CASE Continue
  BY <1>5, <1>t, <1>c DEF TypeOK, Continue, Error, handlers, children
<1>6. CASE DeliverChld
  <2>1. stack' \in Seq(Signal)
    BY <1>6, <1>t, PushFacts DEF DeliverChld, TypeOK
  <2> QED
    BY <1>6, <1>t, <1>c, <2>1 DEF TypeOK, DeliverChld, shell, children
<1>7. CASE Waitpid
  BY <1>7, <1>t, <1>c DEF TypeOK, Waitpid, Report, Error, shell, children
<1>8. CASE RecordReport
  <2>1. stack' \in Seq(Signal)
    BY <1>8, <1>t, PopFacts DEF RecordReport, HandlerAt, ReturnFromHandler, TypeOK
  <2>2. jobs' \in [Job -> [pid : Pid \cup {NoPid}, state : {"UNDEF", "FG", "BG", "ST"}]]
    BY <1>8, <1>t, <1>e, ReportEffect DEF TypeOK
  <2>3. fg_pid' \in Pid \cup {NoPid} /\ pending' = pending
    BY <1>8, <1>t DEF RecordReport, TypeOK
  <2> QED
    BY <1>8, <1>t, <1>c, <2>1, <2>2, <2>3, ReportEffect DEF TypeOK, NoReport
<1>9. ASSUME NEW s \in Keyboard, DeliverKey(s) PROVE TypeOK'
  <2>1. stack' \in Seq(Signal)
    BY <1>9, <1>t, PushFacts DEF DeliverKey, TypeOK
  <2>2. victim' \in [Keyboard -> Pid \cup {NoPid}]
    <3>1. CASE Victims = {}
      BY <1>9, <1>t, <3>1 DEF DeliverKey, TypeOK
    <3>2. CASE Victims # {}
      <4>1. PICK k \in Victims : TRUE
        BY <3>2
      <4>2. k \in Job /\ k \in Int /\ Victims = {k}
        BY <4>1, OneForeground, JobAssumption DEF Victims, Foreground, IInv, ForegroundInv, Job
      <4>3. Min(Victims) = k
        BY <4>2 DEF Min
      <4> QED
        BY <1>9, <1>t, <3>2, <4>2, <4>3 DEF DeliverKey, TypeOK
    <3> QED
      BY <3>1, <3>2
  <2>3. pc' = pc \/ pc' = "test"
    BY <1>9 DEF DeliverKey, Resume
  <2> QED
    BY <1>9, <1>t, <1>c, <2>1, <2>2, <2>3 DEF TypeOK, DeliverKey, children
<1>10. ASSUME NEW s \in Keyboard, KillForeground(s) PROVE TypeOK'
  <2>1. stack' \in Seq(Signal)
    BY <1>10, <1>t, PopFacts DEF KillForeground, HandlerAt, ReturnFromHandler, TypeOK
  <2> QED
    BY <1>10, <1>t, <1>c, <2>1 DEF TypeOK, KillForeground, ReturnFromHandler, Resume, Error,
       children
<1>11. CASE \E s \in Keyboard : TypeKey(s)
  BY <1>11, <1>t, <1>c DEF TypeOK, TypeKey, shell, handlers, children
<1>12. CASE \E p \in Pid : Setpgid(p) \/ Terminate(p) \/ Stop(p)
  BY <1>12, <1>t, <1>c DEF TypeOK, Setpgid, Terminate, Stop, shell, handlers
<1> QED
  BY <1>1, <1>2, <1>3, <1>4, <1>5, <1>6, <1>7, <1>8, <1>9, <1>10, <1>11, <1>12, Steps

------------------------------------------------------------------------------
LEMMA InitInvariant == Init => IInv
<1> SUFFICES ASSUME Init PROVE IInv
  OBVIOUS
<1>1. Foreground = {} /\ stack = <<>> /\ DOMAIN stack = {}
  BY DEF Init, Foreground, Empty
<1>2. \A s \in Signal : Cardinality({i \in DOMAIN stack : stack[i] = s}) <= 1
  <2> TAKE s \in Signal
  <2>1. {i \in DOMAIN stack : stack[i] = s} = {}
    BY <1>1
  <2> QED
    BY <2>1, AtMostOne
<1>3. TypeOK
  <2>1. jobs \in [Job -> [pid : Pid \cup {NoPid}, state : {"UNDEF", "FG", "BG", "ST"}]]
    BY DEF Init, Empty
  <2>2. stack \in Seq(Signal)
    BY <1>1
  <2>3. reaped \in [pid : Pid \cup {NoPid}, status : {"none", "ended", "stopped", "continued"}]
    BY DEF Init, NoReport
  <2>4. /\ victim \in [Keyboard -> Pid \cup {NoPid}]
        /\ child \in [Pid -> {"none", "forked", "running", "stopped", "zombie"}]
        /\ news \in [Pid -> {"none", "stopped", "continued"}]
    BY DEF Init
  <2>5. fg_pid \in Pid \cup {NoPid} /\ pid \in Pid \cup {NoPid} /\ job = 0
        /\ blocked \in BOOLEAN /\ pending \in SUBSET Signal /\ pc = "prompt"
    BY DEF Init
  <2> QED
    BY <1>2, <2>1, <2>2, <2>3, <2>4, <2>5 DEF TypeOK
<1>4. StackInv /\ ForegroundInv
  BY <1>1 DEF Init, StackInv, Distinct, ForegroundInv
<1>5. ReportInv /\ ListInv /\ BackgroundUndisturbed
  BY DEF Init, ReportInv, ListInv, BackgroundUndisturbed, NoReport, Empty
<1> QED
  BY <1>3, <1>4, <1>5 DEF IInv

LEMMA StepInvariant == IInv /\ [Next]_vars => IInv'
<1> SUFFICES ASSUME IInv, [Next]_vars PROVE IInv'
  OBVIOUS
<1>1. CASE Next
  BY <1>1, TypeStep, StackStep, ForegroundStep, ReportStep, ListStep, BackgroundStep DEF IInv
<1>2. CASE UNCHANGED vars
  <2> USE <1>2 DEF vars, shell, handlers, children
  <2>1. TypeOK' /\ ReportInv'
    BY DEF IInv, TypeOK, ReportInv
  <2>2. StackInv' /\ ForegroundInv'
    BY DEF IInv, StackInv, Interrupted, Distinct, ForegroundInv, Foreground
  <2>3. ListInv' /\ BackgroundUndisturbed'
    BY DEF IInv, ListInv, BackgroundUndisturbed
  <2> QED
    BY <2>1, <2>2, <2>3 DEF IInv
<1> QED
  BY <1>1, <1>2

(* The inductive invariant of the shell: for any number of children, any   *)
(* job list and any interleaving of handlers.                              *)
THEOREM Invariance == Spec => []IInv
  BY InitInvariant, StepInvariant, PTL DEF Spec

(* Every variable keeps its type; no handler interrupts itself.            *)
THEOREM TypeCorrectness == Spec => []TypeOK
<1>1. IInv => TypeOK
  BY DEF IInv
<1> QED
  BY <1>1, Invariance, PTL

(* At most one job is in the foreground (tsh.c:35).                        *)
THEOREM SingleForeground == Spec => []AtMostOneForeground
<1>1. IInv => AtMostOneForeground
  BY AtMostOne DEF IInv, ForegroundInv, AtMostOneForeground
<1> QED
  BY <1>1, Invariance, PTL

(* The shell prompts, and starts or continues a background job, only when  *)
(* no job is in the foreground.                                            *)
THEOREM IdlePrompt == Spec => []PromptHasNoForeground
<1>1. IInv => PromptHasNoForeground
  BY DEF IInv, ForegroundInv, PromptHasNoForeground, Idle
<1> QED
  BY <1>1, Invariance, PTL

(* The victim of ctrl-c and ctrl-z is never a background job, although the *)
(* SIGCHLD handler may change the list before kill() (tsh.c:292).          *)
THEOREM KeysSpareBackground == Spec => []BackgroundUndisturbed
<1>1. IInv => BackgroundUndisturbed
  BY DEF IInv
<1> QED
  BY <1>1, Invariance, PTL

------------------------------------------------------------------------------
(* What JobListIsChildren says besides: a child is listed.  It takes room  *)
(* in the list for every child, and that addjob() takes the first slot.    *)
Listed ==
    \A p \in Pid : child[p] # "none" =>
        SlotsOf(p) # {} \/ (p = pid /\ pc \in {"addfg", "addbg"})

(* A set of natural numbers has a least element: among the sets of numbers *)
(* below its elements, the smallest.                                       *)
LEMMA LeastNat ==
    ASSUME NEW T, T \subseteq Nat, T # {}
    PROVE  \E x \in T : \A y \in T : x <= y
<1> DEFINE Below(x) == {y \in Nat : y < x}
           F == {Below(x) : x \in T}
<1>1. \A x \in Nat : IsFiniteSet(Below(x)) /\ Below(x) \subseteq Nat
  <2> TAKE x \in Nat
  <2>1. Below(x) \subseteq Nat /\ \A y \in Below(x) : y < x
    OBVIOUS
  <2> HIDE DEF Below
  <2> QED
    BY <2>1, FS_BoundedSetOfNaturals
<1>2. F \subseteq FiniteSubsetsOf(Nat) /\ F # {}
  BY <1>1 DEF FiniteSubsetsOf
<1>3. PICK B \in F : \A C \in F : ~(<<C, B>> \in StrictSubsetOrdering(Nat))
  <2> HIDE DEF F
  <2> QED
    BY <1>2, FS_StrictSubsetOrderingWellFounded, WFMin
<1>4. PICK x \in T : B = Below(x)
  OBVIOUS
<1>5. ASSUME NEW y \in T, y < x PROVE FALSE
  <2>1. Below(y) \subseteq Below(x) /\ x \in Nat /\ y \in Nat
    BY <1>5
  <2>2. y \in Below(x) /\ y \notin Below(y)
    BY <1>5
  <2>3. Below(y) \in F /\ Below(y) # Below(x)
    BY <2>2
  <2> HIDE DEF Below, F
  <2> QED
    BY <1>1, <1>3, <1>4, <2>1, <2>3 DEF StrictSubsetOrdering
<1> QED
  BY <1>5

(* addjob() finds the first free slot, if there is one.                    *)
LEMMA FirstFree ==
    ASSUME FreeSlots # {}
    PROVE  Min(FreeSlots) \in FreeSlots
<1>1. FreeSlots \subseteq Nat
  BY JobAssumption DEF FreeSlots, Job
<1>2. \E x \in FreeSlots : \A y \in FreeSlots : x <= y
  BY <1>1, LeastNat
<1> QED
  BY <1>2 DEF Min

(* With a slot for every child there is one for the child just forked.     *)
LEMMA Room ==
    ASSUME Cardinality(Pid) <= MaxJobs, IInv, pc \in {"addfg", "addbg"}
    PROVE  FreeSlots # {}
<1> SUFFICES ASSUME FreeSlots = {} PROVE FALSE
  OBVIOUS
<1> DEFINE f == [i \in Job |-> jobs[i].pid]
<1>1. pid \in Pid /\ \A i \in Job : jobs[i].pid # NoPid /\ jobs[i].pid \in Pid \ {pid}
  BY DEF FreeSlots, IInv, ListInv, TypeOK
<1>2. f \in Injection(Job, Pid \ {pid})
  BY <1>1 DEF Injection, IsInjective, IInv, ListInv
<1>3. IsFiniteSet(Pid \ {pid}) /\ Cardinality(Pid \ {pid}) = Cardinality(Pid) - 1
      /\ Cardinality(Pid) \in Nat
  BY <1>1, PidAssumption, FS_RemoveElement, FS_CardinalityType
<1>4. Cardinality(Job) = MaxJobs
  BY JobAssumption, FS_Interval DEF Job
<1>5. Cardinality(Job) <= Cardinality(Pid \ {pid})
  <2> HIDE DEF f
  <2> QED
    BY <1>2, <1>3, FS_Injection
<1> QED
  BY <1>3, <1>4, <1>5, JobAssumption

LEMMA ListedStep ==
    ASSUME Cardinality(Pid) <= MaxJobs, IInv, Listed, Next
    PROVE  Listed'
<1>t. /\ jobs \in [Job -> [pid : Pid \cup {NoPid}, state : {"UNDEF", "FG", "BG", "ST"}]]
      /\ child \in [Pid -> {"none", "forked", "running", "stopped", "zombie"}]
      /\ NoPid \notin Pid
  BY PidAssumption DEF IInv, TypeOK
<1>0. ASSUME \A i \in Job : jobs'[i].pid = jobs[i].pid,
             \A p \in Pid : child'[p] # "none" => child[p] # "none",
             pc \in {"addfg", "addbg"} => pc' = pc /\ pid' = pid
      PROVE  Listed'
  BY <1>0 DEF Listed, SlotsOf
<1>1. CASE RunCommand
  BY <1>1, <1>t DEF RunCommand, Main, Listed, SlotsOf
<1>2. CASE AddForeground \/ AddBackground
  <2>1. FreeSlots # {}
    BY <1>2, Room DEF AddForeground, AddBackground, Main
  <2>2. PICK k \in FreeSlots : \E x : jobs' = [jobs EXCEPT ![k] = [pid |-> pid, state |-> x]]
    BY <1>2, <2>1, FirstFree DEF AddForeground, AddBackground, AddJob
  <2>3. /\ jobs'[k].pid = pid /\ k \in Job /\ jobs[k].pid = NoPid
        /\ \A i \in Job : i # k => jobs'[i] = jobs[i]
    BY <1>t, <2>2 DEF FreeSlots
  <2>4. UNCHANGED child
    BY <1>2 DEF AddForeground, AddBackground, children
  <2> QED
    BY <1>t, <2>3, <2>4 DEF Listed, SlotsOf
<1>3. CASE Builtin \/ Quit \/ TestForeground \/ Unblock \/ WaitFg
  BY <1>0, <1>3 DEF Builtin, Quit, TestForeground, Unblock, WaitFg, Main, children
<1>4. CASE SetState
  <2>1. \A i \in Job : jobs'[i].pid = jobs[i].pid
    BY <1>t, <1>4 DEF SetState
  <2> QED
    BY <1>0, <1>4, <2>1 DEF SetState, Main, children
<1>5. CASE Continue
  <2>1. UNCHANGED jobs /\ pc \notin {"addfg", "addbg"}
    BY <1>5 DEF Continue, Main
  <2>2. child' = child \/ \E p : child[p] = "stopped" /\ child' = [child EXCEPT ![p] = "running"]
    BY <1>5 DEF Continue, children
  <2>3. \A p \in Pid : child'[p] # "none" => child[p] # "none"
    BY <1>t, <2>2
  <2> QED
    BY <1>0, <2>1, <2>3
<1>6. CASE DeliverChld
  BY <1>0, <1>6 DEF DeliverChld, shell, children
<1>7. CASE Waitpid
  <2>1. UNCHANGED jobs /\ pc \notin {"addfg", "addbg"}
    BY <1>7 DEF Waitpid, HandlerAt, IInv, StackInv
  <2>2. \A p \in Pid : child'[p] # "none" => child[p] # "none"
    BY <1>7, <1>t DEF Waitpid, children
  <2> QED
    BY <1>0, <2>1, <2>2
<1>8. CASE RecordReport
  <2>1. pc \notin {"addfg", "addbg"} /\ UNCHANGED child
    BY <1>8, ReportEffect DEF RecordReport, HandlerAt, IInv, StackInv
  <2>2. \A i \in Job : jobs'[i].pid = jobs[i].pid
           \/ (jobs[i].pid = reaped.pid /\ child[reaped.pid] = "none")
    BY <1>8, <1>t, ReportEffect DEF IInv, ReportInv
  <2> QED
    BY <2>1, <2>2 DEF Listed, SlotsOf
<1>9. ASSUME NEW s \in Keyboard, DeliverKey(s) \/ TypeKey(s) PROVE Listed'
  BY <1>0, <1>9 DEF DeliverKey, TypeKey, Resume, children, shell
<1>10. ASSUME NEW s \in Keyboard, KillForeground(s) PROVE Listed'
  <2>1. pc \notin {"addfg", "addbg"}
    BY <1>10 DEF KillForeground, HandlerAt, IInv, StackInv
  <2> QED
    BY <1>0, <1>10, <2>1 DEF KillForeground, children
<1>11. CASE \E p \in Pid : Setpgid(p) \/ Terminate(p) \/ Stop(p)
  BY <1>0, <1>11, <1>t DEF Setpgid, Terminate, Stop, shell
<1> QED
  BY <1>1, <1>2, <1>3, <1>4, <1>5, <1>6, <1>7, <1>8, <1>9, <1>10, <1>11, Steps

(* While the list has room for all children it holds exactly those that    *)
(* are not reaped yet: eval() blocks SIGCHLD for that.                     *)
THEOREM ListIsChildren ==
    ASSUME Cardinality(Pid) <= MaxJobs
    PROVE  Spec => []JobListIsChildren
<1>1. Init => Listed
  BY DEF Init, Listed
<1>2. IInv /\ Listed /\ [Next]_vars => Listed'
  <2>1. IInv /\ Listed /\ UNCHANGED vars => Listed'
    BY DEF vars, shell, children, Listed, SlotsOf
  <2> QED
    BY <2>1, ListedStep
<1>3. IInv /\ Listed => JobListIsChildren
  <2> SUFFICES ASSUME IInv, Listed PROVE JobListIsChildren
    OBVIOUS
  <2>1. ASSUME NEW p \in Pid
        PROVE  /\ Cardinality(SlotsOf(p)) <= 1
               /\ SlotsOf(p) # {} =>
                      child[p] # "none" \/ reaped = [pid |-> p, status |-> "ended"]
    <3>1. p # NoPid /\ \A i, j \in SlotsOf(p) : i = j
      BY PidAssumption DEF IInv, ListInv, SlotsOf
    <3>2. Cardinality(SlotsOf(p)) <= 1
      BY <3>1, AtMostOne
    <3>3. SlotsOf(p) # {} =>
             child[p] # "none" \/ reaped = [pid |-> p, status |-> "ended"]
      BY <3>1 DEF IInv, ListInv, SlotsOf, TypeOK
    <3> QED
      BY <3>2, <3>3
  <2> QED
    BY <2>1 DEF JobListIsChildren, Listed
<1> QED
  BY <1>1, <1>2, <1>3, Invariance, PTL DEF Spec
=============================================================================
