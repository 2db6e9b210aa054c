--------------------------------- MODULE Tsh ---------------------------------
(***************************************************************************)
(* The job-control shell of CSAPP/Lab/Lab6/tsh.c: its read/eval loop, its  *)
(* signal handlers and the children it starts.  The main program is        *)
(* interrupted by handlers, and these by one another: a handler blocks     *)
(* only its own signal.  Signals do not queue.                             *)
(***************************************************************************)
EXTENDS Integers, Sequences, FiniteSets, FiniteSetsExt

CONSTANTS
    Pid,            \* process IDs: bound on the children at any one time
    NoPid,          \* 0
    MaxJobs,        \* MAXJOBS
    Keyboard        \* the signals ctrl-c and ctrl-z send

Job == 1 .. MaxJobs
Signal == {"CHLD"} \cup Keyboard

ASSUME PidAssumption == IsFiniteSet(Pid) /\ NoPid \notin Pid
ASSUME JobAssumption == MaxJobs \in Nat \ {0}
ASSUME KeyboardAssumption == Keyboard \subseteq {"INT", "TSTP"}

VARIABLES
    jobs,           \* the job list
    fg_pid,         \* set by the SIGCHLD handler when the foreground job ends
    pc,             \* where the main program is
    pid,            \* its local variable: the process of the command
    job,            \* its local variable: the job bg or fg found, or 0
    blocked,        \* the main program has blocked SIGCHLD
    pending,        \* signals sent to the shell and not delivered
    stack,          \* handlers that have begun and not returned, last first
    reaped,         \* what waitpid() told the SIGCHLD handler
    victim,         \* whom the SIGINT and SIGTSTP handlers are to signal
    child,          \* the state of each child
    news            \* a stop or a continuation it has yet to report

shell == <<pc, pid, job, blocked>>
handlers == <<stack, reaped, victim>>
children == <<child, news>>
vars == <<jobs, fg_pid, shell, pending, handlers, children>>

NoReport == [pid |-> NoPid, status |-> "none"]
Empty == [pid |-> NoPid, state |-> "UNDEF"]

TypeOK ==
    /\ jobs \in [Job -> [pid : Pid \cup {NoPid},
                         state : {"UNDEF", "FG", "BG", "ST"}]]
    /\ fg_pid \in Pid \cup {NoPid}
    /\ pc \in {"prompt", "addfg", "addbg", "test", "suspended", "unblock",
               "bg", "bgcont", "fg", "fgcont", "waitfg", "quit", "error"}
    /\ pid \in Pid \cup {NoPid}
    /\ job \in Job \cup {0}
    /\ blocked \in BOOLEAN
    /\ pending \in SUBSET Signal
    /\ stack \in Seq(Signal) /\ \A s \in Signal :
           Cardinality({i \in DOMAIN stack : stack[i] = s}) <= 1
    /\ reaped \in [pid : Pid \cup {NoPid},
                   status : {"none", "ended", "stopped", "continued"}]
    /\ victim \in [Keyboard -> Pid \cup {NoPid}]
    /\ child \in [Pid -> {"none", "forked", "running", "stopped", "zombie"}]
    /\ news \in [Pid -> {"none", "stopped", "continued"}]

Init ==
    /\ jobs = [i \in Job |-> Empty]
    /\ fg_pid = NoPid
    /\ pc = "prompt" /\ pid = NoPid /\ job = 0 /\ blocked = FALSE
    /\ pending = {}
    /\ stack = <<>> /\ reaped = NoReport
    /\ victim = [s \in Keyboard |-> NoPid]
    /\ child = [p \in Pid |-> "none"]
    /\ news = [p \in Pid |-> "none"]

------------------------------------------------------------------------------
(* The job list. *)
FreeSlots == {i \in Job : jobs[i].pid = NoPid}
Foreground == {i \in Job : jobs[i].state = "FG"}
SlotsOf(p) == {i \in Job : jobs[i].pid = p}

(* fgpid(): the first job in state FG. *)
FgPid == IF Foreground = {} THEN NoPid ELSE jobs[Min(Foreground)].pid

(* addjob() finds no slot when the list is full, and eval() goes on. *)
AddJob(p, s) ==
    jobs' = IF FreeSlots = {} THEN jobs
            ELSE [jobs EXCEPT ![Min(FreeSlots)] = [pid |-> p, state |-> s]]

DeleteJob(p) ==
    jobs' = [i \in Job |-> IF jobs[i].pid = p THEN Empty ELSE jobs[i]]

(* unix_error() and app_error() end the shell. *)
Error == pc' = "error" /\ UNCHANGED <<pid, job, blocked>>

------------------------------------------------------------------------------
(***************************************************************************)
(* The main program runs while no handler does and no signal that is not   *)
(* blocked waits for delivery.  sigsuspend() unblocks SIGCHLD.             *)
(***************************************************************************)
Alive == pc \notin {"quit", "error"}

(* Mutant of Deliverable: a handler does not block its own signal. *)
DeliverableNested(s) ==
    /\ Alive
    /\ s \in pending
    /\ s = "CHLD" => ~blocked \/ pc = "suspended"

Deliverable(s) ==
    /\ Alive
    /\ s \in pending
    /\ \A i \in DOMAIN stack : stack[i] # s
    /\ s = "CHLD" => ~blocked \/ pc = "suspended"

Main(label) ==
    pc = label /\ stack = <<>> /\ \A s \in Signal : ~Deliverable(s)

(* Mutant of RunCommand: SIGCHLD is not blocked. *)
RunCommandUnblocked ==
    /\ Main("prompt")
    /\ \E p \in Pid :
        /\ child[p] = "none"
        /\ child' = [child EXCEPT ![p] = "forked"]
        /\ pid' = p
    /\ pc' \in {"addfg", "addbg"}
    /\ UNCHANGED <<jobs, fg_pid, job, blocked, pending, handlers, news>>

(* eval(): SIGCHLD is blocked, then the child is forked. *)
RunCommand ==
    /\ Main("prompt")
    /\ \E p \in Pid :
        /\ child[p] = "none"
        /\ child' = [child EXCEPT ![p] = "forked"]
        /\ pid' = p
    /\ pc' \in {"addfg", "addbg"}
    /\ blocked' = TRUE
    /\ UNCHANGED <<jobs, fg_pid, job, pending, handlers, news>>

AddForeground ==
    /\ Main("addfg")
    /\ AddJob(pid, "FG")
    /\ fg_pid' = NoPid
    /\ pc' = "test"
    /\ UNCHANGED <<pid, job, blocked, pending, handlers, children>>

AddBackground ==
    /\ Main("addbg")
    /\ AddJob(pid, "BG")
    /\ pc' = "unblock"
    /\ UNCHANGED <<fg_pid, pid, job, blocked, pending, handlers, children>>

(* while (!fg_pid) sigsuspend(&pre_target); *)
TestForeground ==
    /\ Main("test")
    /\ pc' = IF fg_pid = NoPid THEN "suspended" ELSE "unblock"
    /\ UNCHANGED <<jobs, fg_pid, pid, job, blocked, pending, handlers, children>>

Unblock ==
    /\ Main("unblock")
    /\ pc' = "prompt" /\ blocked' = FALSE
    /\ pid' = NoPid /\ job' = 0
    /\ UNCHANGED <<jobs, fg_pid, pending, handlers, children>>

(* bg and fg take a job by its PID, and keep that, or by its JID, and read *)
(* job->pid again when they need it.  Nothing blocks SIGCHLD meanwhile.    *)
Builtin ==
    /\ Main("prompt")
    /\ \E i \in Job :
        /\ jobs[i].pid # NoPid
        /\ \/ pc' = "bg" /\ jobs[i].state = "ST"
           \/ pc' = "fg" /\ jobs[i].state \in {"ST", "BG"}
        /\ job' = i
        /\ pid' \in {jobs[i].pid, NoPid}
    /\ UNCHANGED <<jobs, fg_pid, blocked, pending, handlers, children>>

SetState ==
    /\ \/ Main("bg") /\ jobs' = [jobs EXCEPT ![job].state = "BG"]
                     /\ pc' = "bgcont"
       \/ Main("fg") /\ jobs' = [jobs EXCEPT ![job].state = "FG"]
                     /\ pc' = "fgcont"
    /\ UNCHANGED <<fg_pid, pid, job, blocked, pending, handlers, children>>

(* The group a child leads exists from its setpgid() until it is reaped. *)
HasGroup(p) == child[p] \notin {"none", "forked"}

(* Kill(-pid, SIGCONT); with pid = 0 the shell signals its own group. *)
Continue ==
    /\ Main("bgcont") \/ Main("fgcont")
    /\ LET p == IF pid # NoPid THEN pid ELSE jobs[job].pid
           next == pc' = (IF pc = "bgcont" THEN "unblock" ELSE "waitfg")
                      /\ UNCHANGED <<pid, job, blocked>>
       IN  \/ /\ p # NoPid /\ HasGroup(p) /\ child[p] = "stopped"
              /\ child' = [child EXCEPT ![p] = "running"]
              /\ news' = [news EXCEPT ![p] = "continued"]
              /\ pending' = pending \cup {"CHLD"}
              /\ next
           \/ /\ p # NoPid => HasGroup(p) /\ child[p] # "stopped"
              /\ next
              /\ UNCHANGED <<pending, children>>
           \/ /\ p # NoPid /\ ~HasGroup(p)
              /\ Error
              /\ UNCHANGED <<pending, children>>
    /\ UNCHANGED <<jobs, fg_pid, handlers>>

(* waitfg() blocks SIGCHLD and clears fg_pid only now. *)
WaitFg ==
    /\ Main("waitfg")
    /\ blocked' = TRUE
    /\ fg_pid' = NoPid
    /\ pc' = "test"
    /\ UNCHANGED <<jobs, pid, job, pending, handlers, children>>

Quit ==
    /\ Main("prompt")
    /\ pc' = "quit"
    /\ UNCHANGED <<jobs, fg_pid, pid, job, blocked, pending, handlers, children>>

------------------------------------------------------------------------------
(* Signal handlers.  sigsuspend() returns when the last handler that       *)
(* interrupted it does, and the while loop tests fg_pid again.             *)

(* Mutant of Resume: if (!fg_pid) instead of while (!fg_pid). *)
ResumeOnce(below) ==
    IF pc = "suspended" /\ below = <<>> THEN "unblock" ELSE pc

Resume(below) ==
    IF pc = "suspended" /\ below = <<>> THEN "test" ELSE pc

ReturnFromHandler ==
    /\ stack' = Tail(stack)
    /\ pc' = Resume(Tail(stack))
    /\ UNCHANGED <<pid, job, blocked>>

DeliverChld ==
    /\ Deliverable("CHLD")
    /\ pending' = pending \ {"CHLD"}
    /\ stack' = <<"CHLD">> \o stack
    /\ UNCHANGED <<jobs, fg_pid, shell, reaped, victim, children>>

HandlerAt(s) == Alive /\ stack # <<>> /\ stack[1] = s

(* A child that has something to report, and what. *)
Report(p) == IF child[p] = "zombie" THEN "ended" ELSE news[p]

(* The one call of waitpid(): it waits for news of any child, and fails    *)
(* when there is no child.                                                 *)
Waitpid ==
    /\ HandlerAt("CHLD") /\ reaped = NoReport
    /\ \/ \E p \in Pid :
            /\ Report(p) # "none"
            /\ reaped' = [pid |-> p, status |-> Report(p)]
            /\ child' = [child EXCEPT ![p] = IF @ = "zombie" THEN "none" ELSE @]
            /\ news' = [news EXCEPT ![p] = "none"]
            /\ UNCHANGED shell
       \/ /\ \A p \in Pid : child[p] = "none"
          /\ Error
          /\ UNCHANGED <<reaped, children>>
    /\ UNCHANGED <<jobs, fg_pid, pending, stack, victim>>

(* Mutant of ForegroundEnded: the job that fg continued counts as ended. *)
ForegroundReported == reaped.pid = FgPid

(* The foreground job ended or stopped: !WIFCONTINUED && pid == fgpid(). *)
ForegroundEnded == reaped.status # "continued" /\ reaped.pid = FgPid

(* The rest of sigchld_handler(): fg_pid, then the job list.  A job that   *)
(* stopped and did not fit in the list is a null pointer.                  *)
RecordReport ==
    /\ HandlerAt("CHLD") /\ reaped # NoReport
    /\ fg_pid' = IF ForegroundEnded THEN reaped.pid ELSE fg_pid
    /\ CASE reaped.status = "ended" -> DeleteJob(reaped.pid)
         [] reaped.status = "stopped" ->
                jobs' = [i \in Job |-> IF jobs[i].pid = reaped.pid
                                       THEN [jobs[i] EXCEPT !.state = "ST"]
                                       ELSE jobs[i]]
         [] OTHER -> UNCHANGED jobs
    /\ IF reaped.status = "stopped" /\ SlotsOf(reaped.pid) = {}
       THEN Error /\ UNCHANGED stack
       ELSE ReturnFromHandler
    /\ reaped' = NoReport
    /\ UNCHANGED <<pending, victim, children>>

(* Mutant of Victims: any job will do. *)
AnyJob == {i \in Job : jobs[i].pid # NoPid}

(* The jobs whose first the handlers of ctrl-c and ctrl-z signal. *)
Victims == {i \in Foreground : jobs[i].pid # NoPid}

(* sigint_handler() and sigtstp_handler() look for a job; kill() follows. *)
DeliverKey(s) ==
    /\ Deliverable(s)
    /\ pending' = pending \ {s}
    /\ \/ /\ Victims # {}
          /\ victim' = [victim EXCEPT ![s] = jobs[Min(Victims)].pid]
          /\ stack' = <<s>> \o stack
          /\ UNCHANGED pc
       \/ /\ Victims = {}
          /\ pc' = Resume(stack)
          /\ UNCHANGED <<stack, victim>>
    /\ UNCHANGED <<jobs, fg_pid, pid, job, blocked, reaped, children>>

(* Kill(-pid, sig).  What the signal makes a child do, if it does not      *)
(* ignore it, is what the child may do at any time.                        *)
KillForeground(s) ==
    /\ HandlerAt(s)
    /\ IF HasGroup(victim[s])
       THEN ReturnFromHandler
       ELSE Error /\ UNCHANGED stack
    /\ victim' = [victim EXCEPT ![s] = NoPid]
    /\ UNCHANGED <<jobs, fg_pid, pending, reaped, children>>

------------------------------------------------------------------------------
(* The children, and the user at the keyboard. *)
Setpgid(p) ==
    /\ Alive /\ child[p] = "forked"
    /\ child' = [child EXCEPT ![p] = "running"]
    /\ UNCHANGED <<jobs, fg_pid, shell, pending, handlers, news>>

Terminate(p) ==
    /\ Alive /\ child[p] \in {"running", "stopped"}
    /\ child' = [child EXCEPT ![p] = "zombie"]
    /\ news' = [news EXCEPT ![p] = "none"]
    /\ pending' = pending \cup {"CHLD"}
    /\ UNCHANGED <<jobs, fg_pid, shell, handlers>>

Stop(p) ==
    /\ Alive /\ child[p] = "running"
    /\ child' = [child EXCEPT ![p] = "stopped"]
    /\ news' = [news EXCEPT ![p] = "stopped"]
    /\ pending' = pending \cup {"CHLD"}
    /\ UNCHANGED <<jobs, fg_pid, shell, handlers>>

TypeKey(s) ==
    /\ Alive
    /\ pending' = pending \cup {s}
    /\ UNCHANGED <<jobs, fg_pid, shell, handlers, children>>

------------------------------------------------------------------------------
Command == RunCommand \/ Builtin \/ Quit

ShellStep ==
    \/ AddForeground \/ AddBackground \/ TestForeground \/ Unblock
    \/ SetState \/ Continue \/ WaitFg
    \/ DeliverChld \/ Waitpid \/ RecordReport
    \/ \E s \in Keyboard : DeliverKey(s) \/ KillForeground(s)

ChildStep == \E p \in Pid : Setpgid(p) \/ Terminate(p) \/ Stop(p)

Next == Command \/ ShellStep \/ ChildStep \/ \E s \in Keyboard : TypeKey(s)

(* The shell is scheduled; nothing is asked of the user and the children.  *)
Spec == Init /\ [][Next]_vars /\ WF_vars(ShellStep)

------------------------------------------------------------------------------
(* At most one job is in the foreground (tsh.c:35), whatever handlers do   *)
(* to the job list while fg is at work on it.                              *)
AtMostOneForeground == Cardinality(Foreground) <= 1

(* While the shell reads or starts a command no job is in the foreground:  *)
(* it leaves the wait loop only when its job ended or stopped.             *)
PromptHasNoForeground ==
    pc \in {"prompt", "addfg", "addbg", "bg", "bgcont"} => Foreground = {}

(* The job list is the children: each child not reaped yet is listed once, *)
(* but for the one being added, and nothing else is listed, but for the    *)
(* one sigchld_handler() is about to delete.  eval() blocks SIGCHLD around *)
(* fork() and addjob() for that; while there is room, it succeeds.         *)
JobListIsChildren ==
    /\ \A p \in Pid : Cardinality(SlotsOf(p)) <= 1
    /\ \A p \in Pid : SlotsOf(p) # {} =>
            child[p] # "none" \/ reaped = [pid |-> p, status |-> "ended"]
    /\ \A p \in Pid : child[p] # "none" =>
            \/ SlotsOf(p) # {}
            \/ p = pid /\ pc \in {"addfg", "addbg"}

(* ctrl-c and ctrl-z never reach a background job (tsh.c:292), although    *)
(* the job list may change between the choice of a victim and kill().      *)
BackgroundUndisturbed ==
    \A s \in Keyboard, i \in Job :
        victim[s] # NoPid /\ jobs[i].pid = victim[s] => jobs[i].state # "BG"

------------------------------------------------------------------------------
(* tsh.c:508: "The handler reaps all available zombie children".  Once it  *)
(* has returned and no SIGCHLD is on its way, there is none left.          *)
ReapsAllZombies ==
    "CHLD" \notin pending /\ stack = <<>> => \A p \in Pid : child[p] # "zombie"

(* tsh.c:486: waitfg() blocks "until process pid is no longer the          *)
(* foreground process", and then returns.                                  *)
WaitfgReturns == pc = "suspended" /\ Foreground = {} ~> pc # "suspended"

(* README.md:12 of the lab: ctrl-c does not close the shell, it only ends  *)
(* the program in the foreground.                                          *)
ShellSurvives == pc # "error"
=============================================================================
