------------------------------ MODULE BusyInit ------------------------------
(***************************************************************************)
(* busybox/init/init.c, process 1 of the rescue system: it runs what       *)
(* /etc/inittab says, restarts consoles, reaps every process and takes     *)
(* the system down.  Signals may come between any two steps; children die  *)
(* at any time.                                                            *)
(*                                                                         *)
(* An entry of inittab is a line [id, type]: id stands for its command and *)
(* terminal, type for its action.  FEATURE_USE_INITTAB and KILL_REMOVED    *)
(* are set, FEATURE_KILL_DELAY is 0 (.config.bb).                          *)
(***************************************************************************)
EXTENDS Integers, SequencesExt

CONSTANTS
    Pids,               \* process numbers
    Tables,             \* versions of /etc/inittab
    MaxSignals,         \* bound on the signals sent to init
    MaxFailures,        \* bound on the forks that fail
    Daemons             \* processes that scripts leave behind

OneShot == {"sysinit", "wait", "once", "ctrlaltdel", "shutdown"}
Waited == OneShot \ {"once"}
Kept == {"respawn", "askfirst"}
Types == OneShot \cup Kept \cup {"restart"}
Stale == "stale"        \* action_type 0

ASSUME BusyInitAssumption ==
    /\ Pids \subseteq Nat \ {0}
    /\ Tables \subseteq Seq([id : STRING, type : Types])
    /\ \A t \in Tables : \A j, k \in 1 .. Len(t) : t[j].id = t[k].id => j = k
    /\ {MaxSignals, MaxFailures, Daemons} \subseteq Nat

VARIABLES
    loaded,             \* /etc/inittab as it was last read
    list,               \* init_action_list: [id, type, pid]
    proc,               \* the processes: [st, id, type, doomed]
    stage,              \* how far init_main has come
    pc,                 \* what it is doing
    mask, i,            \* run_actions: the types to run, the next entry
    lines,              \* parse_inittab: the lines still to be read
    waiting,            \* the process run() has returned, for waitfor or the entry
    missed,             \* those reaped before their numbers were in the list
    inWait,             \* inside the system call wait or waitpid
    got,                \* bb_got_signal
    nohang,             \* maybe_WNOHANG
    stopped,            \* inside stop_handler
    going,              \* the handler that takes the system down, if any
    torn,               \* that handler interrupted reload_inittab
    ran,                \* shutdown entries that were run, in their order
    budget              \* signals, failures and daemons left

vars == <<loaded, list, proc, stage, pc, mask, i, lines, waiting, missed,
          inWait, got, nohang, stopped, going, torn, ran, budget>>
\* What run_actions, waitfor and reload_inittab leave alone.
ends == <<loaded, stopped, going, torn, missed>>

Nobody == [st |-> "free", id |-> "", type |-> "", doomed |-> FALSE]
Alive == {p \in Pids : proc[p].st = "run"}
Zombies == {p \in Pids : proc[p].st = "zombie"}
Children == Alive \cup Zombies

Entries(table) ==
    [k \in 1 .. Len(table) |->
        [id |-> table[k].id, type |-> table[k].type, pid |-> 0]]

Init ==
    /\ loaded \in Tables
    /\ list = Entries(loaded)
    /\ proc = [p \in Pids |-> Nobody]
    /\ stage = "sysinit" /\ pc = "run"
    /\ mask = {"sysinit"} /\ i = 1
    /\ lines = <<>>
    /\ waiting = 0 /\ missed = {} /\ inWait = FALSE
    /\ got = "none" /\ nohang = FALSE
    /\ stopped = FALSE /\ going = "no" /\ torn = FALSE
    /\ ran = <<>>
    /\ budget = [signals |-> MaxSignals, failures |-> MaxFailures,
                 daemons |-> Daemons]

-----------------------------------------------------------------------------
\* run_actions, run and waitfor

\* The next entry of a wanted type, if any.
Matches == {j \in i .. Len(list) : list[j].type \in mask}
Current == Min(Matches)

\* Process numbers go round: one is not used again while init remembers it.
FreePids ==
    {p \in Pids : /\ proc[p].st = "free" /\ p # waiting
                  /\ \A j \in 1 .. Len(list) : list[j].pid # p}
Fork == {p \in FreePids : \A q \in FreePids : p <= q}

Process(entry) ==
    [st |-> "run", id |-> entry.id, type |-> entry.type, doomed |-> FALSE]

\* A process that runs once is started and, unless its type is "once", waited
\* for.
RunOnce ==
    /\ pc = "run" /\ ~stopped /\ Matches # {}
    /\ LET a == list[Current]
       IN  /\ a.type \in OneShot
           /\ \E p \in Fork :
                 /\ proc' = [proc EXCEPT ![p] = Process(a)]
                 /\ IF a.type \in Waited
                    THEN pc' = "waitfor" /\ waiting' = p
                    ELSE UNCHANGED <<pc, waiting>>
           /\ ran' = IF a.type = "shutdown" THEN Append(ran, a.id) ELSE ran
    /\ i' = Current + 1
    /\ UNCHANGED <<ends, list, stage, mask, lines, inWait, got, nohang, budget>>

\* A console is started when it is not running.  run() lets signals through
\* again before it returns.
RunKept ==
    /\ pc = "run" /\ ~stopped /\ Matches # {}
    /\ list[Current].type \in Kept
    /\ IF list[Current].pid = 0
       THEN /\ \E p \in Fork :
                  /\ proc' = [proc EXCEPT ![p] = Process(list[Current])]
                  /\ waiting' = p
            /\ pc' = "keep" /\ UNCHANGED i
       ELSE i' = Current + 1 /\ UNCHANGED <<proc, waiting, pc>>
    /\ UNCHANGED <<ends, list, stage, mask, lines, inWait, got, nohang, ran,
                   budget>>

\* "a->pid = run(a)": its process may be gone by now, reaped by stop_handler.
Keep ==
    /\ pc = "keep" /\ ~stopped
    /\ list' = [list EXCEPT ![Current].pid = waiting]
    /\ missed' = IF proc[waiting].st = "free" THEN missed \cup {waiting}
                 ELSE missed \ {waiting}
    /\ pc' = "run" /\ i' = Current + 1 /\ waiting' = 0
    /\ UNCHANGED <<loaded, stopped, going, torn, proc, stage, mask, lines, inWait,
                   got, nohang, ran, budget>>

\* "can't fork": waitfor does nothing with -1, a console keeps it as its pid.
RunFails ==
    /\ pc = "run" /\ ~stopped /\ Matches # {}
    /\ budget.failures > 0
    /\ list[Current].type \in Kept => list[Current].pid = 0
    /\ list' = IF list[Current].type \in Kept
               THEN [list EXCEPT ![Current].pid = -1] ELSE list
    /\ budget' = [budget EXCEPT !.failures = @ - 1]
    /\ i' = Current + 1
    /\ UNCHANGED <<ends, proc, stage, pc, mask, lines, waiting, inWait, got,
                   nohang, ran>>

\* The end of the list.
RunDone ==
    /\ pc = "run" /\ ~stopped /\ Matches = {}
    /\ pc' = IF going = "no" THEN "check" ELSE "kill"
    /\ i' = 1
    /\ UNCHANGED <<ends, list, proc, stage, mask, lines, waiting, inWait,
                   got, nohang, ran, budget>>

\* wait() returns process z; mark_terminated looks for it in the list.
Reap(z) ==
    /\ proc' = [proc EXCEPT ![z] = Nobody]
    /\ list' = [j \in 1 .. Len(list) |->
                   IF list[j].pid = z THEN [list[j] EXCEPT !.pid = 0]
                   ELSE list[j]]

\* Mutant of WaitFor: "if (wpid == pid) break", which the code has as a comment.
WaitForSame ==
    /\ pc = "waitfor" /\ ~stopped
    /\ \/ \E z \in Zombies :
             /\ Reap(z)
             /\ pc' = IF z = waiting THEN "run" ELSE pc
             /\ waiting' = IF z = waiting THEN 0 ELSE waiting
             /\ inWait' = FALSE
       \/ /\ Children = {}
          /\ UNCHANGED <<proc, list, pc, waiting, inWait>>
       \/ /\ Zombies = {} /\ Children # {} /\ ~inWait
          /\ inWait' = TRUE
          /\ UNCHANGED <<proc, list, pc, waiting>>
    /\ UNCHANGED <<ends, stage, mask, i, lines, got, nohang, ran, budget>>

\* Mutant of WaitFor: any child will do.
WaitForAny ==
    /\ pc = "waitfor" /\ ~stopped
    /\ \E z \in Zombies : Reap(z)
    /\ pc' = "run" /\ waiting' = 0 /\ inWait' = FALSE
    /\ UNCHANGED <<ends, stage, mask, i, lines, got, nohang, ran, budget>>

\* "Wait for any child [...] but exit the loop only when specified one has
\* exited": wait() returns a child, or that there is none, or blocks.
WaitFor ==
    /\ pc = "waitfor" /\ ~stopped
    /\ \/ \E z \in Zombies :
             /\ Reap(z)
             /\ pc' = IF proc'[waiting].st = "free" THEN "run" ELSE pc
             /\ waiting' = IF proc'[waiting].st = "free" THEN 0 ELSE waiting
             /\ inWait' = FALSE
       \/ /\ Children = {}
          /\ pc' = "run" /\ waiting' = 0 /\ inWait' = FALSE
          /\ UNCHANGED <<proc, list>>
       \/ /\ Zombies = {} /\ Children # {} /\ ~inWait
          /\ inWait' = TRUE
          /\ UNCHANGED <<proc, list, pc, waiting>>
    /\ UNCHANGED <<ends, stage, mask, i, lines, got, nohang, ran, budget>>

-----------------------------------------------------------------------------
\* check_delayed_sigs and reload_inittab

\* What init_main runs after a call of check_delayed_sigs.
After ==
    CASE stage = "sysinit" -> [stage |-> "wait", mask |-> {"wait"}]
      [] stage = "wait"    -> [stage |-> "once", mask |-> {"once"}]
      [] OTHER             -> [stage |-> "loop", mask |-> Kept]

\* Mutant of CheckDone: the main loop does not look at the signal.
CheckDoneUnseen ==
    /\ pc = "check" /\ ~stopped /\ (got = "none" \/ stage \in {"loop", "top"})
    /\ IF stage = "loop"
       THEN pc' = "reap" /\ UNCHANGED <<stage, mask, i>>
       ELSE /\ pc' = "run"
            /\ stage' = After.stage /\ mask' = After.mask /\ i' = 1
    /\ UNCHANGED <<ends, list, proc, lines, waiting, inWait, got, nohang, ran,
                   budget>>

\* No signal is left: on with the next group of entries or, the consoles having
\* been started, to the wait for children.
CheckDone ==
    /\ pc = "check" /\ ~stopped /\ got = "none"
    /\ IF stage = "loop"
       THEN pc' = "reap" /\ UNCHANGED <<stage, mask, i>>
       ELSE /\ pc' = "run"
            /\ stage' = After.stage /\ mask' = After.mask /\ i' = 1
    /\ UNCHANGED <<ends, list, proc, lines, waiting, inWait, got, nohang, ran,
                   budget>>

\* A signal has been seen: waitpid will not block in this round of the loop.
Seen ==
    /\ pc = "check" /\ ~stopped
    /\ got' = "none"
    /\ nohang' = (nohang \/ stage \notin {"sysinit", "wait"})

\* Ctrl-Alt-Del.
CheckInt ==
    /\ got = "INT" /\ Seen
    /\ pc' = "run" /\ mask' = {"ctrlaltdel"} /\ i' = 1
    /\ UNCHANGED <<ends, list, proc, stage, lines, waiting, inWait, ran, budget>>

\* reload_inittab: "Disable old entries", and the file, which may have been
\* edited, is opened.
CheckHup ==
    /\ got = "HUP" /\ Seen
    /\ pc' = "parse"
    /\ list' = [j \in 1 .. Len(list) |-> [list[j] EXCEPT !.type = Stale]]
    /\ loaded' \in Tables
    /\ lines' = loaded'
    /\ UNCHANGED <<stopped, going, torn, missed, proc, stage, mask, i, waiting,
                   inWait, ran, budget>>

Known(id) == {j \in 1 .. Len(list) : list[j].id = id}
New(line, pid) == [id |-> line.id, type |-> line.type, pid |-> pid]

\* Mutants of NewAction: an entry that is known keeps its place, or its
\* process is forgotten, or it is moved and not given its action again.
NewActionInPlace(line) ==
    IF Known(line.id) = {} THEN Append(list, New(line, 0))
    ELSE [list EXCEPT ![Min(Known(line.id))].type = line.type]

NewActionForgets(line) ==
    IF Known(line.id) = {} THEN Append(list, New(line, 0))
    ELSE Append(RemoveAt(list, Min(Known(line.id))), New(line, 0))

NewActionUntyped(line) ==
    IF Known(line.id) = {} THEN Append(list, New(line, 0))
    ELSE LET k == Min(Known(line.id)) IN Append(RemoveAt(list, k), list[k])

\* new_init_action: "if we find a matching entry, we move it to the end".
NewAction(line) ==
    IF Known(line.id) = {} THEN Append(list, New(line, 0))
    ELSE LET k == Min(Known(line.id))
         IN  Append(RemoveAt(list, k), New(line, list[k].pid))

Parse ==
    /\ pc = "parse" /\ ~stopped /\ lines # <<>>
    /\ list' = NewAction(Head(lines))
    /\ lines' = Tail(lines)
    /\ UNCHANGED <<ends, proc, stage, pc, mask, i, waiting, inWait, got, nohang,
                   ran, budget>>

\* The processes that get SIGTERM because their entries are gone: kill(-1)
\* sends it to all.
Killed ==
    LET pids == {list[j].pid : j \in {k \in 1 .. Len(list) : list[k].type = Stale}}
    IN  IF -1 \in pids THEN Alive ELSE pids \cap Alive

Sigterm(p) == [proc[p] EXCEPT !.doomed = TRUE]

\* "Kill stale entries"
KillStale ==
    /\ pc = "parse" /\ ~stopped /\ lines = <<>>
    /\ proc' = [p \in Pids |-> IF p \in Killed THEN Sigterm(p) ELSE proc[p]]
    /\ pc' = "purge"
    /\ UNCHANGED <<ends, list, stage, mask, i, lines, waiting, inWait, got,
                   nohang, ran, budget>>

\* "Remove stale entries and SYSINIT entries", one after the other.
Obsolete == {j \in 1 .. Len(list) : list[j].type \in {Stale, "sysinit"}}

Purge ==
    /\ pc = "purge" /\ ~stopped /\ Obsolete # {}
    /\ list' = RemoveAt(list, Min(Obsolete))
    /\ UNCHANGED <<ends, proc, stage, pc, mask, i, lines, waiting, inWait, got,
                   nohang, ran, budget>>

PurgeDone ==
    /\ pc = "purge" /\ ~stopped /\ Obsolete = {}
    /\ pc' = "check"
    /\ UNCHANGED <<ends, list, proc, stage, mask, i, lines, waiting, inWait, got,
                   nohang, ran, budget>>

-----------------------------------------------------------------------------
\* The main loop's wait for children

ReapOne ==
    /\ pc = "reap" /\ ~stopped
    /\ \E z \in Zombies : Reap(z)
    /\ nohang' = TRUE /\ inWait' = FALSE
    /\ UNCHANGED <<ends, stage, pc, mask, i, lines, waiting, got, ran, budget>>

\* waitpid blocks.
ReapBlocks ==
    /\ pc = "reap" /\ ~stopped
    /\ Zombies = {} /\ Children # {} /\ ~nohang /\ ~inWait
    /\ inWait' = TRUE
    /\ UNCHANGED <<ends, list, proc, stage, pc, mask, i, lines, waiting, got,
                   nohang, ran, budget>>

\* Nobody is left to be reaped: once more round the loop.
ReapDone ==
    /\ pc = "reap" /\ ~stopped
    /\ Zombies = {} /\ (nohang \/ Children = {})
    /\ stage' = "top" /\ pc' = "check" /\ nohang' = FALSE
    /\ UNCHANGED <<ends, list, proc, mask, i, lines, waiting, inWait, got, ran,
                   budget>>

-----------------------------------------------------------------------------
\* Signals

\* A handler that returns makes wait() return: in waitfor kill(pid, 0) is
\* tried, the main loop starts again.
Interrupted ==
    IF ~inWait THEN UNCHANGED <<pc, stage, waiting, inWait>>
    ELSE /\ inWait' = FALSE
         /\ IF pc = "reap"
            THEN pc' = "check" /\ stage' = "top" /\ UNCHANGED waiting
            ELSE /\ UNCHANGED stage
                 /\ IF proc[waiting].st = "free" THEN pc' = "run" /\ waiting' = 0
                    ELSE UNCHANGED <<pc, waiting>>

Signalled ==
    /\ going = "no" /\ ~stopped
    /\ budget.signals > 0
    /\ budget' = [budget EXCEPT !.signals = @ - 1]

\* record_signo: SIGHUP and SIGINT are only remembered, the last one of them.
Record ==
    /\ Signalled
    /\ got' \in {"HUP", "INT"}
    /\ Interrupted
    /\ UNCHANGED <<ends, list, proc, mask, i, lines, nohang, ran>>

\* halt_reboot_pwoff, and restart_handler where there is a restart entry:
\* whatever init was doing is left for good.
GoDown ==
    /\ Signalled
    /\ going' \in {"halt"} \cup
          (IF \E j \in 1 .. Len(list) : list[j].type = "restart"
           THEN {"restart"} ELSE {})
    /\ torn' = (pc = "parse")
    /\ pc' = "run" /\ mask' = {"shutdown"} /\ i' = 1
    /\ waiting' = 0 /\ inWait' = FALSE
    /\ UNCHANGED <<loaded, list, proc, stage, lines, missed, got, nohang,
                   stopped, ran>>

\* SIGTSTP: stop_handler, in which only SIGCONT is let through.
Stop ==
    /\ Signalled
    /\ stopped' = TRUE
    /\ UNCHANGED <<loaded, list, proc, stage, pc, mask, i, lines,
                   waiting, missed, inWait, got, nohang, going, torn, ran>>

\* "this can accidentally wait() for a process which we waitfor() elsewhere"
StopReaps ==
    /\ stopped
    /\ \E z \in Zombies : Reap(z)
    /\ UNCHANGED <<ends, stage, pc, mask, i, lines, waiting, inWait, got,
                   nohang, ran, budget>>

\* SIGCONT; bb_got_signal is put back.
Cont ==
    /\ stopped
    /\ stopped' = FALSE
    /\ Interrupted
    /\ UNCHANGED <<loaded, list, proc, mask, i, lines, missed, got, nohang,
                   going, torn, ran, budget>>

\* run_shutdown_and_kill_processes ends with SIGKILL to everyone, then the
\* machine stops or another init takes over, which finds the dead.
Kill ==
    /\ pc = "kill"
    /\ proc' = [p \in Pids |-> IF p \in Alive
                               THEN [proc[p] EXCEPT !.st = "zombie"] ELSE proc[p]]
    /\ pc' = IF going = "halt" THEN "down" ELSE "exec"
    /\ UNCHANGED <<ends, list, stage, mask, i, lines, waiting, inWait, got,
                   nohang, ran, budget>>

\* The new init reads the file and starts from the beginning.
Exec ==
    /\ pc = "exec"
    /\ loaded' \in Tables
    /\ list' = Entries(loaded')
    /\ stage' = "sysinit" /\ pc' = "run"
    /\ mask' = {"sysinit"} /\ i' = 1
    /\ lines' = <<>>
    /\ got' = "none" /\ nohang' = FALSE
    /\ going' = "no" /\ torn' = FALSE
    /\ ran' = <<>> /\ missed' = {}
    /\ UNCHANGED <<proc, waiting, inWait, stopped, budget>>

\* "Open or exec failed": the machine is halted.
ExecFails ==
    /\ pc = "exec"
    /\ pc' = "down"
    /\ UNCHANGED <<ends, list, proc, stage, mask, i, lines, waiting, inWait, got,
                   nohang, ran, budget>>

-----------------------------------------------------------------------------
\* The world: processes end, scripts run at boot leave daemons behind.

Exit(p) ==
    /\ proc[p].st = "run" /\ pc \notin {"down", "exec"}
    /\ proc' = [proc EXCEPT ![p].st = "zombie"]
    /\ UNCHANGED <<ends, list, stage, pc, mask, i, lines, waiting, inWait, got,
                   nohang, ran, budget>>

Daemon ==
    /\ budget.daemons > 0
    /\ pc = "waitfor" /\ proc[waiting].type \in {"sysinit", "wait"}
    /\ \E p \in Fork :
          proc' = [proc EXCEPT ![p] =
                      [st |-> "run", id |-> "daemon", type |-> "", doomed |-> FALSE]]
    /\ budget' = [budget EXCEPT !.daemons = @ - 1]
    /\ UNCHANGED <<ends, list, stage, pc, mask, i, lines, waiting, inWait, got,
                   nohang, ran>>

Down == pc = "down" /\ UNCHANGED vars

Main ==
    \/ RunOnce \/ RunKept \/ Keep \/ RunDone \/ WaitFor
    \/ CheckDone \/ CheckInt \/ CheckHup
    \/ Parse \/ KillStale \/ Purge \/ PurgeDone
    \/ ReapOne \/ ReapBlocks \/ ReapDone
    \/ Kill \/ Exec

Next ==
    \/ Main \/ RunFails \/ ExecFails
    \/ Record \/ GoDown \/ Stop \/ StopReaps \/ Cont
    \/ \E p \in Pids : Exit(p)
    \/ Daemon \/ Down

Spec == Init /\ [][Next]_vars

\* init keeps running; a script that is waited for ends; a SIGTSTP is followed
\* by a SIGCONT.  No console or daemon has to end.
FairSpec ==
    /\ Spec
    /\ WF_vars(Main) /\ WF_vars(Cont)
    /\ WF_vars(pc = "waitfor" /\ \E p \in Pids \cap {waiting} : Exit(p))

-----------------------------------------------------------------------------
\* Types.
TypeOK ==
    /\ \A j \in 1 .. Len(list) : /\ list[j].type \in Types \cup {Stale}
                                 /\ list[j].pid \in Pids \cup {0, -1}
    /\ \A p \in Pids : proc[p].st \in {"free", "run", "zombie"}
    /\ stage \in {"sysinit", "wait", "once", "loop", "top"}
    /\ pc \in {"run", "keep", "waitfor", "check", "parse", "purge", "reap",
              "kill", "exec", "down"}
    /\ mask \subseteq Types /\ (pc \in {"run", "keep"} => i \in 1 .. Len(list) + 1)
    /\ waiting \in Pids \cup {0} /\ missed \subseteq Pids
    /\ pc \in {"keep", "waitfor"} => waiting # 0
    /\ inWait => pc \in {"waitfor", "reap"}
    /\ got \in {"none", "HUP", "INT"}
    /\ going \in {"no", "halt", "restart"}

\* mark_terminated finds the entry of every process that ends, whoever waited
\* for it: a pid in the list is that of a child that was started for that
\* entry, unless stop_handler reaped it before run_actions had put it there;
\* and every console that runs is in the list, or about to be, so that none is
\* started twice, unless inittab no longer has it or the system goes down.
PidsRight ==
    /\ \A j \in 1 .. Len(list) : list[j].pid > 0 =>
          \/ list[j].pid \in missed
          \/ list[j].pid \in Children /\ proc[list[j].pid].id = list[j].id
    /\ \A p \in Alive : proc[p].type \in Kept /\ ~proc[p].doomed =>
          \/ \E j \in 1 .. Len(list) : list[j].pid = p
          \/ pc = "keep" /\ p = waiting
          \/ going # "no"

\* "Only run stuff with pid == 0. If pid != 0, it is already running": an entry
\* that has a pid has a process, or one that has yet to be reaped.
PidRuns == \A j \in 1 .. Len(list) : list[j].pid # 0 => list[j].pid \in Children

\* "Start these first and wait for completion": none of sysinit's processes is
\* left when a later group is run, none of wait's when consoles are, and none
\* of ctrlaltdel's.
Stages ==
    pc = "run" /\ going = "no" =>
        \A p \in Alive :
            /\ proc[p].type # "sysinit" \/ stage = "sysinit"
            /\ proc[p].type # "wait" \/ stage = "wait"
            /\ proc[p].type # "ctrlaltdel"

Downs(table) == {k \in 1 .. Len(table) : table[k].type = "shutdown"}

\* "SHUTDOWN actions are started and waited for, then all processes are
\* killed": those of inittab as last read and no others, each one once and in
\* its order, and they have ended; unless the signal came while inittab was
\* being read or a fork failed.
ShutdownDone ==
    pc = "kill" /\ ~torn /\ budget.failures = MaxFailures =>
        /\ \A j \in 1 .. Len(ran) : \E k \in Downs(loaded) : ran[j] = loaded[k].id
        /\ \A k \in Downs(loaded) : \E j \in 1 .. Len(ran) : ran[j] = loaded[k].id
        /\ \A j, m \in 1 .. Len(ran), k, l \in Downs(loaded) :
              j < m /\ ran[j] = loaded[k].id /\ ran[m] = loaded[l].id => k < l
        /\ \A p \in Alive : proc[p].type # "shutdown"

\* "This prevents losing running RESPAWNs": reload_inittab sends SIGTERM to no
\* process whose command inittab, as it has just been read, still has; unless a
\* fork has failed for an entry that is gone, whose pid -1 means everyone.
ListedSpared ==
    [][\A p \in Pids : proc'[p].doomed /\ ~proc[p].doomed =>
         \/ \A k \in 1 .. Len(loaded) : loaded[k].id # proc[p].id
         \/ \E j \in 1 .. Len(list) :
               list[j].pid = -1 /\ \A k \in 1 .. Len(loaded) : loaded[k].id # list[j].id
      ]_vars

\* The windows between a look and a system call that blocks: waitpid is entered
\* although a signal has just been recorded, or although stop_handler has just
\* reaped a console; wait is entered although stop_handler has just reaped the
\* process that is waited for.
Overlooked ==
    \/ pc = "reap" /\ inWait /\ got # "none"
    \/ pc = "reap" /\ inWait
       /\ \E j \in 1 .. Len(list) : list[j].type \in Kept /\ list[j].pid = 0
    \/ pc = "waitfor" /\ inWait /\ proc[waiting].st = "free"

\* A console that has ended comes back, whatever reaped it, unless its entry
\* goes, a fork fails, the system goes down or a window is met: one of those, or
\* it is reaped before its pid is in the list.
Respawned(id) ==
    (\E j \in 1 .. Len(list) :
        list[j].id = id /\ list[j].type \in Kept
        /\ (list[j].pid = 0 \/ list[j].pid \in Zombies))
    ~> \/ \E p \in Alive : proc[p].id = id
       \/ \A j \in 1 .. Len(list) : list[j].id = id =>
             list[j].type \notin Kept \/ list[j].pid \in missed \cup {-1}
       \/ going # "no" \/ Overlooked

Consoles == UNION {{t[k].id : k \in {j \in 1 .. Len(t) : t[j].type \in Kept}}
                      : t \in Tables}

ConsolesRespawned == \A id \in Consoles : Respawned(id)

\* "The variable is checked in the main loop and acted upon": SIGHUP and
\* Ctrl-Alt-Del are, unless the system goes down or a window is met.
SignalsActedUpon ==
    got # "none" ~> (got = "none" \/ going # "no" \/ Overlooked)
=============================================================================
