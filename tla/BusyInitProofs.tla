--------------------------- MODULE BusyInitProofs ---------------------------
(***************************************************************************)
(* busybox's init, for every pair of inittabs, any number of processes and *)
(* signals at any place.  Two arguments carry the proofs.  A process       *)
(* number in init_action_list names the child of its own entry, however    *)
(* the child is reaped and however often inittab is read again.  And while *)
(* inittab is read the entries of its lines gather at the end of the list, *)
(* in their order, behind the stale ones.                                  *)
(***************************************************************************)
EXTENDS BusyInit, SequenceTheorems, WellFoundedInduction, TLAPS

-----------------------------------------------------------------------------
(* Sets of numbers *)

\* A non-empty set of natural numbers has a least element.
LEMMA LeastElement ==
    ASSUME NEW S \in SUBSET Nat, S # {}
    PROVE  \E n \in S : \A m \in S : n <= m
<1>1. PICK R : R = OpToRel(<, Nat)
  BY Zenon
<1>2. IsWellFoundedOn(R, Nat)
  BY <1>1, NatLessThanWellFounded, Zenon
<1>3. PICK n \in S : \A m \in S : ~ (<<m, n>> \in R)
  BY <1>2, WFMin
<1>4. \A a, b \in Nat : a < b => <<a, b>> \in R
  BY <1>1 DEF OpToRel
<1>5. \A m \in S : n \in Nat /\ m \in Nat /\ ~ (m < n)
  BY <1>3, <1>4
<1> QED
  BY <1>3, <1>5

\* Min, as the loops take their next position, is an element of the set.
LEMMA MinElement ==
    ASSUME NEW S \in SUBSET Nat, S # {}
    PROVE  Min(S) \in S /\ \A m \in S : Min(S) <= m
<1>1. \E n \in S : \A m \in S : n <= m
  BY LeastElement
<1> QED
  BY <1>1 DEF Min

-----------------------------------------------------------------------------
Line == [id : STRING, type : Types]
Entry == [id : STRING, type : Types \cup {Stale}, pid : Pids \cup {0, -1}]
Proc == [st : {"free", "run", "zombie"}, id : STRING \cup {"", "daemon"},
         type : Types \cup {""}, doomed : BOOLEAN]

ListType ==
    /\ loaded \in Tables /\ list \in Seq(Entry) /\ proc \in [Pids -> Proc]
    /\ lines \in Seq(Line) /\ ran \in Seq(STRING)
Places == {"run", "keep", "waitfor", "check", "parse", "purge", "reap", "kill", "exec",
           "down"}
ControlType ==
    /\ stage \in {"sysinit", "wait", "once", "loop", "top"} /\ pc \in Places
    /\ mask \subseteq Types /\ i \in Nat
    /\ waiting \in Pids \cup {0} /\ missed \subseteq Pids
    /\ inWait \in BOOLEAN /\ nohang \in BOOLEAN /\ stopped \in BOOLEAN
    /\ got \in {"none", "HUP", "INT"} /\ going \in {"no", "halt", "restart"}
    /\ budget \in [signals : Nat, failures : Nat, daemons : Nat]

\* What init remembers of the entry it is at and of the child it waits for; it
\* blocks in wait() only while there is a child or stop_handler has reaped it.
CallInv ==
    /\ pc \in {"run", "keep", "waitfor"} => i \in 1 .. Len(list) + 1
    /\ pc \in {"keep", "waitfor"} => waiting # 0
    /\ pc = "keep" => Matches # {}
    /\ inWait => pc \in {"waitfor", "reap"}
    /\ inWait => stopped \/ Children # {}
    /\ inWait /\ pc = "reap" => ~nohang
TypeInv == ListType /\ ControlType /\ CallInv

\* No command is in the list twice.
Distinct == \A j, k \in 1 .. Len(list) : list[j].id = list[k].id => j = k

\* A console that runs and that nobody has sent SIGTERM.
Console(p) == proc[p].st = "run" /\ proc[p].type \in Kept /\ ~proc[p].doomed

\* A process number in the list is that of the entry's own child, or of one
\* that was reaped before it was there and is nobody's since.
Own(j) ==
    IF list[j].pid \in missed THEN proc[list[j].pid].st = "free"
    ELSE proc[list[j].pid].st # "free" /\ proc[list[j].pid].id = list[j].id
OwnPids == \A j \in 1 .. Len(list) : list[j].pid > 0 => Own(j)

\* run() has started a console whose entry does not have its number yet: no
\* other entry has it either.
KeepInv ==
    pc = "keep" =>
        /\ list[Current].pid = 0
        /\ \A j \in 1 .. Len(list) : list[j].pid # waiting
        /\ proc[waiting].st # "free" => proc[waiting].id = list[Current].id

\* Entries and consoles come from some version of inittab.
Given ==
    /\ \A j \in 1 .. Len(list) : list[j].type # Stale =>
          \E t \in Tables : \E k \in 1 .. Len(t) :
              t[k].id = list[j].id /\ t[k].type = list[j].type
    /\ \A p \in Pids : Console(p) =>
          \E t \in Tables : \E k \in 1 .. Len(t) :
              t[k].id = proc[p].id /\ t[k].type = proc[p].type

\* Every console is in the list or about to be, when an entry is removed too,
\* until the system goes down.
Listed(p) ==
    \/ \E j \in 1 .. Len(list) : list[j].pid = p
    \/ pc = "keep" /\ p = waiting
    \/ going # "no"
ConsolesListed ==
    /\ \A p \in Pids : Console(p) => Listed(p)
    /\ pc = "purge" => \A j \in 1 .. Len(list) :
          list[j].type = Stale /\ list[j].pid > 0 => ~Console(list[j].pid)

\* Another init takes over when all are dead.
NobodyLeft == pc = "exec" => Alive = {}

\* No version of inittab has a console of another one as a sysinit script.
SameKind ==
    \A t, u \in Tables : \A j \in 1 .. Len(t), k \in 1 .. Len(u) :
        t[j].id = u[k].id /\ t[j].type = "sysinit" => u[k].type \notin Kept

\* What is waited for is the only one of its kind that runs.
WaitInv ==
    /\ going = "no" => \A p \in Alive :
          proc[p].type \in Waited => pc = "waitfor" /\ p = waiting
    /\ \A p \in Alive : proc[p].type = "shutdown" =>
          going # "no" /\ pc = "waitfor" /\ p = waiting
    /\ going = "no" => "shutdown" \notin mask /\ ran = <<>>
    /\ going # "no" =>
          /\ pc \in {"run", "waitfor", "kill", "exec", "down"}
          /\ pc \in {"run", "waitfor"} => mask = {"shutdown"}
    /\ going = "no" => pc \notin {"kill", "exec"}
    /\ stopped => going = "no"

\* While inittab is read its first n lines are the last n entries of the list.
Read == Len(loaded) - Len(lines)
LoadInv ==
    pc = "parse" =>
        /\ Read \in 0 .. Len(loaded) /\ Read <= Len(list)
        /\ \A k \in 1 .. Len(lines) : lines[k] = loaded[Read + k]
        /\ \A k \in 1 .. Read :
              /\ list[Len(list) - Read + k].id = loaded[k].id
              /\ list[Len(list) - Read + k].type = loaded[k].type
        /\ \A k \in 1 .. Len(list) - Read : list[k].type = Stale

\* The shutdown entries of the list are those of inittab, in order.
InOrder ==
    /\ \A k \in Downs(list) : \E m \in Downs(loaded) : list[k].id = loaded[m].id
    /\ \A m \in Downs(loaded) : \E k \in Downs(list) : list[k].id = loaded[m].id
    /\ \A k, l \in Downs(list), m, n \in Downs(loaded) :
          k < l /\ list[k].id = loaded[m].id /\ list[l].id = loaded[n].id => m < n

\* They are, unless inittab is being read or its reading was broken off.
OrderInv ==
    /\ torn => going # "no"
    /\ pc # "parse" /\ ~torn => InOrder

\* The shutdown entries in front of the n-th one have been run, in order.
RanUpTo(n) ==
    /\ \A j \in 1 .. Len(ran) : \E k \in Downs(list) : k < n /\ ran[j] = list[k].id
    /\ \A k \in Downs(list) : k < n => \E j \in 1 .. Len(ran) : ran[j] = list[k].id
    /\ \A j, m \in 1 .. Len(ran), k, l \in Downs(list) :
          j < m /\ ran[j] = list[k].id /\ ran[m] = list[l].id => k < l

\* While the system goes down they have been run up to the next entry, and all
\* of them before everyone is killed.
RanInv ==
    /\ budget.failures <= MaxFailures
    /\ budget.failures = MaxFailures =>
          /\ going # "no" /\ pc \in {"run", "waitfor"} => RanUpTo(i)
          /\ pc = "kill" => RanUpTo(Len(list) + 1)

EntryInv == TypeInv /\ Distinct /\ OwnPids /\ KeepInv /\ Given /\ LoadInv

-----------------------------------------------------------------------------

\* A list without its k-th entry.
LEMMA RemoveFacts ==
    ASSUME NEW S, NEW s \in Seq(S), NEW k \in 1 .. Len(s)
    PROVE  /\ RemoveAt(s, k) \in Seq(S) /\ Len(RemoveAt(s, k)) = Len(s) - 1
           /\ \A j \in 1 .. Len(s) - 1 :
                 RemoveAt(s, k)[j] = IF j < k THEN s[j] ELSE s[j + 1]
<1> DEFINE a == SubSeq(s, 1, k - 1)
           b == SubSeq(s, k + 1, Len(s))
<1>1. Len(s) \in Nat /\ k \in Nat /\ k >= 1 /\ k <= Len(s)
  OBVIOUS
<1>2. a \in Seq(S) /\ Len(a) = k - 1 /\ \A j \in 1 .. k - 1 : a[j] = s[j]
  BY <1>1
<1>3. /\ b \in Seq(S) /\ Len(b) = Len(s) - k
      /\ \A j \in 1 .. Len(s) - k : b[j] = s[k + j]
  BY <1>1
<1>4. RemoveAt(s, k) = a \o b
  BY DEF RemoveAt
<1> HIDE DEF a, b
<1>5. a \o b \in Seq(S) /\ Len(a \o b) = Len(a) + Len(b)
  BY <1>2, <1>3, ConcatProperties
<1>6. Len(a \o b) = Len(s) - 1
  BY <1>1, <1>2, <1>3, <1>5
<1>7. ASSUME NEW j \in 1 .. Len(s) - 1
      PROVE  (a \o b)[j] = IF j < k THEN s[j] ELSE s[j + 1]
  <2>1. CASE j < k
    <3>1. j \in 1 .. k - 1 /\ j \in 1 .. Len(a)
      BY <1>1, <1>2, <2>1
    <3>2. (a \o b)[j] = a[j]
      BY <1>2, <1>3, <3>1
    <3> QED
      BY <1>2, <2>1, <3>1, <3>2
  <2>2. CASE ~ (j < k)
    <3>1. j - Len(a) \in 1 .. Len(s) - k /\ j - Len(a) \in 1 .. Len(b)
          /\ k + (j - Len(a)) = j + 1
      BY <1>1, <1>2, <1>3, <2>2
    <3>2. j \in Len(a) + 1 .. Len(a) + Len(b)
      BY <1>1, <1>2, <1>3, <2>2
    <3>3. (a \o b)[j] = b[j - Len(a)]
      BY <1>2, <1>3, <3>1, <3>2
    <3>4. b[j - Len(a)] = s[j + 1]
      BY <1>3, <3>1
    <3> QED
      BY <2>2, <3>3, <3>4
  <2> QED
    BY <2>1, <2>2
<1> QED
  BY <1>4, <1>5, <1>6, <1>7

\* wait() and mark_terminated, whoever calls them.
LEMMA ReapFacts ==
    ASSUME list \in Seq(Entry), proc \in [Pids -> Proc], NEW z \in Pids, Reap(z)
    PROVE  /\ list' \in Seq(Entry) /\ Len(list') = Len(list)
           /\ \A j \in 1 .. Len(list) :
                 /\ list'[j].id = list[j].id /\ list'[j].type = list[j].type
                 /\ list'[j].pid = IF list[j].pid = z THEN 0 ELSE list[j].pid
           /\ proc' \in [Pids -> Proc]
           /\ \A p \in Pids : p # z => proc'[p] = proc[p]
           /\ proc'[z].st = "free" /\ ~proc'[z].doomed
<1>1. Nobody \in Proc
  BY DEF Nobody, Proc
<1>2. /\ proc' \in [Pids -> Proc] /\ proc'[z] = Nobody
      /\ \A p \in Pids : p # z => proc'[p] = proc[p]
  BY <1>1 DEF Reap
<1>3. Len(list) \in Nat /\ \A j \in 1 .. Len(list) : list[j] \in Entry
  OBVIOUS
<1> DEFINE e(j) == IF list[j].pid = z THEN [list[j] EXCEPT !.pid = 0] ELSE list[j]
<1>4. \A j \in 1 .. Len(list) :
         /\ e(j) \in Entry
         /\ e(j).id = list[j].id /\ e(j).type = list[j].type
         /\ e(j).pid = IF list[j].pid = z THEN 0 ELSE list[j].pid
  BY <1>3 DEF Entry
<1>5. list' = [j \in 1 .. Len(list) |-> e(j)]
  BY DEF Reap
<1> HIDE DEF e
<1>6. list' \in [1 .. Len(list) -> Entry]
  BY <1>4, <1>5
<1>7. list' \in Seq(Entry) /\ Len(list') = Len(list)
  BY <1>3, <1>6
<1>8. \A j \in 1 .. Len(list) : list'[j] = e(j)
  BY <1>5
<1>9. proc'[z].st = "free" /\ ~proc'[z].doomed
  <2>1. Nobody.st = "free" /\ ~Nobody.doomed
    BY DEF Nobody
  <2> QED
    BY <1>2, <2>1
<1>10. \A j \in 1 .. Len(list) :
          /\ list'[j].id = list[j].id /\ list'[j].type = list[j].type
          /\ list'[j].pid = IF list[j].pid = z THEN 0 ELSE list[j].pid
  BY <1>4, <1>8
<1> QED
  BY <1>2, <1>7, <1>9, <1>10

\* The lines of an inittab.
LEMMA TableFacts ==
    ASSUME NEW t \in Tables
    PROVE  /\ t \in Seq(Line) /\ Len(t) \in Nat
           /\ \A k \in 1 .. Len(t) : t[k].id \in STRING /\ t[k].type \in Types
           /\ \A j, k \in 1 .. Len(t) : t[j].id = t[k].id => j = k
<1>1. t \in Seq(Line) /\ \A j, k \in 1 .. Len(t) : t[j].id = t[k].id => j = k
  BY BusyInitAssumption DEF Line
<1>2. Len(t) \in Nat
  BY <1>1
<1>3. \A k \in 1 .. Len(t) : t[k] \in Line
  BY <1>1
<1> QED
  BY <1>1, <1>2, <1>3 DEF Line

\* init_action_list as it is made of an inittab.
LEMMA EntriesFacts ==
    ASSUME NEW t \in Tables
    PROVE  /\ Entries(t) \in Seq(Entry) /\ Len(Entries(t)) = Len(t)
           /\ \A j \in 1 .. Len(t) : /\ Entries(t)[j].id = t[j].id
                                     /\ Entries(t)[j].type = t[j].type
                                     /\ Entries(t)[j].pid = 0
<1>1. /\ Len(t) \in Nat
      /\ \A k \in 1 .. Len(t) : t[k].id \in STRING /\ t[k].type \in Types
  BY TableFacts
<1> DEFINE e(k) == [id |-> t[k].id, type |-> t[k].type, pid |-> 0]
<1>2. \A k \in 1 .. Len(t) : /\ e(k) \in Entry /\ e(k).id = t[k].id
                             /\ e(k).type = t[k].type /\ e(k).pid = 0
  BY <1>1 DEF Entry
<1>3. Entries(t) = [k \in 1 .. Len(t) |-> e(k)]
  BY DEF Entries
<1> HIDE DEF e
<1>4. Entries(t) \in [1 .. Len(t) -> Entry]
  BY <1>2, <1>3
<1>5. Entries(t) \in Seq(Entry) /\ Len(Entries(t)) = Len(t)
  BY <1>1, <1>4
<1> QED
  BY <1>2, <1>3, <1>5

-----------------------------------------------------------------------------

\* run_actions: the next entry of a wanted type.
LEMMA CurrentFacts ==
    ASSUME TypeInv, pc \in {"run", "keep"}, Matches # {}
    PROVE  /\ Current \in 1 .. Len(list) /\ Current \in Nat /\ i <= Current
           /\ list[Current].type \in mask
           /\ \A k \in 1 .. Len(list) : i <= k /\ k < Current => list[k].type \notin mask
<1>1. i \in Nat /\ i >= 1 /\ Len(list) \in Nat
  BY DEF TypeInv, ListType, ControlType, CallInv
<1>2. Matches \in SUBSET Nat
  BY <1>1 DEF Matches
<1>3. Current \in Matches /\ \A m \in Matches : Current <= m
  BY <1>2, MinElement DEF Current
<1>4. Current \in i .. Len(list) /\ list[Current].type \in mask
  BY <1>3 DEF Matches
<1>5. Current \in 1 .. Len(list) /\ Current \in Nat /\ i <= Current
  BY <1>1, <1>4
<1>6. ASSUME NEW k \in 1 .. Len(list), i <= k, k < Current
      PROVE  list[k].type \notin mask
  <2>1. k \in i .. Len(list) /\ ~ (Current <= k)
    BY <1>1, <1>5, <1>6
  <2>2. k \notin Matches
    BY <1>3, <2>1
  <2> QED
    BY <2>1, <2>2 DEF Matches
<1> QED
  BY <1>4, <1>5, <1>6

\* fork: the new process has a number that nobody uses.
LEMMA ForkFacts ==
    ASSUME NEW p \in Fork
    PROVE  /\ p \in Pids /\ p \in Nat /\ p > 0 /\ proc[p].st = "free" /\ p # waiting
           /\ \A j \in 1 .. Len(list) : list[j].pid # p
BY BusyInitAssumption DEF Fork, FreePids

\* new_init_action finds the entry of a command that is in the list.
LEMMA KnownFacts ==
    ASSUME list \in Seq(Entry), NEW id, Known(id) # {}
    PROVE  Min(Known(id)) \in 1 .. Len(list) /\ list[Min(Known(id))].id = id
<1>1. Known(id) \in SUBSET Nat
  BY DEF Known
<1>2. Min(Known(id)) \in Known(id)
  BY <1>1, MinElement
<1> QED
  BY <1>2 DEF Known

\* The entry that reload_inittab removes next is one of the obsolete ones.
LEMMA ObsoleteFacts ==
    ASSUME list \in Seq(Entry), Obsolete # {}
    PROVE  /\ Min(Obsolete) \in 1 .. Len(list)
           /\ list[Min(Obsolete)].type \in {Stale, "sysinit"}
<1>1. Obsolete \in SUBSET Nat
  BY DEF Obsolete
<1>2. Min(Obsolete) \in Obsolete
  BY <1>1, MinElement
<1> QED
  BY <1>2 DEF Obsolete

\* What a line of inittab does to the list: its entry is moved to the end, with
\* its process, or a new one is put there.
LEMMA ParseFacts ==
    ASSUME list \in Seq(Entry), NEW line \in Line
    PROVE  LET n == Len(NewAction(line))
               k == Min(Known(line.id))
           IN  /\ NewAction(line) \in Seq(Entry) /\ n \in Nat /\ n > 0
               /\ NewAction(line)[n].id = line.id /\ NewAction(line)[n].type = line.type
               /\ Known(line.id) = {} =>
                     /\ n = Len(list) + 1 /\ NewAction(line)[n].pid = 0
                     /\ \A j \in 1 .. n - 1 : NewAction(line)[j] = list[j]
               /\ Known(line.id) # {} =>
                     /\ n = Len(list) /\ NewAction(line)[n].pid = list[k].pid
                     /\ \A j \in 1 .. n - 1 : NewAction(line)[j] =
                           IF j < k THEN list[j] ELSE list[j + 1]
<1> DEFINE k == Min(Known(line.id))
<1>1. \A pid \in Pids \cup {0, -1} :
         New(line, pid) \in Entry /\ New(line, pid).id = line.id
         /\ New(line, pid).type = line.type /\ New(line, pid).pid = pid
  BY DEF New, Entry, Line
<1>2. 0 \in Pids \cup {0, -1} /\ Len(list) \in Nat
  OBVIOUS
<1>3. \A s \in Seq(Entry), e \in Entry :
         /\ Append(s, e) \in Seq(Entry) /\ Len(Append(s, e)) = Len(s) + 1
         /\ Append(s, e)[Len(s) + 1] = e
         /\ \A j \in 1 .. Len(s) : Append(s, e)[j] = s[j]
  OBVIOUS
<1>4. CASE Known(line.id) = {}
  <2>1. NewAction(line) = Append(list, New(line, 0))
    BY <1>4 DEF NewAction
  <2>2. New(line, 0) \in Entry
    BY <1>1, <1>2
  <2>3. /\ NewAction(line) \in Seq(Entry) /\ Len(NewAction(line)) = Len(list) + 1
        /\ NewAction(line)[Len(list) + 1] = New(line, 0)
        /\ \A j \in 1 .. Len(list) : NewAction(line)[j] = list[j]
    BY <1>3, <2>1, <2>2
  <2>4. Len(list) + 1 \in Nat /\ Len(list) + 1 > 0 /\ (Len(list) + 1) - 1 = Len(list)
    BY <1>2
  <2> QED
    BY <1>1, <1>2, <1>4, <2>3, <2>4
<1>5. CASE Known(line.id) # {}
  <2>1. NewAction(line) = Append(RemoveAt(list, k), New(line, list[k].pid))
    BY <1>5 DEF NewAction
  <2>2. k \in 1 .. Len(list)
    BY <1>5, KnownFacts
  <2> HIDE DEF k
  <2>3. list[k] \in Entry
    BY <2>2
  <2>4. list[k].pid \in Pids \cup {0, -1}
    BY <2>3 DEF Entry
  <2>5. /\ RemoveAt(list, k) \in Seq(Entry) /\ Len(RemoveAt(list, k)) = Len(list) - 1
        /\ \A j \in 1 .. Len(list) - 1 :
              RemoveAt(list, k)[j] = IF j < k THEN list[j] ELSE list[j + 1]
    BY <2>2, RemoveFacts
  <2>6. New(line, list[k].pid) \in Entry
    BY <1>1, <2>4
  <2>7. (Len(list) - 1) + 1 = Len(list) /\ Len(list) > 0
    BY <1>2, <2>2
  <2>8. /\ NewAction(line) \in Seq(Entry) /\ Len(NewAction(line)) = Len(list)
        /\ NewAction(line)[Len(list)] = New(line, list[k].pid)
        /\ \A j \in 1 .. Len(list) - 1 : NewAction(line)[j] = RemoveAt(list, k)[j]
    BY <1>3, <2>1, <2>5, <2>6, <2>7
  <2>9. \A j \in 1 .. Len(list) - 1 : NewAction(line)[j] =
            IF j < k THEN list[j] ELSE list[j + 1]
    BY <2>5, <2>8
  <2>10. /\ NewAction(line)[Len(list)].id = line.id
         /\ NewAction(line)[Len(list)].type = line.type
         /\ NewAction(line)[Len(list)].pid = list[k].pid
    BY <1>1, <2>4, <2>8
  <2>11. /\ NewAction(line) \in Seq(Entry) /\ Len(NewAction(line)) = Len(list)
         /\ Len(list) \in Nat
    BY <1>2, <2>8
  <2> QED
    BY <1>5, <2>7, <2>9, <2>10, <2>11, Zenon DEF k
<1> QED
  BY <1>4, <1>5

-----------------------------------------------------------------------------

\* How a step may change the list and the processes.  A process of an entry
\* that is run once, or a daemon, is started:
Started ==
    /\ list' = list
    /\ \E p \in Fork, new \in Proc :
          /\ new.st = "run" /\ new.type \notin Kept /\ ~new.doomed
          /\ proc' = [proc EXCEPT ![p] = new]

\* A console is started, or cannot be:
ConsoleStarted ==
    /\ list' = list /\ pc' = "keep"
    /\ \E p \in Fork, k \in 1 .. Len(list) :
          /\ list[k].type \in Kept /\ waiting' = p
          /\ proc' = [proc EXCEPT ![p] = Process(list[k])]
ConsoleFailed ==
    /\ proc' = proc
    /\ \E k \in 1 .. Len(list) : list[k].pid = 0 /\ list' = [list EXCEPT ![k].pid = -1]

\* Processes end:
Dead(p) == [proc[p] EXCEPT !.st = "zombie"]
Ended ==
    /\ list' = list /\ proc' \in [Pids -> Proc]
    /\ \A p \in Pids : proc'[p] = proc[p] \/ (proc[p].st = "run" /\ proc'[p] = Dead(p))

Effect ==
    \/ UNCHANGED <<list, proc>>
    \/ \E z \in Zombies : Reap(z)
    \/ Started \/ ConsoleStarted \/ ConsoleFailed \/ Ended
    \/ Keep \/ CheckHup \/ Parse \/ KillStale \/ Purge \/ Exec

\* Every step has one of these effects.
LEMMA StepEffect == TypeInv /\ [Next]_vars => Effect
<1> SUFFICES ASSUME TypeInv, [Next]_vars
             PROVE  Effect
  OBVIOUS
<1>1. list \in Seq(Entry) /\ proc \in [Pids -> Proc]
  BY DEF TypeInv, ListType
<1>2. CASE \/ RunDone \/ CheckDone \/ CheckInt \/ ReapBlocks \/ ReapDone \/ PurgeDone
           \/ ExecFails \/ Record \/ GoDown \/ Stop \/ Cont \/ Down \/ UNCHANGED vars
  BY <1>2 DEF Effect, RunDone, CheckDone, CheckInt, ReapBlocks, ReapDone, PurgeDone,
              ExecFails, Record, GoDown, Stop, Cont, Down, vars
<1>3. CASE WaitFor \/ ReapOne \/ StopReaps
  BY <1>3 DEF Effect, WaitFor, ReapOne, StopReaps
<1>4. CASE Keep \/ CheckHup \/ Parse \/ KillStale \/ Purge \/ Exec
  BY <1>4 DEF Effect
<1>5. ASSUME pc = "run", Matches # {}
      PROVE  /\ Current \in 1 .. Len(list) /\ list[Current] \in Entry
             /\ list[Current].type \in Types
             /\ Process(list[Current]) \in Proc
             /\ Process(list[Current]).st = "run"
             /\ Process(list[Current]).type = list[Current].type
             /\ ~Process(list[Current]).doomed
  <2>1. Current \in 1 .. Len(list) /\ list[Current].type \in Types
    BY <1>5, CurrentFacts DEF TypeInv, ControlType
  <2>2. list[Current] \in Entry
    BY <1>1, <2>1
  <2>3. list[Current].id \in STRING
    BY <2>2 DEF Entry
  <2>4. Process(list[Current]) \in Proc
    BY <2>1, <2>3 DEF Process, Proc
  <2> QED
    BY <2>1, <2>2, <2>4 DEF Process
<1>6. CASE RunOnce
  <2>1. PICK p \in Fork : proc' = [proc EXCEPT ![p] = Process(list[Current])]
    BY <1>6 DEF RunOnce
  <2>2. list[Current].type \notin Kept /\ list' = list
    BY <1>6 DEF RunOnce, OneShot, Kept
  <2>3. Process(list[Current]) \in Proc /\ Process(list[Current]).st = "run"
        /\ Process(list[Current]).type \notin Kept /\ ~Process(list[Current]).doomed
    BY <1>5, <1>6, <2>2 DEF RunOnce
  <2> QED
    BY <2>1, <2>2, <2>3 DEF Effect, Started
<1>7. CASE RunKept
  <2>1. CASE list[Current].pid = 0
    <3>1. PICK p \in Fork : proc' = [proc EXCEPT ![p] = Process(list[Current])]
                            /\ waiting' = p
      BY <1>7, <2>1 DEF RunKept
    <3>2. Current \in 1 .. Len(list) /\ list[Current].type \in Kept
      BY <1>5, <1>7 DEF RunKept
    <3>3. list' = list /\ pc' = "keep"
      BY <1>7, <2>1 DEF RunKept
    <3> QED
      BY <3>1, <3>2, <3>3 DEF Effect, ConsoleStarted
  <2>2. CASE list[Current].pid # 0
    BY <1>7, <2>2 DEF Effect, RunKept
  <2> QED
    BY <2>1, <2>2
<1>8. CASE RunFails
  <2>1. CASE list[Current].type \in Kept
    <3>1. list[Current].pid = 0 /\ proc' = proc /\ Current \in 1 .. Len(list)
          /\ list' = [list EXCEPT ![Current].pid = -1]
      BY <1>5, <1>8, <2>1 DEF RunFails
    <3> QED
      BY <3>1 DEF Effect, ConsoleFailed
  <2>2. CASE list[Current].type \notin Kept
    BY <1>8, <2>2 DEF Effect, RunFails
  <2> QED
    BY <2>1, <2>2
<1>9. \A p \in Pids : Dead(p) \in Proc
  BY <1>1 DEF Proc, Dead
<1>10. CASE Kill
  <2>1. list' = list /\ proc' = [p \in Pids |-> IF p \in Alive
                                                  THEN Dead(p) ELSE proc[p]]
    BY <1>10 DEF Kill, Dead
  <2>2. proc' \in [Pids -> Proc]
    BY <1>1, <1>9, <2>1
  <2>3. \A p \in Pids : proc'[p] = proc[p] \/ (proc[p].st = "run" /\ proc'[p] = Dead(p))
    BY <2>1 DEF Alive
  <2>4. Ended
    BY <2>1, <2>2, <2>3 DEF Ended
  <2> QED
    BY <2>4 DEF Effect
<1>11. CASE \E p \in Pids : Exit(p)
  <2>1. PICK p \in Pids : Exit(p)
    BY <1>11
  <2>2. list' = list /\ proc' = [proc EXCEPT ![p] = Dead(p)]
        /\ proc[p].st = "run"
    BY <1>1, <2>1 DEF Exit, Dead
  <2>3. proc' \in [Pids -> Proc]
    BY <1>1, <1>9, <2>2
  <2>4. \A q \in Pids : proc'[q] = proc[q] \/ (proc[q].st = "run" /\ proc'[q] = Dead(q))
    BY <1>1, <2>2
  <2>5. Ended
    BY <2>2, <2>3, <2>4 DEF Ended
  <2> QED
    BY <2>5 DEF Effect
<1>12. CASE Daemon
  <2> DEFINE new == [st |-> "run", id |-> "daemon", type |-> "", doomed |-> FALSE]
  <2>1. new \in Proc /\ new.st = "run" /\ new.type \notin Kept /\ ~new.doomed
    BY DEF Proc, Kept
  <2>2. list' = list /\ \E p \in Fork : proc' = [proc EXCEPT ![p] = new]
    BY <1>12 DEF Daemon
  <2> HIDE DEF new
  <2> QED
    BY <2>1, <2>2 DEF Effect, Started
<1> QED
  BY <1>2, <1>3, <1>4, <1>6, <1>7, <1>8, <1>10, <1>11, <1>12 DEF Next, Main

-----------------------------------------------------------------------------

\* The entries are the same, in the same order, with other processes perhaps.
SameEntries ==
    /\ Len(list') = Len(list)
    /\ \A j \in 1 .. Len(list) : list'[j].id = list[j].id /\ list'[j].type = list[j].type

\* run_actions notes the process of a console.
LEMMA SetPidFacts ==
    ASSUME list \in Seq(Entry), NEW k \in 1 .. Len(list), NEW v \in Pids \cup {0, -1},
           list' = [list EXCEPT ![k].pid = v]
    PROVE  /\ list' \in Seq(Entry) /\ SameEntries
           /\ \A j \in 1 .. Len(list) : list'[j].pid = IF j = k THEN v ELSE list[j].pid
<1> DEFINE e == [list[k] EXCEPT !.pid = v]
<1>1. Len(list) \in Nat /\ \A j \in 1 .. Len(list) : list[j] \in Entry
  OBVIOUS
<1>2. e \in Entry /\ e.id = list[k].id /\ e.type = list[k].type /\ e.pid = v
  BY <1>1 DEF Entry
<1>3. list' = [list EXCEPT ![k] = e]
  OBVIOUS
<1> HIDE DEF e
<1>4. list' \in Seq(Entry) /\ Len(list') = Len(list)
  BY <1>2, <1>3
<1>5. \A j \in 1 .. Len(list) : list'[j] = IF j = k THEN e ELSE list[j]
  BY <1>3
<1> QED
  BY <1>2, <1>4, <1>5 DEF SameEntries

\* "a->pid = run(a)".
LEMMA KeepFacts ==
    ASSUME TypeInv, Keep
    PROVE  /\ Current \in 1 .. Len(list) /\ waiting \in Pids
           /\ list' \in Seq(Entry) /\ SameEntries /\ proc' = proc
           /\ \A j \in 1 .. Len(list) :
                 list'[j].pid = IF j = Current THEN waiting ELSE list[j].pid
<1>1. /\ list \in Seq(Entry) /\ waiting \in Pids \cup {0} /\ pc = "keep"
      /\ waiting # 0 /\ Matches # {} /\ proc' = proc
      /\ list' = [list EXCEPT ![Current].pid = waiting]
  BY DEF TypeInv, ListType, ControlType, CallInv, Keep
<1>2. waiting \in Pids /\ waiting \in Pids \cup {0, -1}
  BY <1>1
<1>3. Current \in 1 .. Len(list)
  BY <1>1, CurrentFacts
<1>4. PICK k, v : k = Current /\ v = waiting
  OBVIOUS
<1>5. /\ list \in Seq(Entry) /\ k \in 1 .. Len(list) /\ v \in Pids \cup {0, -1}
      /\ list' = [list EXCEPT ![k].pid = v]
  BY <1>1, <1>2, <1>3, <1>4
<1>6. /\ list' \in Seq(Entry) /\ SameEntries
      /\ \A j \in 1 .. Len(list) : list'[j].pid = IF j = k THEN v ELSE list[j].pid
  BY <1>5, SetPidFacts
<1> QED
  BY <1>1, <1>2, <1>3, <1>4, <1>6

\* "Disable old entries".
LEMMA HupFacts ==
    ASSUME list \in Seq(Entry), CheckHup
    PROVE  /\ list' \in Seq(Entry) /\ Len(list') = Len(list)
           /\ \A j \in 1 .. Len(list) : /\ list'[j].id = list[j].id
                                        /\ list'[j].pid = list[j].pid
                                        /\ list'[j].type = Stale
<1> DEFINE e(j) == [list[j] EXCEPT !.type = Stale]
<1>1. Len(list) \in Nat /\ \A j \in 1 .. Len(list) : list[j] \in Entry
  OBVIOUS
<1>2. \A j \in 1 .. Len(list) : /\ e(j) \in Entry /\ e(j).id = list[j].id
                                /\ e(j).pid = list[j].pid /\ e(j).type = Stale
  BY <1>1 DEF Entry
<1>3. list' = [j \in 1 .. Len(list) |-> e(j)]
  BY DEF CheckHup
<1> HIDE DEF e
<1>4. list' \in [1 .. Len(list) -> Entry]
  BY <1>2, <1>3
<1>5. list' \in Seq(Entry) /\ Len(list') = Len(list)
  BY <1>1, <1>4
<1> QED
  BY <1>2, <1>3, <1>5

\* SIGTERM changes nothing else about a process.
LEMMA KillFacts ==
    ASSUME proc \in [Pids -> Proc], KillStale
    PROVE  /\ proc' \in [Pids -> Proc] /\ list' = list
           /\ \A p \in Pids :
                 /\ proc'[p].st = proc[p].st /\ proc'[p].id = proc[p].id
                 /\ proc'[p].type = proc[p].type
                 /\ proc'[p].doomed = (proc[p].doomed \/ p \in Killed)
<1>1. \A p \in Pids : /\ Sigterm(p) \in Proc /\ Sigterm(p).st = proc[p].st
                      /\ Sigterm(p).id = proc[p].id /\ Sigterm(p).type = proc[p].type
                      /\ Sigterm(p).doomed = TRUE
  BY DEF Sigterm, Proc
<1>2. /\ list' = list
      /\ proc' = [p \in Pids |-> IF p \in Killed THEN Sigterm(p) ELSE proc[p]]
  BY DEF KillStale
<1>3. proc' \in [Pids -> Proc]
  BY <1>1, <1>2
<1>4. \A p \in Pids : proc'[p] = IF p \in Killed THEN Sigterm(p) ELSE proc[p]
  BY <1>2
<1>5. \A p \in Pids : proc[p].doomed \in BOOLEAN
  BY DEF Proc
<1> QED
  BY <1>1, <1>2, <1>3, <1>4, <1>5

\* The list without the first entry that is obsolete.
LEMMA PurgeFacts ==
    ASSUME list \in Seq(Entry), Purge
    PROVE  \E k \in 1 .. Len(list) :
              /\ list[k].type \in {Stale, "sysinit"}
              /\ list' \in Seq(Entry) /\ Len(list') = Len(list) - 1
              /\ \A j \in 1 .. Len(list) - 1 : list'[j] = IF j < k THEN list[j] ELSE list[j + 1]
<1> DEFINE k == Min(Obsolete)
<1>1. k \in 1 .. Len(list) /\ list[k].type \in {Stale, "sysinit"}
  BY ObsoleteFacts DEF Purge
<1>2. list' = RemoveAt(list, k)
  BY DEF Purge
<1> HIDE DEF k
<1>3. /\ RemoveAt(list, k) \in Seq(Entry) /\ Len(RemoveAt(list, k)) = Len(list) - 1
      /\ \A j \in 1 .. Len(list) - 1 :
            RemoveAt(list, k)[j] = IF j < k THEN list[j] ELSE list[j + 1]
  BY <1>1, RemoveFacts
<1> QED
  BY <1>1, <1>2, <1>3

\* The next line of inittab.
LEMMA LineFacts ==
    ASSUME lines \in Seq(Line), lines # <<>>
    PROVE  /\ Head(lines) \in Line /\ Tail(lines) \in Seq(Line)
           /\ Head(lines) = lines[1] /\ Len(Tail(lines)) = Len(lines) - 1
           /\ \A k \in 1 .. Len(lines) - 1 : Tail(lines)[k] = lines[k + 1]
           /\ Len(lines) \in Nat /\ Len(lines) > 0
OBVIOUS

\* The list and the processes keep their types.
LEMMA ListTypeNext == TypeInv /\ [Next]_vars => ListType'
<1> SUFFICES ASSUME TypeInv, [Next]_vars
             PROVE  ListType'
  OBVIOUS
<1>1. /\ loaded \in Tables /\ list \in Seq(Entry) /\ proc \in [Pids -> Proc]
      /\ lines \in Seq(Line) /\ ran \in Seq(STRING)
  BY DEF TypeInv, ListType
<1>2. list' \in Seq(Entry)
  <2>1. CASE list' = list
    BY <1>1, <2>1
  <2>2. CASE \E z \in Zombies : Reap(z)
    BY <1>1, <2>2, ReapFacts DEF Zombies
  <2>3. CASE Keep
    BY <2>3, KeepFacts
  <2>4. CASE ConsoleFailed
    <3>1. PICK k \in 1 .. Len(list) : list' = [list EXCEPT ![k].pid = -1]
      BY <2>4 DEF ConsoleFailed
    <3>2. -1 \in Pids \cup {0, -1}
      OBVIOUS
    <3> QED
      BY <1>1, <3>1, <3>2, SetPidFacts
  <2>5. CASE CheckHup
    BY <1>1, <2>5, HupFacts
  <2>6. CASE Parse
    <3>1. lines # <<>> /\ list' = NewAction(Head(lines))
      BY <2>6 DEF Parse
    <3>2. Head(lines) \in Line
      BY <1>1, <3>1, LineFacts
    <3>3. NewAction(Head(lines)) \in Seq(Entry)
      BY <1>1, <3>2, ParseFacts
    <3> QED
      BY <3>1, <3>3
  <2>7. CASE Purge
    BY <1>1, <2>7, PurgeFacts
  <2>8. CASE Exec
    <3>1. loaded' \in Tables /\ list' = Entries(loaded')
      BY <2>8 DEF Exec
    <3> QED
      BY <3>1, EntriesFacts
  <2>9. CASE KillStale
    BY <1>1, <2>9 DEF KillStale
  <2> QED
    BY <2>1, <2>2, <2>3, <2>4, <2>5, <2>6, <2>7, <2>8, <2>9, StepEffect
       DEF Effect, Started, ConsoleStarted, Ended
<1>3. proc' \in [Pids -> Proc]
  <2>1. CASE proc' = proc
    BY <1>1, <2>1
  <2>2. CASE \E z \in Zombies : Reap(z)
    BY <1>1, <2>2, ReapFacts DEF Zombies
  <2>3. CASE Started
    BY <1>1, <2>3 DEF Started
  <2>4. CASE ConsoleStarted
    <3>1. PICK p \in Fork, k \in 1 .. Len(list) :
             proc' = [proc EXCEPT ![p] = Process(list[k])] /\ list[k].type \in Kept
      BY <2>4 DEF ConsoleStarted
    <3>2. list[k] \in Entry
      BY <1>1
    <3>3. list[k].id \in STRING /\ list[k].type \in Types
      BY <3>1, <3>2 DEF Entry, Kept, Types
    <3>4. Process(list[k]) \in Proc
      BY <3>3 DEF Process, Proc
    <3> QED
      BY <1>1, <3>1, <3>4
  <2>5. CASE KillStale
    BY <1>1, <2>5, KillFacts
  <2>6. CASE Keep \/ CheckHup \/ Parse \/ Purge \/ Exec
    BY <1>1, <2>6 DEF Keep, CheckHup, Parse, Purge, Exec
  <2> QED
    BY <2>1, <2>2, <2>3, <2>4, <2>5, <2>6, StepEffect DEF Effect, ConsoleFailed, Ended
<1>4. loaded' \in Tables /\ lines' \in Seq(Line)
  <2>1. CASE CheckHup
    <3>1. loaded' \in Tables /\ lines' = loaded'
      BY <2>1 DEF CheckHup
    <3> QED
      BY <3>1, TableFacts
  <2>2. CASE Exec
    BY <2>2 DEF Exec
  <2>3. CASE Parse
    <3>1. lines # <<>> /\ lines' = Tail(lines) /\ loaded' = loaded
      BY <2>3 DEF Parse, ends
    <3> QED
      BY <1>1, <3>1, LineFacts
  <2>4. CASE UNCHANGED <<loaded, lines>>
    BY <1>1, <2>4
  <2> QED
    BY <2>1, <2>2, <2>3, <2>4 DEF Next, Main, vars, ends, RunOnce, RunKept, Keep, RunDone,
       WaitFor, CheckDone, CheckInt, KillStale, Purge, PurgeDone, ReapOne, ReapBlocks,
       ReapDone, Kill, RunFails, ExecFails, Record, GoDown, Stop, StopReaps, Cont,
       Exit, Daemon, Down
<1>5. ran' \in Seq(STRING)
  <2>1. CASE RunOnce
    <3>1. Current \in 1 .. Len(list)
      BY <2>1, CurrentFacts DEF RunOnce
    <3>2. list[Current] \in Entry
      BY <1>1, <3>1
    <3>3. list[Current].id \in STRING
      BY <3>2 DEF Entry
    <3>4. Append(ran, list[Current].id) \in Seq(STRING)
      BY <1>1, <3>3
    <3>5. ran' = ran \/ ran' = Append(ran, list[Current].id)
      BY <2>1 DEF RunOnce
    <3> QED
      BY <1>1, <3>4, <3>5
  <2>2. CASE Exec
    BY <2>2 DEF Exec
  <2>3. CASE ran' = ran
    BY <1>1, <2>3
  <2> QED
    BY <2>1, <2>2, <2>3 DEF Next, Main, vars, RunKept, Keep, RunDone,
       WaitFor, CheckDone, CheckInt, CheckHup, Parse, KillStale, Purge, PurgeDone, ReapOne,
       ReapBlocks, ReapDone, Kill, RunFails, ExecFails, Record, GoDown, Stop, StopReaps,
       Cont, Exit, Daemon, Down
<1> QED
  BY <1>2, <1>3, <1>4, <1>5 DEF ListType

\* A step changes the number of entries only where inittab is read.
LEMMA SameLength ==
    ASSUME TypeInv, [Next]_vars
    PROVE  CheckHup \/ Parse \/ Purge \/ Exec \/ SameEntries
<1>1. list \in Seq(Entry) /\ proc \in [Pids -> Proc]
  BY DEF TypeInv, ListType
<1>2. list' = list => SameEntries
  BY DEF SameEntries
<1>3. (\E z \in Zombies : Reap(z)) => SameEntries
  BY <1>1, ReapFacts DEF SameEntries, Zombies
<1>4. Keep => SameEntries
  BY KeepFacts
<1>5. ASSUME ConsoleFailed
      PROVE  SameEntries
  <2>1. PICK k \in 1 .. Len(list) : list' = [list EXCEPT ![k].pid = -1]
    BY <1>5 DEF ConsoleFailed
  <2>2. -1 \in Pids \cup {0, -1}
    OBVIOUS
  <2> QED
    BY <1>1, <2>1, <2>2, SetPidFacts
<1>6. KillStale => list' = list
  BY DEF KillStale
<1> QED
  BY <1>2, <1>3, <1>4, <1>5, <1>6, StepEffect DEF Effect, Started, ConsoleStarted, Ended

\* The control variables keep their types.
LEMMA ControlNext == TypeInv /\ [Next]_vars => ControlType'
<1> SUFFICES ASSUME TypeInv, [Next]_vars
             PROVE  ControlType'
  OBVIOUS
<1>1. ControlType
  BY DEF TypeInv
<1>2. /\ {"sysinit"} \subseteq Types /\ {"wait"} \subseteq Types /\ {"once"} \subseteq Types
      /\ {"ctrlaltdel"} \subseteq Types /\ {"shutdown"} \subseteq Types
      /\ Kept \subseteq Types
  BY DEF Types, OneShot, Kept
<1>3. /\ After.mask \subseteq Types
      /\ After.stage \in {"sysinit", "wait", "once", "loop", "top"}
  BY <1>2 DEF After
<1>4. pc = "run" /\ Matches # {} => Current + 1 \in Nat
  <2> SUFFICES ASSUME pc = "run", Matches # {}
               PROVE  Current + 1 \in Nat
    OBVIOUS
  <2>1. Current \in Nat
    BY CurrentFacts
  <2> QED
    BY <2>1
<1>5. \A p \in Fork : p \in Pids \cup {0}
  BY ForkFacts
<1>6. /\ budget.signals > 0 =>
             [budget EXCEPT !.signals = @ - 1] \in [signals : Nat, failures : Nat, daemons : Nat]
      /\ budget.failures > 0 =>
             [budget EXCEPT !.failures = @ - 1] \in [signals : Nat, failures : Nat, daemons : Nat]
      /\ budget.daemons > 0 =>
             [budget EXCEPT !.daemons = @ - 1] \in [signals : Nat, failures : Nat, daemons : Nat]
  BY <1>1 DEF ControlType
<1>7. CASE RunOnce
  BY <1>1, <1>4, <1>5, <1>7 DEF RunOnce, ends, ControlType, Places
<1>8. CASE RunFails \/ RunDone
  BY <1>1, <1>4, <1>6, <1>8 DEF RunFails, RunDone, ends, ControlType, Places
<1>22. CASE RunKept
  <2>1. waiting' \in Pids \cup {0} /\ pc' \in Places /\ i' \in Nat
    BY <1>1, <1>4, <1>5, <1>22 DEF RunKept, ControlType, Places
  <2> QED
    BY <1>1, <1>22, <2>1 DEF RunKept, ends, ControlType
<1>23. CASE Keep
  <2>1. pc = "keep" /\ Matches # {} /\ waiting \in Pids /\ Current \in Nat
    <3>1. pc = "keep" /\ Matches # {}
      BY <1>23 DEF Keep, TypeInv, CallInv
    <3> QED
      BY <1>23, <3>1, CurrentFacts, KeepFacts
  <2>2. Current + 1 \in Nat /\ missed' \subseteq Pids
    BY <1>1, <1>23, <2>1 DEF Keep, ControlType
  <2> QED
    BY <1>1, <1>23, <2>2 DEF Keep, ControlType, Places
<1>9. CASE WaitFor
  BY <1>1, <1>9 DEF WaitFor, ends, ControlType, Places
<1>10. CASE CheckDone
  BY <1>1, <1>3, <1>10 DEF CheckDone, ends, ControlType, Places
<1>11. CASE CheckInt \/ CheckHup
  <2>1. nohang' \in BOOLEAN /\ got' = "none"
    BY <1>11 DEF CheckInt, CheckHup, Seen
  <2>2. /\ pc' \in Places /\ mask' \subseteq Types /\ i' \in Nat
        /\ UNCHANGED <<stage, waiting, missed, inWait, stopped, going, budget>>
    BY <1>1, <1>2, <1>11 DEF CheckInt, CheckHup, ends, ControlType, Places
  <2> QED
    BY <1>1, <2>1, <2>2 DEF ControlType
<1>12. CASE Parse \/ KillStale \/ Purge \/ PurgeDone
  BY <1>1, <1>12 DEF Parse, KillStale, Purge, PurgeDone, ends, ControlType, Places
<1>13. CASE ReapOne \/ ReapBlocks \/ ReapDone
  BY <1>1, <1>13 DEF ReapOne, ReapBlocks, ReapDone, ends, ControlType, Places
<1>14. CASE Kill \/ ExecFails \/ Down \/ UNCHANGED vars
  BY <1>1, <1>14 DEF Kill, ExecFails, Down, vars, ends, ControlType, Places
<1>15. CASE Exec
  BY <1>1, <1>2, <1>15 DEF Exec, ControlType, Places
<1>16. CASE Record
  BY <1>1, <1>6, <1>16 DEF Record, Signalled, Interrupted, ends, ControlType, Places
<1>17. CASE GoDown
  <2>1. going' \in {"halt", "restart"}
    BY <1>17 DEF GoDown
  <2> QED
    BY <1>1, <1>2, <1>6, <1>17, <2>1 DEF GoDown, Signalled, ControlType, Places
<1>18. CASE Stop \/ StopReaps
  <2>1. stopped' \in BOOLEAN
    BY <1>1, <1>18 DEF Stop, StopReaps, ends, ControlType
  <2>2. budget' \in [signals : Nat, failures : Nat, daemons : Nat]
    BY <1>1, <1>6, <1>18 DEF Stop, StopReaps, Signalled, ControlType
  <2>3. UNCHANGED <<stage, pc, mask, i, waiting, missed, inWait, got, nohang, going>>
    BY <1>18 DEF Stop, StopReaps, ends
  <2> QED
    BY <1>1, <2>1, <2>2, <2>3 DEF ControlType
<1>19. CASE Cont
  BY <1>1, <1>19 DEF Cont, Interrupted, ControlType, Places
<1>20. CASE \E p \in Pids : Exit(p)
  BY <1>1, <1>20 DEF Exit, ends, ControlType, Places
<1>21. CASE Daemon
  BY <1>1, <1>6, <1>21 DEF Daemon, ends, ControlType, Places
<1> QED
  BY <1>7, <1>8, <1>9, <1>10, <1>11, <1>12, <1>13, <1>14, <1>15, <1>16, <1>17, <1>18,
     <1>19, <1>20, <1>21, <1>22, <1>23 DEF Next, Main

\* What the handlers that return leave of a wait: it goes on, or its process
\* has been reaped.
LEMMA InterruptedFacts ==
    ASSUME CallInv, Interrupted
    PROVE  /\ pc = "waitfor" => \/ pc' = "waitfor" /\ waiting' = waiting
                                \/ pc' = "run" /\ proc[waiting].st = "free"
           /\ pc = "reap" => pc' \in {"reap", "check"}
           /\ pc \notin {"waitfor", "reap"} => UNCHANGED <<pc, waiting, inWait>>
<1>1. CASE inWait
  BY <1>1 DEF Interrupted, CallInv
<1>2. CASE ~inWait
  BY <1>2 DEF Interrupted
<1> QED
  BY <1>1, <1>2

\* What may happen between run() and the entry of its process number: children
\* end and stop_handler reaps them.
Quiet ==
    /\ pc' = "keep" /\ UNCHANGED <<i, mask, waiting, missed, inWait>> /\ SameEntries
    /\ \A j \in 1 .. Len(list) : list'[j].pid \in {0, list[j].pid}
    /\ \A p \in Pids : proc'[p].st # "free" =>
          proc[p].st # "free" /\ proc'[p].id = proc[p].id

\* There run_actions goes on, or a handler takes the system down.
LEMMA KeepLeft ==
    ASSUME TypeInv, [Next]_vars, pc = "keep"
    PROVE  Keep \/ GoDown \/ Quiet
<1>1. list \in Seq(Entry) /\ proc \in [Pids -> Proc] /\ CallInv
  BY DEF TypeInv, ListType
<1>2. CASE UNCHANGED <<pc, i, mask, waiting, missed, inWait, list, proc>>
  BY <1>2 DEF Quiet, SameEntries
<1>3. CASE Record \/ Cont
  <2>1. Interrupted /\ UNCHANGED <<i, mask, missed, list, proc>>
    BY <1>3 DEF Record, Cont, ends
  <2>2. UNCHANGED <<pc, waiting, inWait>>
    BY <1>1, <2>1, InterruptedFacts
  <2> QED
    BY <1>2, <2>1, <2>2
<1>4. CASE Stop \/ Down \/ UNCHANGED vars
  BY <1>2, <1>4 DEF Stop, Down, vars
<1>5. CASE StopReaps
  <2>1. PICK z \in Pids : Reap(z)
    BY <1>5 DEF StopReaps, Zombies
  <2>2. UNCHANGED <<pc, i, mask, waiting, missed, inWait>>
    BY <1>5 DEF StopReaps, ends
  <2>3. SameEntries /\ \A j \in 1 .. Len(list) : list'[j].pid \in {0, list[j].pid}
    BY <1>1, <2>1, ReapFacts DEF SameEntries
  <2>4. proc'[z].st = "free" /\ \A p \in Pids : p # z => proc'[p] = proc[p]
    BY <1>1, <2>1, ReapFacts
  <2> QED
    BY <2>2, <2>3, <2>4 DEF Quiet
<1>6. CASE \E p \in Pids : Exit(p)
  <2>1. PICK p \in Pids : Exit(p)
    BY <1>6
  <2>2. /\ UNCHANGED <<pc, i, mask, waiting, missed, inWait, list>> /\ proc[p].st = "run"
        /\ proc' = [proc EXCEPT ![p] = Dead(p)]
    BY <1>1, <2>1 DEF Exit, Dead, ends
  <2>3. Dead(p).id = proc[p].id
    BY <1>1 DEF Dead, Proc
  <2>4. \A q \in Pids : proc'[q] = IF q = p THEN Dead(p) ELSE proc[q]
    BY <1>1, <2>2
  <2>5. \A q \in Pids : proc'[q].st # "free" =>
           proc[q].st # "free" /\ proc'[q].id = proc[q].id
    BY <2>2, <2>3, <2>4
  <2> QED
    BY <2>2, <2>5 DEF Quiet, SameEntries
<1>7. ~RunOnce /\ ~RunKept /\ ~RunFails /\ ~RunDone /\ ~WaitFor /\ ~CheckDone /\ ~CheckInt
      /\ ~CheckHup /\ ~Parse /\ ~KillStale /\ ~Purge /\ ~PurgeDone
  BY DEF RunOnce, RunKept, RunFails, RunDone, WaitFor, CheckDone, CheckInt, CheckHup, Seen,
         Parse, KillStale, Purge, PurgeDone
<1>8. ~ReapOne /\ ~ReapBlocks /\ ~ReapDone /\ ~Kill /\ ~Exec /\ ~ExecFails /\ ~Daemon
  BY DEF ReapOne, ReapBlocks, ReapDone, Kill, Exec, ExecFails, Daemon
<1> QED
  BY <1>3, <1>4, <1>5, <1>6, <1>7, <1>8 DEF Next, Main

\* run_actions gets there by starting a console.
LEMMA KeepEntered ==
    ASSUME TypeInv, [Next]_vars, pc # "keep", pc' = "keep"
    PROVE  RunKept /\ pc = "run" /\ list[Current].pid = 0 /\ UNCHANGED <<list, i, mask>>
<1>1. CallInv
  BY DEF TypeInv
<1>2. CASE RunKept
  BY <1>2 DEF RunKept
<1>3. ~Record /\ ~Cont
  <2>1. Interrupted => pc' # "keep"
    BY <1>1, InterruptedFacts
  <2> QED
    BY <2>1 DEF Record, Cont
<1>4. ~RunOnce /\ ~Keep /\ ~RunFails /\ ~RunDone /\ ~WaitFor /\ ~CheckDone /\ ~CheckInt
      /\ ~CheckHup /\ ~Parse /\ ~KillStale /\ ~Purge /\ ~PurgeDone
  BY DEF RunOnce, Keep, RunFails, RunDone, WaitFor, CheckDone, CheckInt, CheckHup,
         Parse, KillStale, Purge, PurgeDone
<1>5. ~ReapOne /\ ~ReapBlocks /\ ~ReapDone /\ ~Kill /\ ~Exec /\ ~ExecFails /\ ~Daemon
      /\ ~GoDown /\ ~Stop /\ ~StopReaps /\ ~Down /\ ~UNCHANGED vars
  BY DEF ReapOne, ReapBlocks, ReapDone, Kill, Exec, ExecFails, Daemon, GoDown, Stop,
         StopReaps, Down, vars
<1>6. ~ (\E p \in Pids : Exit(p))
  BY DEF Exit
<1> QED
  BY <1>2, <1>3, <1>4, <1>5, <1>6 DEF Next, Main

\* What run_actions looks at is the same while the entries are.
LEMMA SameCurrent ==
    ASSUME TypeInv, pc = "keep", SameEntries, UNCHANGED <<i, mask>>
    PROVE  Matches' = Matches /\ Current' = Current
<1>1. i \in Nat /\ i >= 1 /\ Len(list) \in Nat
  BY DEF TypeInv, ListType, ControlType, CallInv
<1>2. \A j \in i .. Len(list) : list'[j].type = list[j].type
  BY <1>1 DEF SameEntries
<1>3. Matches' = Matches
  BY <1>2 DEF Matches, SameEntries
<1> QED
  BY <1>3 DEF Current

\* A child stays one until it is reaped.
LEMMA ChildrenStay ==
    ASSUME proc \in [Pids -> Proc], Started \/ ConsoleStarted \/ Ended \/ KillStale
    PROVE  Children \subseteq Children'
<1>1. CASE Started \/ ConsoleStarted
  <2>1. PICK p \in Fork : \E new : proc' = [proc EXCEPT ![p] = new]
    BY <1>1 DEF Started, ConsoleStarted
  <2>2. p \in Pids /\ proc[p].st = "free"
    BY ForkFacts
  <2>3. \A q \in Pids : q # p => proc'[q] = proc[q]
    BY <2>1
  <2> QED
    BY <2>2, <2>3 DEF Children, Alive, Zombies
<1>2. CASE Ended
  <2>1. \A p \in Pids : Dead(p).st = "zombie"
    BY DEF Dead, Proc
  <2> QED
    BY <1>2, <2>1 DEF Ended, Children, Alive, Zombies
<1>3. CASE KillStale
  BY <1>3, KillFacts DEF Children, Alive, Zombies
<1> QED
  BY <1>1, <1>2, <1>3

\* A process that ends, or that scripts leave behind, is still init's child.
LEMMA WorldFacts ==
    ASSUME TypeInv, Daemon \/ (\E p \in Pids : Exit(p))
    PROVE  Children \subseteq Children'
<1>1. proc \in [Pids -> Proc]
  BY DEF TypeInv, ListType
<1>2. CASE Daemon
  <2>1. PICK p \in Fork : \E new : proc' = [proc EXCEPT ![p] = new]
    BY <1>2 DEF Daemon
  <2>2. p \in Pids /\ proc[p].st = "free"
    BY ForkFacts
  <2>3. \A q \in Pids : q # p => proc'[q] = proc[q]
    BY <1>1, <2>1
  <2> QED
    BY <2>2, <2>3 DEF Children, Alive, Zombies
<1>3. CASE \E p \in Pids : Exit(p)
  <2>1. PICK p \in Pids : proc' = [proc EXCEPT ![p] = Dead(p)]
    BY <1>1, <1>3 DEF Exit, Dead
  <2>2. \A q \in Pids : Dead(q).st = "zombie"
    BY <1>1 DEF Dead, Proc
  <2>3. \A q \in Pids : proc'[q] = IF q = p THEN Dead(p) ELSE proc[q]
    BY <1>1, <2>1
  <2> QED
    BY <2>2, <2>3 DEF Children, Alive, Zombies
<1> QED
  BY <1>2, <1>3

\* Every step keeps what init remembers of its calls.
LEMMA CallNext == TypeInv /\ [Next]_vars => CallInv'
<1> SUFFICES ASSUME TypeInv, [Next]_vars
             PROVE  CallInv'
  OBVIOUS
<1>1. ControlType /\ CallInv
  BY DEF TypeInv
<1>2. Len(list) \in Nat /\ Len(list') \in Nat
  <2>1. list \in Seq(Entry) /\ list' \in Seq(Entry)
    BY ListTypeNext DEF TypeInv, ListType
  <2> QED
    BY <2>1
<1>3. SameEntries => Len(list') = Len(list)
  BY DEF SameEntries
<1>4. \A n \in Nat : 1 \in 1 .. n + 1
  OBVIOUS
<1>20. CASE pc = "keep"
  <2>1. i \in 1 .. Len(list) + 1 /\ waiting # 0 /\ Matches # {} /\ ~inWait
    BY <1>1, <1>20 DEF CallInv
  <2>2. CASE Keep
    <3>1. Current \in 1 .. Len(list) /\ Len(list') = Len(list)
      BY <1>3, <2>2, KeepFacts
    <3>2. i' = Current + 1 /\ pc' = "run" /\ inWait' = inWait
      BY <2>2 DEF Keep
    <3>3. i' \in 1 .. Len(list') + 1
      BY <1>2, <3>1, <3>2
    <3> QED
      BY <2>1, <3>2, <3>3 DEF CallInv
  <2>3. CASE GoDown
    <3>1. i' = 1 /\ inWait' = FALSE /\ pc' = "run"
      BY <2>3 DEF GoDown
    <3>2. 1 \in 1 .. Len(list') + 1
      BY <1>2, <1>4
    <3> QED
      BY <3>1, <3>2 DEF CallInv
  <2>4. CASE Quiet
    <3>1. /\ pc' = "keep" /\ i' = i /\ waiting' = waiting /\ inWait' = inWait
          /\ Len(list') = Len(list) /\ Matches' = Matches
      BY <1>3, <1>20, <2>4, SameCurrent DEF Quiet
    <3> QED
      BY <2>1, <3>1 DEF CallInv
  <2> QED
    BY <1>20, <2>2, <2>3, <2>4, KeepLeft
<1>21. CASE RunKept /\ pc' = "keep"
  <2>1. /\ pc = "run" /\ Matches # {} /\ UNCHANGED <<list, i, mask, inWait>> /\ waiting' # 0
    <3>1. \A p \in Fork : p # 0
      BY ForkFacts
    <3> QED
      BY <1>21, <3>1 DEF RunKept
  <2>2. i \in 1 .. Len(list) + 1 /\ ~inWait /\ Matches' = Matches
    BY <1>1, <2>1 DEF CallInv, Matches
  <2> QED
    BY <1>21, <2>1, <2>2 DEF CallInv
<1> SUFFICES ASSUME pc # "keep", ~ (RunKept /\ pc' = "keep")
             PROVE  CallInv'
  BY <1>20, <1>21
<1>22. pc' # "keep"
  BY KeepEntered
<1>5. CASE RunOnce \/ RunKept \/ RunFails
  <2>1. /\ pc = "run" /\ Matches # {} /\ i' = Current + 1 /\ inWait' = inWait
        /\ pc' \in {"run", "waitfor"}
    BY <1>5, <1>22 DEF RunOnce, RunKept, RunFails
  <2>2. Current \in 1 .. Len(list)
    BY <2>1, CurrentFacts
  <2>3. Len(list') = Len(list)
    <3>1. ~CheckHup /\ ~Parse /\ ~Purge /\ ~Exec
      BY <2>1 DEF CheckHup, Seen, Parse, Purge, Exec
    <3> QED
      BY <1>3, <3>1, SameLength
  <2>4. i' \in 1 .. Len(list') + 1
    BY <1>2, <2>1, <2>2, <2>3
  <2>5. ~inWait'
    BY <1>22, <1>1, <2>1 DEF CallInv
  <2>6. pc' = "waitfor" => waiting' # 0
    BY <1>5, <2>1, ForkFacts DEF RunOnce, RunKept, RunFails
  <2> QED
    BY <1>22, <2>4, <2>5, <2>6 DEF CallInv
<1>6. CASE RunDone \/ CheckDone \/ CheckInt \/ PurgeDone \/ ExecFails \/ Kill \/ KillStale
  <2>1. list' = list /\ inWait' = inWait /\ pc \notin {"waitfor", "reap"}
    BY <1>6 DEF RunDone, CheckDone, CheckInt, PurgeDone, ExecFails, Kill, KillStale, Seen
  <2>2. ~inWait'
    BY <1>22, <1>1, <2>1 DEF CallInv
  <2>3. pc' # "waitfor" /\ (pc' = "run" => i' = 1)
    BY <1>6 DEF RunDone, CheckDone, CheckInt, PurgeDone, ExecFails, Kill, KillStale, Seen
  <2>4. i' = 1 => i' \in 1 .. Len(list') + 1
    BY <1>2, <1>4
  <2> QED
    BY <1>22, <2>2, <2>3, <2>4 DEF CallInv
<1>7. CASE CheckHup \/ Parse \/ Purge \/ Exec
  <2>1. inWait' = inWait /\ pc \notin {"waitfor", "reap"} /\ pc' # "waitfor"
        /\ (pc' = "run" => i' = 1)
    BY <1>7 DEF CheckHup, Parse, Purge, Exec, Seen
  <2>2. ~inWait'
    BY <1>22, <1>1, <2>1 DEF CallInv
  <2>3. i' = 1 => i' \in 1 .. Len(list') + 1
    BY <1>2, <1>4
  <2> QED
    BY <1>22, <2>1, <2>2, <2>3 DEF CallInv
<1>8. pc = "waitfor" \/ pc = "reap" => SameEntries
  <2> SUFFICES ASSUME pc = "waitfor" \/ pc = "reap"
               PROVE  SameEntries
    OBVIOUS
  <2>1. ~CheckHup /\ ~Parse /\ ~Purge /\ ~Exec
    BY DEF CheckHup, Seen, Parse, Purge, Exec
  <2> QED
    BY <2>1, SameLength
<1>9. pc = "waitfor" => i \in 1 .. Len(list') + 1
  BY <1>22, <1>1, <1>3, <1>8 DEF CallInv
<1>10. CASE WaitFor
  <2>1. /\ pc = "waitfor" /\ i' = i /\ stopped' = stopped
        /\ pc' \in {"run", "waitfor"} /\ (pc' = "waitfor" => waiting' = waiting)
        /\ inWait' => pc' = "waitfor" /\ Children # {} /\ proc' = proc
    BY <1>10 DEF WaitFor, ends
  <2>2. inWait' => Children' # {}
    BY <2>1 DEF Children, Alive, Zombies
  <2> QED
    BY <1>22, <1>1, <1>9, <2>1, <2>2 DEF CallInv
<1>11. CASE ReapOne
  BY <1>22, <1>1, <1>11 DEF ReapOne, CallInv
<1>12. CASE ReapBlocks
  <2>1. Children' = Children
    BY <1>12 DEF ReapBlocks, Children, Alive, Zombies
  <2> QED
    BY <1>22, <1>12, <2>1 DEF ReapBlocks, CallInv
<1>13. CASE ReapDone
  <2>1. ~inWait
    BY <1>22, <1>1, <1>13 DEF ReapDone, CallInv
  <2> QED
    BY <1>22, <1>13, <2>1 DEF ReapDone, CallInv
<1>14. CASE Record \/ Cont
  <2>1. Interrupted /\ list' = list /\ i' = i
    BY <1>14 DEF Record, Cont
  <2>2. CASE ~inWait
    <3>1. UNCHANGED <<pc, waiting, inWait>>
      BY <2>1, <2>2 DEF Interrupted
    <3> QED
      BY <1>22, <1>1, <2>1, <2>2, <3>1 DEF CallInv
  <2>3. CASE inWait
    <3>1. ~inWait' /\ (pc' = "waitfor" => pc = "waitfor" /\ waiting' = waiting)
          /\ (pc' = "run" => pc = "waitfor" \/ pc = "run")
      BY <1>22, <1>1, <2>1, <2>3 DEF Interrupted, CallInv
    <3> QED
      BY <1>22, <1>1, <2>1, <3>1 DEF CallInv
  <2> QED
    BY <2>2, <2>3
<1>15. CASE GoDown
  <2>1. i' = 1 /\ inWait' = FALSE /\ pc' = "run"
    BY <1>15 DEF GoDown
  <2>2. 1 \in 1 .. Len(list') + 1
    BY <1>2, <1>4
  <2> QED
    BY <1>22, <2>1, <2>2 DEF CallInv
<1>16. CASE Stop
  BY <1>22, <1>1, <1>16 DEF Stop, CallInv
<1>17. CASE StopReaps
  <2>1. stopped' = stopped /\ stopped /\ UNCHANGED <<pc, i, waiting, inWait, nohang>>
    BY <1>17 DEF StopReaps, ends
  <2>2. Len(list') = Len(list)
    <3>1. ~CheckHup /\ ~Parse /\ ~Purge
      BY <2>1 DEF CheckHup, Seen, Parse, Purge
    <3>2. CASE Exec
      <4>1. \E z \in Zombies : Reap(z)
        BY <1>17 DEF StopReaps
      <4>2. list \in Seq(Entry) /\ proc \in [Pids -> Proc]
        BY DEF TypeInv, ListType
      <4> QED
        BY <4>1, <4>2, ReapFacts DEF Zombies
    <3> QED
      BY <1>3, <3>1, <3>2, SameLength
  <2> QED
    BY <1>22, <1>1, <2>1, <2>2 DEF CallInv
<1>18. CASE Daemon \/ (\E p \in Pids : Exit(p))
  <2>1. UNCHANGED <<list, pc, i, waiting, inWait, nohang, stopped>>
    BY <1>18 DEF Daemon, Exit, ends
  <2>2. Children # {} => Children' # {}
    BY <1>18, WorldFacts
  <2> QED
    BY <1>22, <1>1, <2>1, <2>2 DEF CallInv
<1>19. CASE Down \/ UNCHANGED vars
  BY <1>22, <1>1, <1>19 DEF Down, vars, CallInv, Children, Alive, Zombies
<1>23. ~Keep
  BY DEF Keep
<1> QED
  BY <1>5, <1>6, <1>7, <1>10, <1>11, <1>12, <1>13, <1>14, <1>15, <1>16, <1>17, <1>18,
     <1>19, <1>23 DEF Next, Main

\* Every step keeps the types.
LEMMA TypeNext == TypeInv /\ [Next]_vars => TypeInv'
BY ListTypeNext, ControlNext, CallNext DEF TypeInv

\* The types hold when init has read inittab.
LEMMA TypeInit == Init => TypeInv
<1> SUFFICES ASSUME Init
             PROVE  TypeInv
  OBVIOUS
<1>1. loaded \in Tables /\ list = Entries(loaded)
  BY DEF Init
<1>2. list \in Seq(Entry) /\ Len(list) \in Nat
  <2>1. list \in Seq(Entry)
    BY <1>1, EntriesFacts
  <2> QED
    BY <2>1
<1>3. Nobody \in Proc
  BY DEF Nobody, Proc
<1>4. proc \in [Pids -> Proc]
  BY <1>3 DEF Init
<1>5. lines \in Seq(Line) /\ ran \in Seq(STRING)
  BY DEF Init
<1>6. ListType
  BY <1>1, <1>2, <1>4, <1>5 DEF ListType
<1>7. MaxSignals \in Nat /\ MaxFailures \in Nat /\ Daemons \in Nat
  BY BusyInitAssumption
<1>8. budget \in [signals : Nat, failures : Nat, daemons : Nat]
  BY <1>7 DEF Init
<1>9. {"sysinit"} \subseteq Types
  BY DEF Types, OneShot
<1>10. ControlType
  BY <1>8, <1>9 DEF Init, ControlType, Places
<1>11. 1 \in 1 .. Len(list) + 1
  BY <1>2
<1>12. CallInv
  BY <1>11 DEF Init, CallInv
<1> QED
  BY <1>6, <1>10, <1>12 DEF TypeInv

-----------------------------------------------------------------------------

\* The place of the j-th entry before the k-th one was taken out.
Old(j, k) == IF j < k THEN j ELSE j + 1

\* A line of inittab, whether its entry was known or not.
LEMMA ParseStep ==
    ASSUME TypeInv, Parse
    PROVE  LET n == Len(list')
               line == Head(lines)
           IN  /\ n \in Nat /\ n > 0 /\ line \in Line /\ proc' = proc
               /\ list'[n].id = line.id /\ list'[n].type = line.type
               /\ \/ /\ n = Len(list) + 1 /\ list'[n].pid = 0
                     /\ \A j \in 1 .. Len(list) : list[j].id # line.id
                     /\ \A j \in 1 .. n - 1 : list'[j] = list[j]
                  \/ /\ n = Len(list)
                     /\ \E k \in 1 .. Len(list) :
                           /\ list[k].id = line.id /\ list'[n].pid = list[k].pid
                           /\ \A j \in 1 .. n - 1 : list'[j] = list[Old(j, k)]
<1> DEFINE line == Head(lines)
           k == Min(Known(line.id))
           n == Len(list')
<1>1. list \in Seq(Entry) /\ lines \in Seq(Line) /\ lines # <<>>
      /\ list' = NewAction(line) /\ proc' = proc
  BY DEF TypeInv, ListType, Parse
<1>2. line \in Line
  BY <1>1, LineFacts
<1>3. /\ n \in Nat /\ n > 0
      /\ list'[n].id = line.id /\ list'[n].type = line.type
      /\ Known(line.id) = {} =>
            /\ n = Len(list) + 1 /\ list'[n].pid = 0
            /\ \A j \in 1 .. n - 1 : list'[j] = list[j]
      /\ Known(line.id) # {} =>
            /\ n = Len(list) /\ list'[n].pid = list[k].pid
            /\ \A j \in 1 .. n - 1 : list'[j] = IF j < k THEN list[j] ELSE list[j + 1]
  <2> HIDE DEF line
  <2> QED
    BY <1>1, <1>2, ParseFacts
<1>4. CASE Known(line.id) = {}
  <2>1. \A j \in 1 .. Len(list) : list[j].id # line.id
    BY <1>4 DEF Known
  <2> HIDE DEF line, n, k
  <2> QED
    BY <1>1, <1>2, <1>3, <1>4, <2>1 DEF line, n
<1>5. CASE Known(line.id) # {}
  <2>1. k \in 1 .. Len(list) /\ list[k].id = line.id
    <3> HIDE DEF line
    <3> QED
      BY <1>1, <1>5, KnownFacts
  <2> HIDE DEF line, n, k
  <2>2. \A j \in 1 .. n - 1 : list'[j] = list[Old(j, k)]
    BY <1>3, <1>5 DEF Old
  <2> QED
    BY <1>1, <1>2, <1>3, <1>5, <2>1, <2>2 DEF line, n
<1> QED
  BY <1>4, <1>5

\* The entries that stay keep their order, and only the k-th one is lost.
LEMMA OldFacts ==
    ASSUME NEW n \in Nat, NEW k \in 1 .. n
    PROVE  /\ \A j \in 1 .. n - 1 : Old(j, k) \in 1 .. n /\ Old(j, k) # k
           /\ \A j, m \in 1 .. n - 1 : Old(j, k) = Old(m, k) => j = m
           /\ \A j, m \in 1 .. n - 1 : j < m => Old(j, k) < Old(m, k)
           /\ \A m \in 1 .. n : m # k => \E j \in 1 .. n - 1 : Old(j, k) = m
<1>1. /\ \A j \in 1 .. n - 1 : Old(j, k) \in 1 .. n /\ Old(j, k) # k
      /\ \A j, m \in 1 .. n - 1 : Old(j, k) = Old(m, k) => j = m
      /\ \A j, m \in 1 .. n - 1 : j < m => Old(j, k) < Old(m, k)
  BY DEF Old
<1>2. ASSUME NEW m \in 1 .. n, m # k
      PROVE  \E j \in 1 .. n - 1 : Old(j, k) = m
  <2>1. CASE m < k
    <3>1. m \in 1 .. n - 1 /\ Old(m, k) = m
      BY <2>1 DEF Old
    <3> QED
      BY <3>1
  <2>2. CASE m > k
    <3>1. m - 1 \in 1 .. n - 1 /\ Old(m - 1, k) = m
      BY <2>2 DEF Old
    <3> QED
      BY <3>1
  <2> QED
    BY <1>2, <2>1, <2>2
<1> QED
  BY <1>1, <1>2

\* reload_inittab takes out one entry that is obsolete.
LEMMA PurgeStep ==
    ASSUME TypeInv, Purge
    PROVE  /\ proc' = proc /\ Len(list') = Len(list) - 1
           /\ \E k \in 1 .. Len(list) :
                 /\ list[k].type \in {Stale, "sysinit"}
                 /\ \A j \in 1 .. Len(list) - 1 : list'[j] = list[Old(j, k)]
<1>1. list \in Seq(Entry) /\ proc' = proc
  BY DEF TypeInv, ListType, Purge
<1>2. PICK k \in 1 .. Len(list) :
         /\ list[k].type \in {Stale, "sysinit"} /\ Len(list') = Len(list) - 1
         /\ \A j \in 1 .. Len(list) - 1 : list'[j] = IF j < k THEN list[j] ELSE list[j + 1]
  BY <1>1, PurgeFacts
<1>3. \A j \in 1 .. Len(list) - 1 : list'[j] = list[Old(j, k)]
  BY <1>2 DEF Old
<1> QED
  BY <1>1, <1>2, <1>3

\* new_init_action and reload_inittab never enter a command twice.
LEMMA DistinctNext == TypeInv /\ Distinct /\ [Next]_vars => Distinct'
<1> SUFFICES ASSUME TypeInv, Distinct, [Next]_vars
             PROVE  Distinct'
  OBVIOUS
<1>1. list \in Seq(Entry) /\ Len(list) \in Nat
  BY DEF TypeInv, ListType
<1>2. CASE SameEntries
  BY <1>2 DEF SameEntries, Distinct
<1>3. CASE CheckHup
  <2>1. Len(list') = Len(list) /\ \A j \in 1 .. Len(list) : list'[j].id = list[j].id
    BY <1>1, <1>3, HupFacts
  <2> QED
    BY <2>1 DEF Distinct
<1>4. CASE Parse
  <2> DEFINE n == Len(list')
  <2>1. n \in Nat /\ list'[n].id = Head(lines).id
    BY <1>4, ParseStep
  <2>2. SUFFICES ASSUME NEW j \in 1 .. n, NEW m \in 1 .. n, list'[j].id = list'[m].id, j < m
                 PROVE  FALSE
    <3>1. \A j, m \in 1 .. n : ~ (j < m) /\ ~ (m < j) => j = m
      BY <2>1
    <3> QED
      BY <3>1 DEF Distinct
  <2>3. j \in 1 .. n - 1 /\ (m = n \/ m \in 1 .. n - 1)
    BY <2>1, <2>2
  <2>4. CASE /\ n = Len(list) + 1
             /\ \A l \in 1 .. Len(list) : list[l].id # Head(lines).id
             /\ \A l \in 1 .. n - 1 : list'[l] = list[l]
    <3>1. n - 1 = Len(list)
      BY <1>1, <2>4
    <3>2. list'[j] = list[j] /\ j \in 1 .. Len(list)
      BY <2>3, <2>4, <3>1
    <3>3. CASE m = n
      BY <2>1, <2>2, <2>4, <3>2, <3>3
    <3>4. CASE m \in 1 .. n - 1
      <4>1. list'[m] = list[m] /\ m \in 1 .. Len(list)
        BY <2>4, <3>1, <3>4
      <4>2. j = m
        BY <2>2, <3>2, <4>1 DEF Distinct
      <4> QED
        BY <2>1, <2>2, <4>2
    <3> QED
      BY <2>3, <3>3, <3>4
  <2>5. ASSUME n = Len(list), NEW k \in 1 .. Len(list), list[k].id = Head(lines).id,
               \A l \in 1 .. n - 1 : list'[l] = list[Old(l, k)]
        PROVE  FALSE
    <3>1. list'[j] = list[Old(j, k)] /\ Old(j, k) \in 1 .. Len(list) /\ Old(j, k) # k
      BY <1>1, <2>3, <2>5, OldFacts
    <3>2. CASE m = n
      <4>1. list[Old(j, k)].id = list[k].id
        BY <2>1, <2>2, <2>5, <3>1, <3>2
      <4> QED
        BY <3>1, <4>1 DEF Distinct
    <3>3. CASE m \in 1 .. n - 1
      <4>1. list'[m] = list[Old(m, k)] /\ Old(m, k) \in 1 .. Len(list)
        BY <1>1, <2>5, <3>3, OldFacts
      <4>2. Old(j, k) = Old(m, k)
        BY <2>2, <3>1, <4>1 DEF Distinct
      <4>3. j = m
        BY <1>1, <2>3, <2>5, <3>3, <4>2, OldFacts
      <4> QED
        BY <2>1, <2>2, <4>3
    <3> QED
      BY <2>3, <3>2, <3>3
  <2> QED
    BY <1>4, <2>4, <2>5, ParseStep
<1>5. CASE Purge
  <2>1. Len(list') = Len(list) - 1
    BY <1>5, PurgeStep
  <2>2. PICK k \in 1 .. Len(list) : \A j \in 1 .. Len(list) - 1 : list'[j] = list[Old(j, k)]
    BY <1>5, PurgeStep
  <2>3. SUFFICES ASSUME NEW j \in 1 .. Len(list) - 1, NEW m \in 1 .. Len(list) - 1,
                        list'[j].id = list'[m].id
                 PROVE  j = m
    BY <2>1 DEF Distinct
  <2>4. Old(j, k) \in 1 .. Len(list) /\ Old(m, k) \in 1 .. Len(list)
    BY <1>1, OldFacts
  <2>5. Old(j, k) = Old(m, k)
    BY <2>2, <2>3, <2>4 DEF Distinct
  <2> QED
    BY <1>1, <2>5, OldFacts
<1>6. CASE Exec
  <2>1. loaded' \in Tables /\ list' = Entries(loaded')
    BY <1>6 DEF Exec
  <2>2. /\ Len(list') = Len(loaded')
        /\ \A j \in 1 .. Len(loaded') : list'[j].id = loaded'[j].id
    BY <2>1, EntriesFacts
  <2>3. \A j, k \in 1 .. Len(loaded') : loaded'[j].id = loaded'[k].id => j = k
    BY <2>1, TableFacts
  <2> QED
    BY <2>2, <2>3 DEF Distinct
<1> QED
  BY <1>2, <1>3, <1>4, <1>5, <1>6, SameLength

-----------------------------------------------------------------------------

\* A process that is not a console's has been started.
LEMMA StartedFacts ==
    ASSUME TypeInv, Started
    PROVE  /\ list' = list
           /\ \E p \in Fork :
                 /\ proc'[p].st = "run" /\ proc'[p].type \notin Kept /\ ~proc'[p].doomed
                 /\ \A q \in Pids : q # p => proc'[q] = proc[q]
<1>1. proc \in [Pids -> Proc] /\ list' = list
  BY DEF TypeInv, ListType, Started
<1>2. PICK p \in Fork, new \in Proc :
         /\ new.st = "run" /\ new.type \notin Kept /\ ~new.doomed
         /\ proc' = [proc EXCEPT ![p] = new]
  BY DEF Started
<1>3. p \in Pids
  BY ForkFacts
<1>4. proc'[p] = new /\ \A q \in Pids : q # p => proc'[q] = proc[q]
  BY <1>1, <1>2, <1>3
<1> QED
  BY <1>1, <1>2, <1>4

\* A console has been started, and run() returns its number.
LEMMA ConsoleFacts ==
    ASSUME TypeInv, ConsoleStarted
    PROVE  /\ list' = list /\ pc' = "keep"
           /\ \E p \in Fork, k \in 1 .. Len(list) :
                 /\ list[k].type \in Kept /\ waiting' = p
                 /\ proc'[p].st = "run" /\ proc'[p].id = list[k].id
                 /\ proc'[p].type = list[k].type /\ ~proc'[p].doomed
                 /\ \A q \in Pids : q # p => proc'[q] = proc[q]
<1>1. proc \in [Pids -> Proc] /\ list' = list /\ pc' = "keep"
  BY DEF TypeInv, ListType, ConsoleStarted
<1>2. PICK p \in Fork, k \in 1 .. Len(list) :
         /\ list[k].type \in Kept /\ waiting' = p
         /\ proc' = [proc EXCEPT ![p] = Process(list[k])]
  BY DEF ConsoleStarted
<1>3. p \in Pids
  BY ForkFacts
<1>4. proc'[p] = Process(list[k]) /\ \A q \in Pids : q # p => proc'[q] = proc[q]
  BY <1>1, <1>2, <1>3
<1>5. /\ Process(list[k]).st = "run" /\ Process(list[k]).id = list[k].id
      /\ Process(list[k]).type = list[k].type /\ ~Process(list[k]).doomed
  BY DEF Process
<1> QED
  BY <1>1, <1>2, <1>4, <1>5

\* A console could not be started: its entry holds -1.
LEMMA FailedFacts ==
    ASSUME TypeInv, ConsoleFailed
    PROVE  /\ proc' = proc /\ SameEntries
           /\ \E k \in 1 .. Len(list) : \A j \in 1 .. Len(list) :
                 list'[j].pid = IF j = k THEN -1 ELSE list[j].pid
           /\ \A j \in 1 .. Len(list) : list[j].pid > 0 => list'[j].pid = list[j].pid
<1>1. list \in Seq(Entry)
  BY DEF TypeInv, ListType
<1>2. PICK k \in 1 .. Len(list) : list[k].pid = 0 /\ list' = [list EXCEPT ![k].pid = -1]
  BY DEF ConsoleFailed
<1>3. -1 \in Pids \cup {0, -1}
  OBVIOUS
<1>4. SameEntries /\ \A j \in 1 .. Len(list) :
                        list'[j].pid = IF j = k THEN -1 ELSE list[j].pid
  <2>1. ASSUME NEW v \in Pids \cup {0, -1}, list' = [list EXCEPT ![k].pid = v]
        PROVE  SameEntries /\ \A j \in 1 .. Len(list) :
                                 list'[j].pid = IF j = k THEN v ELSE list[j].pid
    BY <1>1, <2>1, SetPidFacts
  <2> QED
    BY <1>2, <1>3, <2>1
<1>5. \A j \in 1 .. Len(list) : list[j].pid > 0 => list'[j].pid = list[j].pid
  BY <1>2, <1>4
<1> QED
  BY <1>2, <1>4, <1>5 DEF ConsoleFailed

\* Processes that end keep everything but their state.
LEMMA EndedFacts ==
    ASSUME TypeInv, Ended
    PROVE  /\ list' = list
           /\ \A p \in Pids :
                 /\ proc'[p].id = proc[p].id /\ proc'[p].type = proc[p].type
                 /\ proc'[p].doomed = proc[p].doomed
                 /\ proc'[p].st = proc[p].st
                    \/ (proc[p].st = "run" /\ proc'[p].st = "zombie")
<1>1. proc \in [Pids -> Proc]
  BY DEF TypeInv, ListType
<1>2. \A p \in Pids : /\ Dead(p).id = proc[p].id /\ Dead(p).type = proc[p].type
                      /\ Dead(p).doomed = proc[p].doomed /\ Dead(p).st = "zombie"
  BY <1>1 DEF Dead, Proc
<1>3. /\ list' = list
      /\ \A p \in Pids : proc'[p] = proc[p] \/ (proc[p].st = "run" /\ proc'[p] = Dead(p))
  BY DEF Ended
<1> QED
  BY <1>2, <1>3

\* The numbers in the list are numbers, those of processes are positive.
LEMMA PidType ==
    ASSUME TypeInv
    PROVE  \A j \in 1 .. Len(list) :
              /\ list[j] \in Entry /\ list[j].pid \in Int
              /\ list[j].pid > 0 => list[j].pid \in Pids
              /\ list[j].pid \in Pids => list[j].pid > 0
<1>1. \A j \in 1 .. Len(list) : list[j] \in Entry
  BY DEF TypeInv, ListType
<1>2. \A j \in 1 .. Len(list) : list[j].pid \in Pids \cup {0, -1}
  BY <1>1 DEF Entry
<1>3. \A p \in Pids \cup {0, -1} : p \in Int /\ (p > 0 <=> p \in Pids)
  BY BusyInitAssumption
<1> QED
  BY <1>1, <1>2, <1>3

\* Only run_actions, and a new init, changes what has been missed.
LEMMA MissedSame == [Next]_vars => Keep \/ Exec \/ missed' = missed
BY DEF Next, Main, vars, ends, RunOnce, RunKept, RunDone, WaitFor, CheckDone, CheckInt,
   CheckHup, Parse, KillStale, Purge, PurgeDone, ReapOne, ReapBlocks, ReapDone, Kill,
   RunFails, ExecFails, Record, GoDown, Stop, StopReaps, Cont, Exit, Daemon, Down

\* mark_terminated forgets a process when it is reaped, whoever has reaped it;
\* a number that is given to a new process is in no entry.
LEMMA OwnPidsNext == TypeInv /\ OwnPids /\ KeepInv /\ [Next]_vars => OwnPids'
<1> SUFFICES ASSUME TypeInv, OwnPids, KeepInv, [Next]_vars
             PROVE  OwnPids'
  OBVIOUS
<1>1. list \in Seq(Entry) /\ proc \in [Pids -> Proc] /\ Len(list) \in Nat
  BY DEF TypeInv, ListType
<1>13. CASE Keep
  <2>1. /\ Current \in 1 .. Len(list) /\ proc' = proc
        /\ \A j \in 1 .. Len(list) :
              list'[j].pid = IF j = Current THEN waiting ELSE list[j].pid
    BY <1>13, KeepFacts
  <2>2. Len(list') = Len(list) /\ \A j \in 1 .. Len(list) : list'[j].id = list[j].id
    BY <1>13, KeepFacts DEF SameEntries
  <2>3. /\ \A j \in 1 .. Len(list) : list[j].pid # waiting
        /\ proc[waiting].st # "free" => proc[waiting].id = list[Current].id
        /\ missed' = IF proc[waiting].st = "free" THEN missed \cup {waiting}
                     ELSE missed \ {waiting}
    BY <1>13 DEF Keep, KeepInv
  <2>4. SUFFICES ASSUME NEW j \in 1 .. Len(list), list'[j].pid > 0
                 PROVE  Own(j)'
    BY <2>2 DEF OwnPids
  <2>5. CASE j = Current
    <3>1. list'[j].pid = waiting /\ list'[j].id = list[Current].id
      BY <2>1, <2>2, <2>5
    <3> QED
      BY <2>1, <2>3, <3>1 DEF Own
  <2>6. CASE j # Current
    <3>1. list'[j].pid = list[j].pid /\ list'[j].id = list[j].id /\ list[j].pid # waiting
      BY <2>1, <2>2, <2>3, <2>6
    <3>2. list[j].pid \in missed' <=> list[j].pid \in missed
      BY <2>3, <3>1
    <3>3. Own(j)
      BY <2>4, <3>1 DEF OwnPids
    <3> QED
      BY <2>1, <3>1, <3>2, <3>3 DEF Own
  <2> QED
    BY <2>5, <2>6
<1>12. CASE Exec
  <2>1. loaded' \in Tables /\ list' = Entries(loaded')
    BY <1>12 DEF Exec
  <2>2. Len(list') = Len(loaded') /\ \A j \in 1 .. Len(loaded') : list'[j].pid = 0
    BY <2>1, EntriesFacts
  <2> QED
    BY <2>2 DEF OwnPids
<1> SUFFICES ASSUME missed' = missed
             PROVE  OwnPids'
  BY <1>12, <1>13, MissedSame
<1>14. ASSUME NEW m \in 1 .. Len(list), NEW j \in 1 .. Len(list'), list'[j].pid > 0,
              list'[j].pid = list[m].pid, list'[j].id = list[m].id,
              proc[list[m].pid].st = "free" => proc'[list[m].pid].st = "free",
              proc[list[m].pid].st # "free" =>
                 /\ proc'[list[m].pid].st # "free"
                 /\ proc'[list[m].pid].id = proc[list[m].pid].id
       PROVE  Own(j)'
  <2>1. Own(m)
    BY <1>14 DEF OwnPids
  <2> QED
    BY <1>14, <2>1 DEF Own
<1>2. CASE UNCHANGED <<list, proc>>
  BY <1>2 DEF OwnPids, Own
<1>3. CASE \E z \in Zombies : Reap(z)
  <2>1. PICK z \in Pids : Reap(z)
    BY <1>3 DEF Zombies
  <2>2. z > 0
    BY BusyInitAssumption
  <2>3. SUFFICES ASSUME NEW j \in 1 .. Len(list), list'[j].pid > 0
                 PROVE  Own(j)'
    BY <1>1, <2>1, ReapFacts DEF OwnPids
  <2>4. list'[j].pid = list[j].pid /\ list[j].pid # z /\ list'[j].id = list[j].id
    BY <1>1, <2>1, <2>3, ReapFacts
  <2>5. list[j].pid \in Pids
    BY <2>3, <2>4, PidType
  <2>6. proc'[list[j].pid] = proc[list[j].pid]
    BY <1>1, <2>1, <2>4, <2>5, ReapFacts
  <2>7. Len(list') = Len(list)
    BY <1>1, <2>1, ReapFacts
  <2> QED
    BY <1>14, <2>3, <2>4, <2>6, <2>7
<1>4. CASE Started
  <2>1. PICK p \in Fork : \A q \in Pids : q # p => proc'[q] = proc[q]
    BY <1>4, StartedFacts
  <2>2. list' = list
    BY <1>4, StartedFacts
  <2>3. \A j \in 1 .. Len(list) : list[j].pid > 0 => proc'[list[j].pid] = proc[list[j].pid]
    BY <2>1, ForkFacts, PidType
  <2> QED
    BY <1>14, <2>2, <2>3 DEF OwnPids
<1>5. CASE ConsoleStarted
  <2>1. PICK p \in Fork : \A q \in Pids : q # p => proc'[q] = proc[q]
    BY <1>5, ConsoleFacts
  <2>2. list' = list
    BY <1>5, ConsoleFacts
  <2>3. \A j \in 1 .. Len(list) : list[j].pid > 0 => proc'[list[j].pid] = proc[list[j].pid]
    BY <2>1, ForkFacts, PidType
  <2> QED
    BY <1>14, <2>2, <2>3 DEF OwnPids
<1>6. CASE ConsoleFailed
  <2>1. PICK k \in 1 .. Len(list) : \A j \in 1 .. Len(list) :
           list'[j].pid = IF j = k THEN -1 ELSE list[j].pid
    BY <1>6, FailedFacts
  <2>2. Len(list') = Len(list) /\ proc' = proc
        /\ \A j \in 1 .. Len(list) : list'[j].id = list[j].id
    BY <1>6, FailedFacts DEF SameEntries
  <2>3. \A j \in 1 .. Len(list) : list'[j].pid > 0 => list'[j].pid = list[j].pid
    BY <2>1
  <2> QED
    BY <1>14, <2>2, <2>3 DEF OwnPids
<1>7. CASE Ended
  <2>1. list' = list
    BY <1>7, EndedFacts
  <2>2. \A j \in 1 .. Len(list) : list[j].pid > 0 =>
           /\ proc'[list[j].pid].id = proc[list[j].pid].id
           /\ proc[list[j].pid].st # "free" => proc'[list[j].pid].st # "free"
           /\ proc[list[j].pid].st = "free" => proc'[list[j].pid].st = "free"
    BY <1>7, EndedFacts, PidType
  <2> QED
    BY <1>14, <2>1, <2>2 DEF OwnPids
<1>8. CASE CheckHup
  <2>1. /\ Len(list') = Len(list) /\ proc' = proc
        /\ \A j \in 1 .. Len(list) : list'[j].id = list[j].id /\ list'[j].pid = list[j].pid
    BY <1>1, <1>8, HupFacts DEF CheckHup
  <2> QED
    BY <1>14, <2>1 DEF OwnPids
<1>9. CASE Parse
  <2> DEFINE n == Len(list')
  <2>1. n \in Nat /\ n > 0 /\ proc' = proc /\ list'[n].id = Head(lines).id
    BY <1>9, ParseStep
  <2>2. SUFFICES ASSUME NEW j \in 1 .. n, list'[j].pid > 0
                 PROVE  \E m \in 1 .. Len(list) :
                           list[m].pid = list'[j].pid /\ list[m].id = list'[j].id
    BY <1>14, <2>1 DEF OwnPids
  <2>3. j = n \/ j \in 1 .. n - 1
    BY <2>1
  <2>4. CASE n = Len(list) + 1 /\ list'[n].pid = 0
             /\ \A l \in 1 .. n - 1 : list'[l] = list[l]
    <3>1. n - 1 = Len(list) /\ j # n
      BY <1>1, <2>2, <2>4
    <3> QED
      BY <2>3, <2>4, <3>1
  <2>5. ASSUME n = Len(list), NEW k \in 1 .. Len(list), list[k].id = Head(lines).id,
               list'[n].pid = list[k].pid, \A l \in 1 .. n - 1 : list'[l] = list[Old(l, k)]
        PROVE  \E m \in 1 .. Len(list) :
                  list[m].pid = list'[j].pid /\ list[m].id = list'[j].id
    <3>1. CASE j = n
      BY <2>1, <2>5, <3>1
    <3>2. CASE j \in 1 .. n - 1
      <4>1. Old(j, k) \in 1 .. Len(list)
        BY <1>1, <2>5, <3>2, OldFacts
      <4> QED
        BY <2>5, <3>2, <4>1
    <3> QED
      BY <2>3, <3>1, <3>2
  <2> QED
    BY <1>9, <2>4, <2>5, ParseStep
<1>10. CASE KillStale
  <2>1. list' = list
    BY <1>1, <1>10, KillFacts
  <2>2. \A j \in 1 .. Len(list) : list[j].pid > 0 =>
           /\ proc'[list[j].pid].id = proc[list[j].pid].id
           /\ proc'[list[j].pid].st = proc[list[j].pid].st
    BY <1>1, <1>10, KillFacts, PidType
  <2> QED
    BY <1>14, <2>1, <2>2 DEF OwnPids
<1>11. CASE Purge
  <2>1. proc' = proc /\ Len(list') = Len(list) - 1
    BY <1>11, PurgeStep
  <2>2. PICK k \in 1 .. Len(list) : \A j \in 1 .. Len(list) - 1 : list'[j] = list[Old(j, k)]
    BY <1>11, PurgeStep
  <2>3. \A j \in 1 .. Len(list) - 1 : Old(j, k) \in 1 .. Len(list)
    BY <1>1, OldFacts
  <2> QED
    BY <1>14, <2>1, <2>2, <2>3 DEF OwnPids
<1> QED
  BY <1>2, <1>3, <1>4, <1>5, <1>6, <1>7, <1>8, <1>9, <1>10, <1>11, <1>12, <1>13, StepEffect
     DEF Effect

\* A console's number is its entry's alone, from the fork until it is entered.
LEMMA KeepNext == TypeInv /\ KeepInv /\ [Next]_vars => KeepInv'
<1> SUFFICES ASSUME TypeInv, KeepInv, [Next]_vars, pc' = "keep"
             PROVE  KeepInv'
  BY DEF KeepInv
<1>1. list \in Seq(Entry) /\ proc \in [Pids -> Proc]
  BY DEF TypeInv, ListType
<1>2. CASE pc = "keep"
  <2>1. waiting \in Pids /\ waiting > 0 /\ Matches # {}
    BY <1>2, BusyInitAssumption DEF TypeInv, ControlType, CallInv
  <2>2. Quiet
    BY <1>2, KeepLeft DEF Keep, GoDown
  <2>3. Current' = Current /\ waiting' = waiting /\ Current \in 1 .. Len(list)
    BY <1>2, <2>1, <2>2, SameCurrent, CurrentFacts DEF Quiet
  <2>4. /\ Len(list') = Len(list)
        /\ \A j \in 1 .. Len(list) : list'[j].id = list[j].id
        /\ \A j \in 1 .. Len(list) : list'[j].pid \in {0, list[j].pid}
    BY <2>2 DEF Quiet, SameEntries
  <2>5. proc'[waiting].st # "free" =>
           proc[waiting].st # "free" /\ proc'[waiting].id = proc[waiting].id
    BY <2>1, <2>2 DEF Quiet
  <2>6. /\ list[Current].pid = 0
        /\ \A j \in 1 .. Len(list) : list[j].pid # waiting
        /\ proc[waiting].st # "free" => proc[waiting].id = list[Current].id
    BY <1>2 DEF KeepInv
  <2>7. list'[Current].pid = 0 /\ list'[Current].id = list[Current].id
    BY <2>3, <2>4, <2>6
  <2>8. \A j \in 1 .. Len(list') : list'[j].pid # waiting
    BY <2>1, <2>4, <2>6
  <2> QED
    BY <2>3, <2>5, <2>6, <2>7, <2>8 DEF KeepInv
<1>3. CASE pc # "keep"
  <2>1. RunKept /\ pc = "run" /\ list[Current].pid = 0 /\ UNCHANGED <<list, i, mask>>
    BY <1>3, KeepEntered
  <2>2. Current' = Current
    BY <2>1 DEF Current, Matches
  <2>3. PICK p \in Fork : proc' = [proc EXCEPT ![p] = Process(list[Current])]
                          /\ waiting' = p
    BY <2>1 DEF RunKept
  <2>4. p \in Pids /\ \A j \in 1 .. Len(list) : list[j].pid # p
    BY ForkFacts
  <2>5. proc'[p] = Process(list[Current])
    BY <1>1, <2>3, <2>4
  <2>6. Process(list[Current]).id = list[Current].id
    BY DEF Process
  <2> QED
    BY <2>1, <2>2, <2>3, <2>4, <2>5, <2>6 DEF KeepInv
<1> QED
  BY <1>2, <1>3

\* Where a console comes from: it was one before, or it has just been started.
LEMMA ConsoleOrigin ==
    ASSUME TypeInv, [Next]_vars, NEW p \in Pids, Console(p)'
    PROVE  \/ Console(p) /\ proc'[p].id = proc[p].id /\ proc'[p].type = proc[p].type
           \/ \E k \in 1 .. Len(list) :
                 /\ list[k].type \in Kept /\ pc' = "keep" /\ waiting' = p
                 /\ proc'[p].id = list[k].id /\ proc'[p].type = list[k].type
<1>1. list \in Seq(Entry) /\ proc \in [Pids -> Proc]
  BY DEF TypeInv, ListType
<1>2. proc'[p].st = "run" /\ proc'[p].type \in Kept /\ ~proc'[p].doomed
  BY DEF Console
<1>3. CASE proc'[p] = proc[p]
  BY <1>2, <1>3 DEF Console
<1>4. CASE \E z \in Zombies : Reap(z)
  <2>1. PICK z \in Pids : Reap(z)
    BY <1>4 DEF Zombies
  <2>2. proc'[z].st = "free" /\ \A q \in Pids : q # z => proc'[q] = proc[q]
    BY <1>1, <2>1, ReapFacts
  <2> QED
    BY <1>2, <1>3, <2>2
<1>5. CASE Started
  <2>1. PICK q \in Fork : /\ proc'[q].type \notin Kept
                          /\ \A r \in Pids : r # q => proc'[r] = proc[r]
    BY <1>5, StartedFacts
  <2> QED
    BY <1>2, <1>3, <2>1
<1>6. CASE ConsoleStarted
  <2>1. PICK q \in Fork, k \in 1 .. Len(list) :
           /\ list[k].type \in Kept /\ waiting' = q
           /\ proc'[q].id = list[k].id /\ proc'[q].type = list[k].type
           /\ \A m \in Pids : m # q => proc'[m] = proc[m]
    BY <1>6, ConsoleFacts
  <2>2. pc' = "keep"
    BY <1>6, ConsoleFacts
  <2> QED
    BY <1>3, <2>1, <2>2
<1>7. CASE Ended
  BY <1>2, <1>7, EndedFacts DEF Console
<1>8. CASE KillStale
  BY <1>1, <1>2, <1>8, KillFacts DEF Console
<1>9. CASE proc' = proc
  BY <1>3, <1>9
<1> QED
  BY <1>4, <1>5, <1>6, <1>7, <1>8, <1>9, StepEffect
     DEF Effect, ConsoleFailed, Keep, CheckHup, Parse, Purge, Exec

\* The line that is read next is one of inittab.
LEMMA NextLine ==
    ASSUME TypeInv, LoadInv, Parse
    PROVE  /\ Read + 1 \in 1 .. Len(loaded) /\ Head(lines) = loaded[Read + 1]
           /\ Read' = Read + 1 /\ loaded' = loaded /\ Read \in 0 .. Len(loaded)
<1>1. pc = "parse" /\ lines # <<>> /\ lines' = Tail(lines) /\ loaded' = loaded
  BY DEF Parse, ends
<1>2. /\ lines \in Seq(Line) /\ loaded \in Tables
      /\ Read \in 0 .. Len(loaded) /\ \A k \in 1 .. Len(lines) : lines[k] = loaded[Read + k]
  BY <1>1 DEF TypeInv, ListType, LoadInv
<1>3. /\ Head(lines) = lines[1] /\ Len(Tail(lines)) = Len(lines) - 1
      /\ Len(lines) \in Nat /\ Len(lines) > 0
  BY <1>1, <1>2, LineFacts
<1>4. Len(loaded) \in Nat
  BY <1>2, TableFacts
<1>5. 1 \in 1 .. Len(lines)
  BY <1>3
<1>6. Read' = Read + 1
  BY <1>1, <1>3, <1>4 DEF Read
<1>7. Read + 1 \in 1 .. Len(loaded)
  BY <1>2, <1>3, <1>4 DEF Read
<1> QED
  BY <1>1, <1>2, <1>3, <1>5, <1>6, <1>7

\* Nothing but inittab makes an entry, nothing but an entry a console.
LEMMA GivenNext == TypeInv /\ LoadInv /\ Given /\ [Next]_vars => Given'
<1> SUFFICES ASSUME TypeInv, LoadInv, Given, [Next]_vars
             PROVE  Given'
  OBVIOUS
<1> DEFINE Has(id, type) == \E t \in Tables : \E k \in 1 .. Len(t) :
                               t[k].id = id /\ t[k].type = type
<1>1. list \in Seq(Entry) /\ Len(list) \in Nat
  BY DEF TypeInv, ListType
<1>2. /\ \A j \in 1 .. Len(list) : list[j].type # Stale => Has(list[j].id, list[j].type)
      /\ \A p \in Pids : Console(p) => Has(proc[p].id, proc[p].type)
  BY DEF Given
<1> HIDE DEF Has
<1>3. ASSUME NEW j \in 1 .. Len(list'), list'[j].type # Stale
      PROVE  Has(list'[j].id, list'[j].type)
  <2>1. CASE SameEntries
    BY <1>2, <1>3, <2>1 DEF SameEntries
  <2>2. CASE CheckHup
    BY <1>1, <1>3, <2>2, HupFacts
  <2>3. CASE Parse
    <3> DEFINE n == Len(list')
    <3>1. n \in Nat /\ list'[n].id = Head(lines).id /\ list'[n].type = Head(lines).type
      BY <2>3, ParseStep
    <3>2. j = n \/ j \in 1 .. n - 1
      BY <1>3, <3>1
    <3>3. CASE j = n
      <4>1. loaded \in Tables /\ Read + 1 \in 1 .. Len(loaded)
            /\ Head(lines) = loaded[Read + 1]
        BY <2>3, NextLine DEF TypeInv, ListType
      <4> QED
        BY <3>1, <3>3, <4>1 DEF Has
    <3>4. CASE j \in 1 .. n - 1
      <4>1. \E m \in 1 .. Len(list) : list'[j] = list[m]
        <5>1. CASE n = Len(list) + 1 /\ \A l \in 1 .. n - 1 : list'[l] = list[l]
          <6>1. n - 1 = Len(list)
            BY <1>1, <5>1
          <6> QED
            BY <3>4, <5>1, <6>1
        <5>2. ASSUME n = Len(list), NEW k \in 1 .. Len(list),
                     \A l \in 1 .. n - 1 : list'[l] = list[Old(l, k)]
              PROVE  \E m \in 1 .. Len(list) : list'[j] = list[m]
          <6>1. Old(j, k) \in 1 .. Len(list)
            BY <1>1, <3>4, <5>2, OldFacts
          <6> QED
            BY <3>4, <5>2, <6>1
        <5> QED
          BY <2>3, <5>1, <5>2, ParseStep
      <4> QED
        BY <1>2, <1>3, <4>1
    <3> QED
      BY <3>2, <3>3, <3>4
  <2>4. CASE Purge
    <3>1. Len(list') = Len(list) - 1
      BY <2>4, PurgeStep
    <3>2. PICK k \in 1 .. Len(list) : \A l \in 1 .. Len(list) - 1 : list'[l] = list[Old(l, k)]
      BY <2>4, PurgeStep
    <3>3. Old(j, k) \in 1 .. Len(list) /\ list'[j] = list[Old(j, k)]
      BY <1>1, <3>1, <3>2, OldFacts
    <3> QED
      BY <1>2, <1>3, <3>3
  <2>5. CASE Exec
    <3>1. loaded' \in Tables /\ list' = Entries(loaded')
      BY <2>5 DEF Exec
    <3>2. j \in 1 .. Len(loaded') /\ list'[j].id = loaded'[j].id
          /\ list'[j].type = loaded'[j].type
      BY <3>1, EntriesFacts
    <3> QED
      BY <3>1, <3>2 DEF Has
  <2> QED
    BY <2>1, <2>2, <2>3, <2>4, <2>5, SameLength
<1>4. ASSUME NEW p \in Pids, Console(p)'
      PROVE  Has(proc'[p].id, proc'[p].type)
  <2>1. CASE Console(p) /\ proc'[p].id = proc[p].id /\ proc'[p].type = proc[p].type
    BY <1>2, <2>1
  <2>2. CASE \E k \in 1 .. Len(list) :
                /\ list[k].type \in Kept
                /\ proc'[p].id = list[k].id /\ proc'[p].type = list[k].type
    <3>1. Stale \notin Kept
      BY DEF Stale, Kept
    <3> QED
      BY <1>2, <2>2, <3>1
  <2> QED
    BY <1>4, <2>1, <2>2, ConsoleOrigin
<1> QED
  BY <1>3, <1>4 DEF Given, Has

\* How init comes to read inittab, or goes on reading it.
LEMMA ParseComes ==
    ASSUME TypeInv, [Next]_vars, pc' = "parse"
    PROVE  \/ CheckHup \/ Parse
           \/ pc = "parse" /\ SameEntries /\ UNCHANGED <<loaded, lines>>
<1>1. CASE CheckHup \/ Parse
  BY <1>1
<1>2. ~Purge /\ ~Exec
  BY DEF Purge, Exec
<1>3. CallInv
  BY DEF TypeInv
<1>4. ASSUME ~CheckHup, ~Parse
      PROVE  pc = "parse" /\ UNCHANGED <<loaded, lines>>
  <2>1. CASE Record \/ Cont
    BY <1>3, <2>1 DEF Record, Cont, Interrupted, CallInv, ends
  <2>2. CASE WaitFor \/ CheckDone \/ CheckInt
    BY <2>2 DEF WaitFor, CheckDone, CheckInt
  <2>3. CASE RunOnce \/ RunKept \/ Keep \/ RunFails \/ RunDone \/ KillStale \/ PurgeDone
    BY <2>3 DEF RunOnce, RunKept, Keep, RunFails, RunDone, KillStale, PurgeDone
  <2>4. CASE ReapOne \/ ReapBlocks \/ ReapDone \/ Kill \/ ExecFails \/ GoDown
    BY <2>4 DEF ReapOne, ReapBlocks, ReapDone, Kill, ExecFails, GoDown
  <2>5. CASE Stop \/ StopReaps \/ Daemon \/ (\E p \in Pids : Exit(p))
    BY <2>5 DEF Stop, StopReaps, Daemon, Exit, ends
  <2>6. CASE Down \/ UNCHANGED vars
    BY <2>6 DEF Down, vars
  <2> QED
    BY <1>2, <1>4, <2>1, <2>2, <2>3, <2>4, <2>5, <2>6 DEF Next, Main
<1> QED
  BY <1>1, <1>2, <1>4, SameLength

\* The lines that have been read stay at the end of the list, in their order:
\* an entry that is moved there is always taken from the stale ones.
LEMMA LoadNext == TypeInv /\ LoadInv /\ [Next]_vars => LoadInv'
<1> SUFFICES ASSUME TypeInv, LoadInv, [Next]_vars, pc' = "parse"
             PROVE  LoadInv'
  BY DEF LoadInv
<1>1. list \in Seq(Entry) /\ Len(list) \in Nat /\ loaded \in Tables
  BY DEF TypeInv, ListType
<1>2. CASE CheckHup
  <2>1. loaded' \in Tables /\ lines' = loaded'
    BY <1>2 DEF CheckHup
  <2>2. Len(loaded') \in Nat
    BY <2>1, TableFacts
  <2>3. Read' = 0
    BY <2>1, <2>2 DEF Read
  <2>4. Len(list') = Len(list) /\ \A j \in 1 .. Len(list) : list'[j].type = Stale
    BY <1>1, <1>2, HupFacts
  <2>5. \A k \in 1 .. Len(loaded') : 0 + k = k
    BY <2>2
  <2>6. \A k \in 1 .. Len(lines') : lines'[k] = loaded'[Read' + k]
    BY <2>1, <2>3, <2>5
  <2>7. \A k \in 1 .. Read' : FALSE
    BY <2>3
  <2>8. 0 \in 0 .. Len(loaded') /\ 0 <= Len(list') /\ Len(list') - 0 = Len(list)
    BY <1>1, <2>2, <2>4
  <2> QED
    BY <2>3, <2>4, <2>6, <2>7, <2>8 DEF LoadInv
<1>3. CASE pc = "parse" /\ SameEntries /\ UNCHANGED <<loaded, lines>>
  <2>1. Read' = Read /\ Len(list') = Len(list)
    BY <1>3 DEF Read, SameEntries
  <2>2. Read \in 0 .. Len(loaded) /\ Len(loaded) \in Nat /\ Read <= Len(list)
    BY <1>1, <1>3, TableFacts DEF LoadInv
  <2>3. /\ \A k \in 1 .. Read : Len(list) - Read + k \in 1 .. Len(list)
        /\ \A k \in 1 .. Len(list) - Read : k \in 1 .. Len(list)
    BY <1>1, <2>2
  <2>4. /\ \A k \in 1 .. Len(lines) : lines[k] = loaded[Read + k]
        /\ \A k \in 1 .. Read :
              /\ list[Len(list) - Read + k].id = loaded[k].id
              /\ list[Len(list) - Read + k].type = loaded[k].type
        /\ \A k \in 1 .. Len(list) - Read : list[k].type = Stale
    BY <1>3 DEF LoadInv
  <2> HIDE DEF Read
  <2>5. /\ \A k \in 1 .. Read :
              /\ list'[Len(list) - Read + k].id = loaded[k].id
              /\ list'[Len(list) - Read + k].type = loaded[k].type
        /\ \A k \in 1 .. Len(list) - Read : list'[k].type = Stale
    BY <1>3, <2>3, <2>4 DEF SameEntries
  <2>6. loaded' = loaded /\ lines' = lines
    BY <1>3
  <2> QED
    BY <2>1, <2>2, <2>4, <2>5, <2>6 DEF LoadInv
<1>4. CASE Parse
  <2> DEFINE n == Len(list')
             r == Read
             L == Len(list)
  <2>1. /\ r + 1 \in 1 .. Len(loaded) /\ Head(lines) = loaded[r + 1]
        /\ Read' = r + 1 /\ loaded' = loaded
    BY <1>4, NextLine
  <2>2. /\ Len(loaded) \in Nat
        /\ \A j, k \in 1 .. Len(loaded) : loaded[j].id = loaded[k].id => j = k
    BY <1>1, TableFacts
  <2>3. /\ r \in 0 .. Len(loaded) /\ r <= L
        /\ \A k \in 1 .. Len(lines) : lines[k] = loaded[r + k]
        /\ \A k \in 1 .. r : list[L - r + k].id = loaded[k].id
                             /\ list[L - r + k].type = loaded[k].type
        /\ \A k \in 1 .. L - r : list[k].type = Stale
    BY <1>4 DEF LoadInv, Parse
  <2>4. /\ n \in Nat /\ n > 0
        /\ list'[n].id = loaded[r + 1].id /\ list'[n].type = loaded[r + 1].type
    BY <1>4, <2>1, ParseStep
  <2>5. \A k \in 1 .. Len(lines') : lines'[k] = loaded[r + 1 + k]
    <3>1. /\ Len(lines') = Len(lines) - 1 /\ Len(lines) \in Nat
          /\ \A k \in 1 .. Len(lines) - 1 : lines'[k] = lines[k + 1]
      BY <1>4, LineFacts DEF TypeInv, ListType, Parse
    <3>2. r \in Nat
      BY <2>2, <2>3
    <3>3. \A k \in 1 .. Len(lines) - 1 : k + 1 \in 1 .. Len(lines) /\ r + (k + 1) = r + 1 + k
      BY <3>1, <3>2
    <3> HIDE DEF r
    <3> QED
      BY <2>3, <3>1, <3>3
  <2>6. r \in Nat /\ L \in Nat
    BY <1>1, <2>2, <2>3
  <2> SUFFICES /\ r + 1 <= n
               /\ \A k \in 1 .. r + 1 : list'[n - (r + 1) + k].id = loaded[k].id
                                        /\ list'[n - (r + 1) + k].type = loaded[k].type
               /\ \A k \in 1 .. n - (r + 1) : list'[k].type = Stale
    <3>1. r + 1 \in 0 .. Len(loaded)
      BY <2>1, <2>2
    <3> HIDE DEF n, r
    <3> QED
      BY <2>1, <2>5, <3>1 DEF LoadInv, n
  <2> HIDE DEF n, r, L
  <2>7. n - (r + 1) + (r + 1) = n
    BY <2>4, <2>6
  <2>8. CASE n = L + 1 /\ \A j \in 1 .. n - 1 : list'[j] = list[j]
    <3>1. r + 1 <= n /\ n - (r + 1) = L - r
      <4>1. n = L + 1 /\ r <= L /\ r \in Nat /\ L \in Nat
        BY <2>3, <2>6, <2>8
      <4> QED
        BY <4>1
    <3>2. ASSUME NEW k \in 1 .. r + 1
          PROVE  list'[n - (r + 1) + k].id = loaded[k].id
                 /\ list'[n - (r + 1) + k].type = loaded[k].type
      <4>1. CASE k = r + 1
        BY <2>4, <2>7, <4>1
      <4>2. CASE k # r + 1
        <5>1. k \in 1 .. r /\ L - r + k \in 1 .. n - 1
          BY <2>3, <2>6, <2>8, <4>2
        <5> QED
          BY <2>3, <2>8, <3>1, <5>1
      <4> QED
        BY <4>1, <4>2
    <3>3. ASSUME NEW k \in 1 .. n - (r + 1)
          PROVE  list'[k].type = Stale
      <4>1. k \in 1 .. L - r /\ k \in 1 .. n - 1
        BY <2>6, <2>8, <3>1
      <4> QED
        BY <2>3, <2>8, <4>1
    <3> QED
      BY <3>1, <3>2, <3>3
  <2>9. ASSUME n = L, NEW k0 \in 1 .. L, list[k0].id = loaded[r + 1].id,
               \A j \in 1 .. n - 1 : list'[j] = list[Old(j, k0)]
        PROVE  /\ r + 1 <= n
               /\ \A k \in 1 .. r + 1 : list'[n - (r + 1) + k].id = loaded[k].id
                                        /\ list'[n - (r + 1) + k].type = loaded[k].type
               /\ \A k \in 1 .. n - (r + 1) : list'[k].type = Stale
    <3>1. k0 <= L - r
      <4> SUFFICES ASSUME ~ (k0 <= L - r)
                   PROVE  FALSE
        OBVIOUS
      <4>1. k0 - (L - r) \in 1 .. r /\ L - r + (k0 - (L - r)) = k0
            /\ k0 - (L - r) \in 1 .. Len(loaded) /\ k0 - (L - r) # r + 1
        BY <2>1, <2>2, <2>3, <2>6, <2>9
      <4>2. list[k0].id = loaded[k0 - (L - r)].id
        BY <2>3, <4>1
      <4> QED
        BY <2>1, <2>2, <2>9, <4>1, <4>2
    <3>2. r + 1 <= n /\ n - (r + 1) = L - r - 1
      BY <2>6, <2>9, <3>1
    <3>3. ASSUME NEW k \in 1 .. r + 1
          PROVE  list'[n - (r + 1) + k].id = loaded[k].id
                 /\ list'[n - (r + 1) + k].type = loaded[k].type
      <4>1. CASE k = r + 1
        BY <2>4, <2>7, <4>1
      <4>2. CASE k # r + 1
        <5> DEFINE x == n - (r + 1) + k
        <5>1. k \in 1 .. r /\ x \in 1 .. n - 1 /\ ~ (x < k0) /\ x + 1 = L - r + k
          BY <2>3, <2>6, <2>9, <3>1, <3>2, <4>2
        <5> HIDE DEF x
        <5>2. list'[x] = list[L - r + k]
          BY <2>9, <5>1 DEF Old
        <5> QED
          BY <2>3, <5>1, <5>2 DEF x
      <4> QED
        BY <4>1, <4>2
    <3>4. ASSUME NEW k \in 1 .. n - (r + 1)
          PROVE  list'[k].type = Stale
      <4>1. k \in 1 .. n - 1 /\ Old(k, k0) \in 1 .. L - r
        BY <2>6, <2>9, <3>1, <3>2 DEF Old
      <4> QED
        BY <2>3, <2>9, <4>1
    <3> QED
      BY <3>2, <3>3, <3>4
  <2> QED
    <3>1. \/ n = L + 1 /\ \A j \in 1 .. n - 1 : list'[j] = list[j]
          \/ n = L /\ \E k0 \in 1 .. L : /\ list[k0].id = loaded[r + 1].id
                                         /\ \A j \in 1 .. n - 1 : list'[j] = list[Old(j, k0)]
      BY <1>4, <2>1, ParseStep DEF n, L
    <3> QED
      BY <2>8, <2>9, <3>1
<1> QED
  BY <1>2, <1>3, <1>4, ParseComes

-----------------------------------------------------------------------------

\* "wait for all processes to be killed": another init finds none.
LEMMA NobodyNext == TypeInv /\ NobodyLeft /\ [Next]_vars => NobodyLeft'
<1> SUFFICES ASSUME TypeInv, NobodyLeft, [Next]_vars, pc' = "exec"
             PROVE  Alive' = {}
  BY DEF NobodyLeft
<1>1. proc \in [Pids -> Proc] /\ list \in Seq(Entry) /\ CallInv
  BY DEF TypeInv, ListType
<1>2. CASE Kill
  <2>1. proc' = [p \in Pids |-> IF p \in Alive THEN Dead(p) ELSE proc[p]]
    BY <1>2 DEF Kill, Dead
  <2>2. \A p \in Pids : Dead(p).st = "zombie"
    BY <1>1 DEF Dead, Proc
  <2>3. \A p \in Pids : proc'[p].st # "run"
    BY <2>1, <2>2 DEF Alive
  <2> QED
    BY <2>3 DEF Alive
<1>3. CASE StopReaps
  <2>1. pc = "exec" /\ \E z \in Pids : Reap(z)
    BY <1>3 DEF StopReaps, Zombies
  <2>2. \A p \in Pids : proc'[p].st = "run" => proc[p].st = "run"
    BY <1>1, <2>1, ReapFacts
  <2> QED
    BY <2>1, <2>2 DEF NobodyLeft, Alive
<1>4. CASE Record \/ Cont
  <2>1. pc = "exec" /\ proc' = proc
    BY <1>1, <1>4 DEF Record, Cont, Interrupted, CallInv
  <2> QED
    BY <2>1 DEF NobodyLeft, Alive
<1>5. CASE Stop \/ Down \/ UNCHANGED vars
  BY <1>5 DEF Stop, Down, vars, NobodyLeft, Alive
<1>6. ~RunOnce /\ ~RunKept /\ ~Keep /\ ~RunFails /\ ~RunDone /\ ~WaitFor
  BY DEF RunOnce, RunKept, Keep, RunFails, RunDone, WaitFor
<1>7. ~CheckDone /\ ~CheckInt /\ ~CheckHup /\ ~Parse /\ ~KillStale /\ ~Purge /\ ~PurgeDone
  BY DEF CheckDone, CheckInt, CheckHup, Parse, KillStale, Purge, PurgeDone
<1>8. ~ReapOne /\ ~ReapBlocks /\ ~ReapDone /\ ~Exec /\ ~ExecFails /\ ~GoDown /\ ~Daemon
  BY DEF ReapOne, ReapBlocks, ReapDone, Exec, ExecFails, GoDown, Daemon
<1>9. ~ (\E p \in Pids : Exit(p))
  BY DEF Exit
<1> QED
  BY <1>2, <1>3, <1>4, <1>5, <1>6, <1>7, <1>8, <1>9 DEF Next, Main

\* What happens while entries are removed.
LEMMA PurgeComes ==
    ASSUME TypeInv, [Next]_vars, pc' = "purge"
    PROVE  \/ KillStale \/ Purge
           \/ /\ pc = "purge" /\ SameEntries
              /\ \A j \in 1 .. Len(list) : list'[j].pid > 0 => list'[j].pid = list[j].pid
              /\ \A p \in Pids : Console(p)' => Console(p)
<1>1. proc \in [Pids -> Proc] /\ list \in Seq(Entry) /\ CallInv
  BY DEF TypeInv, ListType
<1>2. CASE UNCHANGED <<pc, list, proc>>
  BY <1>2 DEF SameEntries, Console
<1>3. CASE StopReaps
  <2>1. PICK z \in Pids : Reap(z)
    BY <1>3 DEF StopReaps, Zombies
  <2>2. SameEntries
    BY <1>1, <2>1, ReapFacts DEF SameEntries
  <2>3. \A j \in 1 .. Len(list) : list'[j].pid > 0 => list'[j].pid = list[j].pid
    BY <1>1, <2>1, ReapFacts
  <2>4. \A p \in Pids : Console(p)' => Console(p)
    BY <1>1, <2>1, ReapFacts DEF Console
  <2> QED
    BY <1>3, <2>2, <2>3, <2>4 DEF StopReaps
<1>4. CASE Record \/ Cont
  BY <1>1, <1>2, <1>4 DEF Record, Cont, Interrupted, CallInv
<1>5. CASE Stop \/ Down \/ UNCHANGED vars
  BY <1>2, <1>5 DEF Stop, Down, vars
<1>6. CASE \E p \in Pids : Exit(p)
  <2>1. PICK p \in Pids : Exit(p)
    BY <1>6
  <2>2. list' = list /\ pc' = pc /\ proc' = [proc EXCEPT ![p] = Dead(p)]
    BY <1>1, <2>1 DEF Exit, Dead
  <2>3. Dead(p).st = "zombie"
    BY <1>1 DEF Dead, Proc
  <2>4. \A q \in Pids : proc'[q].st = "run" => proc'[q] = proc[q]
    BY <1>1, <2>2, <2>3
  <2>5. \A q \in Pids : Console(q)' => Console(q)
    BY <2>4 DEF Console
  <2> QED
    BY <2>2, <2>5 DEF SameEntries
<1>7. ~RunOnce /\ ~RunKept /\ ~Keep /\ ~RunFails /\ ~RunDone /\ ~WaitFor
  BY DEF RunOnce, RunKept, Keep, RunFails, RunDone, WaitFor
<1>8. ~CheckDone /\ ~CheckInt /\ ~CheckHup /\ ~Parse /\ ~PurgeDone
  BY DEF CheckDone, CheckInt, CheckHup, Parse, PurgeDone
<1>9. ~ReapOne /\ ~ReapBlocks /\ ~ReapDone /\ ~Exec /\ ~ExecFails /\ ~GoDown /\ ~Daemon /\ ~Kill
  BY DEF ReapOne, ReapBlocks, ReapDone, Exec, ExecFails, GoDown, Daemon, Kill
<1> QED
  BY <1>3, <1>4, <1>5, <1>6, <1>7, <1>8, <1>9 DEF Next, Main

\* The system starts to go down once.
LEMMA GoingSame == [Next]_vars => GoDown \/ Exec \/ going' = going
BY DEF Next, Main, vars, ends, RunOnce, RunKept, Keep, RunDone, WaitFor, CheckDone, CheckInt,
   CheckHup, Parse, KillStale, Purge, PurgeDone, ReapOne, ReapBlocks, ReapDone, Kill,
   RunFails, ExecFails, Record, Stop, StopReaps, Cont, Exit, Daemon, Down

\* A console keeps its place in the list for as long as it runs.
LEMMA ListedNext ==
    ASSUME SameKind, EntryInv, NobodyLeft, ConsolesListed, [Next]_vars
    PROVE  ConsolesListed'
<1>1. /\ TypeInv /\ list \in Seq(Entry) /\ proc \in [Pids -> Proc] /\ Len(list) \in Nat
      /\ OwnPids /\ KeepInv /\ Given
  BY DEF EntryInv, TypeInv, ListType
<1>2. ASSUME NEW p \in Pids, Console(p)'
      PROVE  Listed(p)'
  <2>1. CASE pc' = "keep" /\ waiting' = p
    BY <2>1 DEF Listed
  <2>2. CASE going' # "no"
    BY <2>2 DEF Listed
  <2>3. ASSUME Console(p), going' = "no"
        PROVE  \/ Exec \/ (pc = "keep" /\ p = waiting)
               \/ \E j \in 1 .. Len(list) : list[j].pid = p
    <3>1. Exec \/ going = "no"
      BY <2>3, GoingSame DEF GoDown, Signalled
    <3> QED
      BY <2>3, <3>1 DEF ConsolesListed, Listed
  <2>4. CASE pc = "keep" /\ p = waiting /\ going' = "no"
    <3>1. CASE Keep
      <4>1. Current \in 1 .. Len(list) /\ Len(list') = Len(list) /\ list'[Current].pid = waiting
        BY <1>1, <3>1, KeepFacts DEF SameEntries
      <4> QED
        BY <2>4, <4>1 DEF Listed
    <3>2. CASE Quiet
      BY <2>4, <3>2 DEF Listed, Quiet
    <3>3. ~GoDown
      BY <2>4 DEF GoDown
    <3> QED
      BY <1>1, <2>4, <3>1, <3>2, <3>3, KeepLeft
  <2>5. ASSUME Console(p), NEW j \in 1 .. Len(list), list[j].pid = p
        PROVE  \E k \in 1 .. Len(list') : list'[k].pid = p
    <3>1. list[j].pid = p
      BY <2>5
    <3>2. p > 0
      BY BusyInitAssumption
    <3>3. CASE list' = list
      BY <3>1, <3>3
    <3>4. CASE \E z \in Zombies : Reap(z)
      <4>1. PICK z \in Pids : Reap(z) /\ proc[z].st = "zombie"
        BY <3>4 DEF Zombies
      <4>2. p # z
        BY <2>5, <4>1 DEF Console
      <4>3. Len(list') = Len(list) /\ list'[j].pid = p
        BY <1>1, <3>1, <4>1, <4>2, ReapFacts
      <4> QED
        BY <4>3
    <3>5. CASE Keep
      <4>1. list[Current].pid = 0
        BY <1>1, <3>5 DEF KeepInv, Keep
      <4>2. Len(list') = Len(list) /\ \A l \in 1 .. Len(list) :
               list'[l].pid = IF l = Current THEN waiting ELSE list[l].pid
        BY <1>1, <3>5, KeepFacts DEF SameEntries
      <4> QED
        BY <3>1, <3>2, <4>1, <4>2
    <3>6. CASE ConsoleFailed
      <4>1. Len(list') = Len(list) /\ list'[j].pid = p
        BY <1>1, <3>1, <3>2, <3>6, FailedFacts DEF SameEntries
      <4> QED
        BY <4>1
    <3>7. CASE CheckHup
      BY <1>1, <3>1, <3>7, HupFacts
    <3>8. CASE Parse
      <4> DEFINE n == Len(list')
      <4>1. n \in Nat /\ n > 0
        BY <1>1, <3>8, ParseStep
      <4>2. CASE n = Len(list) + 1 /\ \A l \in 1 .. n - 1 : list'[l] = list[l]
        <5>1. j \in 1 .. n - 1 /\ j \in 1 .. n
          BY <1>1, <4>2
        <5> QED
          BY <3>1, <4>2, <5>1
      <4>3. ASSUME n = Len(list), NEW k \in 1 .. Len(list), list'[n].pid = list[k].pid,
                   \A l \in 1 .. n - 1 : list'[l] = list[Old(l, k)]
            PROVE  \E m \in 1 .. n : list'[m].pid = p
        <5>1. CASE j = k
          <6>1. n \in 1 .. n
            BY <4>1
          <6> QED
            BY <3>1, <4>3, <5>1, <6>1
        <5>2. CASE j # k
          <6>1. PICK m \in 1 .. Len(list) - 1 : Old(m, k) = j
            BY <1>1, <5>2, OldFacts
          <6>2. m \in 1 .. n - 1 /\ m \in 1 .. n
            BY <1>1, <4>3
          <6> QED
            BY <3>1, <4>3, <6>1, <6>2
        <5> QED
          BY <5>1, <5>2
      <4> QED
        BY <1>1, <3>8, <4>2, <4>3, ParseStep
    <3>9. CASE Purge
      <4>1. Len(list') = Len(list) - 1
        BY <1>1, <3>9, PurgeStep
      <4>2. PICK k \in 1 .. Len(list) :
               /\ list[k].type \in {Stale, "sysinit"}
               /\ \A l \in 1 .. Len(list) - 1 : list'[l] = list[Old(l, k)]
        BY <1>1, <3>9, PurgeStep
      <4>3. j # k
        <5> SUFFICES ASSUME j = k
                     PROVE  FALSE
          OBVIOUS
        <5>1. CASE list[k].type = Stale
          BY <2>5, <3>1, <3>2, <3>9, <5>1 DEF ConsolesListed, Purge
        <5>2. CASE list[k].type = "sysinit"
          <6>1. proc[p].id = list[k].id
            <7>1. Own(k)
              BY <1>1, <3>1, <3>2 DEF OwnPids
            <7> QED
              BY <2>5, <3>1, <7>1 DEF Own, Console
          <6>2. list[k].type # Stale
            BY <5>2 DEF Stale
          <6>3. PICK t \in Tables : \E l \in 1 .. Len(t) :
                   t[l].id = list[k].id /\ t[l].type = "sysinit"
            BY <1>1, <5>2, <6>2 DEF Given
          <6>4. PICK u \in Tables : \E m \in 1 .. Len(u) :
                   u[m].id = proc[p].id /\ u[m].type = proc[p].type
            BY <1>1, <2>5 DEF Given
          <6>5. proc[p].type \in Kept
            BY <2>5 DEF Console
          <6> QED
            BY <6>1, <6>3, <6>4, <6>5 DEF SameKind
        <5> QED
          BY <4>2, <5>1, <5>2
      <4>4. PICK m \in 1 .. Len(list) - 1 : Old(m, k) = j
        BY <1>1, <4>3, OldFacts
      <4> QED
        BY <3>1, <4>1, <4>2, <4>4
    <3>10. CASE Exec
      BY <2>5, <3>10 DEF Exec, NobodyLeft, Alive, Console
    <3>11. KillStale => list' = list
      BY DEF KillStale
    <3> QED
      BY <1>1, <3>3, <3>4, <3>5, <3>6, <3>7, <3>8, <3>9, <3>10, <3>11, StepEffect
         DEF Effect, Started, ConsoleStarted, Ended
  <2>6. CASE Exec
    <3>1. Alive = {} /\ proc' = proc
      BY <2>6 DEF Exec, NobodyLeft
    <3> QED
      BY <1>2, <3>1 DEF Alive, Console
  <2>7. (\E k \in 1 .. Len(list') : list'[k].pid = p) => Listed(p)'
    BY DEF Listed
  <2>8. Console(p) \/ (pc' = "keep" /\ waiting' = p)
    BY <1>1, <1>2, ConsoleOrigin
  <2> QED
    BY <2>1, <2>2, <2>3, <2>4, <2>5, <2>6, <2>7, <2>8
<1>3. ASSUME pc' = "purge", NEW j \in 1 .. Len(list'), list'[j].type = Stale,
             list'[j].pid > 0
      PROVE  ~Console(list[j].pid)'
  <2>1. CASE KillStale
    <3>1. list' = list /\ list[j].pid \in Pids /\ j \in 1 .. Len(list)
      BY <1>1, <1>3, <2>1, PidType DEF KillStale
    <3>2. list[j].pid \in Alive => list[j].pid \in Killed
      BY <1>3, <3>1 DEF Killed
    <3>3. /\ proc'[list[j].pid].st = proc[list[j].pid].st
          /\ proc'[list[j].pid].doomed = (proc[list[j].pid].doomed \/ list[j].pid \in Killed)
      BY <1>1, <2>1, <3>1, KillFacts
    <3> QED
      BY <3>1, <3>2, <3>3 DEF Console, Alive
  <2>2. CASE Purge
    <3>1. proc' = proc /\ Len(list') = Len(list) - 1 /\ pc = "purge"
      BY <1>1, <2>2, PurgeStep DEF Purge
    <3>2. PICK k \in 1 .. Len(list) : \A l \in 1 .. Len(list) - 1 : list'[l] = list[Old(l, k)]
      BY <1>1, <2>2, PurgeStep
    <3>3. Old(j, k) \in 1 .. Len(list) /\ list'[j] = list[Old(j, k)]
      BY <1>1, <3>1, <3>2, OldFacts
    <3>4. ~Console(list[Old(j, k)].pid)
      BY <1>3, <3>1, <3>3 DEF ConsolesListed
    <3> QED
      BY <3>1, <3>3, <3>4 DEF Console
  <2>3. CASE /\ pc = "purge" /\ SameEntries
             /\ \A l \in 1 .. Len(list) : list'[l].pid > 0 => list'[l].pid = list[l].pid
             /\ \A p \in Pids : Console(p)' => Console(p)
    <3>1. j \in 1 .. Len(list) /\ list[j].type = Stale /\ list'[j].pid = list[j].pid
      BY <1>3, <2>3 DEF SameEntries
    <3>2. list[j].pid \in Pids /\ list[j].pid > 0
      BY <1>1, <1>3, <3>1, PidType
    <3>3. ~Console(list[j].pid)
      BY <2>3, <3>1, <3>2 DEF ConsolesListed
    <3>4. \A p \in Pids : p = list[j].pid => ~Console(p)'
      BY <2>3, <3>3
    <3> QED
      BY <3>1, <3>2, <3>4 DEF Console
  <2> QED
    BY <1>1, <1>3, <2>1, <2>2, <2>3, PurgeComes
<1> QED
  BY <1>2, <1>3 DEF ConsolesListed

-----------------------------------------------------------------------------

\* No process that init waits for is started.
NoneNew ==
    \A p \in Alive' : proc'[p].type \in Waited => p \in Alive /\ proc'[p].type = proc[p].type

\* Only run_actions starts one, and only from an entry that is run once.
LEMMA NoneNewFacts == TypeInv /\ [Next]_vars => NoneNew \/ RunOnce
<1> SUFFICES ASSUME TypeInv, [Next]_vars, ~RunOnce
             PROVE  NoneNew
  OBVIOUS
<1>1. proc \in [Pids -> Proc] /\ list \in Seq(Entry)
  BY DEF TypeInv, ListType
<1>2. CASE proc' = proc
  BY <1>2 DEF NoneNew, Alive
<1>3. CASE WaitFor \/ ReapOne \/ StopReaps
  <2>1. CASE \E z \in Zombies : Reap(z)
    <3>1. PICK z \in Pids : Reap(z)
      BY <2>1 DEF Zombies
    <3> QED
      BY <1>1, <3>1, ReapFacts DEF NoneNew, Alive
  <2> QED
    BY <1>2, <1>3, <2>1 DEF WaitFor, ReapOne, StopReaps
<1>4. CASE RunKept
  <2>1. CASE list[Current].pid = 0
    <3>1. PICK p \in Fork : proc' = [proc EXCEPT ![p] = Process(list[Current])]
      BY <1>4, <2>1 DEF RunKept
    <3>2. Process(list[Current]).type \in Kept /\ p \in Pids
      BY <1>4, ForkFacts DEF RunKept, Process
    <3>3. proc'[p].type \in Kept /\ \A q \in Pids : q # p => proc'[q] = proc[q]
      BY <1>1, <3>1, <3>2
    <3>4. \A t \in Kept : t \notin Waited
      BY DEF Kept, Waited, OneShot
    <3> QED
      BY <3>3, <3>4 DEF NoneNew, Alive
  <2> QED
    BY <1>2, <1>4, <2>1 DEF RunKept
<1>5. CASE Daemon
  <2> DEFINE new == [st |-> "run", id |-> "daemon", type |-> "", doomed |-> FALSE]
  <2>1. new.type \notin Waited
    BY DEF Waited, OneShot
  <2>2. PICK p \in Fork : proc' = [proc EXCEPT ![p] = new]
    BY <1>5 DEF Daemon
  <2> HIDE DEF new
  <2>3. p \in Pids
    BY ForkFacts
  <2>4. proc'[p] = new /\ \A q \in Pids : q # p => proc'[q] = proc[q]
    BY <1>1, <2>2, <2>3
  <2> QED
    BY <2>1, <2>4 DEF NoneNew, Alive
<1>6. CASE KillStale
  BY <1>1, <1>6, KillFacts DEF NoneNew, Alive
<1>7. CASE Kill \/ (\E p \in Pids : Exit(p))
  <2>1. \A q \in Pids : Dead(q).st = "zombie"
    BY <1>1 DEF Dead, Proc
  <2>2. \A q \in Pids : proc'[q] = proc[q] \/ proc'[q] = Dead(q)
    BY <1>1, <1>7 DEF Kill, Exit, Dead
  <2> QED
    BY <2>1, <2>2 DEF NoneNew, Alive
<1>8. CASE \/ Keep \/ RunDone \/ RunFails \/ CheckDone \/ CheckInt \/ CheckHup \/ Parse
           \/ Purge \/ PurgeDone
  BY <1>2, <1>8 DEF Keep, RunDone, RunFails, CheckDone, CheckInt, CheckHup, Parse, Purge, PurgeDone
<1>9. CASE \/ ReapBlocks \/ ReapDone \/ Exec \/ ExecFails \/ Record \/ GoDown \/ Stop \/ Cont
           \/ Down \/ UNCHANGED vars
  BY <1>2, <1>9 DEF ReapBlocks, ReapDone, Exec, ExecFails, Record, GoDown, Stop, Cont, Down, vars
<1> QED
  BY <1>3, <1>4, <1>5, <1>6, <1>7, <1>8, <1>9 DEF Next, Main

\* "Start these actions and wait for completion": waitfor comes back only when
\* its process has been reaped, by itself or by stop_handler.
LEMMA WaitNext == TypeInv /\ NobodyLeft /\ WaitInv /\ [Next]_vars => WaitInv'
<1> SUFFICES ASSUME TypeInv, NobodyLeft, WaitInv, [Next]_vars
             PROVE  WaitInv'
  OBVIOUS
<1>1. proc \in [Pids -> Proc] /\ list \in Seq(Entry) /\ CallInv
  BY DEF TypeInv, ListType
<1>2. "shutdown" \in Waited
  BY DEF Waited, OneShot
<1>3. CASE RunOnce
  <2>1. /\ pc = "run" /\ Matches # {} /\ UNCHANGED <<going, mask, stopped>>
        /\ pc' \in {"run", "waitfor"}
    BY <1>3 DEF RunOnce, ends
  <2>2. PICK p \in Fork :
           /\ proc' = [proc EXCEPT ![p] = Process(list[Current])]
           /\ list[Current].type \in Waited => pc' = "waitfor" /\ waiting' = p
    BY <1>3 DEF RunOnce
  <2>3. Process(list[Current]).type = list[Current].type /\ p \in Pids
    BY ForkFacts DEF Process
  <2>4. proc'[p].type = list[Current].type /\ \A q \in Pids : q # p => proc'[q] = proc[q]
    BY <1>1, <2>2, <2>3
  <2>5. list[Current].type \in mask
    BY <2>1, CurrentFacts
  <2>6. going = "no" => list[Current].type # "shutdown" /\ ran' = ran
    BY <1>3, <2>5 DEF WaitInv, RunOnce
  <2>7. going = "no" => \A q \in Alive' : proc'[q].type \in Waited =>
           pc' = "waitfor" /\ q = waiting'
    BY <2>1, <2>2, <2>4 DEF WaitInv, Alive
  <2>8. \A q \in Alive' : proc'[q].type = "shutdown" =>
           going' # "no" /\ pc' = "waitfor" /\ q = waiting'
    BY <1>2, <2>1, <2>2, <2>4, <2>6 DEF WaitInv, Alive
  <2> QED
    BY <2>1, <2>6, <2>7, <2>8 DEF WaitInv
<1>4. CASE NoneNew /\ ~RunOnce
  <2>1. ASSUME pc = "waitfor", ~ (pc' = "waitfor" /\ waiting' = waiting), ~GoDown
        PROVE  \A p \in Alive' : p # waiting
    <3>1. CASE WaitFor
      <4>1. CASE \E z \in Zombies :
                    /\ Reap(z)
                    /\ pc' = IF proc'[waiting].st = "free" THEN "run" ELSE pc
                    /\ waiting' = IF proc'[waiting].st = "free" THEN 0 ELSE waiting
        <5>1. proc'[waiting].st = "free"
          BY <2>1, <4>1
        <5> QED
          BY <5>1 DEF Alive
      <4>2. CASE Children = {} /\ proc' = proc
        BY <4>2 DEF Children, Alive
      <4> QED
        BY <2>1, <3>1, <4>1, <4>2 DEF WaitFor
    <3>2. CASE Record \/ Cont
      <4>1. proc' = proc /\ Interrupted
        BY <3>2 DEF Record, Cont
      <4>2. proc[waiting].st = "free"
        BY <1>1, <2>1, <4>1, InterruptedFacts
      <4> QED
        BY <4>1, <4>2 DEF Alive
    <3>3. ~ (Stop \/ StopReaps \/ Daemon \/ (\E p \in Pids : Exit(p)) \/ Down \/ UNCHANGED vars)
      BY <2>1 DEF Stop, StopReaps, Daemon, Exit, Down, vars
    <3>4. ~RunKept /\ ~Keep /\ ~RunFails /\ ~RunDone /\ ~CheckDone /\ ~CheckInt /\ ~CheckHup
          /\ ~Parse /\ ~KillStale /\ ~Purge /\ ~PurgeDone
      BY <2>1 DEF RunKept, Keep, RunFails, RunDone, CheckDone, CheckInt, CheckHup, Seen, Parse,
                  KillStale, Purge, PurgeDone
    <3>5. ~ReapOne /\ ~ReapBlocks /\ ~ReapDone /\ ~Kill /\ ~Exec /\ ~ExecFails
      BY <2>1 DEF ReapOne, ReapBlocks, ReapDone, Kill, Exec, ExecFails
    <3> QED
      BY <1>4, <2>1, <3>1, <3>2, <3>3, <3>4, <3>5 DEF Next, Main
  <2> DEFINE W1 == going = "no" => \A p \in Alive :
                      proc[p].type \in Waited => pc = "waitfor" /\ p = waiting
             W2 == \A p \in Alive : proc[p].type = "shutdown" =>
                      going # "no" /\ pc = "waitfor" /\ p = waiting
             W3 == /\ going = "no" => "shutdown" \notin mask /\ ran = <<>>
                   /\ going # "no" =>
                         /\ pc \in {"run", "waitfor", "kill", "exec", "down"}
                         /\ pc \in {"run", "waitfor"} => mask = {"shutdown"}
                   /\ going = "no" => pc \notin {"kill", "exec"}
                   /\ stopped => going = "no"
  <2>2. W1 /\ W2 /\ W3
    BY DEF WaitInv
  <2>3. ASSUME going' = going
        PROVE  W1' /\ W2'
    <3>0. ~GoDown
      BY <2>3 DEF GoDown, Signalled
    <3>1. \A p \in Alive' : proc'[p].type \in Waited =>
             p \in Alive /\ proc'[p].type = proc[p].type
      BY <1>4 DEF NoneNew
    <3>2. W1'
      BY <2>1, <2>2, <2>3, <3>0, <3>1
    <3>3. W2'
      BY <1>2, <2>1, <2>2, <2>3, <3>0, <3>1
    <3> QED
      BY <3>2, <3>3
  <2> SUFFICES W1' /\ W2' /\ W3'
    BY DEF WaitInv
  <2>4. CASE GoDown
    <3>1. going = "no" /\ going' # "no" /\ proc' = proc /\ pc' = "run"
          /\ mask' = {"shutdown"} /\ stopped' = stopped /\ ~stopped
      BY <2>4 DEF GoDown, Signalled
    <3>2. W1' /\ W3'
      BY <3>1
    <3>3. W2'
      BY <2>2, <3>1 DEF Alive
    <3> QED
      BY <3>2, <3>3
  <2>5. CASE Exec
    <3>1. proc' = proc /\ Alive = {} /\ going' = "no" /\ mask' = {"sysinit"} /\ ran' = <<>>
          /\ pc' = "run"
      BY <2>5 DEF Exec, NobodyLeft
    <3>2. Alive' = {}
      BY <3>1 DEF Alive
    <3> QED
      BY <3>1, <3>2
  <2>6. ASSUME going' = going, W3'
        PROVE  W1' /\ W2' /\ W3'
    BY <2>3, <2>6
  <2>14. CASE RunKept
    <3>1. UNCHANGED <<going, mask, ran, stopped>>
          /\ pc' \in {"run", "keep"} /\ pc = "run" /\ Matches # {}
          /\ list[Current].type \in Kept
      BY <2>14 DEF RunKept, ends
    <3>2. going = "no"
      <4>1. list[Current].type \in mask
        BY <3>1, CurrentFacts
      <4>2. "shutdown" \notin Kept
        BY DEF Kept
      <4> QED
        BY <2>2, <3>1, <4>1, <4>2
    <3>3. W3'
      BY <2>2, <3>1, <3>2
    <3> QED
      BY <2>6, <3>1, <3>3
  <2>15. CASE Keep
    <3>1. UNCHANGED <<going, mask, ran, stopped>> /\ pc' = "run" /\ pc = "keep"
      BY <2>15 DEF Keep
    <3>2. W3'
      BY <2>2, <3>1
    <3> QED
      BY <2>6, <3>1, <3>2
  <2>7. CASE RunFails \/ RunDone
    <3>1. UNCHANGED <<going, mask, ran, stopped>>
          /\ pc' \in {"run", "check", "kill"} /\ pc = "run"
          /\ (pc' = "check" => going = "no") /\ (pc' = "kill" => going # "no")
      BY <2>7 DEF RunFails, RunDone, ends
    <3>2. W3'
      BY <2>2, <3>1
    <3> QED
      BY <2>6, <3>1, <3>2
  <2>8. CASE WaitFor
    <3>1. UNCHANGED <<going, mask, ran, stopped>>
          /\ pc' \in {"run", "waitfor"} /\ pc = "waitfor"
      BY <2>8 DEF WaitFor, ends
    <3>2. W3'
      BY <2>2, <3>1
    <3> QED
      BY <2>6, <3>1, <3>2
  <2>9. CASE CheckDone \/ CheckInt \/ CheckHup
    <3>1. /\ UNCHANGED <<going, ran, stopped>> /\ pc = "check" /\ pc' \notin {"kill", "exec"}
          /\ mask' \in {mask, {"ctrlaltdel"}, After.mask}
      BY <2>9 DEF CheckDone, CheckInt, CheckHup, Seen, ends
    <3>2. "shutdown" \notin After.mask
      BY DEF After, Kept
    <3>3. going = "no"
      BY <2>2, <3>1
    <3>4. W3'
      BY <2>2, <3>1, <3>2, <3>3
    <3>5. W1' /\ W2'
      <4>1. \A p \in Alive : proc[p].type \notin Waited
        BY <2>2, <3>1, <3>3
      <4> QED
        BY <1>2, <1>4, <4>1 DEF NoneNew
    <3> QED
      BY <3>4, <3>5
  <2>10. CASE Parse \/ KillStale \/ Purge \/ PurgeDone \/ ReapOne \/ ReapBlocks \/ ReapDone
    <3>1. /\ UNCHANGED <<going, mask, ran, stopped>> /\ pc' \notin {"kill", "exec"}
          /\ pc \in {"parse", "purge", "reap"}
      BY <2>10 DEF Parse, KillStale, Purge, PurgeDone, ReapOne, ReapBlocks, ReapDone, ends
    <3>2. W3'
      BY <2>2, <3>1
    <3> QED
      BY <2>6, <3>1, <3>2
  <2>11. CASE Record \/ Cont
    <3>1. /\ UNCHANGED <<going, mask, ran>> /\ Interrupted
          /\ going = "no"
      BY <2>2, <2>11 DEF Record, Cont, Signalled, ends
    <3>2. pc' \notin {"kill", "exec"}
      BY <1>1, <2>2, <3>1, InterruptedFacts
    <3>3. W3'
      BY <2>2, <3>1, <3>2
    <3> QED
      BY <2>6, <3>1, <3>3
  <2>12. CASE Stop \/ StopReaps \/ Daemon \/ (\E p \in Pids : Exit(p)) \/ Down \/ UNCHANGED vars
    <3>1. /\ UNCHANGED <<going, mask, ran, pc>> /\ (stopped' => stopped \/ going = "no")
      <4>1. CASE Stop \/ StopReaps
        BY <4>1 DEF Stop, StopReaps, Signalled, ends
      <4>2. CASE Daemon \/ (\E p \in Pids : Exit(p))
        <5>1. UNCHANGED <<going, mask, ran, pc, stopped>>
          BY <4>2 DEF Daemon, Exit, ends
        <5> QED
          BY <5>1
      <4>3. CASE Down \/ UNCHANGED vars
        BY <4>3 DEF Down, vars
      <4> QED
        BY <2>12, <4>1, <4>2, <4>3
    <3>2. W3'
      BY <2>2, <3>1
    <3> QED
      BY <2>6, <3>1, <3>2
  <2>13. CASE Kill \/ ExecFails
    <3>1. /\ UNCHANGED <<going, mask, ran, stopped>>
          /\ pc' \in {"exec", "down"} /\ pc \in {"kill", "exec"}
      BY <2>13 DEF Kill, ExecFails, ends
    <3>2. W3'
      BY <2>2, <3>1
    <3> QED
      BY <2>6, <3>1, <3>2
  <2> HIDE DEF W1, W2, W3
  <2> QED
    BY <1>4, <2>4, <2>5, <2>7, <2>8, <2>9, <2>10, <2>11, <2>12, <2>13, <2>14, <2>15
       DEF Next, Main
<1> QED
  BY <1>3, <1>4, NoneNewFacts

-----------------------------------------------------------------------------

\* The places of the shutdown entries.
LEMMA DownsFacts ==
    /\ \A k : k \in Downs(list) <=> k \in 1 .. Len(list) /\ list[k].type = "shutdown"
    /\ \A k : k \in Downs(loaded) <=> k \in 1 .. Len(loaded) /\ loaded[k].type = "shutdown"
BY DEF Downs

\* What keeps the commands and the types of the list keeps its order.
LEMMA SameOrder ==
    ASSUME InOrder, SameEntries, loaded' = loaded
    PROVE  InOrder'
<1>1. Downs(list)' = Downs(list) /\ Downs(loaded)' = Downs(loaded)
  BY DEF Downs, SameEntries
<1>2. \A k \in Downs(list) : list'[k].id = list[k].id
  BY DEF Downs, SameEntries
<1> QED
  BY <1>1, <1>2 DEF InOrder

\* When all lines have been read, their entries are the end of the list.
LEMMA ReadOrder ==
    ASSUME TypeInv, LoadInv, pc = "parse", lines = <<>>
    PROVE  InOrder
<1> DEFINE r == Len(loaded)
           d == Len(list) - r
<1>1. r \in Nat /\ Len(list) \in Nat /\ \A j, k \in 1 .. r : loaded[j].id = loaded[k].id => j = k
  BY TableFacts DEF TypeInv, ListType
<1>2. Len(lines) = 0
  OBVIOUS
<1>3. Read = r
  BY <1>1, <1>2 DEF Read
<1>4. /\ r <= Len(list)
      /\ \A k \in 1 .. r : list[d + k].id = loaded[k].id /\ list[d + k].type = loaded[k].type
      /\ \A k \in 1 .. d : list[k].type = Stale
  BY <1>3 DEF LoadInv
<1>5. d \in Nat
  BY <1>1, <1>4
<1>6. d + r = Len(list)
  BY <1>1
<1> HIDE DEF d
<1>7. ASSUME NEW k \in Downs(list)
      PROVE  k - d \in Downs(loaded) /\ list[k].id = loaded[k - d].id
  <2>1. k \in 1 .. Len(list) /\ list[k].type = "shutdown"
    BY DownsFacts
  <2>2. ~ (k <= d)
    BY <1>4, <1>5, <2>1 DEF Stale
  <2>3. k - d \in 1 .. r /\ d + (k - d) = k
    BY <1>1, <1>5, <1>6, <2>1, <2>2
  <2>4. list[k].id = loaded[k - d].id /\ list[k].type = loaded[k - d].type
    BY <1>4, <2>3
  <2> QED
    BY <2>1, <2>3, <2>4, DownsFacts
<1>8. ASSUME NEW m \in Downs(loaded)
      PROVE  d + m \in Downs(list) /\ list[d + m].id = loaded[m].id
  <2>1. m \in 1 .. r /\ loaded[m].type = "shutdown"
    BY DownsFacts
  <2>2. d + m \in 1 .. Len(list)
    BY <1>1, <1>5, <1>6, <2>1
  <2>3. list[d + m].id = loaded[m].id /\ list[d + m].type = loaded[m].type
    BY <1>4, <2>1
  <2> QED
    BY <2>1, <2>2, <2>3, DownsFacts
<1>9. ASSUME NEW k \in Downs(list), NEW l \in Downs(list), NEW m \in Downs(loaded),
             NEW n \in Downs(loaded), k < l, list[k].id = loaded[m].id,
             list[l].id = loaded[n].id
      PROVE  m < n
  <2>1. k - d \in Downs(loaded) /\ l - d \in Downs(loaded)
        /\ loaded[k - d].id = loaded[m].id /\ loaded[l - d].id = loaded[n].id
    BY <1>7, <1>9
  <2>2. m = k - d /\ n = l - d
    BY <1>1, <2>1, DownsFacts
  <2>3. k \in Nat /\ l \in Nat
    BY <1>1, DownsFacts
  <2> QED
    BY <1>5, <1>9, <2>2, <2>3
<1> QED
  BY <1>7, <1>8, <1>9 DEF InOrder

\* Removing an entry of another type keeps the order of the others.
LEMMA PurgeOrder ==
    ASSUME TypeInv, InOrder, Purge
    PROVE  InOrder'
<1>1. list \in Seq(Entry) /\ Len(list) \in Nat /\ loaded' = loaded
  BY DEF TypeInv, ListType, Purge, ends
<1>2. Len(list') = Len(list) - 1
  BY PurgeStep
<1>3. PICK z \in 1 .. Len(list) :
         /\ list[z].type \in {Stale, "sysinit"}
         /\ \A j \in 1 .. Len(list) - 1 : list'[j] = list[Old(j, z)]
  BY PurgeStep
<1>4. Downs(loaded)' = Downs(loaded)
  BY <1>1
<1>5. ASSUME NEW k \in Downs(list)'
      PROVE  /\ k \in 1 .. Len(list) - 1 /\ Old(k, z) \in Downs(list)
             /\ list'[k] = list[Old(k, z)]
  <2>1. k \in 1 .. Len(list) - 1 /\ list'[k].type = "shutdown"
    BY <1>2 DEF Downs
  <2>2. Old(k, z) \in 1 .. Len(list)
    BY <1>1, <2>1, OldFacts
  <2> QED
    BY <1>3, <2>1, <2>2, DownsFacts
<1>6. ASSUME NEW k \in Downs(list)
      PROVE  \E j \in Downs(list)' : list'[j] = list[k]
  <2>1. k \in 1 .. Len(list) /\ list[k].type = "shutdown" /\ k # z
    BY <1>3, DownsFacts DEF Stale
  <2>2. PICK j \in 1 .. Len(list) - 1 : Old(j, z) = k
    BY <1>1, <2>1, OldFacts
  <2>3. list'[j] = list[k] /\ j \in Downs(list)'
    BY <1>2, <1>3, <2>1, <2>2 DEF Downs
  <2> QED
    BY <2>3
<1>7. \A k \in Downs(list)' : \E m \in Downs(loaded) : list'[k].id = loaded[m].id
  BY <1>5 DEF InOrder
<1>8. \A m \in Downs(loaded) : \E k \in Downs(list)' : list'[k].id = loaded[m].id
  BY <1>6 DEF InOrder
<1>9. ASSUME NEW k \in Downs(list)', NEW l \in Downs(list)', NEW m \in Downs(loaded),
             NEW n \in Downs(loaded), k < l, list'[k].id = loaded[m].id,
             list'[l].id = loaded[n].id
      PROVE  m < n
  <2>1. Old(k, z) < Old(l, z)
    BY <1>1, <1>5, <1>9, OldFacts
  <2> QED
    BY <1>5, <1>9, <2>1 DEF InOrder
<1> QED
  BY <1>1, <1>4, <1>7, <1>8, <1>9 DEF InOrder

\* A list that has just been made of inittab is in its order.
LEMMA EntriesOrder ==
    ASSUME loaded \in Tables, list = Entries(loaded)
    PROVE  InOrder
<1>1. /\ Len(loaded) \in Nat
      /\ \A j, k \in 1 .. Len(loaded) : loaded[j].id = loaded[k].id => j = k
  BY TableFacts
<1>2. /\ Len(list) = Len(loaded)
      /\ \A j \in 1 .. Len(loaded) : list[j].id = loaded[j].id /\ list[j].type = loaded[j].type
  BY EntriesFacts
<1>3. Downs(list) = Downs(loaded)
  BY <1>2 DEF Downs
<1>4. \A k \in Downs(loaded) : k \in 1 .. Len(loaded)
  BY DEF Downs
<1> QED
  BY <1>1, <1>2, <1>3, <1>4 DEF InOrder

\* After every reading of inittab the list has its shutdown entries in order.
LEMMA OrderNext ==
    ASSUME TypeInv, LoadInv, OrderInv, [Next]_vars
    PROVE  OrderInv'
<1>1. CallInv
  BY DEF TypeInv
<1>2. CASE Exec
  <2>1. loaded' \in Tables /\ list' = Entries(loaded') /\ torn' = FALSE
    BY <1>2 DEF Exec
  <2>2. InOrder'
    <3>1. (loaded \in Tables /\ list = Entries(loaded) => InOrder)'
      BY EntriesOrder, PTL
    <3> QED
      BY <2>1, <3>1
  <2> QED
    BY <2>1, <2>2 DEF OrderInv
<1>3. CASE KillStale
  <2>1. InOrder /\ UNCHANGED <<list, loaded, torn, going>>
    BY <1>3, ReadOrder DEF KillStale, ends
  <2>2. InOrder'
    BY <2>1 DEF InOrder, Downs
  <2> QED
    BY <2>1, <2>2 DEF OrderInv
<1>4. CASE Purge
  <2>1. pc = "purge" /\ UNCHANGED <<torn, going>>
    BY <1>4 DEF Purge, ends
  <2> QED
    BY <1>4, <2>1, PurgeOrder DEF OrderInv
<1>5. CASE CheckHup \/ Parse
  BY <1>5 DEF CheckHup, Parse, ends, OrderInv
<1>6. CASE GoDown
  <2>1. /\ going = "no" /\ going' # "no" /\ torn' = (pc = "parse")
        /\ UNCHANGED <<list, loaded>>
    BY <1>6 DEF GoDown, Signalled
  <2>2. SameEntries
    BY <2>1 DEF SameEntries
  <2> QED
    BY <2>1, <2>2, SameOrder DEF OrderInv
<1>7. ASSUME ~Exec, ~KillStale, ~Purge, ~CheckHup, ~Parse, ~GoDown
      PROVE  OrderInv'
  <2>1. SameEntries
    BY <1>7, SameLength
  <2>2. UNCHANGED <<loaded, torn, going>>
    BY <1>7 DEF Next, Main, vars, ends, RunOnce, RunKept, Keep, RunDone, WaitFor, CheckDone,
       CheckInt, PurgeDone, ReapOne, ReapBlocks, ReapDone, Kill, RunFails, ExecFails,
       Record, Stop, StopReaps, Cont, Exit, Daemon, Down
  <2>3. pc = "parse" => pc' = "parse"
    <3> SUFFICES ASSUME pc = "parse"
                 PROVE  pc' = "parse"
      OBVIOUS
    <3>1. CASE Record \/ Cont
      BY <1>1, <3>1, InterruptedFacts DEF Record, Cont
    <3>2. CASE Stop \/ StopReaps \/ Daemon \/ (\E p \in Pids : Exit(p)) \/ Down \/ UNCHANGED vars
      BY <3>2 DEF Stop, StopReaps, Daemon, Exit, Down, vars
    <3>3. ~RunOnce /\ ~RunKept /\ ~Keep /\ ~RunFails /\ ~RunDone /\ ~WaitFor /\ ~CheckDone
          /\ ~CheckInt /\ ~PurgeDone /\ ~ReapOne /\ ~ReapBlocks /\ ~ReapDone /\ ~Kill
          /\ ~ExecFails
      BY DEF RunOnce, RunKept, Keep, RunFails, RunDone, WaitFor, CheckDone, CheckInt, Seen,
             PurgeDone, ReapOne, ReapBlocks, ReapDone, Kill, ExecFails
    <3> QED
      BY <1>7, <3>1, <3>2, <3>3 DEF Next, Main
  <2> QED
    BY <2>1, <2>2, <2>3, SameOrder DEF OrderInv
<1> QED
  BY <1>2, <1>3, <1>4, <1>5, <1>6, <1>7

-----------------------------------------------------------------------------

\* What happens while the system goes down.
LEMMA DownComes ==
    ASSUME TypeInv, WaitInv, [Next]_vars, going' # "no", pc' \in {"run", "waitfor"}
    PROVE  \/ RunOnce \/ RunFails \/ GoDown
           \/ /\ going # "no" /\ pc \in {"run", "waitfor"} /\ SameEntries
              /\ UNCHANGED <<i, ran>> /\ budget'.failures = budget.failures
<1>1. ASSUME ~RunOnce, ~RunFails, ~GoDown
      PROVE  /\ going # "no" /\ pc \in {"run", "waitfor"} /\ UNCHANGED <<i, ran>>
             /\ budget'.failures = budget.failures /\ ~CheckHup /\ ~Parse /\ ~Purge /\ ~Exec
  <2>1. ~Exec
    BY DEF Exec
  <2>2. going' = going
    BY <1>1, <2>1 DEF Next, Main, vars, ends, RunKept, Keep, RunDone, WaitFor, CheckDone,
       CheckInt, CheckHup, Parse, KillStale, Purge, PurgeDone, ReapOne, ReapBlocks,
       ReapDone, Kill, ExecFails, Record, Stop, StopReaps, Cont, Exit, Daemon, Down
  <2>3. going # "no" /\ ~stopped
    BY <2>2 DEF WaitInv
  <2>4. ~Record /\ ~Stop /\ ~StopReaps /\ ~Cont
    BY <2>3 DEF Record, Stop, StopReaps, Cont, Signalled
  <2>5. /\ pc \in {"run", "waitfor", "kill", "exec", "down"}
        /\ pc \in {"run", "waitfor"} => mask = {"shutdown"}
    BY <2>3 DEF WaitInv
  <2>6. ~CheckDone /\ ~CheckInt /\ ~CheckHup /\ ~Parse /\ ~KillStale /\ ~Purge /\ ~PurgeDone
        /\ ~ReapOne /\ ~ReapBlocks /\ ~ReapDone
    BY <2>5 DEF CheckDone, CheckInt, CheckHup, Seen, Parse, KillStale, Purge, PurgeDone,
                ReapOne, ReapBlocks, ReapDone
  <2>7. ~RunDone /\ ~Keep /\ ~Kill /\ ~ExecFails
    BY <2>3, <2>5 DEF RunDone, Keep, Kill, ExecFails
  <2>8. ~RunKept
    <3> SUFFICES ASSUME RunKept
                 PROVE  FALSE
      OBVIOUS
    <3>1. pc = "run" /\ Matches # {} /\ list[Current].type \in Kept
      BY DEF RunKept
    <3>2. list[Current].type \in {"shutdown"}
      BY <2>5, <3>1, CurrentFacts
    <3> QED
      BY <3>1, <3>2 DEF Kept
  <2>9. CASE WaitFor
    BY <2>1, <2>3, <2>6, <2>9 DEF WaitFor
  <2>10. CASE Daemon
    <3>1. budget' = [budget EXCEPT !.daemons = @ - 1] /\ UNCHANGED <<i, ran, pc>>
      BY <2>10 DEF Daemon
    <3>2. budget'.failures = budget.failures
      BY <3>1 DEF TypeInv, ControlType
    <3> QED
      BY <2>1, <2>3, <2>6, <3>1, <3>2
  <2>11. CASE (\E p \in Pids : Exit(p)) \/ Down \/ UNCHANGED vars
    <3>1. UNCHANGED <<i, ran, pc, budget>>
      BY <2>11 DEF Exit, Down, vars
    <3> QED
      BY <2>1, <2>3, <2>6, <3>1
  <2> QED
    BY <1>1, <2>1, <2>4, <2>6, <2>7, <2>8, <2>9, <2>10, <2>11 DEF Next, Main
<1> QED
  BY <1>1, SameLength

\* run_actions comes to the next shutdown entry.
LEMMA RunNext ==
    ASSUME TypeInv, Distinct, RanUpTo(i), pc = "run", Matches # {}, mask = {"shutdown"},
           list' = list, i' = Current + 1, ran' = Append(ran, list[Current].id)
    PROVE  RanUpTo(i)'
<1> DEFINE c == Current
           x == list[Current].id
           n == Len(ran)
<1>1. /\ c \in 1 .. Len(list) /\ c \in Nat /\ i <= c /\ list[c].type = "shutdown"
      /\ \A k \in 1 .. Len(list) : i <= k /\ k < c => list[k].type # "shutdown"
  BY CurrentFacts
<1>2. i \in Nat /\ Len(list) \in Nat /\ n \in Nat
  BY DEF TypeInv, ListType, ControlType
<1>3. list[c] \in Entry
  BY <1>1, PidType
<1>4. x \in STRING
  BY <1>3 DEF Entry
<1>5. /\ Len(ran') = n + 1 /\ ran'[n + 1] = x
      /\ \A j \in 1 .. n : ran'[j] = ran[j]
  <2>1. ran \in Seq(STRING)
    BY DEF TypeInv, ListType
  <2> QED
    BY <1>4, <2>1
<1>6. Downs(list)' = Downs(list) /\ c \in Downs(list)
  BY <1>1, DownsFacts
<1>7. i' = c + 1 /\ list' = list
  OBVIOUS
<1> HIDE DEF c, n
<1>8. \A k \in Downs(list) : k \in 1 .. Len(list) /\ k \in Nat
  BY <1>2, DownsFacts
<1>9. \A j \in 1 .. n + 1 : j \in 1 .. n \/ j = n + 1
  BY <1>2
<1>10. \A j \in 1 .. n : \E k \in Downs(list) : k < i /\ ran[j] = list[k].id
  BY DEF RanUpTo, n
<1>11. \A k \in Downs(list) : k < i => k < c
  BY <1>1, <1>2, <1>8
<1>12. c < c + 1 /\ \A k \in Downs(list) : k < c => k < c + 1
  BY <1>1, <1>8
<1>13. x = list[c].id
  BY DEF c
<1> HIDE DEF x
<1>14. ASSUME NEW j \in 1 .. n + 1
       PROVE  \E k \in Downs(list) : k < c + 1 /\ ran'[j] = list[k].id
  <2>1. CASE j \in 1 .. n
    BY <1>5, <1>10, <1>11, <1>12, <2>1
  <2>2. CASE j = n + 1
    BY <1>5, <1>6, <1>12, <1>13, <2>2
  <2> QED
    BY <1>9, <2>1, <2>2
<1>15. ASSUME NEW k \in Downs(list), k < c + 1
       PROVE  \E j \in 1 .. n + 1 : ran'[j] = list[k].id
  <2>1. CASE k < i
    <3>1. PICK j \in 1 .. n : ran[j] = list[k].id
      BY <2>1 DEF RanUpTo, n
    <3>2. j \in 1 .. n + 1
      BY <1>2
    <3> QED
      BY <1>5, <3>1, <3>2
  <2>2. CASE k = c
    <3>1. n + 1 \in 1 .. n + 1
      BY <1>2
    <3> QED
      BY <1>5, <1>13, <2>2, <3>1
  <2>3. k < i \/ k = c
    <3>1. list[k].type = "shutdown"
      BY DownsFacts
    <3>2. ~ (i <= k /\ k < c)
      BY <1>1, <1>8, <3>1
    <3> QED
      BY <1>1, <1>2, <1>8, <1>15, <3>2
  <2> QED
    BY <2>1, <2>2, <2>3
<1>16. ASSUME NEW j \in 1 .. n + 1, NEW m \in 1 .. n + 1, NEW k \in Downs(list),
              NEW l \in Downs(list), j < m, ran'[j] = list[k].id, ran'[m] = list[l].id
       PROVE  k < l
  <2>1. j \in 1 .. n
    BY <1>2, <1>16
  <2>2. ran[j] = list[k].id
    BY <1>5, <1>16, <2>1
  <2>3. CASE m \in 1 .. n
    BY <1>5, <1>16, <2>1, <2>2, <2>3 DEF RanUpTo, n
  <2>4. CASE m = n + 1
    <3>1. list[l].id = list[c].id
      BY <1>5, <1>13, <1>16, <2>4
    <3>2. l = c
      BY <1>1, <1>8, <3>1 DEF Distinct
    <3>3. PICK e \in Downs(list) : e < i /\ ran[j] = list[e].id
      BY <1>10, <2>1
    <3>4. k = e
      BY <1>8, <2>2, <3>3 DEF Distinct
    <3> QED
      BY <1>11, <3>2, <3>3, <3>4
  <2> QED
    BY <1>9, <2>3, <2>4
<1>17. /\ \A j \in 1 .. Len(ran') : \E k \in Downs(list)' : k < i' /\ ran'[j] = list'[k].id
       /\ \A k \in Downs(list)' : k < i' => \E j \in 1 .. Len(ran') : ran'[j] = list'[k].id
  BY <1>5, <1>6, <1>7, <1>14, <1>15
<1>18. \A j, m \in 1 .. Len(ran'), k, l \in Downs(list)' :
          j < m /\ ran'[j] = list'[k].id /\ ran'[m] = list'[l].id => k < l
  BY <1>5, <1>6, <1>7, <1>16
<1> QED
  BY <1>17, <1>18 DEF RanUpTo

\* What keeps the list and what has been run.
LEMMA SameRan ==
    ASSUME SameEntries, ran' = ran, NEW n, NEW m, RanUpTo(n), m = n
    PROVE  /\ \A j \in 1 .. Len(ran') :
                 \E k \in Downs(list)' : k < m /\ ran'[j] = list'[k].id
           /\ \A k \in Downs(list)' : k < m =>
                 \E j \in 1 .. Len(ran') : ran'[j] = list'[k].id
           /\ \A j, l \in 1 .. Len(ran'), k, e \in Downs(list)' :
                 j < l /\ ran'[j] = list'[k].id /\ ran'[l] = list'[e].id => k < e
<1>1. Downs(list)' = Downs(list)
  BY DEF Downs, SameEntries
<1>2. \A k \in Downs(list) : list'[k].id = list[k].id
  BY DEF Downs, SameEntries
<1> QED
  BY <1>1, <1>2 DEF RanUpTo

\* "run_actions(SHUTDOWN)" runs them all, and everyone is killed afterwards.
LEMMA RanNext ==
    ASSUME TypeInv, Distinct, WaitInv, RanInv, [Next]_vars
    PROVE  RanInv'
<1>1. CallInv /\ budget \in [signals : Nat, failures : Nat, daemons : Nat]
      /\ MaxFailures \in Nat /\ Len(list) \in Nat /\ i \in Nat
  BY BusyInitAssumption DEF TypeInv, ListType, ControlType
<1>2. /\ RunFails => budget'.failures = budget.failures - 1
      /\ ~RunFails => budget'.failures = budget.failures
  <2>1. RunFails => budget'.failures = budget.failures - 1
    BY <1>1 DEF RunFails
  <2>2. CASE Record \/ GoDown \/ Stop
    <3>1. budget' = [budget EXCEPT !.signals = @ - 1]
      BY <2>2 DEF Record, GoDown, Stop, Signalled
    <3>2. budget'.failures = budget.failures
      BY <1>1, <3>1
    <3>3. ~RunFails
      BY <1>1, <2>1, <3>2
    <3> QED
      BY <3>2, <3>3
  <2>3. CASE Daemon
    <3>1. budget' = [budget EXCEPT !.daemons = @ - 1]
      BY <2>3 DEF Daemon
    <3>2. budget'.failures = budget.failures
      BY <1>1, <3>1
    <3>3. ~RunFails
      BY <1>1, <2>1, <3>2
    <3> QED
      BY <3>2, <3>3
  <2>4. ASSUME ~Record, ~GoDown, ~Stop, ~Daemon, ~RunFails
        PROVE  budget' = budget
    BY <2>4 DEF Next, Main, vars, RunOnce, RunKept, Keep, RunDone, WaitFor, CheckDone, CheckInt,
       CheckHup, Parse, KillStale, Purge, PurgeDone, ReapOne, ReapBlocks, ReapDone, Kill,
       Exec, ExecFails, StopReaps, Cont, Exit, Down
  <2> QED
    BY <2>1, <2>2, <2>3, <2>4
<1>3. budget'.failures <= MaxFailures
  BY <1>1, <1>2 DEF RanInv
<1>4. ASSUME budget'.failures = MaxFailures
      PROVE  ~RunFails /\ budget.failures = MaxFailures
  BY <1>1, <1>2, <1>4 DEF RanInv
<1>5. ASSUME budget'.failures = MaxFailures, going' # "no", pc' \in {"run", "waitfor"}
      PROVE  RanUpTo(i)'
  <2>1. CASE RunOnce
    <3>1. pc = "run" /\ Matches # {} /\ list' = list /\ i' = Current + 1 /\ going' = going
      BY <2>1 DEF RunOnce, ends
    <3>2. mask = {"shutdown"}
      BY <1>5, <3>1 DEF WaitInv
    <3>3. list[Current].type = "shutdown"
      BY <3>1, <3>2, CurrentFacts
    <3>4. ran' = Append(ran, list[Current].id)
      BY <2>1, <3>3 DEF RunOnce
    <3>5. RanUpTo(i)
      BY <1>4, <1>5, <3>1 DEF RanInv
    <3> QED
      BY <3>1, <3>2, <3>4, <3>5, RunNext
  <2>2. CASE GoDown
    <3>1. i' = 1 /\ ran' = ran /\ list' = list /\ going = "no"
      BY <2>2 DEF GoDown, Signalled
    <3>2. ran' = <<>>
      BY <3>1 DEF WaitInv
    <3>3. \A j \in 1 .. Len(ran') : FALSE
      BY <3>2
    <3>4. \A k \in Downs(list)' : ~ (k < i')
      BY <1>1, <3>1 DEF Downs
    <3> QED
      BY <3>3, <3>4 DEF RanUpTo
  <2>3. CASE /\ going # "no" /\ pc \in {"run", "waitfor"} /\ SameEntries
             /\ UNCHANGED <<i, ran>>
    <3>1. RanUpTo(i)
      BY <1>4, <1>5, <2>3 DEF RanInv
    <3>2. i' = i /\ ran' = ran
      BY <2>3
    <3> QED
      BY <2>3, <3>1, <3>2, SameRan DEF RanUpTo
  <2> QED
    BY <1>4, <1>5, <2>1, <2>2, <2>3, DownComes
<1>6. ASSUME budget'.failures = MaxFailures, pc' = "kill"
      PROVE  RanUpTo(Len(list) + 1)'
  <2>1. CASE RunDone
    <3>1. pc = "run" /\ Matches = {} /\ going # "no" /\ list' = list /\ ran' = ran
      BY <1>6, <2>1 DEF RunDone
    <3>2. mask = {"shutdown"} /\ RanUpTo(i)
      BY <1>4, <1>6, <3>1 DEF WaitInv, RanInv
    <3>3. \A k \in Downs(list) : k < i /\ k < Len(list) + 1
      <4>1. \A k \in Downs(list) : k \in 1 .. Len(list) /\ k \in Nat
        BY <1>1, DownsFacts
      <4>2. \A k \in Downs(list) : k \notin i .. Len(list)
        BY <3>1, <3>2, DownsFacts DEF Matches
      <4> QED
        BY <1>1, <4>1, <4>2
    <3>4. Downs(list)' = Downs(list)
      BY <3>1
    <3> QED
      BY <3>1, <3>2, <3>3, <3>4 DEF RanUpTo
  <2>2. CASE pc = "kill" /\ SameEntries /\ ran' = ran
    <3>1. RanUpTo(Len(list) + 1)
      BY <1>4, <1>6, <2>2 DEF RanInv
    <3>2. Len(list') + 1 = Len(list) + 1
      BY <2>2 DEF SameEntries
    <3>3. PICK n, m : n = Len(list) + 1 /\ m = Len(list') + 1
      OBVIOUS
    <3>4. RanUpTo(n) /\ m = n
      BY <3>1, <3>2, <3>3
    <3>5. /\ \A j \in 1 .. Len(ran') :
                \E k \in Downs(list)' : k < m /\ ran'[j] = list'[k].id
          /\ \A k \in Downs(list)' : k < m =>
                \E j \in 1 .. Len(ran') : ran'[j] = list'[k].id
          /\ \A j, l \in 1 .. Len(ran'), k, e \in Downs(list)' :
                j < l /\ ran'[j] = list'[k].id /\ ran'[l] = list'[e].id => k < e
      BY <2>2, <3>4, SameRan
    <3> QED
      BY <3>3, <3>5 DEF RanUpTo
  <2>3. ASSUME ~RunDone
        PROVE  pc = "kill" /\ SameEntries /\ ran' = ran
    <3>1. ~RunOnce /\ ~RunKept /\ ~Keep /\ ~RunFails /\ ~WaitFor /\ ~CheckDone /\ ~CheckInt
          /\ ~CheckHup /\ ~Parse /\ ~KillStale /\ ~Purge /\ ~PurgeDone
      BY <1>6 DEF RunOnce, RunKept, Keep, RunFails, WaitFor, CheckDone, CheckInt, CheckHup,
                  Parse, KillStale, Purge, PurgeDone
    <3>2. ~ReapOne /\ ~ReapBlocks /\ ~ReapDone /\ ~Kill /\ ~Exec /\ ~ExecFails /\ ~GoDown
      BY <1>6 DEF ReapOne, ReapBlocks, ReapDone, Kill, Exec, ExecFails, GoDown
    <3>3. CASE Record \/ Cont
      <4>1. pc = "kill" /\ ran' = ran
        BY <1>1, <1>6, <3>3, InterruptedFacts DEF Record, Cont
      <4> QED
        BY <3>1, <3>2, <4>1, SameLength
    <3>4. CASE Stop \/ StopReaps \/ Daemon \/ (\E p \in Pids : Exit(p)) \/ Down \/ UNCHANGED vars
      <4>1. pc = "kill" /\ ran' = ran
        BY <1>6, <3>4 DEF Stop, StopReaps, Daemon, Exit, Down, vars
      <4> QED
        BY <3>1, <3>2, <4>1, SameLength
    <3> QED
      BY <2>3, <3>1, <3>2, <3>3, <3>4 DEF Next, Main
  <2> QED
    BY <2>1, <2>2, <2>3
<1> QED
  BY <1>3, <1>5, <1>6 DEF RanInv

-----------------------------------------------------------------------------

\* The inductive invariant; that consoles stay in the list needs SameKind.
BusyInitInv == EntryInv /\ NobodyLeft /\ WaitInv /\ OrderInv /\ RanInv

\* init has read inittab and nothing runs yet.
LEMMA InvInit == Init => BusyInitInv /\ ConsolesListed
<1> SUFFICES ASSUME Init
             PROVE  BusyInitInv /\ ConsolesListed
  OBVIOUS
<1>1. TypeInv
  BY TypeInit
<1>2. loaded \in Tables /\ list = Entries(loaded)
  BY DEF Init
<1>3. /\ Len(list) = Len(loaded)
      /\ \A j \in 1 .. Len(loaded) : /\ list[j].id = loaded[j].id
                                     /\ list[j].type = loaded[j].type /\ list[j].pid = 0
  BY <1>2, EntriesFacts
<1>4. \A p \in Pids : proc[p].st = "free"
  BY DEF Init, Nobody
<1>5. Alive = {} /\ \A p \in Pids : ~Console(p)
  BY <1>4 DEF Alive, Console
<1>6. Distinct
  BY <1>2, <1>3, TableFacts DEF Distinct
<1>7. OwnPids
  BY <1>3 DEF OwnPids
<1>8. Given
  BY <1>2, <1>3, <1>5 DEF Given
<1>9. LoadInv /\ NobodyLeft /\ KeepInv
  BY DEF Init, LoadInv, NobodyLeft, KeepInv
<1>10. WaitInv
  BY <1>5 DEF Init, WaitInv
<1>11. OrderInv
  BY <1>2, EntriesOrder DEF Init, OrderInv
<1>12. RanInv
  BY BusyInitAssumption DEF Init, RanInv
<1>13. ConsolesListed
  BY <1>5 DEF Init, ConsolesListed
<1> QED
  BY <1>1, <1>6, <1>7, <1>8, <1>9, <1>10, <1>11, <1>12, <1>13 DEF BusyInitInv, EntryInv

\* Every step keeps the invariant.
LEMMA InvNext == BusyInitInv /\ [Next]_vars => BusyInitInv'
BY TypeNext, DistinctNext, OwnPidsNext, KeepNext, GivenNext, LoadNext, NobodyNext, WaitNext,
   OrderNext, RanNext DEF BusyInitInv, EntryInv

\* Types: init_action_list holds actions and process numbers, and init blocks
\* in wait() only in waitfor and in the main loop.
THEOREM TypeCorrect == Spec => []TypeOK
<1>1. BusyInitInv => TypeOK
  <2> SUFFICES ASSUME BusyInitInv
               PROVE  TypeOK
    OBVIOUS
  <2>1. TypeInv
    BY DEF BusyInitInv, EntryInv
  <2>2. \A j \in 1 .. Len(list) : /\ list[j].type \in Types \cup {Stale}
                                  /\ list[j].pid \in Pids \cup {0, -1}
    BY <2>1, PidType DEF Entry
  <2>3. \A p \in Pids : proc[p].st \in {"free", "run", "zombie"}
    BY <2>1 DEF TypeInv, ListType, Proc
  <2> QED
    BY <2>1, <2>2, <2>3 DEF TypeInv, ControlType, CallInv, Places, TypeOK
<1> QED
  BY <1>1, InvInit, InvNext, PTL DEF Spec

\* mark_terminated finds the entry of every child that has ended, unless
\* stop_handler reaped it between run() and the assignment of its number; and no
\* console runs beside its entry, so that none is started twice; whatever
\* inittab is read, as long as no command is a console in one version of it and
\* a sysinit script in another.
THEOREM PidsAreRight ==
    ASSUME SameKind
    PROVE  Spec => []PidsRight
<1> DEFINE IInv == BusyInitInv /\ ConsolesListed
<1>1. Init => IInv
  BY InvInit
<1>2. IInv /\ [Next]_vars => IInv'
  BY InvNext, ListedNext DEF BusyInitInv
<1>3. IInv => PidsRight
  <2> SUFFICES ASSUME IInv
               PROVE  PidsRight
    OBVIOUS
  <2>1. TypeInv /\ OwnPids
    BY DEF BusyInitInv, EntryInv
  <2>2. \A p \in Pids : proc[p].st \in {"free", "run", "zombie"}
    BY <2>1 DEF TypeInv, ListType, Proc
  <2>3. ASSUME NEW j \in 1 .. Len(list), list[j].pid > 0
        PROVE  \/ list[j].pid \in missed
               \/ list[j].pid \in Children /\ proc[list[j].pid].id = list[j].id
    <3>1. list[j].pid \in Pids /\ Own(j)
      BY <2>1, <2>3, PidType DEF OwnPids
    <3> QED
      BY <2>2, <3>1 DEF Own, Children, Alive, Zombies
  <2>4. ASSUME NEW p \in Alive, proc[p].type \in Kept, ~proc[p].doomed
        PROVE  Listed(p)
    BY <2>4 DEF ConsolesListed, Console, Alive
  <2> QED
    BY <2>3, <2>4 DEF PidsRight, Listed
<1> QED
  BY <1>1, <1>2, <1>3, PTL DEF Spec

\* "Start these first and wait for completion": when a group of entries is
\* run, no script of an earlier group that had to be waited for is running,
\* whatever signals came while init was waiting.
THEOREM StagesAreKept == Spec => []Stages
<1>1. BusyInitInv => Stages
  BY DEF BusyInitInv, WaitInv, Stages, Waited, OneShot
<1> QED
  BY <1>1, InvInit, InvNext, PTL DEF Spec

\* All shutdown entries of inittab as it was last read, and only they, have
\* run once each, in their order, and ended, before everyone is killed.
THEOREM ShutdownIsDone == Spec => []ShutdownDone
<1>1. BusyInitInv => ShutdownDone
  <2> SUFFICES ASSUME BusyInitInv, pc = "kill", ~torn, budget.failures = MaxFailures
               PROVE  ShutdownDone
    BY DEF ShutdownDone
  <2>1. InOrder /\ RanUpTo(Len(list) + 1) /\ Len(list) \in Nat
    BY DEF BusyInitInv, EntryInv, TypeInv, ListType, OrderInv, RanInv
  <2>2. \A p \in Alive : proc[p].type # "shutdown"
    BY DEF BusyInitInv, WaitInv
  <2>3. \A k \in Downs(list) : k < Len(list) + 1
    BY <2>1, DownsFacts
  <2>4. \A j \in 1 .. Len(ran) : \E k \in Downs(loaded) : ran[j] = loaded[k].id
    BY <2>1 DEF InOrder, RanUpTo
  <2>5. \A k \in Downs(loaded) : \E j \in 1 .. Len(ran) : ran[j] = loaded[k].id
    BY <2>1, <2>3 DEF InOrder, RanUpTo
  <2>6. ASSUME NEW j \in 1 .. Len(ran), NEW m \in 1 .. Len(ran), NEW k \in Downs(loaded),
               NEW l \in Downs(loaded), j < m, ran[j] = loaded[k].id, ran[m] = loaded[l].id
        PROVE  k < l
    <3>1. \A x \in 1 .. Len(ran) : \E a \in Downs(list) : ran[x] = list[a].id
      BY <2>1 DEF RanUpTo
    <3>2. PICK a \in Downs(list) : ran[j] = list[a].id
      BY <3>1
    <3>3. PICK b \in Downs(list) : ran[m] = list[b].id
      BY <3>1
    <3>4. a < b
      BY <2>1, <2>6, <3>2, <3>3 DEF RanUpTo
    <3>5. list[a].id = loaded[k].id /\ list[b].id = loaded[l].id
      BY <2>6, <3>2, <3>3
    <3> QED
      BY <2>1, <3>4, <3>5 DEF InOrder
  <2> QED
    BY <2>2, <2>4, <2>5, <2>6 DEF ShutdownDone
<1> QED
  BY <1>1, InvInit, InvNext, PTL DEF Spec

\* When all lines have been read, a stale entry is none of inittab's.
LEMMA StaleGone ==
    ASSUME TypeInv, Distinct, LoadInv, pc = "parse", lines = <<>>,
           NEW j \in 1 .. Len(list), list[j].type = Stale
    PROVE  \A k \in 1 .. Len(loaded) : loaded[k].id # list[j].id
<1> SUFFICES ASSUME NEW k \in 1 .. Len(loaded), loaded[k].id = list[j].id
             PROVE  FALSE
  OBVIOUS
<1>1. Len(loaded) \in Nat /\ Len(list) \in Nat /\ loaded[k].type \in Types
  BY TableFacts DEF TypeInv, ListType
<1>2. Read = Len(loaded)
  <2>1. Len(lines) = 0
    OBVIOUS
  <2> QED
    BY <1>1, <2>1 DEF Read
<1>3. PICK d : d = Len(list) - Len(loaded)
  OBVIOUS
<1>4. /\ Len(loaded) <= Len(list)
      /\ list[d + k].id = loaded[k].id /\ list[d + k].type = loaded[k].type
  BY <1>2, <1>3 DEF LoadInv
<1>5. d + k \in 1 .. Len(list)
  BY <1>1, <1>3, <1>4
<1>6. d + k = j
  BY <1>4, <1>5 DEF Distinct
<1>7. Stale \notin Types
  BY DEF Stale, Types, OneShot, Kept
<1> QED
  BY <1>1, <1>4, <1>6, <1>7

\* "This prevents losing running RESPAWNs": reload_inittab spares the processes
\* of all commands that inittab still has, however the lines have moved, unless
\* a fork had failed for an entry that is gone; nobody else sends SIGTERM.
THEOREM ListedAreSpared == Spec => ListedSpared
<1> DEFINE Gone(id) == \A k \in 1 .. Len(loaded) : loaded[k].id # id
           Ok == \A p \in Pids : proc'[p].doomed /\ ~proc[p].doomed =>
                    \/ Gone(proc[p].id)
                    \/ \E j \in 1 .. Len(list) : list[j].pid = -1 /\ Gone(list[j].id)
<1>1. BusyInitInv /\ [Next]_vars => [Ok]_vars
  <2> SUFFICES ASSUME BusyInitInv, [Next]_vars
               PROVE  Ok
    OBVIOUS
  <2>1. TypeInv /\ list \in Seq(Entry) /\ proc \in [Pids -> Proc] /\ Distinct /\ OwnPids
        /\ LoadInv
    BY DEF BusyInitInv, EntryInv, TypeInv, ListType
  <2> HIDE DEF Gone
  <2>2. CASE proc' = proc
    BY <2>2
  <2>3. CASE \E z \in Zombies : Reap(z)
    <3>1. PICK z \in Pids : Reap(z)
      BY <2>3 DEF Zombies
    <3> QED
      BY <2>1, <3>1, ReapFacts
  <2>4. CASE Started
    BY <2>1, <2>4, StartedFacts
  <2>5. CASE ConsoleStarted
    BY <2>1, <2>5, ConsoleFacts
  <2>6. CASE Ended
    BY <2>1, <2>6, EndedFacts
  <2>7. CASE KillStale
    <3>1. pc = "parse" /\ lines = <<>>
      BY <2>7 DEF KillStale
    <3>2. \A j \in 1 .. Len(list) : list[j].type = Stale => Gone(list[j].id)
      BY <2>1, <3>1, StaleGone DEF Gone
    <3>3. ASSUME NEW p \in Pids, proc'[p].doomed, ~proc[p].doomed
          PROVE  \/ Gone(proc[p].id)
                 \/ \E j \in 1 .. Len(list) : list[j].pid = -1 /\ Gone(list[j].id)
      <4>1. p \in Killed
        BY <2>1, <2>7, <3>3, KillFacts
      <4>2. PICK j \in 1 .. Len(list) :
               list[j].type = Stale /\ (list[j].pid = -1 \/ (list[j].pid = p /\ p \in Alive))
        BY <4>1 DEF Killed
      <4>3. CASE list[j].pid = -1
        BY <3>2, <4>2, <4>3
      <4>4. CASE list[j].pid = p /\ p \in Alive
        <5>1. p > 0 /\ proc[p].st = "run"
          BY <4>4, BusyInitAssumption DEF Alive
        <5>2. Own(j)
          BY <2>1, <4>4, <5>1 DEF OwnPids
        <5>3. proc[p].id = list[j].id
          BY <4>4, <5>1, <5>2 DEF Own
        <5> QED
          BY <3>2, <4>2, <5>3
      <4> QED
        BY <4>2, <4>3, <4>4
    <3> QED
      BY <3>3
  <2> QED
    BY <2>1, <2>2, <2>3, <2>4, <2>5, <2>6, <2>7, StepEffect
       DEF Effect, ConsoleFailed, Keep, CheckHup, Parse, Purge, Exec
<1> QED
  BY <1>1, InvInit, InvNext, PTL DEF Spec, ListedSpared
=============================================================================
