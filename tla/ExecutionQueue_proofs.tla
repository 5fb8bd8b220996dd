---------------------- MODULE ExecutionQueue_proofs ----------------------
(***************************************************************************)
(* Safety of the execution queue, for any number of threads, fibers,       *)
(* nodes, tasks and incarnations of the slot.                              *)
(***************************************************************************)
EXTENDS ExecutionQueue, FiniteSetTheorems, WellFoundedInduction, TLAPS

-----------------------------------------------------------------------------
(* Labels and types *)

\* Labels at which a process has no node and no part in the queue, at which it
\* iterates over tasks, and at which it returns the slot.
Quiet == {"idle", "execute", "stop", "stop_set", "unaddress", "deref", "deref_last",
          "invalid_id", "recycle", "join", "join_wait"}
Pass == {"begin", "advance", "scan", "destruct", "executed"}
Closed == {"destroy", "wake_joiners", "return_slot"}
CallerLabels == Quiet \cup Pass \cup
                {"count_high", "exchange", "link", "spawn", "more", "sweep", "finish"}
FiberLabels == Pass \cup Closed \cup {"idle", "loop", "more", "sweep", "finish"}

Local == [op : {"none", "execute", "stop", "join", "fiber"}, ver : Nat, newVer : Nat, derefs : 0..2,
          node : Nodes \cup {NULL}, prev : Nodes \cup {NULL}, newHead : Nodes \cup {NULL},
          handle : Handle \cup {NULL}, list : Seq(Nodes), high : BOOLEAN, cur : Nat,
          niterated : Nat, shouldBreak : BOOLEAN, destroy : BOOLEAN]
Node == [version : Nat, status : {"UNEXECUTED", "EXECUTING", "EXECUTED"}, stopTask : BOOLEAN,
         iterated : BOOLEAN, high : BOOLEAN, inPlace : BOOLEAN,
         next : Nodes \cup {NULL, UNCONNECTED}, task : Nat]
Task == [high : BOOLEAN, queue : Nat, fate : {"pending", "executed", "cancelled", "repeated"},
         late : Nat]
LocalType == /\ pc \in [Procs -> CallerLabels \cup FiberLabels]
             /\ loc \in [Procs -> Local]
             /\ \A c \in Callers : pc[c] \in CallerLabels
             /\ \A f \in Fibers : pc[f] \in FiberLabels
HistoryType == tasks \in Seq(Task) /\ stopRuns \in Seq(Nat)
TypeInv == TypeOK /\ LocalType /\ HistoryType

-----------------------------------------------------------------------------
(* References, versions and the slot *)

\* The references that p has still to give back.
Held(p) == IF pc[p] = "unaddress" THEN 1 ELSE IF pc[p] = "stop_set" THEN 2 ELSE loc[p].derefs
\* The reference of create(), which stop() takes over.
Base == slot = "referenced" \/ (slot = "used" /\ vref.ver = thisId)
Once == {p \in Procs : Held(p) >= 1}
Twice == {p \in Procs : Held(p) >= 2}

\* _versioned_ref counts the references that are held.
RefInv == /\ IsFiniteSet(Once) /\ IsFiniteSet(Twice)
          /\ vref.ref = Cardinality(Once) + Cardinality(Twice) + (IF Base THEN 1 ELSE 0)

DerefsInv == \A p \in Procs :
    /\ pc[p] \in {"execute", "stop", "stop_set", "count_high"} => loc[p].derefs = 1
    /\ pc[p] = "deref" => loc[p].derefs \in {1, 2}
    /\ pc[p] \in {"idle", "join", "join_wait", "unaddress", "deref_last", "invalid_id", "recycle"} =>
          loc[p].derefs = 0
    /\ p \in Fibers => loc[p].derefs = 0

\* The last reference to the incarnation is gone and its stop task under way.
Recycled == slot = "used" /\ vref.ver = thisId + 2
RunStops == {stopRuns[i] : i \in DOMAIN stopRuns}

VersionInv ==
    /\ thisId % 2 = 0
    /\ \A v \in ids : v % 2 = 0 /\ v <= thisId
    /\ slot # "used" => /\ vref.ver % 2 = 0 /\ joinButex = vref.ver /\ thisId <= vref.ver
                        /\ \A v \in ids : v < vref.ver
    /\ slot = "used" => /\ thisId \in ids /\ vref.ver \in {thisId, thisId + 1, thisId + 2}
                        /\ joinButex = thisId \/ (joinButex = thisId + 2 /\ thisId \in RunStops)
                        /\ thisId \in RunStops => vref.ver = thisId + 2
\* Every incarnation but the present one has been told to stop, once.
StopRunInv ==
    /\ RunStops \subseteq ids
    /\ \A i, j \in DOMAIN stopRuns : stopRuns[i] = stopRuns[j] => i = j
    /\ \A v \in ids : v # thisId \/ slot # "used" => v \in RunStops
    /\ joined \subseteq RunStops
\* What a process inside address(), dereference() or join() knows of the version.
Knows(p) ==
    /\ pc[p] # "unaddress" /\ Held(p) >= 1 => slot = "used" /\ vref.ver \in {thisId, thisId + 1}
    /\ pc[p] = "unaddress" => loc[p].ver = vref.ver \/ (Odd(vref.ver) /\ vref.ver = loc[p].ver + 1)
    /\ pc[p] \in {"deref_last", "recycle"} => \E v \in ids : loc[p].ver = v + 1
    /\ pc[p] = "recycle" => loc[p].newVer = loc[p].ver + 1
    /\ pc[p] = "invalid_id" => \E v \in RunStops : loc[p].ver = v + 1
    /\ pc[p] \in {"join", "join_wait"} => loc[p].ver \in ids
HolderInv == \A p \in Procs : Knows(p)
StoppedInv ==
    /\ slot = "used" /\ vref.ver = thisId + 1 => stopped \/ \E p \in Procs : pc[p] = "stop_set"
    /\ Recycled => stopped
SlotPart == DerefsInv /\ RefInv /\ VersionInv /\ StopRunInv /\ HolderInv /\ StoppedInv

-----------------------------------------------------------------------------
(* Nodes, tasks and handles *)

\* p has taken n from the pool and not pushed it yet.
Owns(p, n) == pc[p] \in {"count_high", "exchange"} /\ loc[p].node = n
\* The place of a node in the order of the exchanges of _head; 0 when it is not in
\* the queue.  The stop task is behind all tasks.
ranks == [n \in Nodes |-> IF node[n].task > 0 THEN node[n].task
                          ELSE IF node[n].stopTask /\ \A p \in Procs : ~Owns(p, n)
                                 THEN Len(tasks) + 1 ELSE 0]

OwnerInv ==
    /\ \A p \in Procs : pc[p] \in {"count_high", "exchange"} => loc[p].node \in Nodes
    /\ \A p \in Procs, n \in Nodes : Owns(p, n) =>
         /\ n \notin pool /\ node[n].task = 0 /\ ~node[n].iterated /\ node[n].status = "UNEXECUTED"
         /\ node[n].next = UNCONNECTED
         /\ pc[p] = "count_high" => ~node[n].stopTask /\ node[n].high
         /\ loc[p].derefs = 1 \/ (loc[p].derefs = 0 /\ node[n].stopTask)
    /\ \A p, q \in Procs, n \in Nodes : Owns(p, n) /\ Owns(q, n) => p = q
NodeInv == \A n \in Nodes :
    /\ n \in pool => node[n].task = 0 /\ ~node[n].stopTask /\ ~node[n].high /\ ~node[n].iterated
    /\ node[n].iterated => node[n].status # "UNEXECUTED" /\ ranks[n] > 0
    /\ node[n].task > 0 => ~node[n].stopTask
    /\ node[n].high /\ node[n].task = 0 => \E p \in Procs : Owns(p, n)
TaskInv ==
    /\ \A n \in Nodes : node[n].task > 0 =>
         /\ node[n].task <= Len(tasks)
         /\ tasks[node[n].task].high = node[n].high
         /\ node[n].status = "UNEXECUTED" <=> tasks[node[n].task].fate = "pending"
    /\ \A m, n \in Nodes : node[n].task > 0 /\ node[m].task = node[n].task => m = n
    /\ \A t \in DOMAIN tasks :
         /\ tasks[t].fate # "repeated"
         /\ tasks[t].fate = "pending" => \E n \in Nodes : node[n].task = t
\* A handle is of the task that its node has, or older than that.
ValidHandle(h) == /\ h.task \in 1..Len(tasks)
                  /\ h.version <= node[h.node].version
                  /\ h.version = node[h.node].version => node[h.node].task = h.task
HandleInv == /\ \A h \in handles : ValidHandle(h)
             /\ \A p \in Procs : pc[p] \notin Quiet \cup Closed =>
                   \A h \in {loc[p].handle} \ {NULL} : ValidHandle(h)
NodePart == OwnerInv /\ NodeInv /\ TaskInv /\ HandleInv

-----------------------------------------------------------------------------
(* The queue and its executor *)

Runs(p) == pc[p] \in Executing
HasList(p) == pc[p] \in Executing \cup {"finish"}
FirstRank(p) == ranks[loc[p].list[1]]
LastRank(p) == ranks[loc[p].list[Len(loc[p].list)]]

HeadInv ==
    /\ \A p, q \in Procs : Runs(p) /\ Runs(q) => p = q
    /\ head = NULL <=> \A p \in Procs : ~Runs(p)
    /\ head # NULL => /\ ranks[head] > 0 /\ ranks[head] >= Len(tasks)
                      /\ \A n \in Nodes : ranks[n] <= ranks[head]
\* The nodes taken over are in the order of their pushes, without a gap.
ListInv == \A p \in Procs : HasList(p) =>
    /\ Len(loc[p].list) > 0 /\ FirstRank(p) > 0
    /\ \A i \in 1..Len(loc[p].list) : ranks[loc[p].list[i]] = FirstRank(p) + i - 1
\* A node behind them is linked to its predecessor, or not linked yet.
ChainInv == \A p \in Procs, n \in Nodes : Runs(p) /\ ranks[n] > LastRank(p) =>
    /\ ~node[n].iterated
    /\ node[n].next # UNCONNECTED => node[n].next \in Nodes /\ ranks[node[n].next] = ranks[n] - 1
LinkInv == \A q \in Procs : pc[q] = "link" =>
    /\ loc[q].node \in Nodes /\ loc[q].prev \in Nodes
    /\ node[loc[q].node].next = UNCONNECTED
    /\ ranks[loc[q].prev] = ranks[loc[q].node] - 1
    /\ head # NULL
    /\ \A p \in Procs : Runs(p) => ranks[loc[q].node] > LastRank(p)
    /\ \A r \in Procs : pc[r] = "link" /\ r # q => loc[r].node # loc[q].node
SweepOf(p) == pc[p] = "sweep" => loc[p].newHead \in Nodes /\ ranks[loc[p].newHead] > LastRank(p)
SweepInv == \A p \in Procs : SweepOf(p)
FinishInv == \A p \in Procs : pc[p] = "finish" =>
    /\ Len(loc[p].list) = 1 /\ node[loc[p].list[1]].iterated
    /\ \A q \in Procs : Runs(q) => FirstRank(p) < FirstRank(q)
    /\ \A q \in Procs : pc[q] = "finish" /\ q # p => loc[q].list[1] # loc[p].list[1]
\* No task is lost: a node in the queue that was not iterated is not before the
\* nodes of the executor.
LiveInv == \A n \in Nodes : ranks[n] > 0 /\ ~node[n].iterated =>
    \E p \in Procs : Runs(p) /\ FirstRank(p) <= ranks[n]
\* Whether the first node of the list is still to be executed.
FrontOf(p) ==
    /\ pc[p] \in {"spawn", "loop"} /\ node[loc[p].list[1]].iterated =>
          Len(loc[p].list) > 1 /\ ~node[loc[p].list[2]].iterated
    /\ pc[p] = "begin" => ~node[loc[p].list[1]].iterated
    /\ pc[p] \in {"more", "sweep"} /\ node[loc[p].list[1]].iterated => Len(loc[p].list) = 1
FrontInv == \A p \in Procs : FrontOf(p)
\* The tasks of the priority of a pass that it has gone past were iterated.
PassOf(p) ==
    /\ pc[p] = "begin" => loc[p].cur = 1 /\ loc[p].niterated = 0
    /\ pc[p] = "advance" =>
          loc[p].cur \in 1..Len(loc[p].list) /\ node[loc[p].list[loc[p].cur]].iterated
    /\ pc[p] = "scan" => loc[p].cur \in 1..(Len(loc[p].list) + 1)
    /\ pc[p] \in {"advance", "scan"} => \A i \in 1..(loc[p].cur - 1) :
          node[loc[p].list[i]].high = loc[p].high => node[loc[p].list[i]].iterated
PassInv == \A p \in Procs : PassOf(p)
QueuePart == /\ HeadInv /\ ListInv /\ ChainInv /\ LinkInv /\ SweepInv /\ FinishInv
             /\ LiveInv /\ FrontInv /\ PassInv

-----------------------------------------------------------------------------
(* The counter of high-priority tasks, and stopping *)

\* The high-priority tasks that were counted and not iterated.
Waiting == {n \in Nodes : /\ node[n].high /\ ~node[n].iterated
                          /\ \A p \in Procs : Owns(p, n) => pc[p] # "count_high"}
InPass(p) == pc[p] \in Pass
CountInv ==
    /\ \A p \in Procs : InPass(p) =>
          highTasks = Cardinality(Waiting) + (IF loc[p].high THEN loc[p].niterated ELSE 0)
    /\ (\A p \in Procs : ~InPass(p)) => highTasks = Cardinality(Waiting)
    /\ \A p \in Procs : pc[p] = "begin" /\ loc[p].high => Waiting # {}
LateInv ==
    /\ \A t \in DOMAIN tasks : tasks[t].late <= 1
    /\ \A p \in Procs : pc[p] = "scan" /\ ~loc[p].high =>
          \A t \in DOMAIN tasks : tasks[t].high /\ tasks[t].fate = "pending" => tasks[t].late = 0

Closing(p) == pc[p] \in Closed
StopNodeInv == \A n \in Nodes : node[n].stopTask =>
    /\ Recycled /\ ~node[n].high /\ joinButex = thisId
    /\ ~node[n].iterated => thisId \notin RunStops
    /\ \A m \in Nodes : node[m].stopTask => m = n
    /\ \A p \in Procs : ~Closing(p)
ClosingInv == \A p \in Procs : Closing(p) =>
    /\ Recycled /\ head = NULL /\ thisId \in RunStops
    /\ joinButex = (IF pc[p] = "destroy" THEN thisId ELSE thisId + 2)
    /\ \A q \in Procs : Closing(q) => p = q
DestroyInv == \A p \in Procs : HasList(p) /\ loc[p].destroy =>
    /\ pc[p] \in {"executed", "more", "finish"} /\ Len(loc[p].list) = 1
    /\ node[loc[p].list[1]].stopTask /\ node[loc[p].list[1]].iterated /\ thisId \in RunStops
    /\ pc[p] = "finish" => head = NULL
UnusedInv == /\ slot # "used" => head = NULL
             /\ \A t \in DOMAIN tasks : tasks[t].fate = "pending" => tasks[t].queue \notin RunStops
StopPart == StopNodeInv /\ ClosingInv /\ DestroyInv /\ UnusedInv
CountPart == CountInv /\ LateInv /\ InOrder

IInv == TypeInv /\ SlotPart /\ NodePart /\ QueuePart /\ CountPart /\ StopPart

-----------------------------------------------------------------------------
(* Least elements and the walk along the links *)

\* A set of numbers has a least element.
LEMMA LeastOf ==
  ASSUME NEW S, S \subseteq Nat, S # {}
  PROVE  \E i \in S : \A j \in S : i <= j
<1> DEFINE R == OpToRel(<, Nat)
<1>1. PICK x \in S : \A y \in S : ~ (<<y, x>> \in R)
  BY WFMin, NatLessThanWellFounded
<1>2. \A y \in S : y < x => <<y, x>> \in R
  BY Zenon DEF OpToRel
<1> HIDE DEF R
<1>3. \A y \in S : ~(y < x)
  BY <1>1, <1>2
<1> QED
  BY <1>3

\* First picks the least element.
LEMMA FirstIsLeast ==
  ASSUME NEW S, S \subseteq Nat, S # {}
  PROVE  First(S) \in S /\ First(S) \in Nat /\ \A j \in S : First(S) <= j
<1>1. First(S) \in S /\ \A j \in S : First(S) <= j
  BY LeastOf, Zenon DEF First
<1> QED
  BY <1>1

\* The recursive function of Walk exists, hence it does what its definition says.
LEMMA WalkSteps ==
  ASSUME NEW n
  PROVE  /\ DOMAIN Walk(n) = 0..Cardinality(Nodes) /\ Cardinality(Nodes) \in Nat
         /\ Walk(n)[0] = n
         /\ \A i \in 0..Cardinality(Nodes) : i # 0 =>
              Walk(n)[i] = IF Walk(n)[i - 1] \in Nodes THEN node[Walk(n)[i - 1]].next ELSE Walk(n)[i - 1]
<1> DEFINE N == Cardinality(Nodes)
           IsWalk(f, m) == f = [i \in 0..m |-> IF i = 0 THEN n
                                               ELSE IF f[i - 1] \in Nodes
                                                      THEN node[f[i - 1]].next ELSE f[i - 1]]
           Bad == {m \in Nat : ~ \E f : IsWalk(f, m)}
<1>1. N \in Nat
  BY NodesAssumption, FS_CardinalityType
<1>2. Bad = {}
  <2>1. SUFFICES ASSUME Bad # {} PROVE FALSE
    OBVIOUS
  <2>2. PICK m \in Bad : \A j \in Bad : m <= j
    <3> HIDE DEF IsWalk
    <3> QED
      BY <2>1, LeastOf
  <2>3. m \in Nat /\ m # 0
    <3>1. IsWalk([i \in 0..0 |-> n], 0)
      OBVIOUS
    <3> HIDE DEF IsWalk
    <3> QED
      BY <3>1, <2>2
  <2>4. m - 1 \in Nat /\ m - 1 \notin Bad
    <3> HIDE DEF IsWalk
    <3>1. m - 1 \in Nat /\ ~(m <= m - 1)
      BY <2>3
    <3> HIDE DEF Bad
    <3> QED
      BY <2>2, <3>1
  <2>5. PICK f : IsWalk(f, m - 1)
    <3> HIDE DEF IsWalk
    <3> QED
      BY <2>4
  <2> DEFINE g == [i \in 0..m |-> IF i < m THEN f[i]
                                  ELSE IF f[m - 1] \in Nodes THEN node[f[m - 1]].next ELSE f[m - 1]]
  <2>6. IsWalk(g, m)
    <3>1. \A i \in 0..(m - 1) : g[i] = f[i]
      BY <2>3
    <3>2. \A i \in 0..(m - 1) :
            f[i] = IF i = 0 THEN n ELSE IF f[i - 1] \in Nodes THEN node[f[i - 1]].next ELSE f[i - 1]
      BY <2>5
    <3>3. \A i \in 0..m :
            g[i] = IF i = 0 THEN n ELSE IF g[i - 1] \in Nodes THEN node[g[i - 1]].next ELSE g[i - 1]
      <4> SUFFICES ASSUME NEW i \in 0..m
                   PROVE  g[i] = IF i = 0 THEN n
                                 ELSE IF g[i - 1] \in Nodes THEN node[g[i - 1]].next ELSE g[i - 1]
        OBVIOUS
      <4>1. CASE i = m
        <5>1. g[i - 1] = f[m - 1] /\ i # 0
          BY <4>1, <3>1, <2>3
        <5>2. g[i] = IF f[m - 1] \in Nodes THEN node[f[m - 1]].next ELSE f[m - 1]
          BY <4>1, <2>3
        <5> HIDE DEF g
        <5> QED
          BY <5>1, <5>2
      <4>2. CASE i # m
        <5>1. i \in 0..(m - 1) /\ (i # 0 => i - 1 \in 0..(m - 1))
          BY <4>2, <2>3
        <5> HIDE DEF g
        <5> QED
          BY <5>1, <3>1, <3>2
      <4> QED
        BY <4>1, <4>2
    <3>4. g = [i \in 0..m |-> g[i]]
      OBVIOUS
    <3> HIDE DEF g
    <3> QED
      BY <3>3, <3>4
  <2> QED
    <3> HIDE DEF IsWalk, g
    <3> QED
      BY <2>6, <2>2
<1>3. IsWalk(Walk(n), N)
  <2>1. \E f : IsWalk(f, N)
    <3> HIDE DEF IsWalk
    <3> QED
      BY <1>1, <1>2
  <2> QED
    BY <2>1, Zenon DEF Walk
<1> QED
  BY <1>1, <1>3

-----------------------------------------------------------------------------
(* Steps of one process, and the types of its locals *)

\* Only p changes its label and its locals.
Alone(p) == \A q \in Procs : q # p => pc'[q] = pc[q] /\ loc'[q] = loc[q]

Only(p) == pc' = [pc EXCEPT ![p] = pc'[p]] /\ loc' = [loc EXCEPT ![p] = loc'[p]]

\* Goto sets label and locals of one process and leaves those of the others alone.
LEMMA GotoFacts ==
  ASSUME LocalType, NEW p \in Procs, NEW l, NEW r, Goto(p, l, r)
  PROVE  pc'[p] = l /\ loc'[p] = r /\ Alone(p) /\ Only(p)
BY DEF LocalType, Goto, Alone, Only

\* The locals of a call that has just begun.
LEMMA BlankFacts ==
  /\ Blank \in Local /\ Blank.op = "none" /\ Blank.derefs = 0 /\ Blank.handle = NULL
  /\ Blank.node = NULL
  /\ Blank.prev = NULL /\ Blank.newHead = NULL
  /\ Blank.ver = 0 /\ Blank.newVer = 0 /\ Blank.list = << >> /\ Blank.high = FALSE /\ Blank.cur = 1
  /\ Blank.niterated = 0 /\ Blank.shouldBreak = FALSE /\ Blank.destroy = FALSE
BY DEF Blank, Local

\* The types of labels and locals after a step of one process.
LEMMA OnlyType ==
  ASSUME LocalType, NEW p \in Procs, Only(p), loc'[p] \in Local,
         p \in Callers => pc'[p] \in CallerLabels, p \in Fibers => pc'[p] \in FiberLabels
  PROVE  LocalType'
<1>1. pc'[p] \in CallerLabels \cup FiberLabels
  BY DEF Procs
<1>2. PICK l, r : l = pc'[p] /\ r = loc'[p]
  OBVIOUS
<1>3. pc' = [pc EXCEPT ![p] = l] /\ loc' = [loc EXCEPT ![p] = r] /\ r \in Local
      /\ l \in CallerLabels \cup FiberLabels
  BY <1>1, <1>2 DEF Only
<1>4. pc' \in [Procs -> CallerLabels \cup FiberLabels] /\ loc' \in [Procs -> Local]
  BY <1>3 DEF LocalType
<1>5. ASSUME NEW c \in Callers PROVE pc'[c] \in CallerLabels
  BY <1>2, <1>3, <1>5 DEF LocalType, Procs
<1>6. ASSUME NEW f \in Fibers PROVE pc'[f] \in FiberLabels
  BY <1>2, <1>3, <1>6 DEF LocalType, Procs
<1> QED
  BY <1>4, <1>5, <1>6 DEF LocalType

\* What is left of the locals when a call has done its work: references to give back.
LEMMA RestFacts ==
  ASSUME LocalType, NEW p \in Procs
  PROVE  /\ Rest(p) \in Local /\ Rest(p).derefs = loc[p].derefs
         /\ loc[p].derefs = 0 => RestLabel(p) = "idle"
         /\ loc[p].derefs # 0 => RestLabel(p) = "deref"
<1>1. loc[p] \in Local
  BY DEF LocalType
<1>2. loc[p].derefs \in 0..2 /\ loc[p].op \in {"none", "execute", "stop", "join", "fiber"}
  BY <1>1 DEF Local
<1>3. loc[p].derefs = 0 <=> ~(loc[p].derefs > 0)
  BY <1>2
<1>4. CASE loc[p].derefs > 0
  <2>1. Rest(p) = [Blank EXCEPT !.op = loc[p].op, !.derefs = loc[p].derefs] /\ RestLabel(p) = "deref"
    BY <1>4 DEF Rest, RestLabel
  <2>2. [Blank EXCEPT !.op = loc[p].op, !.derefs = loc[p].derefs] \in Local
    BY <1>2, BlankFacts DEF Local
  <2>3. [Blank EXCEPT !.op = loc[p].op, !.derefs = loc[p].derefs].derefs = loc[p].derefs
    BY BlankFacts DEF Local
  <2> QED
    BY <1>3, <1>4, <2>1, <2>2, <2>3
<1>5. CASE ~(loc[p].derefs > 0)
  BY <1>3, <1>5, BlankFacts DEF Rest, RestLabel
<1> QED
  BY <1>4, <1>5

\* Nobody has more than two references.
LEMMA HeldType ==
  ASSUME LocalType, NEW p \in Procs
  PROVE  Held(p) \in 0..2
<1>1. loc[p].derefs \in 0..2
  BY DEF LocalType, Local
<1> QED
  BY <1>1 DEF Held

-----------------------------------------------------------------------------
(* Counting references *)

\* Whoever has references is counted: the count does not fall below what they hold.
LEMMA HoldersCount ==
  ASSUME LocalType, RefInv
  PROVE  /\ Cardinality(Once) \in Nat /\ Cardinality(Twice) \in Nat
         /\ \A p \in Procs : Held(p) >= 1 => vref.ref >= 1
         /\ \A p \in Procs : Held(p) >= 2 => vref.ref >= 2
         /\ Base => vref.ref >= 1
         /\ vref.ref = 0 => ~Base /\ \A p \in Procs : ~(Held(p) >= 1)
         /\ \A p \in Procs : Held(p) >= 1 /\ Base => vref.ref >= 2
<1>1. Cardinality(Once) \in Nat /\ Cardinality(Twice) \in Nat
  BY FS_CardinalityType DEF RefInv
<1>2. Cardinality(Once) = 0 <=> Once = {}
  BY FS_EmptySet DEF RefInv
<1>3. Cardinality(Twice) = 0 <=> Twice = {}
  BY FS_EmptySet DEF RefInv
<1>4. \A p \in Procs : Held(p) >= 1 => p \in Once
  BY DEF Once
<1>5. \A p \in Procs : Held(p) >= 2 => p \in Twice
  BY DEF Twice
<1>6. vref.ref = Cardinality(Once) + Cardinality(Twice) + (IF Base THEN 1 ELSE 0)
  BY DEF RefInv
<1>7. ASSUME NEW p \in Procs, Held(p) >= 1 PROVE Cardinality(Once) >= 1
  BY <1>1, <1>2, <1>4, <1>7
<1>8. ASSUME NEW p \in Procs, Held(p) >= 2 PROVE Cardinality(Twice) >= 1 /\ Cardinality(Once) >= 1
  <2>1. p \in Twice /\ p \in Once
    BY <1>8, HeldType DEF Twice, Once
  <2> QED
    BY <2>1, <1>1, <1>2, <1>3
<1> QED
  BY <1>1, <1>6, <1>7, <1>8

\* The count is right as long as neither it nor the references change.
LEMMA RefFrame ==
  ASSUME RefInv, \A p \in Procs : Held(p)' = Held(p), Base' <=> Base, vref'.ref = vref.ref
  PROVE  RefInv'
<1>1. Once' = Once /\ Twice' = Twice
  BY DEF Once, Twice
<1> QED
  BY <1>1 DEF RefInv

\* p takes a reference.
LEMMA RefTake ==
  ASSUME LocalType, RefInv, NEW p \in Procs, Held(p) = 0, Held(p)' = 1,
         \A q \in Procs : q # p => Held(q)' = Held(q), Base' <=> Base, vref'.ref = vref.ref + 1
  PROVE  RefInv'
<1>1. Once' = Once \cup {p} /\ Twice' = Twice /\ p \notin Once
  BY DEF Once, Twice
<1>2. IsFiniteSet(Once \cup {p}) /\ Cardinality(Once \cup {p}) = Cardinality(Once) + 1
  BY <1>1, FS_AddElement DEF RefInv
<1> QED
  BY <1>1, <1>2, HoldersCount DEF RefInv

\* p gives a reference back.
LEMMA RefGive ==
  ASSUME LocalType, RefInv, NEW p \in Procs, Held(p) \in 1..2, Held(p)' = Held(p) - 1,
         \A q \in Procs : q # p => Held(q)' = Held(q), Base' <=> Base, vref'.ref = vref.ref - 1
  PROVE  RefInv'
<1>1. CASE Held(p) = 1
  <2>1. Once' = Once \ {p} /\ Twice' = Twice /\ p \in Once
    BY <1>1 DEF Once, Twice
  <2>2. IsFiniteSet(Once \ {p}) /\ Cardinality(Once \ {p}) = Cardinality(Once) - 1
    BY <2>1, FS_RemoveElement DEF RefInv
  <2> QED
    BY <2>1, <2>2, HoldersCount DEF RefInv
<1>2. CASE Held(p) = 2
  <2>1. Twice' = Twice \ {p} /\ Once' = Once /\ p \in Twice
    BY <1>2 DEF Once, Twice
  <2>2. IsFiniteSet(Twice \ {p}) /\ Cardinality(Twice \ {p}) = Cardinality(Twice) - 1
    BY <2>1, FS_RemoveElement DEF RefInv
  <2> QED
    BY <2>1, <2>2, HoldersCount DEF RefInv
<1> QED
  BY <1>1, <1>2

\* stop() takes over the reference of create().
LEMMA RefTakeOver ==
  ASSUME LocalType, RefInv, NEW p \in Procs, Held(p) = 1, Held(p)' = 2,
         \A q \in Procs : q # p => Held(q)' = Held(q), Base, ~Base', vref'.ref = vref.ref
  PROVE  RefInv'
<1>1. Twice' = Twice \cup {p} /\ Once' = Once /\ p \notin Twice
  BY DEF Once, Twice
<1>2. IsFiniteSet(Twice \cup {p}) /\ Cardinality(Twice \cup {p}) = Cardinality(Twice) + 1
  BY <1>1, FS_AddElement DEF RefInv
<1> QED
  BY <1>1, <1>2, HoldersCount DEF RefInv

\* create() adds the reference of the queue itself.
LEMMA RefBase ==
  ASSUME LocalType, RefInv, \A p \in Procs : Held(p)' = Held(p), ~Base, Base',
         vref'.ref = vref.ref + 1
  PROVE  RefInv'
<1>1. Once' = Once /\ Twice' = Twice
  BY DEF Once, Twice
<1> QED
  BY <1>1, HoldersCount DEF RefInv

-----------------------------------------------------------------------------
(* The slot: steps that leave it alone *)

slotVars == <<vref, stopped, thisId, joinButex, slot, ids, stopRuns, joined>>

\* q keeps its references, and its step needs to know nothing of the version.
Still(q) ==
    \/ pc'[q] = pc[q] /\ loc'[q].derefs = loc[q].derefs /\ loc'[q].ver = loc[q].ver
                      /\ loc'[q].newVer = loc[q].newVer
    \/ /\ pc[q] \notin {"unaddress", "stop_set"}
       /\ pc'[q] \notin {"unaddress", "stop_set", "stop", "execute", "deref_last", "recycle",
                         "invalid_id", "join", "join_wait"}
       /\ loc'[q].derefs = loc[q].derefs
       /\ pc'[q] = "count_high" => loc[q].derefs = 1
       /\ pc'[q] = "deref" => loc[q].derefs \in {1, 2}
       /\ pc'[q] = "idle" => loc[q].derefs = 0

\* A process that takes no step at the slot keeps its references.
LEMMA StillHeld ==
  ASSUME NEW q \in Procs, Still(q)
  PROVE  Held(q)' = Held(q) /\ (pc[q] = "stop_set" <=> pc'[q] = "stop_set")
BY DEF Still, Held

\* The slot's part of the invariant under steps that do not touch the slot.
LEMMA SlotFrame ==
  ASSUME SlotPart, UNCHANGED slotVars, \A q \in Procs : Still(q)
  PROVE  SlotPart'
<1>1. \A q \in Procs : Held(q)' = Held(q) /\ (pc[q] = "stop_set" <=> pc'[q] = "stop_set")
  BY StillHeld
<1>2. /\ vref' = vref /\ stopped' = stopped /\ thisId' = thisId /\ joinButex' = joinButex
      /\ slot' = slot
      /\ ids' = ids /\ stopRuns' = stopRuns /\ joined' = joined
  BY DEF slotVars
<1>3. (Base' <=> Base) /\ RunStops' = RunStops /\ (Recycled' <=> Recycled)
  BY <1>2 DEF Base, RunStops, Recycled
<1>4. DerefsInv'
  <2> SUFFICES ASSUME NEW q \in Procs
               PROVE  /\ pc'[q] \in {"execute", "stop", "stop_set", "count_high"} =>
                             loc'[q].derefs = 1
                      /\ pc'[q] = "deref" => loc'[q].derefs \in {1, 2}
                      /\ pc'[q] \in {"idle", "join", "join_wait", "unaddress", "deref_last",
                                     "invalid_id", "recycle"} => loc'[q].derefs = 0
                      /\ q \in Fibers => loc'[q].derefs = 0
    BY DEF DerefsInv
  <2> QED
    BY DEF SlotPart, DerefsInv, Still
<1>5. RefInv'
  BY <1>1, <1>2, <1>3, RefFrame DEF SlotPart
<1>6. VersionInv' /\ StopRunInv'
  BY <1>2, <1>3 DEF SlotPart, VersionInv, StopRunInv
<1>7. HolderInv'
  <2> SUFFICES ASSUME NEW q \in Procs PROVE Knows(q)'
    BY DEF HolderInv
  <2>1. pc'[q] = "unaddress" <=> pc[q] = "unaddress"
    BY DEF Still
  <2>2. Knows(q)
    BY DEF SlotPart, HolderInv
  <2> QED
    BY <1>1, <1>2, <1>3, <2>1, <2>2 DEF Knows, Still, Odd
<1>8. StoppedInv'
  BY <1>1, <1>2, <1>3 DEF SlotPart, StoppedInv
<1> QED
  BY <1>4, <1>5, <1>6, <1>7, <1>8 DEF SlotPart

-----------------------------------------------------------------------------
(* The slot: create(), address() and dereference() *)

\* create(): the fields of the slot are reset.
LEMMA SlotCreateReset ==
  ASSUME TypeInv, SlotPart, CreateReset
  PROVE  SlotPart'
<1>1. /\ slot = "pooled" /\ slot' = "creating" /\ vref' = vref /\ thisId' = thisId
      /\ joinButex' = joinButex
      /\ pc' = pc /\ loc' = loc /\ ids' = ids /\ stopRuns' = stopRuns /\ joined' = joined
  BY DEF CreateReset, history
<1>2. (Base' <=> Base) /\ RunStops' = RunStops /\ ~Recycled' /\ \A q \in Procs : Held(q)' = Held(q)
  BY <1>1 DEF Base, RunStops, Recycled, Held
<1>3. RefInv'
  BY <1>1, <1>2, RefFrame DEF SlotPart
<1>4. DerefsInv'
  BY <1>1 DEF SlotPart, DerefsInv
<1>5. VersionInv' /\ StopRunInv' /\ StoppedInv'
  BY <1>1, <1>2 DEF SlotPart, VersionInv, StopRunInv, StoppedInv
<1>6. HolderInv'
  BY <1>1, <1>2 DEF SlotPart, HolderInv, Knows, Odd
<1> QED
  BY <1>3, <1>4, <1>5, <1>6 DEF SlotPart

\* create(): the first reference is taken.
LEMMA SlotCreateRef ==
  ASSUME TypeInv, SlotPart, CreateRef
  PROVE  SlotPart'
<1>1. /\ slot = "creating" /\ slot' = "referenced" /\ thisId' = thisId /\ joinButex' = joinButex
      /\ vref'.ver = vref.ver /\ vref'.ref = vref.ref + 1
      /\ pc' = pc /\ loc' = loc /\ ids' = ids /\ stopRuns' = stopRuns /\ joined' = joined
  BY DEF CreateRef, history, TypeInv, TypeOK
<1>2. ~Base /\ Base' /\ RunStops' = RunStops /\ ~Recycled' /\ \A q \in Procs : Held(q)' = Held(q)
  BY <1>1 DEF Base, RunStops, Recycled, Held
<1>3. RefInv'
  BY <1>1, <1>2, RefBase DEF SlotPart, TypeInv
<1>4. DerefsInv'
  BY <1>1 DEF SlotPart, DerefsInv
<1>5. VersionInv' /\ StopRunInv' /\ StoppedInv'
  BY <1>1, <1>2 DEF SlotPart, VersionInv, StopRunInv, StoppedInv
<1>6. HolderInv'
  BY <1>1, <1>2 DEF SlotPart, HolderInv, Knows, Odd
<1> QED
  BY <1>3, <1>4, <1>5, <1>6 DEF SlotPart

\* create(): the identifier is set and handed out.
LEMMA SlotCreateId ==
  ASSUME TypeInv, SlotPart, CreateId
  PROVE  SlotPart'
<1>1. /\ slot = "referenced" /\ slot' = "used" /\ thisId' = vref.ver /\ joinButex' = joinButex
      /\ vref' = vref /\ ids' = ids \cup {vref.ver}
      /\ pc' = pc /\ loc' = loc /\ stopRuns' = stopRuns /\ joined' = joined
  BY DEF CreateId
<1>2. vref.ver \in Nat /\ thisId \in Nat /\ ids \subseteq Nat
  BY DEF TypeInv, TypeOK
<1>3. Base /\ Base' /\ RunStops' = RunStops /\ \A q \in Procs : Held(q)' = Held(q)
  BY <1>1 DEF Base, RunStops, Held
<1>4. RefInv'
  BY <1>1, <1>3, RefFrame DEF SlotPart
<1>5. DerefsInv'
  BY <1>1 DEF SlotPart, DerefsInv
<1>6. vref.ver \notin RunStops /\ \A v \in ids : v < vref.ver /\ v \in RunStops
  BY <1>1, <1>2 DEF SlotPart, VersionInv, StopRunInv
<1>7. VersionInv'
  BY <1>1, <1>2, <1>3, <1>6 DEF SlotPart, VersionInv
<1>8. StopRunInv'
  BY <1>1, <1>2, <1>3, <1>6 DEF SlotPart, StopRunInv
<1>9. StoppedInv'
  BY <1>1, <1>2 DEF StoppedInv, Recycled
<1>10. HolderInv'
  BY <1>1, <1>2, <1>3 DEF SlotPart, HolderInv, Knows, Odd
<1> QED
  BY <1>4, <1>5, <1>7, <1>8, <1>9, <1>10 DEF SlotPart

\* address() takes a reference before it compares the versions.
LEMMA SlotAddress ==
  ASSUME TypeInv, SlotPart, NEW p \in Callers, NEW op \in {"execute", "stop"}, NEW v \in ids,
         Address(p, op, v)
  PROVE  SlotPart'
<1>1. /\ vref'.ver = vref.ver /\ vref'.ref = vref.ref + 1 /\ slot' = slot /\ thisId' = thisId
      /\ joinButex' = joinButex /\ stopped' = stopped /\ ids' = ids /\ stopRuns' = stopRuns
      /\ joined' = joined /\ pc[p] = "idle" /\ p \in Procs
  BY DEF Address, history, TypeInv, TypeOK, Procs
<1>2. \/ vref.ver = v /\ pc'[p] = op /\ loc'[p].derefs = 1 /\ Alone(p)
      \/ vref.ver # v /\ pc'[p] = "unaddress" /\ loc'[p].derefs = 0 /\ loc'[p].ver = vref.ver
         /\ Alone(p)
  <2>1. [Blank EXCEPT !.op = op, !.derefs = 1].derefs = 1
    BY BlankFacts DEF Local
  <2>2. /\ [Blank EXCEPT !.op = op, !.ver = vref.ver].derefs = 0
        /\ [Blank EXCEPT !.op = op, !.ver = vref.ver].ver = vref.ver
    BY BlankFacts DEF Local
  <2>3. CASE vref.ver = v
    <3>1. Goto(p, op, [Blank EXCEPT !.op = op, !.derefs = 1])
      BY <2>3 DEF Address
    <3>2. pc'[p] = op /\ loc'[p] = [Blank EXCEPT !.op = op, !.derefs = 1] /\ Alone(p)
      BY <1>1, <3>1, GotoFacts DEF TypeInv
    <3> QED
      BY <2>1, <2>3, <3>2
  <2>4. CASE vref.ver # v
    <3>1. Goto(p, "unaddress", [Blank EXCEPT !.op = op, !.ver = vref.ver])
      BY <2>4 DEF Address
    <3>2. pc'[p] = "unaddress" /\ loc'[p] = [Blank EXCEPT !.op = op, !.ver = vref.ver] /\ Alone(p)
      BY <1>1, <3>1, GotoFacts DEF TypeInv
    <3> QED
      BY <2>2, <2>4, <3>2
  <2> QED
    BY <2>3, <2>4
<1>3. (Base' <=> Base) /\ RunStops' = RunStops /\ (Recycled' <=> Recycled)
  BY <1>1 DEF Base, RunStops, Recycled
<1>4. Held(p) = 0 /\ Held(p)' = 1
  <2>1. loc[p].derefs = 0
    BY <1>1 DEF SlotPart, DerefsInv
  <2> QED
    BY <1>1, <1>2, <2>1 DEF Held
<1>5. \A q \in Procs : q # p => pc'[q] = pc[q] /\ loc'[q] = loc[q] /\ Held(q)' = Held(q)
  BY <1>2 DEF Alone, Held
<1>6. RefInv'
  BY <1>1, <1>3, <1>4, <1>5, RefTake DEF SlotPart, TypeInv
<1>7. DerefsInv'
  BY <1>1, <1>2, <1>5, DistinctAssumption DEF SlotPart, DerefsInv
<1>8. VersionInv' /\ StopRunInv' /\ StoppedInv'
  <2>1. \A q \in Procs : pc[q] = "stop_set" <=> pc'[q] = "stop_set"
    BY <1>1, <1>2, <1>5
  <2> QED
    BY <1>1, <1>3, <2>1 DEF SlotPart, VersionInv, StopRunInv, StoppedInv
<1>9. vref.ver = v => slot = "used" /\ vref.ver = thisId
  <2>1. vref.ver \in Nat /\ thisId \in Nat
    BY DEF TypeInv, TypeOK
  <2> QED
    BY <2>1 DEF SlotPart, VersionInv
<1>10. HolderInv'
  <2>1. ASSUME NEW q \in Procs, q # p PROVE Knows(q)'
    BY <1>1, <1>3, <1>5, <2>1 DEF SlotPart, HolderInv, Knows, Odd
  <2>2. Knows(p)'
    BY <1>1, <1>2, <1>9 DEF Knows, Odd
  <2> QED
    BY <2>1, <2>2 DEF HolderInv
<1> QED
  BY <1>6, <1>7, <1>8, <1>10 DEF SlotPart

\* What the reference of p says about the version.
LEMMA VersionFacts ==
  ASSUME TypeInv, SlotPart
  PROVE  /\ vref.ver \in Nat /\ vref.ref \in Nat /\ thisId \in Nat /\ ids \subseteq Nat
         /\ thisId % 2 = 0
         /\ Odd(vref.ver) => slot = "used" /\ vref.ver = thisId + 1 /\ thisId \in ids /\ ~Base
         /\ slot = "used" /\ vref.ver = thisId => Base
         /\ slot = "used" /\ vref.ver = thisId + 1 => Odd(vref.ver)
<1>1. vref.ver \in Nat /\ vref.ref \in Nat /\ thisId \in Nat /\ ids \subseteq Nat
  BY DEF TypeInv, TypeOK
<1> QED
  BY <1>1 DEF SlotPart, VersionInv, Odd, Base

\* What address() does when the versions differ.
LEMMA UnaddressFacts ==
  ASSUME TypeInv, SlotPart, NEW p \in Callers, Unaddress(p)
  PROVE  /\ vref'.ver = vref.ver /\ vref'.ref = vref.ref - 1 /\ vref.ref >= 1
         /\ slot' = slot /\ thisId' = thisId /\ joinButex' = joinButex /\ stopped' = stopped
         /\ ids' = ids /\ stopRuns' = stopRuns /\ joined' = joined
         /\ pc[p] = "unaddress" /\ p \in Procs /\ Alone(p) /\ Only(p) /\ loc'[p] \in Local
         /\ loc'[p].derefs = 0
         /\ \/ pc'[p] = "idle"
            \/ /\ pc'[p] = "recycle" /\ Odd(vref.ver) /\ loc'[p].ver = vref.ver
               /\ loc'[p].newVer = vref.ver + 1
<1>1. /\ pc[p] = "unaddress" /\ p \in Procs
      /\ slot' = slot /\ thisId' = thisId /\ joinButex' = joinButex /\ stopped' = stopped
      /\ ids' = ids /\ stopRuns' = stopRuns /\ joined' = joined
      /\ vref'.ver = vref.ver /\ vref'.ref = vref.ref - 1
  BY DEF Unaddress, history, TypeInv, TypeOK, Procs
<1>2. Held(p) = 1 /\ loc[p].derefs = 0 /\ loc[p] \in Local
  BY <1>1 DEF Held, SlotPart, DerefsInv, TypeInv, LocalType
<1>3. vref.ref >= 1 /\ vref.ver \in Nat /\ vref.ref \in Nat
  BY <1>1, <1>2, HoldersCount, VersionFacts DEF SlotPart, TypeInv
<1>4. loc[p].ver = vref.ver \/ (Odd(vref.ver) /\ vref.ver = loc[p].ver + 1)
  BY <1>1 DEF SlotPart, HolderInv, Knows
<1>5. \/ Return(p)
      \/ Odd(vref.ver) /\ Goto(p, "recycle",
         [loc[p] EXCEPT !.ver = vref.ver, !.newVer = vref.ver + 1])
  BY <1>3, <1>4 DEF Unaddress
<1>6. CASE Return(p)
  BY <1>1, <1>3, <1>6, GotoFacts, BlankFacts DEF Return, TypeInv
<1>7. CASE Odd(vref.ver) /\ Goto(p, "recycle",
           [loc[p] EXCEPT !.ver = vref.ver, !.newVer = vref.ver + 1])
  <2> DEFINE r == [loc[p] EXCEPT !.ver = vref.ver, !.newVer = vref.ver + 1]
  <2>1. r \in Local /\ r.ver = vref.ver /\ r.newVer = vref.ver + 1 /\ r.derefs = 0
    <3>1. vref.ver + 1 \in Nat
      BY <1>3
    <3>2. r \in Local
      BY <1>2, <1>3, <3>1, Zenon DEF Local
    <3> QED
      BY <1>2, <3>2 DEF Local
  <2>2. pc'[p] = "recycle" /\ loc'[p] = r /\ Alone(p) /\ Only(p)
    BY <1>1, <1>7, GotoFacts DEF TypeInv
  <2> QED
    BY <1>1, <1>3, <1>7, <2>1, <2>2
<1> QED
  BY <1>5, <1>6, <1>7

\* address() gives the reference back to a queue that is not the one asked for.
LEMMA SlotUnaddress ==
  ASSUME TypeInv, SlotPart, NEW p \in Callers, Unaddress(p)
  PROVE  SlotPart'
<1>1. /\ vref'.ver = vref.ver /\ vref'.ref = vref.ref - 1 /\ vref.ref >= 1
      /\ slot' = slot /\ thisId' = thisId /\ joinButex' = joinButex /\ stopped' = stopped
      /\ ids' = ids /\ stopRuns' = stopRuns /\ joined' = joined
      /\ pc[p] = "unaddress" /\ p \in Procs /\ Alone(p) /\ loc'[p].derefs = 0
      /\ \/ pc'[p] = "idle"
         \/ /\ pc'[p] = "recycle" /\ Odd(vref.ver) /\ loc'[p].ver = vref.ver
            /\ loc'[p].newVer = vref.ver + 1
  BY UnaddressFacts
<1>2. (Base' <=> Base) /\ RunStops' = RunStops /\ (Recycled' <=> Recycled)
  BY <1>1 DEF Base, RunStops, Recycled
<1>3. Held(p) = 1 /\ Held(p)' = 0
  BY <1>1 DEF Held
<1>4. \A q \in Procs : q # p => pc'[q] = pc[q] /\ loc'[q] = loc[q] /\ Held(q)' = Held(q)
  BY <1>1 DEF Alone, Held
<1>5. RefInv'
  BY <1>1, <1>2, <1>3, <1>4, RefGive DEF SlotPart, TypeInv
<1>6. DerefsInv'
  BY <1>1, <1>4, DistinctAssumption DEF SlotPart, DerefsInv
<1>7. VersionInv' /\ StopRunInv' /\ StoppedInv'
  <2>1. \A q \in Procs : pc[q] = "stop_set" <=> pc'[q] = "stop_set"
    BY <1>1, <1>4
  <2> QED
    BY <1>1, <1>2, <2>1 DEF SlotPart, VersionInv, StopRunInv, StoppedInv
<1>8. ASSUME NEW q \in Procs, q # p PROVE Knows(q)'
  BY <1>1, <1>2, <1>4, <1>8 DEF SlotPart, HolderInv, Knows, Odd
<1>9. Knows(p)'
  <2>1. Odd(vref.ver) => vref.ver = thisId + 1 /\ thisId \in ids
    BY VersionFacts
  <2> QED
    BY <1>1, <1>3, <2>1 DEF Knows
<1> QED
  BY <1>5, <1>6, <1>7, <1>8, <1>9 DEF SlotPart, HolderInv

\* What dereference() does: the last reference to a stopped queue leads to its
\* recycling.
LEMMA DereferenceFacts ==
  ASSUME TypeInv, SlotPart, NEW p \in Callers, Dereference(p)
  PROVE  /\ vref'.ver = vref.ver /\ vref'.ref = vref.ref - 1 /\ vref.ref >= 1
         /\ slot' = slot /\ thisId' = thisId /\ joinButex' = joinButex /\ stopped' = stopped
         /\ ids' = ids /\ stopRuns' = stopRuns /\ joined' = joined
         /\ pc[p] = "deref" /\ p \in Procs /\ Alone(p) /\ Only(p) /\ loc'[p] \in Local
         /\ loc[p].derefs \in {1, 2} /\ loc'[p].derefs = loc[p].derefs - 1
         /\ \/ pc'[p] = "deref" /\ loc[p].derefs = 2
            \/ pc'[p] = "idle" /\ loc[p].derefs = 1
            \/ /\ pc'[p] = "deref_last" /\ loc[p].derefs = 1
               /\ vref.ver = thisId + 1 /\ thisId \in ids /\ loc'[p].ver = vref.ver
<1> DEFINE r == [loc[p] EXCEPT !.derefs = @ - 1, !.ver = vref.ver]
<1>1. /\ pc[p] = "deref" /\ p \in Procs
      /\ slot' = slot /\ thisId' = thisId /\ joinButex' = joinButex /\ stopped' = stopped
      /\ ids' = ids /\ stopRuns' = stopRuns /\ joined' = joined
      /\ vref'.ver = vref.ver /\ vref'.ref = vref.ref - 1
  BY DEF Dereference, history, TypeInv, TypeOK, Procs
<1>2. loc[p].derefs \in {1, 2} /\ loc[p] \in Local /\ Held(p) = loc[p].derefs
  BY <1>1 DEF Held, SlotPart, DerefsInv, TypeInv, LocalType
<1>3. vref.ref \in Nat /\ vref.ver \in Nat /\ vref.ref >= 1 /\ (loc[p].derefs = 2 => vref.ref >= 2)
  <2>1. Held(p) >= 1 /\ (loc[p].derefs = 2 => Held(p) >= 2)
    BY <1>2
  <2> QED
    BY <1>1, <2>1, HoldersCount, VersionFacts DEF SlotPart, TypeInv
<1>4. r \in Local /\ r.derefs = loc[p].derefs - 1 /\ r.ver = vref.ver
  <2>1. loc[p].derefs - 1 \in 0..2
    BY <1>2
  <2>2. r \in Local
    BY <1>2, <1>3, <2>1, Zenon DEF Local
  <2> QED
    BY <1>2, <2>2 DEF Local
<1>5. \/ vref.ref > 1 /\ IF r.derefs > 0 THEN Goto(p, "deref", r) ELSE Return(p)
      \/ vref.ref = 1 /\ Goto(p, "deref_last", r)
  BY <1>3 DEF Dereference
<1>6. CASE vref.ref > 1 /\ r.derefs > 0 /\ Goto(p, "deref", r)
  <2>1. pc'[p] = "deref" /\ loc'[p] = r /\ Alone(p) /\ Only(p)
    BY <1>1, <1>6, GotoFacts DEF TypeInv
  <2> HIDE DEF r
  <2> QED
    BY <1>1, <1>2, <1>3, <1>4, <1>6, <2>1
<1>7. CASE vref.ref > 1 /\ ~(r.derefs > 0) /\ Return(p)
  <2>1. pc'[p] = "idle" /\ loc'[p] = Blank /\ Alone(p) /\ Only(p)
    BY <1>1, <1>7, GotoFacts DEF TypeInv, Return
  <2> HIDE DEF r
  <2> QED
    BY <1>1, <1>2, <1>3, <1>4, <1>7, <2>1, BlankFacts
<1>8. CASE vref.ref = 1 /\ Goto(p, "deref_last", r)
  <2>1. pc'[p] = "deref_last" /\ loc'[p] = r /\ Alone(p) /\ Only(p)
    BY <1>1, <1>8, GotoFacts DEF TypeInv
  <2>2. slot = "used" /\ vref.ver \in {thisId, thisId + 1}
    BY <1>1, <1>2 DEF SlotPart, HolderInv, Knows
  <2>3. ~Base
    <3>1. Held(p) >= 1
      BY <1>2
    <3> QED
      BY <1>1, <1>3, <1>8, <3>1, HoldersCount DEF SlotPart, TypeInv
  <2>4. vref.ver = thisId + 1 /\ thisId \in ids
    BY <2>2, <2>3 DEF Base, SlotPart, VersionInv
  <2> HIDE DEF r
  <2> QED
    BY <1>1, <1>2, <1>3, <1>4, <1>8, <2>1, <2>4
<1> HIDE DEF r
<1> QED
  BY <1>5, <1>6, <1>7, <1>8

\* dereference() gives one reference back.
LEMMA SlotDereference ==
  ASSUME TypeInv, SlotPart, NEW p \in Callers, Dereference(p)
  PROVE  SlotPart'
<1>1. /\ vref'.ver = vref.ver /\ vref'.ref = vref.ref - 1 /\ vref.ref >= 1
      /\ slot' = slot /\ thisId' = thisId /\ joinButex' = joinButex /\ stopped' = stopped
      /\ ids' = ids /\ stopRuns' = stopRuns /\ joined' = joined
      /\ pc[p] = "deref" /\ p \in Procs /\ Alone(p)
      /\ loc[p].derefs \in {1, 2} /\ loc'[p].derefs = loc[p].derefs - 1
      /\ \/ pc'[p] = "deref" /\ loc[p].derefs = 2
         \/ pc'[p] = "idle" /\ loc[p].derefs = 1
         \/ /\ pc'[p] = "deref_last" /\ loc[p].derefs = 1
            /\ vref.ver = thisId + 1 /\ thisId \in ids /\ loc'[p].ver = vref.ver
  BY DereferenceFacts
<1>2. (Base' <=> Base) /\ RunStops' = RunStops /\ (Recycled' <=> Recycled)
  BY <1>1 DEF Base, RunStops, Recycled
<1>3. Held(p) \in 1..2 /\ Held(p)' = Held(p) - 1
  BY <1>1 DEF Held
<1>4. \A q \in Procs : q # p => pc'[q] = pc[q] /\ loc'[q] = loc[q] /\ Held(q)' = Held(q)
  BY <1>1 DEF Alone, Held
<1>5. RefInv'
  BY <1>1, <1>2, <1>3, <1>4, RefGive DEF SlotPart, TypeInv
<1>6. DerefsInv'
  BY <1>1, <1>4, DistinctAssumption DEF SlotPart, DerefsInv
<1>7. VersionInv' /\ StopRunInv' /\ StoppedInv'
  <2>1. \A q \in Procs : pc[q] = "stop_set" <=> pc'[q] = "stop_set"
    BY <1>1, <1>4
  <2> QED
    BY <1>1, <1>2, <2>1 DEF SlotPart, VersionInv, StopRunInv, StoppedInv
<1>8. ASSUME NEW q \in Procs, q # p PROVE Knows(q)'
  BY <1>1, <1>2, <1>4, <1>8 DEF SlotPart, HolderInv, Knows, Odd
<1>9. Knows(p)'
  <2>1. Knows(p)
    BY <1>1 DEF SlotPart, HolderInv
  <2> QED
    BY <1>1, <1>3, <2>1 DEF Knows
<1> QED
  BY <1>5, <1>6, <1>7, <1>8, <1>9 DEF SlotPart, HolderInv

\* What dereference() does after the last reference: it compares with _this_id, which
\* may be that of a later queue.
LEMMA DereferenceLastFacts ==
  ASSUME TypeInv, SlotPart, NEW p \in Callers, DereferenceLast(p)
  PROVE  /\ UNCHANGED slotVars
         /\ pc[p] = "deref_last" /\ p \in Procs /\ Alone(p) /\ Only(p) /\ loc'[p] \in Local
         /\ loc'[p].derefs = 0 /\ loc'[p].ver = loc[p].ver
         /\ \/ pc'[p] = "recycle" /\ loc'[p].newVer = loc[p].ver + 1
            \/ pc'[p] = "invalid_id" /\ loc[p].ver # thisId + 1
<1>1. UNCHANGED slotVars /\ pc[p] = "deref_last" /\ p \in Procs
  BY DEF DereferenceLast, slotVars, queueVars, history, Procs
<1>2. loc[p].derefs = 0 /\ loc[p] \in Local /\ thisId \in Nat
  BY <1>1 DEF SlotPart, DerefsInv, TypeInv, LocalType, TypeOK
<1>3. PICK v \in ids : loc[p].ver = v + 1
  BY <1>1 DEF SlotPart, HolderInv, Knows
<1>4. v \in Nat /\ v % 2 = 0 /\ thisId % 2 = 0
  BY DEF SlotPart, VersionInv, TypeInv, TypeOK
<1>5. CASE loc[p].ver \in {thisId, thisId + 1}
  <2> DEFINE r == [loc[p] EXCEPT !.newVer = thisId + 2]
  <2>1. loc[p].ver = thisId + 1
    BY <1>2, <1>3, <1>4, <1>5
  <2>2. r \in Local /\ r.newVer = loc[p].ver + 1 /\ r.derefs = 0 /\ r.ver = loc[p].ver
    <3>1. thisId + 2 \in Nat
      BY <1>2
    <3>2. r \in Local
      BY <1>2, <3>1, Zenon DEF Local
    <3> QED
      BY <1>2, <2>1, <3>2 DEF Local
  <2>3. pc'[p] = "recycle" /\ loc'[p] = r /\ Alone(p) /\ Only(p)
    BY <1>1, <1>5, GotoFacts DEF DereferenceLast, TypeInv
  <2> QED
    BY <1>1, <2>2, <2>3
<1>6. CASE loc[p].ver \notin {thisId, thisId + 1}
  <2>1. pc'[p] = "invalid_id" /\ loc'[p] = loc[p] /\ Alone(p) /\ Only(p)
    BY <1>1, <1>6, GotoFacts DEF DereferenceLast, TypeInv
  <2> QED
    BY <1>1, <1>2, <1>6, <2>1
<1> QED
  BY <1>5, <1>6

\* dereference() of the last reference.
LEMMA SlotDereferenceLast ==
  ASSUME TypeInv, SlotPart, NEW p \in Callers, DereferenceLast(p)
  PROVE  SlotPart'
<1>1. /\ UNCHANGED slotVars
      /\ pc[p] = "deref_last" /\ p \in Procs /\ Alone(p)
      /\ loc'[p].derefs = 0 /\ loc'[p].ver = loc[p].ver
      /\ \/ pc'[p] = "recycle" /\ loc'[p].newVer = loc[p].ver + 1
         \/ pc'[p] = "invalid_id" /\ loc[p].ver # thisId + 1
  BY DereferenceLastFacts
<1>2. /\ vref' = vref /\ stopped' = stopped /\ thisId' = thisId /\ joinButex' = joinButex
      /\ slot' = slot
      /\ ids' = ids /\ stopRuns' = stopRuns /\ joined' = joined
  BY <1>1 DEF slotVars
<1>3. (Base' <=> Base) /\ RunStops' = RunStops /\ (Recycled' <=> Recycled)
  BY <1>2 DEF Base, RunStops, Recycled
<1>4. \A q \in Procs : q # p => pc'[q] = pc[q] /\ loc'[q] = loc[q]
  BY <1>1 DEF Alone
<1>5. loc[p].derefs = 0
  BY <1>1 DEF SlotPart, DerefsInv
<1>6. \A q \in Procs : Held(q)' = Held(q)
  BY <1>1, <1>4, <1>5 DEF Held
<1>7. RefInv'
  BY <1>2, <1>3, <1>6, RefFrame DEF SlotPart
<1>8. DerefsInv'
  BY <1>1, <1>4 DEF SlotPart, DerefsInv
<1>9. VersionInv' /\ StopRunInv' /\ StoppedInv'
  <2>1. \A q \in Procs : pc[q] = "stop_set" <=> pc'[q] = "stop_set"
    BY <1>1, <1>4
  <2> QED
    BY <1>2, <1>3, <2>1 DEF SlotPart, VersionInv, StopRunInv, StoppedInv
<1>10. ASSUME NEW q \in Procs, q # p PROVE Knows(q)'
  BY <1>2, <1>3, <1>4, <1>6, <1>10 DEF SlotPart, HolderInv, Knows, Odd
<1>11. Knows(p)'
  <2>1. PICK v \in ids : loc[p].ver = v + 1
    BY <1>1 DEF SlotPart, HolderInv, Knows
  <2>2. loc[p].ver # thisId + 1 => v \in RunStops
    BY <2>1 DEF SlotPart, StopRunInv
  <2>3. Held(p)' = 0
    BY <1>1 DEF Held
  <2> QED
    BY <1>1, <1>2, <1>3, <2>1, <2>2, <2>3 DEF Knows
<1> QED
  BY <1>7, <1>8, <1>9, <1>10, <1>11 DEF SlotPart, HolderInv

\* stop() raises the version, which only one caller can do, and owes two references
\* then.
LEMMA SlotStopCas ==
  ASSUME TypeInv, SlotPart, NEW p \in Callers, StopCas(p)
  PROVE  SlotPart'
<1>1. /\ pc[p] = "stop" /\ p \in Procs
      /\ slot' = slot /\ thisId' = thisId /\ joinButex' = joinButex /\ stopped' = stopped
      /\ ids' = ids /\ stopRuns' = stopRuns /\ joined' = joined
  BY DEF StopCas, history, Procs
<1>2. loc[p].derefs = 1 /\ Held(p) = 1
  BY <1>1 DEF SlotPart, DerefsInv, Held
<1>3. slot = "used" /\ vref.ver \in {thisId, thisId + 1} /\ vref.ver \in Nat /\ thisId \in Nat
  BY <1>1, <1>2, VersionFacts DEF SlotPart, HolderInv, Knows
<1>4. RunStops' = RunStops
  BY <1>1 DEF RunStops
<1>5. CASE vref.ver = thisId
  <2>1. vref'.ver = thisId + 1 /\ vref'.ref = vref.ref
    BY <1>3, <1>5 DEF StopCas, TypeInv, TypeOK
  <2>2. pc'[p] = "stop_set" /\ loc'[p] = loc[p] /\ Alone(p)
    BY <1>1, <1>5, GotoFacts DEF StopCas, TypeInv
  <2>3. \A q \in Procs : q # p => pc'[q] = pc[q] /\ loc'[q] = loc[q] /\ Held(q)' = Held(q)
    BY <2>2 DEF Alone, Held
  <2>4. Held(p)' = 2 /\ Base /\ ~Base' /\ ~Recycled'
    BY <1>1, <1>3, <1>5, <2>1, <2>2 DEF Held, Base, Recycled
  <2>5. RefInv'
    BY <1>1, <1>2, <2>1, <2>3, <2>4, RefTakeOver DEF SlotPart, TypeInv
  <2>6. DerefsInv'
    BY <1>2, <2>2, <2>3, DistinctAssumption DEF SlotPart, DerefsInv
  <2>7. VersionInv' /\ StopRunInv'
    BY <1>1, <1>3, <1>4, <1>5, <2>1 DEF SlotPart, VersionInv, StopRunInv
  <2>8. StoppedInv'
    BY <1>1, <2>2, <2>4 DEF StoppedInv
  <2>9. Odd(thisId + 1)
    BY VersionFacts DEF Odd
  <2>10. ASSUME NEW q \in Procs, q # p PROVE Knows(q)'
    <3>1. ~Odd(thisId)
      BY VersionFacts DEF Odd
    <3> QED
      BY <1>1, <1>3, <1>4, <1>5, <2>1, <2>3, <2>9, <2>10, <3>1 DEF SlotPart, HolderInv, Knows, Odd
  <2>11. Knows(p)'
    BY <1>1, <1>3, <2>1, <2>2 DEF Knows
  <2> QED
    BY <2>5, <2>6, <2>7, <2>8, <2>10, <2>11 DEF SlotPart, HolderInv
<1>6. CASE vref.ver # thisId
  <2>1. vref' = vref /\ pc'[p] = "deref" /\ loc'[p] = loc[p] /\ Alone(p)
    BY <1>1, <1>6, GotoFacts DEF StopCas, TypeInv
  <2>2. UNCHANGED slotVars
    BY <1>1, <2>1 DEF slotVars
  <2>3. \A q \in Procs : Still(q)
    BY <1>1, <1>2, <2>1 DEF Still, Alone
  <2> QED
    BY <2>2, <2>3, SlotFrame
<1> QED
  BY <1>5, <1>6

\* stop() sets _stopped.
LEMMA SlotStopSet ==
  ASSUME TypeInv, SlotPart, NEW p \in Callers, StopSet(p)
  PROVE  SlotPart'
<1>1. /\ pc[p] = "stop_set" /\ p \in Procs /\ vref' = vref /\ stopped' = TRUE
      /\ slot' = slot /\ thisId' = thisId /\ joinButex' = joinButex
      /\ ids' = ids /\ stopRuns' = stopRuns /\ joined' = joined
  BY DEF StopSet, history, Procs
<1>2. Held(p) = 2 /\ loc[p] \in Local
  BY <1>1 DEF Held, TypeInv, LocalType
<1>3. pc'[p] = "deref" /\ loc'[p].derefs = 2 /\ Alone(p)
  <2> DEFINE r == [loc[p] EXCEPT !.derefs = 2]
  <2>1. r.derefs = 2
    BY <1>2 DEF Local
  <2>2. Goto(p, "deref", r)
    BY DEF StopSet
  <2> HIDE DEF r
  <2> QED
    BY <1>1, <2>1, <2>2, GotoFacts DEF TypeInv
<1>4. (Base' <=> Base) /\ RunStops' = RunStops /\ (Recycled' <=> Recycled)
  BY <1>1 DEF Base, RunStops, Recycled
<1>5. \A q \in Procs : q # p => pc'[q] = pc[q] /\ loc'[q] = loc[q] /\ Held(q)' = Held(q)
  BY <1>3 DEF Alone, Held
<1>6. Held(p)' = 2
  BY <1>3 DEF Held
<1>7. RefInv'
  BY <1>1, <1>2, <1>4, <1>5, <1>6, RefFrame DEF SlotPart
<1>8. DerefsInv'
  BY <1>3, <1>5, DistinctAssumption DEF SlotPart, DerefsInv
<1>9. VersionInv' /\ StopRunInv' /\ StoppedInv'
  BY <1>1, <1>4 DEF SlotPart, VersionInv, StopRunInv, StoppedInv
<1>10. ASSUME NEW q \in Procs, q # p PROVE Knows(q)'
  BY <1>1, <1>4, <1>5, <1>10 DEF SlotPart, HolderInv, Knows, Odd
<1>11. Knows(p)'
  <2>1. Knows(p)
    BY <1>1 DEF SlotPart, HolderInv
  <2> QED
    BY <1>1, <1>2, <1>3, <2>1 DEF Knows
<1> QED
  BY <1>7, <1>8, <1>9, <1>10, <1>11 DEF SlotPart, HolderInv

\* join() begins.
LEMMA SlotJoinCall ==
  ASSUME TypeInv, SlotPart, NEW p \in Callers, NEW v \in ids, JoinCall(p, v)
  PROVE  SlotPart'
<1>1. /\ pc[p] = "idle" /\ p \in Procs /\ vref' = vref /\ stopped' = stopped
      /\ slot' = slot /\ thisId' = thisId /\ joinButex' = joinButex
      /\ ids' = ids /\ stopRuns' = stopRuns /\ joined' = joined
  BY DEF JoinCall, history, queueVars, Procs
<1>2. pc'[p] = "join" /\ loc'[p].derefs = 0 /\ loc'[p].ver = v /\ Alone(p)
  <2> DEFINE r == [Blank EXCEPT !.op = "join", !.ver = v]
  <2>1. r.derefs = 0 /\ r.ver = v
    BY BlankFacts DEF Local
  <2>2. Goto(p, "join", r)
    BY DEF JoinCall
  <2> HIDE DEF r
  <2> QED
    BY <1>1, <2>1, <2>2, GotoFacts DEF TypeInv
<1>3. (Base' <=> Base) /\ RunStops' = RunStops /\ (Recycled' <=> Recycled)
  BY <1>1 DEF Base, RunStops, Recycled
<1>4. loc[p].derefs = 0
  BY <1>1 DEF SlotPart, DerefsInv
<1>5. \A q \in Procs : q # p => pc'[q] = pc[q] /\ loc'[q] = loc[q]
  BY <1>2 DEF Alone
<1>6. \A q \in Procs : Held(q)' = Held(q)
  BY <1>1, <1>2, <1>4, <1>5 DEF Held
<1>7. RefInv'
  BY <1>1, <1>3, <1>6, RefFrame DEF SlotPart
<1>8. DerefsInv'
  BY <1>2, <1>5 DEF SlotPart, DerefsInv
<1>9. VersionInv' /\ StopRunInv' /\ StoppedInv'
  <2>1. \A q \in Procs : pc[q] = "stop_set" <=> pc'[q] = "stop_set"
    BY <1>1, <1>2, <1>5
  <2> QED
    BY <1>1, <1>3, <2>1 DEF SlotPart, VersionInv, StopRunInv, StoppedInv
<1>10. ASSUME NEW q \in Procs, q # p PROVE Knows(q)'
  BY <1>1, <1>3, <1>5, <1>6, <1>10 DEF SlotPart, HolderInv, Knows, Odd
<1>11. Knows(p)'
  <2>1. Held(p)' = 0
    BY <1>2 DEF Held
  <2> QED
    BY <1>1, <1>2, <2>1 DEF Knows
<1> QED
  BY <1>7, <1>8, <1>9, <1>10, <1>11 DEF SlotPart, HolderInv

\* join() tests _join_butex and returns only if its incarnation has ended.
LEMMA SlotJoinTest ==
  ASSUME TypeInv, SlotPart, NEW p \in Callers, JoinTest(p)
  PROVE  SlotPart'
<1>1. /\ pc[p] = "join" /\ p \in Procs /\ vref' = vref /\ stopped' = stopped
      /\ slot' = slot /\ thisId' = thisId /\ joinButex' = joinButex
      /\ ids' = ids /\ stopRuns' = stopRuns
  BY DEF JoinTest, queueVars, Procs
<1>2. \/ pc'[p] = "join_wait" /\ loc'[p] = loc[p] /\ joined' = joined /\ Alone(p)
      \/ /\ pc'[p] = "idle" /\ loc'[p] = Blank /\ joined' = joined \cup {loc[p].ver} /\ Alone(p)
         /\ joinButex # loc[p].ver
  BY <1>1, GotoFacts DEF JoinTest, Return, TypeInv
<1>3. (Base' <=> Base) /\ RunStops' = RunStops /\ (Recycled' <=> Recycled)
  BY <1>1 DEF Base, RunStops, Recycled
<1>4. loc[p].derefs = 0 /\ loc[p].ver \in ids
  BY <1>1 DEF SlotPart, DerefsInv, HolderInv, Knows
<1>5. loc'[p].derefs = 0
  BY <1>2, <1>4, BlankFacts
<1>6. \A q \in Procs : q # p => pc'[q] = pc[q] /\ loc'[q] = loc[q]
  BY <1>2 DEF Alone
<1>7. \A q \in Procs : Held(q)' = Held(q)
  BY <1>1, <1>2, <1>4, <1>5, <1>6 DEF Held
<1>8. RefInv'
  BY <1>1, <1>3, <1>7, RefFrame DEF SlotPart
<1>9. DerefsInv'
  BY <1>2, <1>5, <1>6 DEF SlotPart, DerefsInv
<1>10. joinButex # loc[p].ver => loc[p].ver \in RunStops
  BY <1>4 DEF SlotPart, StopRunInv, VersionInv
<1>11. VersionInv' /\ StopRunInv' /\ StoppedInv'
  <2>1. \A q \in Procs : pc[q] = "stop_set" <=> pc'[q] = "stop_set"
    BY <1>1, <1>2, <1>6
  <2> QED
    BY <1>1, <1>2, <1>3, <1>10, <2>1 DEF SlotPart, VersionInv, StopRunInv, StoppedInv
<1>12. ASSUME NEW q \in Procs, q # p PROVE Knows(q)'
  BY <1>1, <1>3, <1>6, <1>7, <1>12 DEF SlotPart, HolderInv, Knows, Odd
<1>13. Knows(p)'
  <2>1. Held(p)' = 0
    BY <1>2, <1>5 DEF Held
  <2> QED
    BY <1>1, <1>2, <1>4, <2>1 DEF Knows
<1> QED
  BY <1>8, <1>9, <1>11, <1>12, <1>13 DEF SlotPart, HolderInv

-----------------------------------------------------------------------------
(* The slot: its recycling *)

\* The CAS of _versioned_ref succeeds: nobody holds a reference any more.
LEMMA SlotRecycle ==
  ASSUME TypeInv, SlotPart, NEW p \in Callers, pc[p] = "recycle",
         vref = [ver |-> loc[p].ver, ref |-> 0], vref' = [ver |-> loc[p].newVer, ref |-> 0],
         UNCHANGED <<stopped, thisId, joinButex, slot, ids, stopRuns, joined>>,
         Alone(p), pc'[p] = "exchange", loc'[p].derefs = loc[p].derefs
  PROVE  /\ SlotPart' /\ slot = "used" /\ vref.ver = thisId + 1 /\ Recycled'
         /\ thisId \notin RunStops /\ joinButex = thisId /\ \A q \in Procs : Held(q) = 0
<1>1. /\ p \in Procs /\ stopped' = stopped /\ thisId' = thisId /\ joinButex' = joinButex
      /\ slot' = slot
      /\ ids' = ids /\ stopRuns' = stopRuns /\ joined' = joined
  BY DEF Procs
<1>2. vref.ver = loc[p].ver /\ vref.ref = 0 /\ vref'.ver = loc[p].newVer /\ vref'.ref = 0
  BY Zenon
<1>3. PICK v \in ids : loc[p].ver = v + 1 /\ loc[p].newVer = loc[p].ver + 1
  BY <1>1 DEF SlotPart, HolderInv, Knows
<1>4. v \in Nat /\ v % 2 = 0
  BY DEF SlotPart, VersionInv, TypeInv, TypeOK
<1>5. Odd(vref.ver)
  BY <1>2, <1>3, <1>4 DEF Odd
<1>6. /\ slot = "used" /\ vref.ver = thisId + 1 /\ ~Base /\ thisId \in Nat /\ vref'.ver = thisId + 2
  BY <1>2, <1>3, <1>5, VersionFacts
<1>7. \A q \in Procs : Held(q) = 0
  <2>1. \A q \in Procs : ~(Held(q) >= 1) /\ Held(q) \in 0..2
    BY <1>2, HoldersCount, HeldType DEF SlotPart, TypeInv
  <2> QED
    BY <2>1
<1>8. \A q \in Procs : q # p => pc'[q] = pc[q] /\ loc'[q] = loc[q]
  BY DEF Alone
<1>9. loc[p].derefs = 0
  BY <1>1 DEF SlotPart, DerefsInv
<1>10. \A q \in Procs : Held(q)' = Held(q)
  BY <1>8, <1>9 DEF Held
<1>11. ~Base' /\ RunStops' = RunStops /\ Recycled'
  BY <1>1, <1>6 DEF Base, RunStops, Recycled
<1>12. RefInv'
  BY <1>2, <1>6, <1>10, <1>11, RefFrame DEF SlotPart
<1>13. DerefsInv'
  BY <1>1, <1>8, <1>9, DistinctAssumption DEF SlotPart, DerefsInv
<1>14. thisId \notin RunStops /\ joinButex = thisId
  BY <1>6 DEF SlotPart, VersionInv
<1>15. VersionInv' /\ StopRunInv'
  BY <1>1, <1>6, <1>11 DEF SlotPart, VersionInv, StopRunInv
<1>16. StoppedInv'
  <2>1. \A q \in Procs : pc[q] # "stop_set"
    BY <1>7 DEF Held
  <2> QED
    BY <1>1, <1>6, <2>1 DEF SlotPart, StoppedInv
<1>17. ASSUME NEW q \in Procs, q # p PROVE Knows(q)'
  <2>1. pc[q] # "unaddress" /\ Knows(q) /\ Held(q)' = 0
    BY <1>7, <1>10 DEF Held, SlotPart, HolderInv
  <2> QED
    BY <1>1, <1>8, <1>11, <1>17, <2>1 DEF Knows
<1>18. Knows(p)'
  <2>1. Held(p)' = 0
    BY <1>1, <1>7, <1>10
  <2> QED
    BY <2>1 DEF Knows
<1> QED
  BY <1>6, <1>7, <1>11, <1>12, <1>13, <1>14, <1>15, <1>16, <1>17, <1>18 DEF SlotPart, HolderInv

\* The execute function is told to stop.
LEMMA SlotStopRun ==
  ASSUME TypeInv, SlotPart, Recycled, thisId \notin RunStops,
         UNCHANGED <<vref, stopped, thisId, joinButex, slot, ids, joined>>,
         stopRuns' = Append(stopRuns, thisId), \A q \in Procs : Still(q)
  PROVE  SlotPart' /\ RunStops' = RunStops \cup {thisId}
<1>1. /\ vref' = vref /\ stopped' = stopped /\ thisId' = thisId /\ joinButex' = joinButex
      /\ slot' = slot
      /\ ids' = ids /\ joined' = joined
  OBVIOUS
<1>2. \A q \in Procs : Held(q)' = Held(q) /\ (pc[q] = "stop_set" <=> pc'[q] = "stop_set")
  BY StillHeld
<1>3. (Base' <=> Base) /\ (Recycled' <=> Recycled)
  BY <1>1 DEF Base, Recycled
<1>4. /\ DOMAIN stopRuns = 1..Len(stopRuns) /\ DOMAIN stopRuns' = 1..(Len(stopRuns) + 1)
      /\ Len(stopRuns) \in Nat
      /\ \A i \in 1..Len(stopRuns) : stopRuns'[i] = stopRuns[i]
      /\ stopRuns'[Len(stopRuns) + 1] = thisId
  BY DEF TypeInv, TypeOK, HistoryType
<1>5. RunStops' = RunStops \cup {thisId}
  <2>1. \A i \in 1..(Len(stopRuns) + 1) : i \in 1..Len(stopRuns) \/ i = Len(stopRuns) + 1
    BY <1>4
  <2>2. \A i \in 1..Len(stopRuns) : i \in 1..(Len(stopRuns) + 1)
    BY <1>4
  <2>3. Len(stopRuns) + 1 \in 1..(Len(stopRuns) + 1)
    BY <1>4
  <2> QED
    BY <1>4, <2>1, <2>2, <2>3 DEF RunStops
<1>6. DerefsInv'
  BY DEF SlotPart, DerefsInv, Still
<1>7. RefInv'
  BY <1>1, <1>2, <1>3, RefFrame DEF SlotPart
<1>8. VersionInv'
  BY <1>1, <1>5 DEF SlotPart, VersionInv, Recycled
<1>9. StopRunInv'
  <2>1. thisId \in ids
    BY DEF SlotPart, VersionInv, Recycled
  <2>2. ASSUME NEW i \in DOMAIN stopRuns', NEW j \in DOMAIN stopRuns', stopRuns'[i] = stopRuns'[j]
        PROVE  i = j
    <3>1. \A k \in DOMAIN stopRuns : stopRuns[k] \in RunStops
      BY DEF RunStops
    <3>2. (i \in 1..Len(stopRuns) \/ i = Len(stopRuns) + 1)
          /\ (j \in 1..Len(stopRuns) \/ j = Len(stopRuns) + 1)
      BY <1>4
    <3>3. CASE i \in 1..Len(stopRuns) /\ j \in 1..Len(stopRuns)
      BY <1>4, <2>2, <3>3 DEF SlotPart, StopRunInv
    <3>4. CASE i \in 1..Len(stopRuns) /\ j = Len(stopRuns) + 1
      BY <1>4, <2>2, <3>1, <3>4
    <3>5. CASE i = Len(stopRuns) + 1 /\ j \in 1..Len(stopRuns)
      BY <1>4, <2>2, <3>1, <3>5
    <3> QED
      BY <3>2, <3>3, <3>4, <3>5
  <2> QED
    BY <1>1, <1>5, <2>1, <2>2 DEF SlotPart, StopRunInv
<1>10. ASSUME NEW q \in Procs PROVE Knows(q)'
  <2>1. pc'[q] = "unaddress" <=> pc[q] = "unaddress"
    BY DEF Still
  <2>2. Knows(q) /\ Still(q)
    BY DEF SlotPart, HolderInv
  <2> QED
    BY <1>1, <1>2, <1>5, <2>1, <2>2 DEF Knows, Still, Odd
<1>11. StoppedInv'
  BY <1>1, <1>2, <1>3 DEF SlotPart, StoppedInv
<1> QED
  BY <1>5, <1>6, <1>7, <1>8, <1>9, <1>10, <1>11 DEF SlotPart, HolderInv

\* The join butex gets the next version, after the execute function was told to stop.
LEMMA SlotDestroy ==
  ASSUME TypeInv, SlotPart, Recycled, joinButex = thisId, thisId \in RunStops,
         joinButex' = joinButex + 2,
         UNCHANGED <<vref, stopped, thisId, slot, ids, stopRuns, joined>>, \A q \in Procs : Still(q)
  PROVE  SlotPart'
<1>1. /\ vref' = vref /\ stopped' = stopped /\ thisId' = thisId /\ joinButex' = thisId + 2
      /\ slot' = slot
      /\ ids' = ids /\ joined' = joined /\ stopRuns' = stopRuns
  OBVIOUS
<1>2. \A q \in Procs : Held(q)' = Held(q) /\ (pc[q] = "stop_set" <=> pc'[q] = "stop_set")
  BY StillHeld
<1>3. (Base' <=> Base) /\ (Recycled' <=> Recycled) /\ RunStops' = RunStops
  BY <1>1 DEF Base, Recycled, RunStops
<1>4. DerefsInv'
  BY DEF SlotPart, DerefsInv, Still
<1>5. RefInv'
  BY <1>1, <1>2, <1>3, RefFrame DEF SlotPart
<1>6. VersionInv' /\ StopRunInv'
  BY <1>1, <1>3 DEF SlotPart, VersionInv, StopRunInv, Recycled
<1>7. ASSUME NEW q \in Procs PROVE Knows(q)'
  <2>1. pc'[q] = "unaddress" <=> pc[q] = "unaddress"
    BY DEF Still
  <2>2. Knows(q) /\ Still(q)
    BY DEF SlotPart, HolderInv
  <2> QED
    BY <1>1, <1>2, <1>3, <2>1, <2>2 DEF Knows, Still, Odd
<1>8. StoppedInv'
  BY <1>1, <1>2, <1>3 DEF SlotPart, StoppedInv
<1> QED
  BY <1>4, <1>5, <1>6, <1>7, <1>8 DEF SlotPart, HolderInv

\* The joiners are woken.
LEMMA SlotWakeJoiners ==
  ASSUME TypeInv, SlotPart, NEW f \in Fibers, WakeJoiners(f)
  PROVE  SlotPart'
<1>1. /\ vref' = vref /\ stopped' = stopped /\ thisId' = thisId /\ joinButex' = joinButex
      /\ slot' = slot
      /\ ids' = ids /\ joined' = joined /\ stopRuns' = stopRuns /\ loc' = loc
  BY DEF WakeJoiners, queueVars, history
<1>2. \A q \in Procs : \/ pc'[q] = pc[q]
                       \/ pc[q] = "join_wait" /\ pc'[q] = "join"
                       \/ pc[q] = "wake_joiners" /\ pc'[q] = "return_slot"
  BY DEF WakeJoiners
<1>3. (Base' <=> Base) /\ (Recycled' <=> Recycled) /\ RunStops' = RunStops
  BY <1>1 DEF Base, Recycled, RunStops
<1>4. \A q \in Procs : Held(q)' = Held(q) /\ (pc[q] = "stop_set" <=> pc'[q] = "stop_set")
  BY <1>1, <1>2 DEF Held
<1>5. DerefsInv'
  BY <1>1, <1>2 DEF SlotPart, DerefsInv
<1>6. RefInv'
  BY <1>1, <1>3, <1>4, RefFrame DEF SlotPart
<1>7. VersionInv' /\ StopRunInv' /\ StoppedInv'
  BY <1>1, <1>3, <1>4 DEF SlotPart, VersionInv, StopRunInv, StoppedInv
<1>8. ASSUME NEW q \in Procs PROVE Knows(q)'
  <2>1. Knows(q)
    BY DEF SlotPart, HolderInv
  <2> QED
    BY <1>1, <1>2, <1>3, <1>4, <2>1 DEF Knows, Odd
<1> QED
  BY <1>5, <1>6, <1>7, <1>8 DEF SlotPart, HolderInv

\* The slot goes back to the pool.
LEMMA SlotReturnSlot ==
  ASSUME TypeInv, SlotPart, NEW f \in Fibers, ReturnSlot(f), Recycled, joinButex = thisId + 2,
         thisId \in RunStops
  PROVE  SlotPart'
<1>1. /\ vref' = vref /\ stopped' = stopped /\ thisId' = thisId /\ joinButex' = joinButex
      /\ slot' = "pooled"
      /\ ids' = ids /\ joined' = joined /\ stopRuns' = stopRuns /\ pc[f] = "return_slot"
      /\ f \in Procs
  BY DEF ReturnSlot, history, Procs
<1>2. pc'[f] = "idle" /\ loc'[f] = Blank /\ Alone(f)
  BY <1>1, GotoFacts DEF ReturnSlot, Return, TypeInv
<1>3. \A q \in Procs : q # f => pc'[q] = pc[q] /\ loc'[q] = loc[q]
  BY <1>2 DEF Alone
<1>4. loc[f].derefs = 0
  BY <1>1 DEF SlotPart, DerefsInv
<1>5. \A q \in Procs : Held(q)' = Held(q)
  BY <1>1, <1>2, <1>3, <1>4, BlankFacts DEF Held
<1>6. /\ slot = "used" /\ vref.ver = thisId + 2 /\ ~Base /\ ~Base' /\ RunStops' = RunStops
      /\ ~Recycled'
      /\ thisId \in Nat
  BY <1>1, VersionFacts DEF Base, RunStops, Recycled
<1>7. RefInv'
  BY <1>1, <1>5, <1>6, RefFrame DEF SlotPart
<1>8. DerefsInv'
  BY <1>2, <1>3, BlankFacts DEF SlotPart, DerefsInv
<1>9. VersionInv' /\ StopRunInv' /\ StoppedInv'
  <2>1. \A v \in ids : v <= thisId /\ v \in Nat
    BY VersionFacts DEF SlotPart, VersionInv
  <2>2. thisId % 2 = 0 /\ (thisId + 2) % 2 = 0
    BY <1>6 DEF SlotPart, VersionInv
  <2>3. VersionInv'
    BY <1>1, <1>6, <2>1, <2>2 DEF SlotPart, VersionInv
  <2>4. StopRunInv'
    BY <1>1, <1>6 DEF SlotPart, StopRunInv
  <2> QED
    BY <1>1, <1>6, <2>3, <2>4 DEF StoppedInv
<1>10. ASSUME NEW q \in Procs PROVE Knows(q)'
  <2>1. Knows(q)
    BY DEF SlotPart, HolderInv
  <2>2. CASE q = f
    <3>1. Held(q)' = 0
      BY <1>2, <2>2, BlankFacts DEF Held
    <3> QED
      BY <1>2, <2>2, <3>1 DEF Knows
  <2>3. CASE q # f
    <3>1. pc[q] # "unaddress" => ~(Held(q) >= 1)
      BY <1>6, <2>1 DEF Knows
    <3> QED
      BY <1>1, <1>3, <1>5, <1>6, <2>1, <2>3, <3>1 DEF Knows, Odd
  <2> QED
    BY <2>2, <2>3
<1> QED
  BY <1>7, <1>8, <1>9, <1>10 DEF SlotPart, HolderInv

-----------------------------------------------------------------------------
(* The queue: steps that leave it alone *)

queueView == <<head, node, pool, tasks, handles, highTasks>>
\* q has no part in the queue, before and after.
Apart(q) == \/ pc'[q] = pc[q] /\ loc'[q] = loc[q]
            \/ pc[q] \in Quiet \cup Closed /\ pc'[q] \in Quiet \cup Closed

\* A process that stays outside the queue, or stays where it is in it.
LEMMA ApartFacts ==
  ASSUME NEW q \in Procs, Apart(q)
  PROVE  /\ \A n : Owns(q, n)' <=> Owns(q, n)
         /\ Runs(q)' <=> Runs(q)
         /\ HasList(q)' <=> HasList(q)
         /\ InPass(q)' <=> InPass(q)
         /\ pc'[q] \in Quiet \cup Closed <=> pc[q] \in Quiet \cup Closed
         /\ pc'[q] \notin Quiet \cup Closed => pc'[q] = pc[q] /\ loc'[q] = loc[q]
         /\ Owns(q, loc[q].node) \/ HasList(q) \/ InPass(q) \/ Runs(q) \/ pc[q] = "link" =>
               pc[q] \notin Quiet \cup Closed
BY DEF Apart, Owns, Runs, HasList, InPass, Quiet, Closed, Executing, Pass

\* The nodes, the queue and the counter under steps outside the queue.
LEMMA QuietFrame ==
  ASSUME NodePart, QueuePart, CountPart, UNCHANGED queueView, \A q \in Procs : Apart(q)
  PROVE  NodePart' /\ QueuePart' /\ CountPart' /\ ranks' = ranks
<1>1. /\ head' = head /\ node' = node /\ pool' = pool /\ tasks' = tasks /\ handles' = handles
      /\ highTasks' = highTasks
  BY DEF queueView
<1>2. \A q \in Procs :
         /\ \A n : Owns(q, n)' <=> Owns(q, n)
         /\ Runs(q)' <=> Runs(q)
         /\ HasList(q)' <=> HasList(q)
         /\ InPass(q)' <=> InPass(q)
  BY ApartFacts
<1>3. \A q \in Procs : pc'[q] \notin Quiet \cup Closed => pc'[q] = pc[q] /\ loc'[q] = loc[q]
  BY ApartFacts
<1>4. ranks' = ranks
  BY <1>1, <1>2 DEF ranks
<1>5. OwnerInv'
  <2>1. \A q \in Procs : pc'[q] \in {"count_high", "exchange"} => pc'[q] = pc[q] /\ loc'[q] = loc[q]
    BY <1>3 DEF Quiet, Closed
  <2>2. \A q \in Procs, n \in Nodes : Owns(q, n)' => pc'[q] = pc[q] /\ loc'[q] = loc[q]
    BY <2>1 DEF Owns
  <2> QED
    BY <1>1, <1>2, <2>1, <2>2 DEF NodePart, OwnerInv
<1>6. NodeInv' /\ TaskInv'
  BY <1>1, <1>2, <1>4 DEF NodePart, NodeInv, TaskInv
<1>7. HandleInv'
  BY <1>1, <1>3 DEF NodePart, HandleInv, ValidHandle
<1>8. \A q \in Procs : Runs(q)' \/ HasList(q)' \/ InPass(q)'
      \/ pc'[q] \in {"link", "finish", "spawn", "loop"} =>
         pc'[q] = pc[q] /\ loc'[q] = loc[q]
  BY <1>3 DEF Runs, HasList, InPass, Quiet, Closed, Executing, Pass
<1>9. \A q \in Procs : Runs(q)' \/ HasList(q)' =>
          FirstRank(q)' = FirstRank(q) /\ LastRank(q)' = LastRank(q)
  BY <1>4, <1>8 DEF FirstRank, LastRank
<1>10. HeadInv'
  BY <1>1, <1>2, <1>4 DEF QueuePart, HeadInv
<1>11. ListInv'
  BY <1>2, <1>4, <1>8, <1>9 DEF QueuePart, ListInv
<1>12. ChainInv'
  BY <1>1, <1>2, <1>4, <1>9 DEF QueuePart, ChainInv
<1>13. LinkInv'
  BY <1>1, <1>2, <1>4, <1>8, <1>9 DEF QueuePart, LinkInv
<1>14. SweepInv'
  <2>1. \A q \in Procs : pc'[q] = "sweep" => Runs(q)'
    BY DEF Runs, Executing
  <2> QED
    BY <1>4, <1>8, <1>9, <2>1 DEF QueuePart, SweepInv, SweepOf
<1>15. FinishInv'
  <2>1. \A q \in Procs : pc'[q] = "finish" => HasList(q)'
    BY DEF HasList
  <2> QED
    BY <1>1, <1>2, <1>8, <1>9, <2>1 DEF QueuePart, FinishInv
<1>16. LiveInv'
  BY <1>1, <1>2, <1>4, <1>9 DEF QueuePart, LiveInv
<1>17. \A q \in Procs : pc'[q] \in Executing => pc'[q] = pc[q] /\ loc'[q] = loc[q]
  BY <1>8 DEF Runs
<1>18. FrontInv' /\ PassInv'
  <2>1. ASSUME NEW q \in Procs PROVE FrontOf(q)'
    <3>1. FrontOf(q)
      BY DEF QueuePart, FrontInv
    <3> QED
      BY <1>1, <1>17, <3>1 DEF FrontOf, Executing
  <2>2. ASSUME NEW q \in Procs PROVE PassOf(q)'
    <3>1. PassOf(q)
      BY DEF QueuePart, PassInv
    <3> QED
      BY <1>1, <1>17, <3>1 DEF PassOf, Executing
  <2> QED
    BY <2>1, <2>2 DEF FrontInv, PassInv
<1>19. Waiting' = Waiting
  <2>1. \A q \in Procs, n \in Nodes : Owns(q, n) => (pc'[q] = "count_high" <=> pc[q] = "count_high")
    BY <1>2, <1>3 DEF Owns, Quiet, Closed
  <2> QED
    BY <1>1, <1>2, <2>1 DEF Waiting
<1>20. CountInv' /\ LateInv'
  <2>1. \A q \in Procs : InPass(q)' \/ pc'[q] = "begin" \/ pc'[q] = "scan" =>
            pc'[q] = pc[q] /\ loc'[q] = loc[q]
    BY <1>8 DEF InPass, Pass
  <2> QED
    BY <1>1, <1>2, <1>19, <2>1 DEF CountPart, CountInv, LateInv
<1>21. InOrder'
  BY <1>1 DEF CountPart, InOrder
<1> QED
  BY <1>4, <1>5, <1>6, <1>7, <1>10, <1>11, <1>12, <1>13, <1>14, <1>15, <1>16, <1>18, <1>20, <1>21
     DEF NodePart, QueuePart, CountPart

\* The stop task under steps outside the queue.
LEMMA StopFrame ==
  ASSUME TypeInv, StopPart, node' = node, head' = head, tasks' = tasks, \A q \in Procs : Apart(q),
         \A q \in Procs : (Closing(q)' <=> Closing(q)) /\ (Closing(q) => pc'[q] = pc[q]),
         Recycled => Recycled' /\ thisId' = thisId /\ joinButex' = joinButex,
         RunStops' = RunStops, slot' # "used" => slot # "used"
  PROVE  StopPart'
<1>1. StopNodeInv'
  BY DEF StopPart, StopNodeInv
<1>2. ClosingInv'
  BY DEF StopPart, ClosingInv
<1>3. DestroyInv'
  <2> SUFFICES ASSUME NEW q \in Procs, HasList(q)', loc'[q].destroy
               PROVE  /\ pc'[q] \in {"executed", "more", "finish"} /\ Len(loc'[q].list) = 1
                      /\ node'[loc'[q].list[1]].stopTask /\ node'[loc'[q].list[1]].iterated
                      /\ thisId' \in RunStops' /\ (pc'[q] = "finish" => head' = NULL)
    BY DEF DestroyInv
  <2>1. pc'[q] = pc[q] /\ loc'[q] = loc[q] /\ HasList(q)
    BY ApartFacts DEF HasList, Quiet, Closed, Executing
  <2>2. /\ pc[q] \in {"executed", "more", "finish"} /\ Len(loc[q].list) = 1
        /\ node[loc[q].list[1]].stopTask /\ node[loc[q].list[1]].iterated
        /\ thisId \in RunStops /\ (pc[q] = "finish" => head = NULL)
    BY <2>1 DEF StopPart, DestroyInv
  <2>3. loc[q].list[1] \in Nodes
    <3>1. loc[q].list \in Seq(Nodes)
      BY DEF TypeInv, LocalType, Local
    <3> QED
      BY <2>2, <3>1
  <2>4. Recycled
    BY <2>2, <2>3 DEF StopPart, StopNodeInv
  <2> QED
    BY <2>1, <2>2, <2>4
<1>4. UnusedInv'
  BY DEF StopPart, UnusedInv
<1> QED
  BY <1>1, <1>2, <1>3, <1>4 DEF StopPart

\* What a step of a user or of create() that has no part in the queue preserves.
LEMMA QuietStep ==
  ASSUME IInv, TypeInv', SlotPart', UNCHANGED queueView, NEW p \in Procs, Alone(p),
         pc[p] \in Quiet, pc'[p] \in Quiet,
         Recycled => Recycled' /\ thisId' = thisId /\ joinButex' = joinButex,
         stopRuns' = stopRuns, slot' # "used" => slot # "used"
  PROVE  IInv'
<1>1. \A q \in Procs : Apart(q)
  BY DEF Alone, Apart
<1>2. \A q \in Procs : (Closing(q)' <=> Closing(q)) /\ (Closing(q) => pc'[q] = pc[q])
  BY DEF Alone, Closing, Quiet, Closed
<1>3. NodePart' /\ QueuePart' /\ CountPart'
  BY <1>1, QuietFrame DEF IInv
<1>4. node' = node /\ head' = head /\ tasks' = tasks /\ RunStops' = RunStops
  BY DEF queueView, RunStops
<1>5. StopPart'
  BY <1>1, <1>2, <1>4, StopFrame DEF IInv
<1> QED
  BY <1>3, <1>5 DEF IInv

\* The same for create(), which nobody executes.
LEMMA QuietCreate ==
  ASSUME IInv, TypeInv', SlotPart', UNCHANGED queueView, pc' = pc, loc' = loc, ~Recycled,
         stopRuns' = stopRuns, slot # "used"
  PROVE  IInv'
<1>1. \A q \in Procs : Apart(q)
  BY DEF Apart
<1>2. \A q \in Procs : (Closing(q)' <=> Closing(q)) /\ (Closing(q) => pc'[q] = pc[q])
  BY DEF Closing
<1>3. NodePart' /\ QueuePart' /\ CountPart'
  BY <1>1, QuietFrame DEF IInv
<1>4. node' = node /\ head' = head /\ tasks' = tasks /\ RunStops' = RunStops
  BY DEF queueView, RunStops
<1>5. StopPart'
  BY <1>1, <1>2, <1>4, StopFrame DEF IInv
<1> QED
  BY <1>3, <1>5 DEF IInv

-----------------------------------------------------------------------------
(* create(), address(), dereference(), stop() and join() preserve the invariant *)

\* The three steps of create() preserve the invariant.
LEMMA CreateStep ==
  ASSUME IInv, Create
  PROVE  IInv'
<1>1. CASE CreateReset
  <2>1. SlotPart'
    BY <1>1, SlotCreateReset DEF IInv
  <2>2. TypeInv'
    BY <1>1 DEF CreateReset, history, IInv, TypeInv, TypeOK, LocalType, HistoryType
  <2>3. UNCHANGED queueView /\ pc' = pc /\ loc' = loc /\ ~Recycled /\ stopRuns' = stopRuns
        /\ slot # "used"
    BY <1>1 DEF CreateReset, history, queueView, Recycled
  <2> QED
    BY <2>1, <2>2, <2>3, QuietCreate
<1>2. CASE CreateRef
  <2>1. SlotPart'
    BY <1>2, SlotCreateRef DEF IInv
  <2>2. TypeInv'
    <3>1. vref' \in [ver : Nat, ref : Nat]
      BY <1>2 DEF CreateRef, IInv, TypeInv, TypeOK
    <3> QED
      BY <1>2, <3>1 DEF CreateRef, history, IInv, TypeInv, TypeOK, LocalType, HistoryType
  <2>3. UNCHANGED queueView /\ pc' = pc /\ loc' = loc /\ ~Recycled /\ stopRuns' = stopRuns
        /\ slot # "used"
    BY <1>2 DEF CreateRef, history, queueView, Recycled
  <2> QED
    BY <2>1, <2>2, <2>3, QuietCreate
<1>3. CASE CreateId
  <2>1. SlotPart'
    BY <1>3, SlotCreateId DEF IInv
  <2>2. TypeInv'
    BY <1>3 DEF CreateId, IInv, TypeInv, TypeOK, LocalType, HistoryType
  <2>3. UNCHANGED queueView /\ pc' = pc /\ loc' = loc /\ ~Recycled /\ stopRuns' = stopRuns
        /\ slot # "used"
    BY <1>3 DEF CreateId, queueView, Recycled
  <2> QED
    BY <2>1, <2>2, <2>3, QuietCreate
<1> QED
  BY <1>1, <1>2, <1>3 DEF Create

\* Steps that change only vref of what is typed, and the locals of a caller.
LEMMA VrefType ==
  ASSUME TypeInv, NEW p \in Callers, Only(p), loc'[p] \in Local, pc'[p] \in CallerLabels,
         vref' \in [ver : Nat, ref : Nat], UNCHANGED queueView,
         UNCHANGED <<stopped, thisId, joinButex, slot, ids, stopRuns, joined>>
  PROVE  TypeInv'
<1>1. p \in Procs /\ p \notin Fibers
  BY DistinctAssumption DEF Procs
<1>2. LocalType'
  BY <1>1, OnlyType DEF TypeInv
<1> QED
  BY <1>2 DEF TypeInv, TypeOK, HistoryType, queueView

\* address() preserves the invariant.
LEMMA AddressStep ==
  ASSUME IInv, NEW p \in Callers, NEW op \in {"execute", "stop"}, NEW v \in ids, Address(p, op, v)
  PROVE  IInv'
<1>1. SlotPart'
  BY SlotAddress DEF IInv
<1>2. /\ vref' = [vref EXCEPT !.ref = @ + 1] /\ pc[p] = "idle" /\ p \in Procs /\ UNCHANGED queueView
      /\ UNCHANGED <<stopped, thisId, joinButex, slot, ids, stopRuns, joined>>
  BY DEF Address, history, queueView, Procs
<1>3. vref' \in [ver : Nat, ref : Nat] /\ vref'.ver = vref.ver /\ vref.ver \in Nat
  BY <1>2 DEF IInv, TypeInv, TypeOK
<1>4. pc'[p] \in {"execute", "stop", "unaddress"} /\ loc'[p] \in Local /\ Only(p) /\ Alone(p)
  <2> DEFINE r == [Blank EXCEPT !.op = op, !.derefs = 1]
             u == [Blank EXCEPT !.op = op, !.ver = vref.ver]
  <2>1. r \in Local /\ u \in Local
    <3>1. 1 \in 0..2 /\ op \in {"none", "execute", "stop", "join", "fiber"}
      OBVIOUS
    <3>2. r \in Local
      BY <3>1, BlankFacts, Zenon DEF Local
    <3>3. u \in Local
      BY <1>3, <3>1, BlankFacts, Zenon DEF Local
    <3> QED
      BY <3>2, <3>3
  <2>2. Goto(p, op, r) \/ Goto(p, "unaddress", u)
    BY DEF Address
  <2> HIDE DEF r, u
  <2> QED
    BY <1>2, <2>1, <2>2, GotoFacts DEF IInv, TypeInv
<1>5. TypeInv'
  BY <1>2, <1>3, <1>4, VrefType DEF IInv, CallerLabels, Quiet
<1>6. Recycled => Recycled'
  BY <1>2, <1>3 DEF Recycled
<1> QED
  BY <1>1, <1>2, <1>4, <1>5, <1>6, QuietStep DEF Quiet

\* The return of a reference by address() preserves the invariant.
LEMMA UnaddressStep ==
  ASSUME IInv, NEW p \in Callers, Unaddress(p)
  PROVE  IInv'
<1>1. SlotPart'
  BY SlotUnaddress DEF IInv
<1>2. /\ vref'.ver = vref.ver /\ vref'.ref = vref.ref - 1 /\ vref.ref >= 1
      /\ pc[p] = "unaddress" /\ p \in Procs /\ Alone(p) /\ Only(p) /\ loc'[p] \in Local
      /\ pc'[p] \in {"idle", "recycle"}
  BY UnaddressFacts DEF IInv
<1>3. /\ vref' = [vref EXCEPT !.ref = @ - 1] /\ UNCHANGED queueView
      /\ UNCHANGED <<stopped, thisId, joinButex, slot, ids, stopRuns, joined>>
  BY DEF Unaddress, history, queueView
<1>4. vref' \in [ver : Nat, ref : Nat]
  BY <1>2, <1>3 DEF IInv, TypeInv, TypeOK
<1>5. TypeInv'
  BY <1>2, <1>3, <1>4, VrefType DEF IInv, CallerLabels, Quiet
<1>6. Recycled => Recycled'
  BY <1>2, <1>3 DEF Recycled
<1> QED
  BY <1>1, <1>2, <1>3, <1>5, <1>6, QuietStep DEF Quiet

\* dereference() preserves the invariant.
LEMMA DereferenceStep ==
  ASSUME IInv, NEW p \in Callers, Dereference(p)
  PROVE  IInv'
<1>1. SlotPart'
  BY SlotDereference DEF IInv
<1>2. /\ vref'.ver = vref.ver /\ vref'.ref = vref.ref - 1 /\ vref.ref >= 1
      /\ pc[p] = "deref" /\ p \in Procs /\ Alone(p) /\ Only(p) /\ loc'[p] \in Local
      /\ pc'[p] \in {"idle", "deref", "deref_last"}
  BY DereferenceFacts DEF IInv
<1>3. /\ vref' = [vref EXCEPT !.ref = @ - 1] /\ UNCHANGED queueView
      /\ UNCHANGED <<stopped, thisId, joinButex, slot, ids, stopRuns, joined>>
  BY DEF Dereference, history, queueView
<1>4. vref' \in [ver : Nat, ref : Nat]
  BY <1>2, <1>3 DEF IInv, TypeInv, TypeOK
<1>5. TypeInv'
  BY <1>2, <1>3, <1>4, VrefType DEF IInv, CallerLabels, Quiet
<1>6. Recycled => Recycled'
  BY <1>2, <1>3 DEF Recycled
<1> QED
  BY <1>1, <1>2, <1>3, <1>5, <1>6, QuietStep DEF Quiet

\* dereference() of the last reference preserves the invariant.
LEMMA DereferenceLastStep ==
  ASSUME IInv, NEW p \in Callers, DereferenceLast(p)
  PROVE  IInv'
<1>1. SlotPart'
  BY SlotDereferenceLast DEF IInv
<1>2. /\ pc[p] = "deref_last" /\ p \in Procs /\ Alone(p) /\ Only(p) /\ loc'[p] \in Local
      /\ pc'[p] \in {"recycle", "invalid_id"} /\ UNCHANGED slotVars
  BY DereferenceLastFacts DEF IInv
<1>3. UNCHANGED queueView
  BY DEF DereferenceLast, history, queueView, queueVars
<1>4. /\ vref' = vref /\ thisId' = thisId /\ joinButex' = joinButex /\ slot' = slot
      /\ stopRuns' = stopRuns
      /\ UNCHANGED <<stopped, thisId, joinButex, slot, ids, stopRuns, joined>>
  BY <1>2 DEF slotVars
<1>5. TypeInv'
  <2>1. vref' \in [ver : Nat, ref : Nat]
    BY <1>4 DEF IInv, TypeInv, TypeOK
  <2> QED
    BY <1>2, <1>3, <1>4, <2>1, VrefType DEF IInv, CallerLabels, Quiet
<1>6. Recycled => Recycled'
  BY <1>4 DEF Recycled
<1> QED
  BY <1>1, <1>2, <1>3, <1>4, <1>5, <1>6, QuietStep DEF Quiet

\* A caller goes on to the dereferences that are left, or returns.
LEMMA QuietStill ==
  ASSUME IInv, NEW p \in Callers, UNCHANGED slotVars, UNCHANGED queueView, Only(p), Alone(p),
         pc[p] \in Quiet \ {"unaddress", "stop_set"}, pc'[p] \in {"deref", "idle"}, loc'[p] \in Local,
         loc'[p].derefs = loc[p].derefs, pc'[p] = "deref" <=> loc[p].derefs # 0
  PROVE  IInv'
<1>1. p \in Procs /\ loc[p].derefs \in 0..2
  BY DEF IInv, TypeInv, LocalType, Local, Procs
<1>2. Still(p)
  BY <1>1 DEF Still
<1>3. \A q \in Procs : Still(q)
  BY <1>2 DEF Still, Alone
<1>4. SlotPart'
  BY <1>3, SlotFrame DEF IInv
<1>5. /\ vref' = vref /\ thisId' = thisId /\ joinButex' = joinButex /\ slot' = slot
      /\ stopRuns' = stopRuns
      /\ UNCHANGED <<stopped, thisId, joinButex, slot, ids, stopRuns, joined>>
  BY DEF slotVars
<1>6. TypeInv'
  <2>1. vref' \in [ver : Nat, ref : Nat]
    BY <1>5 DEF IInv, TypeInv, TypeOK
  <2> QED
    BY <1>5, <2>1, VrefType DEF IInv, CallerLabels, Quiet
<1>7. Recycled => Recycled'
  BY <1>5 DEF Recycled
<1> QED
  BY <1>1, <1>4, <1>5, <1>6, <1>7, QuietStep DEF Quiet

\* A call that has done its work returns or gives its references back.
LEMMA ContinueFacts ==
  ASSUME LocalType, NEW p \in Procs, Continue(p)
  PROVE  /\ Only(p) /\ Alone(p) /\ pc'[p] \in {"deref", "idle"} /\ loc'[p] \in Local
         /\ loc'[p].derefs = loc[p].derefs
         /\ pc'[p] = "deref" <=> loc[p].derefs # 0
BY GotoFacts, RestFacts DEF Continue

\* The FATAL "Invalid id" of dereference() preserves the invariant.
LEMMA DereferenceInvalidStep ==
  ASSUME IInv, NEW p \in Callers, DereferenceInvalid(p)
  PROVE  IInv'
<1>1. UNCHANGED slotVars /\ UNCHANGED queueView /\ pc[p] = "invalid_id" /\ p \in Procs
  BY DEF DereferenceInvalid, slotVars, queueVars, queueView, history, Procs
<1>2. /\ Only(p) /\ Alone(p) /\ pc'[p] \in {"deref", "idle"} /\ loc'[p] \in Local
      /\ loc'[p].derefs = loc[p].derefs
      /\ pc'[p] = "deref" <=> loc[p].derefs # 0
  BY <1>1, ContinueFacts DEF DereferenceInvalid, IInv, TypeInv
<1> QED
  BY <1>1, <1>2, QuietStill DEF Quiet

\* stop(), its CAS of the version, preserves the invariant.
LEMMA StopCasStep ==
  ASSUME IInv, NEW p \in Callers, StopCas(p)
  PROVE  IInv'
<1>1. SlotPart'
  BY SlotStopCas DEF IInv
<1>2. /\ pc[p] = "stop" /\ p \in Procs /\ UNCHANGED queueView
      /\ UNCHANGED <<stopped, thisId, joinButex, slot, ids, stopRuns, joined>>
  BY DEF StopCas, history, queueView, Procs
<1>3. pc'[p] \in {"stop_set", "deref"} /\ loc'[p] = loc[p] /\ Only(p) /\ Alone(p)
  BY <1>2, GotoFacts DEF StopCas, IInv, TypeInv
<1>4. loc[p] \in Local /\ vref' \in [ver : Nat, ref : Nat]
  BY <1>2 DEF StopCas, IInv, TypeInv, TypeOK, LocalType
<1>5. TypeInv'
  BY <1>2, <1>3, <1>4, VrefType DEF IInv, CallerLabels, Quiet
<1>6. ~Recycled
  <2>1. Held(p) >= 1
    BY <1>2 DEF Held, IInv, SlotPart, DerefsInv
  <2> QED
    BY <1>2, <2>1, VersionFacts DEF Recycled, IInv, SlotPart, HolderInv, Knows
<1> QED
  BY <1>1, <1>2, <1>3, <1>5, <1>6, QuietStep DEF Quiet

\* stop(), setting _stopped, preserves the invariant.
LEMMA StopSetStep ==
  ASSUME IInv, NEW p \in Callers, StopSet(p)
  PROVE  IInv'
<1>1. SlotPart'
  BY SlotStopSet DEF IInv
<1>2. /\ pc[p] = "stop_set" /\ p \in Procs /\ UNCHANGED queueView /\ stopped' = TRUE /\ vref' = vref
      /\ UNCHANGED <<vref, thisId, joinButex, slot, ids, stopRuns, joined>>
  BY DEF StopSet, history, queueView, Procs
<1>3. pc'[p] = "deref" /\ loc'[p] \in Local /\ Only(p) /\ Alone(p)
  <2> DEFINE r == [loc[p] EXCEPT !.derefs = 2]
  <2>1. loc[p] \in Local
    BY <1>2 DEF IInv, TypeInv, LocalType
  <2>2. r \in Local
    BY <2>1 DEF Local
  <2>3. Goto(p, "deref", r)
    BY DEF StopSet
  <2> HIDE DEF r
  <2> QED
    BY <1>2, <2>2, <2>3, GotoFacts DEF IInv, TypeInv
<1>4. TypeInv'
  <2>1. p \notin Fibers
    BY DistinctAssumption
  <2>2. LocalType'
    BY <1>2, <1>3, <2>1, OnlyType DEF IInv, TypeInv, CallerLabels, Quiet
  <2> QED
    BY <1>2, <2>2 DEF IInv, TypeInv, TypeOK, HistoryType, queueView
<1>5. Recycled => Recycled'
  BY <1>2 DEF Recycled
<1> QED
  BY <1>1, <1>2, <1>3, <1>4, <1>5, QuietStep DEF Quiet

\* The call of join() preserves the invariant.
LEMMA JoinCallStep ==
  ASSUME IInv, NEW p \in Callers, NEW v \in ids, JoinCall(p, v)
  PROVE  IInv'
<1>1. SlotPart'
  BY SlotJoinCall DEF IInv
<1>2. pc[p] = "idle" /\ p \in Procs /\ UNCHANGED queueView /\ UNCHANGED slotVars
  BY DEF JoinCall, queueVars, slotVars, history, queueView, Procs
<1>3. /\ vref' = vref /\ thisId' = thisId /\ joinButex' = joinButex /\ slot' = slot
      /\ stopRuns' = stopRuns
      /\ UNCHANGED <<stopped, thisId, joinButex, slot, ids, stopRuns, joined>>
  BY <1>2 DEF slotVars
<1>4. pc'[p] = "join" /\ loc'[p] \in Local /\ Only(p) /\ Alone(p)
  <2> DEFINE r == [Blank EXCEPT !.op = "join", !.ver = v]
  <2>1. v \in Nat
    BY DEF IInv, TypeInv, TypeOK
  <2>2. r \in Local
    BY <2>1, BlankFacts, Zenon DEF Local
  <2>3. Goto(p, "join", r)
    BY DEF JoinCall
  <2> HIDE DEF r
  <2> QED
    BY <1>2, <2>2, <2>3, GotoFacts DEF IInv, TypeInv
<1>5. TypeInv'
  <2>1. vref' \in [ver : Nat, ref : Nat]
    BY <1>3 DEF IInv, TypeInv, TypeOK
  <2> QED
    BY <1>2, <1>3, <1>4, <2>1, VrefType DEF IInv, CallerLabels, Quiet
<1>6. Recycled => Recycled'
  BY <1>3 DEF Recycled
<1> QED
  BY <1>1, <1>2, <1>3, <1>4, <1>5, <1>6, QuietStep DEF Quiet

\* The test in join() preserves the invariant.
LEMMA JoinTestStep ==
  ASSUME IInv, NEW p \in Callers, JoinTest(p)
  PROVE  IInv'
<1>1. SlotPart'
  BY SlotJoinTest DEF IInv
<1>2. /\ pc[p] = "join" /\ p \in Procs /\ UNCHANGED queueView
      /\ UNCHANGED <<vref, stopped, thisId, joinButex, slot, ids, stopRuns>>
  BY DEF JoinTest, queueVars, queueView, Procs
<1>3. /\ pc'[p] \in {"join_wait", "idle"} /\ loc'[p] \in {loc[p], Blank} /\ Only(p) /\ Alone(p)
      /\ joined' \subseteq joined \cup {loc[p].ver}
  BY <1>2, GotoFacts DEF JoinTest, Return, IInv, TypeInv
<1>4. TypeInv'
  <2>1. p \notin Fibers /\ loc'[p] \in Local
    BY <1>2, <1>3, DistinctAssumption, BlankFacts DEF IInv, TypeInv, LocalType
  <2>2. LocalType'
    BY <1>2, <1>3, <2>1, OnlyType DEF IInv, TypeInv, CallerLabels, Quiet
  <2>3. joined' \subseteq ids
    <3>1. loc[p].ver \in ids
      BY <1>2 DEF IInv, SlotPart, HolderInv, Knows
    <3> QED
      BY <1>3, <3>1 DEF IInv, TypeInv, TypeOK
  <2> QED
    BY <1>2, <2>2, <2>3 DEF IInv, TypeInv, TypeOK, HistoryType, queueView
<1>5. Recycled => Recycled'
  BY <1>2 DEF Recycled
<1> QED
  BY <1>1, <1>2, <1>3, <1>4, <1>5, QuietStep DEF Quiet

-----------------------------------------------------------------------------
(* Ranks and lists *)

\* Ranks are those of the tasks, the stop task comes behind them, and no two nodes
\* have one.
LEMMA RankFacts ==
  ASSUME IInv
  PROVE  /\ Len(tasks) \in Nat /\ DOMAIN tasks = 1..Len(tasks)
         /\ \A n \in Nodes : ranks[n] \in Nat /\ ranks[n] <= Len(tasks) + 1
         /\ \A m, n \in Nodes : ranks[m] = ranks[n] /\ ranks[n] > 0 => m = n
         /\ \A n \in Nodes : node[n].task > 0 => ranks[n] = node[n].task /\ ranks[n] <= Len(tasks)
         /\ \A n \in Nodes : ranks[n] > 0 => n \notin pool /\ \A p \in Procs : ~Owns(p, n)
         /\ \A n \in Nodes : ranks[n] > 0 /\ ~node[n].stopTask => ranks[n] = node[n].task
         /\ \A n \in Nodes : ranks[n] > 0 /\ node[n].stopTask => ranks[n] = Len(tasks) + 1
<1>1. Len(tasks) \in Nat /\ DOMAIN tasks = 1..Len(tasks)
  BY DEF IInv, TypeInv, HistoryType
<1>2. \A n \in Nodes : node[n].task \in Nat
  BY DEF IInv, TypeInv, TypeOK
<1>3. \A n \in Nodes : node[n].task > 0 => node[n].task <= Len(tasks) /\ ~node[n].stopTask
  BY DEF IInv, NodePart, TaskInv, NodeInv
<1>4. \A n \in Nodes : ranks[n] = IF node[n].task > 0 THEN node[n].task
                                  ELSE IF node[n].stopTask /\ \A p \in Procs : ~Owns(p, n)
                                         THEN Len(tasks) + 1 ELSE 0
  BY DEF ranks
<1>5. \A n \in Nodes : ranks[n] \in Nat /\ ranks[n] <= Len(tasks) + 1
  BY <1>1, <1>2, <1>3, <1>4
<1>6. \A n \in Nodes : node[n].task > 0 => ranks[n] = node[n].task /\ ranks[n] <= Len(tasks)
  BY <1>3, <1>4
<1>7. \A n \in Nodes : ranks[n] > 0 /\ ~node[n].stopTask =>
          ranks[n] = node[n].task /\ node[n].task > 0
  BY <1>2, <1>4
<1>8. \A n \in Nodes : ranks[n] > 0 /\ node[n].stopTask => ranks[n] = Len(tasks) + 1
  BY <1>3, <1>4
<1>9. ASSUME NEW m \in Nodes, NEW n \in Nodes, ranks[m] = ranks[n], ranks[n] > 0 PROVE m = n
  <2>1. CASE node[n].stopTask
    <3>1. node[m].stopTask
      BY <1>1, <1>3, <1>6, <1>7, <1>8, <1>9, <2>1
    <3> QED
      BY <2>1, <3>1 DEF IInv, StopPart, StopNodeInv
  <2>2. CASE ~node[n].stopTask
    <3>1. ~node[m].stopTask /\ node[n].task > 0
      BY <1>1, <1>3, <1>6, <1>7, <1>8, <1>9, <2>2
    <3>2. node[m].task = node[n].task
      BY <1>7, <1>9, <2>2, <3>1
    <3> QED
      BY <3>1, <3>2 DEF IInv, NodePart, TaskInv
  <2> QED
    BY <2>1, <2>2
<1>10. \A n \in Nodes : ranks[n] > 0 => n \notin pool /\ \A p \in Procs : ~Owns(p, n)
  <2> SUFFICES ASSUME NEW n \in Nodes, ranks[n] > 0
      PROVE  n \notin pool /\ \A p \in Procs : ~Owns(p, n)
    OBVIOUS
  <2>1. n \in pool => node[n].task = 0 /\ ~node[n].stopTask
    BY DEF IInv, NodePart, NodeInv
  <2>2. \A p \in Procs : Owns(p, n) => node[n].task = 0
    BY DEF IInv, NodePart, OwnerInv
  <2> QED
    BY <1>4, <2>1, <2>2
<1> QED
  BY <1>1, <1>5, <1>6, <1>7, <1>8, <1>9, <1>10

\* The list of an executor: its nodes and their ranks.
LEMMA ListFacts ==
  ASSUME IInv, NEW p \in Procs, HasList(p)
  PROVE  /\ loc[p].list \in Seq(Nodes) /\ Len(loc[p].list) \in Nat /\ Len(loc[p].list) > 0
         /\ DOMAIN loc[p].list = 1..Len(loc[p].list)
         /\ FirstRank(p) \in Nat /\ FirstRank(p) > 0
         /\ LastRank(p) = FirstRank(p) + Len(loc[p].list) - 1
         /\ loc[p].list[1] \in Nodes /\ loc[p].list[Len(loc[p].list)] \in Nodes
         /\ Head(loc[p].list) = loc[p].list[1]
         /\ \A i \in 1..Len(loc[p].list) : /\ loc[p].list[i] \in Nodes
                                           /\ ranks[loc[p].list[i]] = FirstRank(p) + i - 1
                                           /\ ranks[loc[p].list[i]] > 0
<1>1. loc[p].list \in Seq(Nodes)
  BY DEF IInv, TypeInv, LocalType, Local
<1>2. Len(loc[p].list) > 0 /\ FirstRank(p) > 0
  BY DEF IInv, QueuePart, ListInv
<1>3. /\ \A i \in 1..Len(loc[p].list) : ranks[loc[p].list[i]] = FirstRank(p) + i - 1
  BY DEF IInv, QueuePart, ListInv
<1>4. /\ Len(loc[p].list) \in Nat /\ \A i \in 1..Len(loc[p].list) : loc[p].list[i] \in Nodes
      /\ DOMAIN loc[p].list = 1..Len(loc[p].list)
  BY <1>1
<1>5. 1 \in 1..Len(loc[p].list) /\ Len(loc[p].list) \in 1..Len(loc[p].list)
  BY <1>2, <1>4
<1>6. FirstRank(p) \in Nat
  BY <1>4, <1>5, RankFacts DEF FirstRank
<1>7. Head(loc[p].list) = loc[p].list[1]
  BY <1>1, <1>2
<1>8. LastRank(p) = FirstRank(p) + Len(loc[p].list) - 1
  BY <1>3, <1>5 DEF LastRank
<1>9. \A i \in 1..Len(loc[p].list) : ranks[loc[p].list[i]] > 0
  BY <1>2, <1>3, <1>4, <1>6
<1> QED
  BY <1>1, <1>2, <1>3, <1>4, <1>5, <1>6, <1>7, <1>8, <1>9

\* A node whose rank is between those of the first and the last node is in the list.
LEMMA InList ==
  ASSUME IInv, NEW p \in Procs, HasList(p), NEW n \in Nodes,
         FirstRank(p) <= ranks[n], ranks[n] <= LastRank(p)
  PROVE  ranks[n] - FirstRank(p) + 1 \in 1..Len(loc[p].list)
         /\ loc[p].list[ranks[n] - FirstRank(p) + 1] = n
<1> DEFINE i == ranks[n] - FirstRank(p) + 1
<1>1. /\ Len(loc[p].list) \in Nat /\ FirstRank(p) \in Nat /\ FirstRank(p) > 0
      /\ LastRank(p) = FirstRank(p) + Len(loc[p].list) - 1
      /\ \A j \in 1..Len(loc[p].list) : loc[p].list[j] \in Nodes
         /\ ranks[loc[p].list[j]] = FirstRank(p) + j - 1
  BY ListFacts
<1>2. ranks[n] \in Nat
  BY RankFacts
<1>3. i \in 1..Len(loc[p].list) /\ FirstRank(p) + i - 1 = ranks[n] /\ ranks[n] > 0
  BY <1>1, <1>2
<1>4. loc[p].list[i] \in Nodes /\ ranks[loc[p].list[i]] = ranks[n]
  BY <1>1, <1>3
<1> HIDE DEF i
<1>5. loc[p].list[i] = n
  BY <1>3, <1>4, RankFacts
<1> QED
  BY <1>3, <1>5 DEF i

\* There is one executor, its list ends at or before _head, and what was not iterated
\* is not before its list.
LEMMA RunnerFacts ==
  ASSUME IInv, NEW p \in Procs, Runs(p)
  PROVE  /\ HasList(p) /\ head \in Nodes /\ head # NULL /\ LastRank(p) <= ranks[head]
         /\ \A q \in Procs : Runs(q) => q = p
         /\ \A q \in Procs : InPass(q) => q = p
         /\ \A n \in Nodes : ranks[n] <= ranks[head]
         /\ \A n \in Nodes : ranks[n] > 0 /\ ~node[n].iterated => FirstRank(p) <= ranks[n]
         /\ \A q \in Procs : pc[q] \notin Closed
         /\ loc[p] \in Local
<1>1. HasList(p) /\ loc[p] \in Local
  BY DEF Runs, HasList, IInv, TypeInv, LocalType
<1>2. head # NULL /\ \A q \in Procs : Runs(q) => q = p
  BY DEF IInv, QueuePart, HeadInv
<1>3. head \in Nodes
  BY <1>2 DEF IInv, TypeInv, TypeOK
<1>4. \A n \in Nodes : ranks[n] <= ranks[head]
  BY <1>2 DEF IInv, QueuePart, HeadInv
<1>5. LastRank(p) <= ranks[head]
  BY <1>1, <1>4, ListFacts DEF LastRank
<1>6. \A q \in Procs : InPass(q) => q = p
  BY <1>2 DEF InPass, Pass, Runs, Executing
<1>7. \A n \in Nodes : ranks[n] > 0 /\ ~node[n].iterated => FirstRank(p) <= ranks[n]
  BY <1>2 DEF IInv, QueuePart, LiveInv
<1>8. \A q \in Procs : pc[q] \notin Closed
  BY <1>2 DEF IInv, StopPart, ClosingInv, Closing
<1> QED
  BY <1>1, <1>2, <1>3, <1>4, <1>5, <1>6, <1>7, <1>8

\* A pending task has a node in the queue that was not iterated.
LEMMA PendingFacts ==
  ASSUME IInv, NEW t \in DOMAIN tasks, tasks[t].fate = "pending"
  PROVE  \E n \in Nodes : /\ node[n].task = t /\ ranks[n] = t /\ t > 0 /\ ~node[n].iterated
                          /\ node[n].high = tasks[t].high
                          /\ tasks[t].high => n \in Waiting
<1>1. PICK n \in Nodes : node[n].task = t
  BY DEF IInv, NodePart, TaskInv
<1>2. t \in Nat /\ t > 0
  BY RankFacts
<1>3. node[n].status = "UNEXECUTED" /\ node[n].high = tasks[t].high
  BY <1>1, <1>2 DEF IInv, NodePart, TaskInv
<1>4. ~node[n].iterated
  BY <1>3 DEF IInv, NodePart, NodeInv
<1>5. ranks[n] = t /\ \A p \in Procs : ~Owns(p, n)
  BY <1>1, <1>2, RankFacts
<1>6. tasks[t].high => n \in Waiting
  BY <1>3, <1>4, <1>5 DEF Waiting
<1> QED
  BY <1>1, <1>2, <1>3, <1>4, <1>5, <1>6

-----------------------------------------------------------------------------
(* Steps that leave the nodes in their places *)

\* Nodes are iterated, executed or cancelled, no more.
NodesKept == \A n \in Nodes :
    /\ node'[n].version = node[n].version /\ node'[n].stopTask = node[n].stopTask
    /\ node'[n].high = node[n].high /\ node'[n].task = node[n].task
    /\ node[n].iterated => node'[n].iterated
    /\ node'[n].iterated => node'[n].status # "UNEXECUTED"
    /\ node'[n] # node[n] => ranks[n] > 0
LinksKept == \A n \in Nodes : node'[n].next = node[n].next
TasksKept ==
    /\ Len(tasks') = Len(tasks) /\ DOMAIN tasks' = DOMAIN tasks
    /\ \A t \in DOMAIN tasks : /\ tasks'[t].high = tasks[t].high /\ tasks'[t].queue = tasks[t].queue
                               /\ tasks'[t].fate # "repeated"
                               /\ tasks'[t].fate = "pending" => tasks[t].fate = "pending"
    /\ \A n \in Nodes : node[n].task > 0 =>
         (node'[n].status = "UNEXECUTED" <=> tasks'[node[n].task].fate = "pending")
\* q goes on with its list, if it changes at all.
Stays(q) == \/ pc'[q] = pc[q] /\ loc'[q] = loc[q]
            \/ /\ pc[q] \in Executing /\ pc'[q] \in Executing
               /\ loc'[q].list = loc[q].list /\ loc'[q].handle = loc[q].handle

\* q neither takes a node from the pool nor pushes one.
Keeps(q) == \/ pc'[q] = pc[q] /\ loc'[q] = loc[q]
            \/ /\ pc[q] \notin {"count_high", "exchange"} /\ pc'[q] \notin {"count_high", "exchange"}
               /\ pc'[q] \notin Quiet \cup Closed =>
                     loc'[q].handle = NULL
                     \/ (pc[q] \notin Quiet \cup Closed /\ loc'[q].handle = loc[q].handle)

\* A process that stays in its part of the code.
LEMMA StaysFacts ==
  ASSUME NEW q \in Procs, Stays(q)
  PROVE  /\ \A n : Owns(q, n)' <=> Owns(q, n)
         /\ Runs(q)' <=> Runs(q)
         /\ HasList(q)' <=> HasList(q)
         /\ HasList(q) => loc'[q].list = loc[q].list
         /\ pc'[q] = "finish" <=> pc[q] = "finish"
         /\ pc'[q] = "link" <=> pc[q] = "link"
         /\ pc[q] \in {"link", "count_high", "exchange"} => pc'[q] = pc[q] /\ loc'[q] = loc[q]
         /\ pc'[q] \in {"link", "count_high", "exchange"} => pc'[q] = pc[q] /\ loc'[q] = loc[q]
         /\ pc'[q] \notin Quiet \cup Closed =>
                pc[q] \notin Quiet \cup Closed /\ loc'[q].handle = loc[q].handle
         /\ Closing(q)' <=> Closing(q)
         /\ Closing(q) => pc'[q] = pc[q]
         /\ Keeps(q)
BY DEF Stays, Keeps, Owns, Runs, HasList, Quiet, Closed, Executing, Pass, Closing

\* Nodes, tasks and handles under steps that only iterate over or finish tasks.
LEMMA KeepNodes ==
  ASSUME IInv, pool' = pool, \A h \in handles' : h \in Handle /\ ValidHandle(h), NodesKept, TasksKept,
         \A q \in Procs : Keeps(q)
  PROVE  NodePart' /\ ranks' = ranks /\ (\A q \in Procs, n \in Nodes : Owns(q, n)' <=> Owns(q, n))
<1>1. \A q \in Procs : \A n : Owns(q, n)' <=> Owns(q, n)
  BY DEF Keeps, Owns
<1>2. ranks' = ranks
  BY <1>1 DEF ranks, NodesKept, TasksKept
<1>3. \A q \in Procs, n \in Nodes : Owns(q, n) => node'[n] = node[n]
  <2>1. \A n \in Nodes : node'[n] # node[n] => ranks[n] > 0
    BY DEF NodesKept
  <2> QED
    BY <2>1, RankFacts
<1>4. OwnerInv'
  <2>1. \A q \in Procs : pc'[q] \in {"count_high", "exchange"} => pc'[q] = pc[q] /\ loc'[q] = loc[q]
    BY DEF Keeps
  <2>2. \A q \in Procs, n \in Nodes : Owns(q, n)' =>
            pc'[q] = pc[q] /\ loc'[q] = loc[q] /\ node'[n] = node[n]
    BY <1>1, <1>3, <2>1 DEF Owns
  <2> QED
    BY <1>1, <2>1, <2>2 DEF IInv, NodePart, OwnerInv
<1>5. NodeInv'
  <2> SUFFICES ASSUME NEW n \in Nodes
               PROVE  /\ n \in pool => /\ node'[n].task = 0 /\ ~node'[n].stopTask /\ ~node'[n].high
                                       /\ ~node'[n].iterated
                      /\ node'[n].iterated => node'[n].status # "UNEXECUTED" /\ ranks'[n] > 0
                      /\ node'[n].task > 0 => ~node'[n].stopTask
                      /\ node'[n].high /\ node'[n].task = 0 => \E p \in Procs : Owns(p, n)'
    BY DEF NodeInv
  <2>1. /\ n \in pool => node[n].task = 0 /\ ~node[n].stopTask /\ ~node[n].high /\ ~node[n].iterated
        /\ node[n].iterated => node[n].status # "UNEXECUTED" /\ ranks[n] > 0
        /\ node[n].task > 0 => ~node[n].stopTask
        /\ node[n].high /\ node[n].task = 0 => \E p \in Procs : Owns(p, n)
    BY DEF IInv, NodePart, NodeInv
  <2>2. n \in pool => node'[n] = node[n]
    BY RankFacts DEF NodesKept
  <2> QED
    BY <1>1, <1>2, <2>1, <2>2 DEF NodesKept
<1>6. TaskInv'
  <2>1. \A n \in Nodes : node[n].task > 0 => node[n].task \in DOMAIN tasks
    BY RankFacts DEF IInv, NodePart, TaskInv, TypeInv, TypeOK
  <2>2. \A n \in Nodes : node'[n].task > 0 =>
         /\ node'[n].task <= Len(tasks')
         /\ tasks'[node'[n].task].high = node'[n].high
         /\ node'[n].status = "UNEXECUTED" <=> tasks'[node'[n].task].fate = "pending"
    BY <2>1 DEF IInv, NodePart, TaskInv, NodesKept, TasksKept
  <2>3. \A m, n \in Nodes : node'[n].task > 0 /\ node'[m].task = node'[n].task => m = n
    BY DEF IInv, NodePart, TaskInv, NodesKept
  <2>4. \A t \in DOMAIN tasks' :
         /\ tasks'[t].fate # "repeated"
         /\ tasks'[t].fate = "pending" => \E n \in Nodes : node'[n].task = t
    BY DEF IInv, NodePart, TaskInv, NodesKept, TasksKept
  <2> QED
    BY <2>2, <2>3, <2>4 DEF TaskInv
<1>7. HandleInv'
  <2>1. \A h \in Handle : ValidHandle(h) => ValidHandle(h)'
    BY DEF ValidHandle, Handle, NodesKept, TasksKept
  <2>2. ASSUME NEW q \in Procs, pc'[q] \notin Quiet \cup Closed, NEW h \in {loc'[q].handle} \ {NULL}
        PROVE  ValidHandle(h)'
    <3>1. h = loc[q].handle /\ pc[q] \notin Quiet \cup Closed
      BY <2>2 DEF Keeps
    <3>2. h \in Handle /\ h # NULL
      BY <2>2, <3>1 DEF IInv, TypeInv, LocalType, Local
    <3> QED
      BY <2>1, <3>1, <3>2 DEF IInv, NodePart, HandleInv
  <2>3. \A h \in handles' : ValidHandle(h)'
    BY <2>1
  <2> QED
    BY <2>2, <2>3 DEF HandleInv
<1> QED
  BY <1>1, <1>2, <1>4, <1>5, <1>6, <1>7 DEF NodePart

\* The queue under steps that leave the nodes in their places.
LEMMA KeepQueue ==
  ASSUME IInv, head' = head, NodesKept, LinksKept, ranks' = ranks, Len(tasks') = Len(tasks),
         \A q \in Procs : Stays(q),
         \A n \in Nodes : node'[n].iterated /\ ~node[n].iterated =>
            \E p \in Procs : Runs(p) /\ ranks[n] <= LastRank(p)
  PROVE  HeadInv' /\ ListInv' /\ ChainInv' /\ LinkInv' /\ FinishInv' /\ LiveInv'
<1>1. \A q \in Procs : /\ Runs(q)' <=> Runs(q)
                       /\ HasList(q)' <=> HasList(q)
                       /\ HasList(q) => loc'[q].list = loc[q].list
                       /\ pc'[q] = "finish" <=> pc[q] = "finish"
                       /\ pc'[q] = "link" <=> pc[q] = "link"
                       /\ pc[q] = "link" => loc'[q] = loc[q]
  BY StaysFacts
<1>2. \A q \in Procs : Runs(q) \/ pc[q] = "finish" => HasList(q)
  BY DEF Runs, HasList
<1>3. \A q \in Procs : HasList(q) => FirstRank(q)' = FirstRank(q) /\ LastRank(q)' = LastRank(q)
  BY <1>1 DEF FirstRank, LastRank
<1>4. HeadInv'
  BY <1>1 DEF IInv, QueuePart, HeadInv
<1>5. ListInv'
  BY <1>1, <1>3 DEF IInv, QueuePart, ListInv
<1>6. ChainInv'
  <2> SUFFICES ASSUME NEW p \in Procs, NEW n \in Nodes, Runs(p)', ranks'[n] > LastRank(p)'
               PROVE  /\ ~node'[n].iterated
                      /\ node'[n].next # UNCONNECTED =>
                            node'[n].next \in Nodes /\ ranks'[node'[n].next] = ranks'[n] - 1
    BY DEF ChainInv
  <2>1. Runs(p) /\ ranks[n] > LastRank(p)
    BY <1>1, <1>2, <1>3
  <2>2. /\ ~node[n].iterated
        /\ node[n].next # UNCONNECTED => node[n].next \in Nodes /\ ranks[node[n].next] = ranks[n] - 1
    BY <2>1 DEF IInv, QueuePart, ChainInv
  <2>3. ranks[n] \in Nat /\ LastRank(p) \in Nat
    <3>1. HasList(p)
      BY <1>2, <2>1
    <3> QED
      BY <3>1, RankFacts, ListFacts
  <2>4. ~node'[n].iterated
    <3>1. \A q \in Procs : Runs(q) => q = p
      BY <2>1, RunnerFacts
    <3> QED
      BY <2>1, <2>2, <2>3, <3>1
  <2> QED
    BY <2>2, <2>4 DEF LinksKept
<1>7. LinkInv'
  <2> SUFFICES ASSUME NEW q \in Procs, pc'[q] = "link"
               PROVE  /\ loc'[q].node \in Nodes /\ loc'[q].prev \in Nodes
                      /\ node'[loc'[q].node].next = UNCONNECTED
                      /\ ranks'[loc'[q].prev] = ranks'[loc'[q].node] - 1
                      /\ head' # NULL
                      /\ \A p \in Procs : Runs(p)' => ranks'[loc'[q].node] > LastRank(p)'
                      /\ \A r \in Procs : pc'[r] = "link" /\ r # q => loc'[r].node # loc'[q].node
    BY DEF LinkInv
  <2>1. pc[q] = "link" /\ loc'[q] = loc[q]
    BY <1>1
  <2>2. /\ loc[q].node \in Nodes /\ loc[q].prev \in Nodes
        /\ node[loc[q].node].next = UNCONNECTED
        /\ ranks[loc[q].prev] = ranks[loc[q].node] - 1
        /\ head # NULL
        /\ \A p \in Procs : Runs(p) => ranks[loc[q].node] > LastRank(p)
        /\ \A r \in Procs : pc[r] = "link" /\ r # q => loc[r].node # loc[q].node
    BY <2>1 DEF IInv, QueuePart, LinkInv
  <2> QED
    BY <1>1, <1>2, <1>3, <2>1, <2>2 DEF LinksKept
<1>8. FinishInv'
  <2> SUFFICES ASSUME NEW p \in Procs, pc'[p] = "finish"
               PROVE  /\ Len(loc'[p].list) = 1 /\ node'[loc'[p].list[1]].iterated
                      /\ \A q \in Procs : Runs(q)' => FirstRank(p)' < FirstRank(q)'
                      /\ \A q \in Procs : pc'[q] = "finish" /\ q # p =>
                             loc'[q].list[1] # loc'[p].list[1]
    BY DEF FinishInv
  <2>1. pc[p] = "finish" /\ HasList(p) /\ loc'[p].list = loc[p].list
    BY <1>1, <1>2
  <2>2. /\ Len(loc[p].list) = 1 /\ node[loc[p].list[1]].iterated
        /\ \A q \in Procs : Runs(q) => FirstRank(p) < FirstRank(q)
        /\ \A q \in Procs : pc[q] = "finish" /\ q # p => loc[q].list[1] # loc[p].list[1]
    BY <2>1 DEF IInv, QueuePart, FinishInv
  <2>3. loc[p].list[1] \in Nodes
    BY <2>1, ListFacts
  <2> QED
    BY <1>1, <1>2, <1>3, <2>1, <2>2, <2>3 DEF NodesKept
<1>9. LiveInv'
  BY <1>1, <1>2, <1>3 DEF IInv, QueuePart, LiveInv, NodesKept
<1> QED
  BY <1>4, <1>5, <1>6, <1>7, <1>8, <1>9

\* Handles that were valid.
LEMMA OldHandles ==
  ASSUME IInv
  PROVE  \A h \in handles : h \in Handle /\ ValidHandle(h)
BY DEF IInv, TypeInv, TypeOK, NodePart, HandleInv

\* The stop task under steps that leave the nodes in their places.
LEMMA KeepStop ==
  ASSUME IInv, head' = head, NodesKept, TasksKept, \A q \in Procs : Stays(q), UNCHANGED slotVars,
         \A q \in Procs : pc[q] \in Executing => (pc'[q] = pc[q] \/ ~loc'[q].destroy)
                                                  /\ loc'[q].destroy = loc[q].destroy
  PROVE  StopPart'
<1>1. /\ vref' = vref /\ thisId' = thisId /\ joinButex' = joinButex /\ slot' = slot
      /\ stopRuns' = stopRuns
  BY DEF slotVars
<1>2. (Recycled' <=> Recycled) /\ RunStops' = RunStops
  BY <1>1 DEF Recycled, RunStops
<1>3. \A q \in Procs : (Closing(q)' <=> Closing(q)) /\ (Closing(q) => pc'[q] = pc[q])
  BY StaysFacts
<1>4. StopNodeInv'
  BY <1>1, <1>2, <1>3 DEF IInv, StopPart, StopNodeInv, NodesKept
<1>5. ClosingInv'
  BY <1>1, <1>2, <1>3 DEF IInv, StopPart, ClosingInv
<1>6. DestroyInv'
  <2> SUFFICES ASSUME NEW q \in Procs, HasList(q)', loc'[q].destroy
               PROVE  /\ pc'[q] \in {"executed", "more", "finish"} /\ Len(loc'[q].list) = 1
                      /\ node'[loc'[q].list[1]].stopTask /\ node'[loc'[q].list[1]].iterated
                      /\ thisId' \in RunStops' /\ (pc'[q] = "finish" => head' = NULL)
    BY DEF DestroyInv
  <2>1. HasList(q) /\ loc'[q].list = loc[q].list
    BY StaysFacts
  <2>2. pc'[q] = pc[q] /\ loc[q].destroy
    BY DEF Stays
  <2>3. loc[q].list[1] \in Nodes
    BY <2>1, ListFacts
  <2> QED
    BY <1>1, <1>2, <2>1, <2>2, <2>3 DEF IInv, StopPart, DestroyInv, NodesKept
<1>7. UnusedInv'
  BY <1>1, <1>2 DEF IInv, StopPart, UnusedInv, TasksKept
<1> QED
  BY <1>4, <1>5, <1>6, <1>7 DEF StopPart

\* The same when no node and no task changes.
LEMMA SameNodes ==
  ASSUME IInv, node' = node, tasks' = tasks
  PROVE  NodesKept /\ LinksKept /\ TasksKept
<1>1. \A n \in Nodes : node[n].iterated => node[n].status # "UNEXECUTED"
  BY DEF IInv, NodePart, NodeInv
<1> QED
  BY <1>1 DEF NodesKept, LinksKept, TasksKept, IInv, NodePart, TaskInv

-----------------------------------------------------------------------------
(* Steps of the executor with its list *)

\* What a step of the executor leaves to show.
ExecutorRest(p) == /\ SweepOf(p)' /\ FrontOf(p)' /\ PassOf(p)' /\ CountInv' /\ LateInv' /\ InOrder'

\* A step of the executor that keeps its list: what is left to show is ExecutorRest.
LEMMA ExecutorStep ==
  ASSUME IInv, NEW p \in Procs, pc[p] \in Executing, pc'[p] \in Executing, Alone(p), Only(p),
         p \in Callers => pc'[p] # "loop", p \in Fibers => pc'[p] # "spawn",
         loc'[p] \in Local, loc'[p].list = loc[p].list, loc'[p].handle = loc[p].handle,
         loc'[p].derefs = loc[p].derefs, loc'[p].destroy = loc[p].destroy, ~loc[p].destroy,
         UNCHANGED slotVars, head' = head, pool' = pool, handles' = handles, highTasks' \in Nat,
         NodesKept, LinksKept, TasksKept, node' \in [Nodes -> Node], tasks' \in Seq(Task),
         \A n \in Nodes : node'[n].iterated /\ ~node[n].iterated => ranks[n] <= LastRank(p)
  PROVE  /\ ranks' = ranks /\ LastRank(p)' = LastRank(p)
         /\ \A q \in Procs : pc'[q] \in Executing => q = p
         /\ \A q \in Procs, n \in Nodes : Owns(q, n)' <=> Owns(q, n)
         /\ ExecutorRest(p) => IInv'
<1>1. Runs(p) /\ HasList(p)
  BY DEF Runs, HasList
<1>2. \A q \in Procs : Stays(q)
  BY DEF Stays, Alone
<1>3. NodePart' /\ ranks' = ranks /\ (\A q \in Procs, n \in Nodes : Owns(q, n)' <=> Owns(q, n))
  BY <1>2, KeepNodes, OldHandles, StaysFacts
<1>4. HeadInv' /\ ListInv' /\ ChainInv' /\ LinkInv' /\ FinishInv' /\ LiveInv'
  <2>1. Len(tasks') = Len(tasks)
    BY DEF TasksKept
  <2> QED
    BY <1>1, <1>2, <1>3, <2>1, KeepQueue
<1>5. StopPart'
  BY <1>2, KeepStop DEF Alone
<1>6. SlotPart'
  <2>1. Still(p)
    BY DEF Still, Executing
  <2>2. \A q \in Procs : Still(q)
    BY <2>1 DEF Still, Alone
  <2> QED
    BY <2>2, SlotFrame DEF IInv
<1>7. TypeInv'
  <2>1. p \in Callers => pc'[p] \in CallerLabels
    BY DEF Executing, CallerLabels, Pass
  <2>2. p \in Fibers => pc'[p] \in FiberLabels
    BY DEF Executing, FiberLabels, Pass
  <2>3. LocalType'
    BY <2>1, <2>2, OnlyType DEF IInv, TypeInv
  <2>4. HistoryType'
    BY DEF IInv, TypeInv, HistoryType, slotVars
  <2>5. TypeOK'
    <3>1. \A t \in DOMAIN tasks' : tasks'[t].fate \in {"pending", "executed", "cancelled", "repeated"}
      <4>1. \A t \in DOMAIN tasks' : tasks'[t] \in Task
        OBVIOUS
      <4> QED
        BY <4>1 DEF Task
    <3> QED
      BY <3>1 DEF IInv, TypeInv, TypeOK, slotVars, Node
  <2> QED
    BY <2>3, <2>4, <2>5 DEF TypeInv
<1>8. \A q \in Procs : pc'[q] \in Executing => q = p
  <2>1. \A q \in Procs : Runs(q) => q = p
    BY <1>1, RunnerFacts
  <2> QED
    BY <2>1 DEF Runs, Alone
<1>9. LastRank(p)' = LastRank(p)
  BY <1>3 DEF LastRank
<1>10. ASSUME ExecutorRest(p) PROVE IInv'
  <2>1. SweepInv' /\ FrontInv' /\ PassInv'
    BY <1>8, <1>10 DEF ExecutorRest, SweepInv, FrontInv, PassInv, SweepOf, FrontOf, PassOf,
         Executing
  <2>2. QueuePart' /\ CountPart'
    BY <1>4, <1>10, <2>1 DEF ExecutorRest, QueuePart, CountPart
  <2> QED
    BY <1>3, <1>5, <1>6, <1>7, <2>2 DEF IInv
<1> QED
  BY <1>3, <1>8, <1>9, <1>10

\* The counter and the order when no task changes.
LEMMA SameCount ==
  ASSUME IInv, NEW p \in Procs, Runs(p), Alone(p), highTasks' = highTasks, tasks' = tasks,
         \A n \in Nodes : node'[n].high = node[n].high /\ node'[n].iterated = node[n].iterated,
         \A q \in Procs, n \in Nodes : Owns(q, n)' <=>
             Owns(q, n), pc[p] # "count_high", pc'[p] # "count_high"
  PROVE  /\ Waiting' = Waiting
         /\ InOrder'
         /\ \/ InPass(p) /\ InPass(p)' /\ loc'[p].high = loc[p].high
               /\ loc'[p].niterated = loc[p].niterated
               /\ pc'[p] # "begin"
            \/ ~InPass(p) /\ ~InPass(p)'
            => CountInv'
         /\ (pc'[p] = "scan" /\ ~loc'[p].high => pc[p] \in Pass /\ ~loc[p].high /\ highTasks = 0) =>
                LateInv'
<1>1. Waiting' = Waiting
  <2>1. \A q \in Procs, n \in Nodes : (Owns(q, n)' => pc'[q] # "count_high") <=>
            (Owns(q, n) => pc[q] # "count_high")
    BY DEF Alone
  <2> QED
    BY <2>1 DEF Waiting
<1>2. InOrder'
  BY DEF IInv, CountPart, InOrder
<1>3. \A q \in Procs : q # p => (InPass(q)' <=> InPass(q)) /\ ~InPass(q)
  BY RunnerFacts DEF Alone, InPass
<1>4. ASSUME \/ /\ InPass(p) /\ InPass(p)' /\ loc'[p].high = loc[p].high
                   /\ loc'[p].niterated = loc[p].niterated
                /\ pc'[p] # "begin"
             \/ ~InPass(p) /\ ~InPass(p)'
      PROVE  CountInv'
  <2>1. \A q \in Procs : pc'[q] # "begin"
    BY <1>3, <1>4 DEF InPass, Pass
  <2> QED
    BY <1>1, <1>3, <1>4, <2>1 DEF IInv, CountPart, CountInv
<1>5. ASSUME pc'[p] = "scan" /\ ~loc'[p].high => pc[p] \in Pass /\ ~loc[p].high /\ highTasks = 0
      PROVE  LateInv'
  <2>1. \A q \in Procs : pc'[q] = "scan" => q = p
    BY <1>3 DEF InPass, Pass
  <2>2. \A t \in DOMAIN tasks : tasks[t].late <= 1
    BY DEF IInv, CountPart, LateInv
  <2>3. ASSUME pc'[p] = "scan", ~loc'[p].high, NEW t \in DOMAIN tasks, tasks[t].high,
               tasks[t].fate = "pending"
        PROVE  FALSE
    <3>1. InPass(p) /\ ~loc[p].high /\ highTasks = 0
      BY <1>5, <2>3 DEF InPass
    <3>2. highTasks = Cardinality(Waiting) + 0
      BY <3>1 DEF IInv, CountPart, CountInv
    <3>3. IsFiniteSet(Waiting)
      BY NodesAssumption, FS_Subset DEF Waiting
    <3>4. Cardinality(Waiting) \in Nat
      BY <3>3, FS_CardinalityType
    <3>5. Waiting = {}
      BY <3>1, <3>2, <3>3, <3>4, FS_EmptySet
    <3>6. \E n \in Nodes : n \in Waiting
      BY <2>3, PendingFacts
    <3> QED
      BY <3>5, <3>6
  <2> QED
    BY <2>1, <2>2, <2>3 DEF LateInv
<1> QED
  BY <1>1, <1>2, <1>4, <1>5

\* The types of nodes, tasks and counter, from the invariant.
LEMMA UnchangedTypes ==
  ASSUME IInv
  PROVE  node \in [Nodes -> Node] /\ tasks \in Seq(Task) /\ highTasks \in Nat
BY DEF IInv, TypeInv, TypeOK, HistoryType, Node

\* A process in a pass has not met the stop task.
LEMMA NoDestroy ==
  ASSUME IInv, NEW p \in Procs, pc[p] \in Executing \ {"executed", "more"}
  PROVE  ~loc[p].destroy
BY DEF IInv, StopPart, DestroyInv, HasList, Executing

\* operator++ of the iterator preserves the invariant.
LEMMA AdvanceStep ==
  ASSUME IInv, NEW p \in Procs, Advance(p)
  PROVE  IInv'
<1> DEFINE cur == IF node[loc[p].list[loc[p].cur]].iterated THEN loc[p].cur + 1 ELSE loc[p].cur
           break == ~loc[p].high /\ highTasks > 0
           r == [loc[p] EXCEPT !.cur = cur, !.shouldBreak = break]
<1>1. pc[p] \in {"begin", "advance"} /\ Runs(p) /\ pc[p] \in Executing /\ InPass(p)
  BY DEF Advance, Runs, InPass, Pass, Executing
<1>2. loc[p] \in Local /\ loc[p].cur \in Nat
  BY DEF IInv, TypeInv, LocalType, Local
<1>3. r \in Local
  <2>1. cur \in Nat /\ break \in BOOLEAN
    BY <1>2
  <2> HIDE DEF cur, break
  <2> QED
    BY <1>2, <2>1, Zenon DEF Local
<1>4. /\ r.cur = cur /\ r.list = loc[p].list /\ r.handle = loc[p].handle /\ r.derefs = loc[p].derefs
      /\ r.destroy = loc[p].destroy /\ r.high = loc[p].high /\ r.niterated = loc[p].niterated
  BY <1>2 DEF Local
<1>5. Goto(p, IF break THEN "destruct" ELSE "scan", r)
  BY DEF Advance
<1>6. UNCHANGED slotVars /\ head' = head /\ pool' = pool /\ handles' = handles
      /\ highTasks' = highTasks
      /\ node' = node /\ tasks' = tasks
  BY DEF Advance, queueVars, history, slotVars
<1>7. pc'[p] = (IF break THEN "destruct" ELSE "scan") /\ loc'[p] = r /\ Alone(p) /\ Only(p)
  <2> HIDE DEF r, break
  <2> QED
    BY <1>5, GotoFacts DEF IInv, TypeInv
<1>8. /\ ~loc[p].destroy /\ NodesKept /\ LinksKept /\ TasksKept /\ node \in [Nodes -> Node]
      /\ tasks \in Seq(Task)
      /\ highTasks \in Nat
  BY <1>1, <1>6, NoDestroy, SameNodes, UnchangedTypes DEF Executing
<1>9. pc'[p] \in {"destruct", "scan"} /\ (pc'[p] = "scan" /\ ~r.high => highTasks = 0)
  BY <1>4, <1>7, <1>8
<1> HIDE DEF r
<1>10. /\ ranks' = ranks
       /\ \A q \in Procs, n \in Nodes : Owns(q, n)' <=> Owns(q, n)
       /\ ExecutorRest(p) => IInv'
  BY <1>1, <1>3, <1>4, <1>6, <1>7, <1>8, <1>9, ExecutorStep DEF Executing
<1>11. SweepOf(p)' /\ FrontOf(p)'
  BY <1>9 DEF SweepOf, FrontOf
<1>12. InOrder' /\ CountInv' /\ LateInv'
  BY <1>1, <1>4, <1>6, <1>7, <1>9, <1>10, SameCount DEF InPass, Pass
<1>13. PassOf(p)'
  <2>1. PassOf(p) /\ FrontOf(p)
    BY DEF IInv, QueuePart, PassInv, FrontInv
  <2>2. Len(loc[p].list) \in Nat /\ Len(loc[p].list) > 0
    BY <1>1, RunnerFacts, ListFacts
  <2>3. cur \in 1..(Len(loc[p].list) + 1)
    BY <1>1, <2>1, <2>2 DEF PassOf, FrontOf
  <2>4. \A i \in 1..(cur - 1) : node[loc[p].list[i]].high = loc[p].high =>
            node[loc[p].list[i]].iterated
    <3> SUFFICES ASSUME NEW i \in 1..(cur - 1), node[loc[p].list[i]].high = loc[p].high
                 PROVE  node[loc[p].list[i]].iterated
      OBVIOUS
    <3>1. CASE pc[p] = "begin"
      BY <2>1, <3>1 DEF PassOf, FrontOf
    <3>2. CASE pc[p] = "advance"
      <4>1. loc[p].cur \in 1..Len(loc[p].list) /\ node[loc[p].list[loc[p].cur]].iterated
        BY <2>1, <3>2 DEF PassOf
      <4>2. i = loc[p].cur \/ i \in 1..(loc[p].cur - 1)
        BY <4>1
      <4> QED
        BY <2>1, <3>2, <4>1, <4>2 DEF PassOf
    <3> QED
      BY <1>1, <3>1, <3>2
  <2> HIDE DEF cur
  <2> QED
    BY <1>4, <1>6, <1>7, <1>9, <2>3, <2>4 DEF PassOf
<1> QED
  BY <1>10, <1>11, <1>12, <1>13 DEF ExecutorRest

\* Where the iteration of a pass ends, and what it still has to do.
LEMMA TodoFacts ==
  ASSUME IInv, NEW p \in Procs, pc[p] = "scan"
  PROVE  /\ loc[p].cur \in 1..(Len(loc[p].list) + 1) /\ Len(loc[p].list) \in Nat
         /\ End(p) \in loc[p].cur..(Len(loc[p].list) + 1)
         /\ \A i \in loc[p].cur..(End(p) - 1) : i \in 1..Len(loc[p].list)
            /\ ~node[loc[p].list[i]].stopTask
         /\ Todo(p) \subseteq 1..Len(loc[p].list) /\ Todo(p) \subseteq Nat
         /\ \A i \in Todo(p) : /\ i \in loc[p].cur..(End(p) - 1)
                               /\ node[loc[p].list[i]].high = loc[p].high
                               /\ ~node[loc[p].list[i]].iterated
<1> DEFINE l == loc[p].list
           S == {i \in loc[p].cur..Len(l) : node[l[i]].stopTask} \cup {Len(l) + 1}
<1>1. Runs(p) /\ PassOf(p)
  BY DEF Runs, Executing, IInv, QueuePart, PassInv
<1>2. loc[p].cur \in 1..(Len(l) + 1) /\ Len(l) \in Nat
  BY <1>1, RunnerFacts, ListFacts DEF PassOf
<1>3. S \subseteq Nat /\ S # {} /\ S \subseteq loc[p].cur..(Len(l) + 1)
  BY <1>2
<1>4. End(p) = First(S)
  BY DEF End
<1>5. End(p) \in S /\ \A j \in S : End(p) <= j
  <2> HIDE DEF S
  <2> QED
    BY <1>3, <1>4, FirstIsLeast
<1>6. End(p) \in loc[p].cur..(Len(l) + 1)
  BY <1>3, <1>5
<1>7. ASSUME NEW i \in loc[p].cur..(End(p) - 1) PROVE i \in 1..Len(l) /\ ~node[l[i]].stopTask
  <2>1. i \in 1..Len(l) /\ i \in loc[p].cur..Len(l) /\ ~(End(p) <= i)
    BY <1>2, <1>6
  <2> QED
    BY <1>5, <2>1
<1>8. \A i \in Todo(p) : /\ i \in loc[p].cur..(End(p) - 1)
                         /\ node[l[i]].high = loc[p].high /\ ~node[l[i]].iterated
  BY DEF Todo
<1>9. Todo(p) \subseteq 1..Len(l) /\ Todo(p) \subseteq Nat
  BY <1>2, <1>7, <1>8
<1> QED
  BY <1>2, <1>6, <1>7, <1>8, <1>9

\* The end of the list, reached by the iterator, preserves the invariant.
LEMMA ScanEndStep ==
  ASSUME IInv, NEW p \in Procs, ScanEnd(p)
  PROVE  IInv'
<1> DEFINE r == [loc[p] EXCEPT !.cur = End(p)]
<1>1. pc[p] = "scan" /\ Runs(p) /\ pc[p] \in Executing /\ InPass(p)
  BY DEF ScanEnd, Runs, InPass, Pass, Executing
<1>2. loc[p] \in Local /\ End(p) \in Nat
  BY <1>1, TodoFacts DEF IInv, TypeInv, LocalType
<1>3. r \in Local
  BY <1>2, Zenon DEF Local
<1>4. /\ r.list = loc[p].list /\ r.handle = loc[p].handle /\ r.derefs = loc[p].derefs
      /\ r.destroy = loc[p].destroy /\ r.high = loc[p].high /\ r.niterated = loc[p].niterated
  BY <1>2 DEF Local
<1>5. Goto(p, "destruct", r)
  BY DEF ScanEnd
<1>6. UNCHANGED slotVars /\ head' = head /\ pool' = pool /\ handles' = handles
      /\ highTasks' = highTasks
      /\ node' = node /\ tasks' = tasks
  BY DEF ScanEnd, queueVars, history, slotVars
<1> HIDE DEF r
<1>7. pc'[p] = "destruct" /\ loc'[p] = r /\ Alone(p) /\ Only(p)
  BY <1>5, GotoFacts DEF IInv, TypeInv
<1>8. /\ ~loc[p].destroy /\ NodesKept /\ LinksKept /\ TasksKept /\ node \in [Nodes -> Node]
      /\ tasks \in Seq(Task)
      /\ highTasks \in Nat
  BY <1>1, <1>6, NoDestroy, SameNodes, UnchangedTypes DEF Executing
<1>9. /\ ranks' = ranks
      /\ \A q \in Procs, n \in Nodes : Owns(q, n)' <=> Owns(q, n)
      /\ ExecutorRest(p) => IInv'
  BY <1>1, <1>3, <1>4, <1>6, <1>7, <1>8, ExecutorStep DEF Executing
<1>10. SweepOf(p)' /\ FrontOf(p)' /\ PassOf(p)'
  BY <1>7 DEF SweepOf, FrontOf, PassOf
<1>11. InOrder' /\ CountInv' /\ LateInv'
  BY <1>1, <1>4, <1>6, <1>7, <1>9, SameCount DEF InPass, Pass
<1> QED
  BY <1>9, <1>10, <1>11 DEF ExecutorRest

\* A function with the domain of a sequence is a sequence.
LEMMA FunctionSeq ==
  ASSUME NEW S, NEW n \in Nat, NEW s, s = [i \in 1..n |-> s[i]], \A i \in 1..n : s[i] \in S
  PROVE  s \in Seq(S) /\ Len(s) = n
<1>1. s \in [1..n -> S]
  OBVIOUS
<1> QED
  BY <1>1

\* The history stays a sequence of tasks when one fate changes.
LEMMA TaskSeq ==
  ASSUME tasks \in Seq(Task), NEW t \in DOMAIN tasks, NEW x, tasks' = [tasks EXCEPT ![t].fate = x],
         \A u \in DOMAIN tasks : tasks'[u] \in Task
  PROVE  tasks' \in Seq(Task)
<1>1. tasks = [u \in 1..Len(tasks) |-> tasks[u]] /\ Len(tasks) \in Nat /\ DOMAIN tasks = 1..Len(tasks)
  OBVIOUS
<1>2. tasks' = [u \in DOMAIN tasks |-> IF u = t THEN [tasks[t] EXCEPT !.fate = x] ELSE tasks[u]]
  BY Zenon
<1>3. tasks' = [u \in 1..Len(tasks) |-> tasks'[u]]
  BY <1>1, <1>2
<1> QED
  BY <1>1, <1>3, FunctionSeq

\* The destructor of the iterator, which marks what it iterated over, preserves the
\* invariant.
LEMMA DestructStep ==
  ASSUME IInv, NEW p \in Procs, Destruct(p)
  PROVE  IInv'
<1>1. pc[p] = "destruct" /\ Runs(p) /\ pc[p] \in Executing /\ InPass(p) /\ Goto(p, "executed", loc[p])
  BY DEF Destruct, Runs, InPass, Pass, Executing
<1>2. loc[p] \in Local
  BY DEF IInv, TypeInv, LocalType
<1>3. UNCHANGED slotVars /\ head' = head /\ pool' = pool /\ handles' = handles
      /\ highTasks' = highTasks
      /\ tasks' = tasks
  BY DEF Destruct, queueVars, history, slotVars
<1>4. pc'[p] = "executed" /\ loc'[p] = loc[p] /\ Alone(p) /\ Only(p)
  BY <1>1, GotoFacts DEF IInv, TypeInv
<1>5. node \in [Nodes -> Node] /\ tasks \in Seq(Task) /\ highTasks \in Nat /\ ~loc[p].destroy
  BY <1>1, UnchangedTypes, NoDestroy DEF Executing
<1>6. \A n \in Nodes : \/ node'[n] = node[n]
                       \/ node[n].iterated /\ node'[n] = [node[n] EXCEPT !.status = "EXECUTED"]
  BY DEF Destruct
<1>7. \A n \in Nodes : node[n] \in Node
  BY <1>5
<1>8. ASSUME NEW n \in Nodes
      PROVE  /\ node'[n] \in Node
             /\ node'[n].version = node[n].version /\ node'[n].stopTask = node[n].stopTask
             /\ node'[n].high = node[n].high /\ node'[n].task = node[n].task
             /\ node'[n].next = node[n].next /\ node'[n].iterated = node[n].iterated
             /\ node'[n].status = node[n].status \/ (node[n].iterated /\ node'[n].status = "EXECUTED")
             /\ node'[n] # node[n] => node[n].iterated
  <2>1. CASE node'[n] = node[n]
    BY <1>7, <2>1
  <2>2. CASE node[n].iterated /\ node'[n] = [node[n] EXCEPT !.status = "EXECUTED"]
    <3>1. PICK x : x = node[n]
      OBVIOUS
    <3>2. x \in Node /\ x.iterated /\ node'[n] = [x EXCEPT !.status = "EXECUTED"]
      BY <1>7, <2>2, <3>1
    <3>3. [x EXCEPT !.status = "EXECUTED"] \in Node
      BY <3>2 DEF Node
    <3>4. /\ node'[n].version = x.version /\ node'[n].stopTask = x.stopTask
          /\ node'[n].high = x.high /\ node'[n].task = x.task
          /\ node'[n].next = x.next /\ node'[n].iterated = x.iterated
          /\ node'[n].status = "EXECUTED"
      BY <3>2 DEF Node
    <3> QED
      BY <3>1, <3>2, <3>3, <3>4
  <2> QED
    BY <1>6, <2>1, <2>2
<1>9. node' \in [Nodes -> Node]
  <2>1. DOMAIN node' = Nodes /\ node' = [n \in Nodes |-> node'[n]]
    BY DEF Destruct
  <2> QED
    BY <1>8, <2>1
<1>10. \A n \in Nodes : node[n].iterated => node[n].status # "UNEXECUTED" /\ ranks[n] > 0
  BY DEF IInv, NodePart, NodeInv
<1>11. NodesKept /\ LinksKept /\ TasksKept
  <2>1. NodesKept /\ LinksKept
    BY <1>8, <1>10 DEF NodesKept, LinksKept
  <2>2. \A n \in Nodes : node'[n].status = "UNEXECUTED" <=> node[n].status = "UNEXECUTED"
    BY <1>8, <1>10
  <2> QED
    BY <1>3, <2>1, <2>2 DEF TasksKept, IInv, NodePart, TaskInv
<1>12. /\ ranks' = ranks
       /\ \A q \in Procs, n \in Nodes : Owns(q, n)' <=> Owns(q, n)
       /\ ExecutorRest(p) => IInv'
  BY <1>1, <1>2, <1>3, <1>4, <1>5, <1>8, <1>9, <1>11, ExecutorStep DEF Executing
<1>13. SweepOf(p)' /\ FrontOf(p)' /\ PassOf(p)'
  BY <1>4 DEF SweepOf, FrontOf, PassOf
<1>14. InOrder' /\ CountInv' /\ LateInv'
  BY <1>1, <1>3, <1>4, <1>8, <1>12, SameCount DEF InPass, Pass
<1> QED
  BY <1>12, <1>13, <1>14 DEF ExecutorRest

\* cancel() preserves the invariant: its handle is of a task that is still pending.
LEMMA CancelStep ==
  ASSUME IInv, NEW h \in handles, Cancel(h)
  PROVE  IInv'
<1>1. /\ UNCHANGED slotVars /\ head' = head /\ pool' = pool /\ handles' = handles
      /\ highTasks' = highTasks
      /\ pc' = pc /\ loc' = loc
  BY DEF Cancel, queueVars, slotVars
<1>2. node[h.node].version = h.version /\ node[h.node].status = "UNEXECUTED"
  BY DEF Cancel
<1>3. node' = [node EXCEPT ![h.node].status = "EXECUTED"]
      /\ tasks' = [tasks EXCEPT ![h.task].fate = "cancelled"]
  BY DEF Cancel
<1>4. h \in Handle /\ h.node \in Nodes /\ h.task \in DOMAIN tasks /\ node[h.node].task = h.task
      /\ h.task > 0
  BY <1>2, OldHandles, RankFacts DEF ValidHandle, Handle
<1>5. node \in [Nodes -> Node] /\ tasks \in Seq(Task) /\ highTasks \in Nat
  BY UnchangedTypes
<1>6. \A n \in Nodes : node[n] \in Node
  BY <1>5
<1>7. ASSUME NEW n \in Nodes
      PROVE  /\ node'[n] \in Node
             /\ node'[n].version = node[n].version /\ node'[n].stopTask = node[n].stopTask
             /\ node'[n].high = node[n].high /\ node'[n].task = node[n].task
             /\ node'[n].next = node[n].next /\ node'[n].iterated = node[n].iterated
             /\ n # h.node => node'[n] = node[n]
             /\ n = h.node => node'[n].status = "EXECUTED"
  BY <1>3, <1>4, <1>5, <1>6 DEF Node
<1>8. node' \in [Nodes -> Node]
  <2>1. DOMAIN node' = Nodes /\ node' = [n \in Nodes |-> node'[n]]
    BY <1>3, <1>5
  <2> QED
    BY <1>7, <2>1
<1>9. /\ Len(tasks') = Len(tasks) /\ DOMAIN tasks' = DOMAIN tasks
      /\ \A t \in DOMAIN tasks : t # h.task => tasks'[t] = tasks[t]
      /\ tasks'[h.task] = [tasks[h.task] EXCEPT !.fate = "cancelled"]
  BY <1>3, <1>4, <1>5
<1>10. \A t \in DOMAIN tasks : tasks[t] \in Task
  BY <1>5
<1>11. /\ \A t \in DOMAIN tasks : /\ tasks'[t].high = tasks[t].high
                                     /\ tasks'[t].queue = tasks[t].queue
                                  /\ tasks'[t].late = tasks[t].late /\ tasks'[t] \in Task
       /\ tasks'[h.task].fate = "cancelled"
  BY <1>4, <1>9, <1>10 DEF Task
<1>12. tasks' \in Seq(Task)
  BY <1>3, <1>4, <1>5, <1>11, TaskSeq
<1>13. NodesKept /\ LinksKept
  <2>1. ranks[h.node] > 0 /\ ~node[h.node].iterated
    BY <1>2, <1>4, RankFacts DEF IInv, NodePart, NodeInv
  <2>2. \A n \in Nodes : node[n].iterated => node[n].status # "UNEXECUTED"
    BY DEF IInv, NodePart, NodeInv
  <2> QED
    BY <1>7, <2>1, <2>2 DEF NodesKept, LinksKept
<1>14. TasksKept
  <2>1. \A n \in Nodes : node[n].task > 0 =>
            (node'[n].status = "UNEXECUTED" <=> tasks'[node[n].task].fate = "pending")
    <3> SUFFICES ASSUME NEW n \in Nodes, node[n].task > 0
                 PROVE  node'[n].status = "UNEXECUTED" <=> tasks'[node[n].task].fate = "pending"
      OBVIOUS
    <3>1. CASE n = h.node
      BY <1>4, <1>7, <1>11, <3>1
    <3>2. CASE n # h.node
      <4>1. node[n].task # h.task
        BY <1>4, <3>2 DEF IInv, NodePart, TaskInv
      <4>2. node[n].task \in DOMAIN tasks
        BY RankFacts DEF IInv, NodePart, TaskInv, TypeInv, TypeOK
      <4> QED
        BY <1>7, <1>9, <3>2, <4>1, <4>2 DEF IInv, NodePart, TaskInv
    <3> QED
      BY <3>1, <3>2
  <2>2. \A t \in DOMAIN tasks : /\ tasks'[t].fate # "repeated"
                                /\ tasks'[t].fate = "pending" => tasks[t].fate = "pending"
    BY <1>9, <1>11 DEF IInv, NodePart, TaskInv
  <2> QED
    BY <1>9, <1>11, <2>1, <2>2 DEF TasksKept
<1>15. \A q \in Procs : Stays(q) /\ Keeps(q) /\ Still(q)
  BY <1>1 DEF Stays, Keeps, Still
<1>16. NodePart' /\ ranks' = ranks
  BY <1>1, <1>13, <1>14, <1>15, KeepNodes, OldHandles
<1>17. HeadInv' /\ ListInv' /\ ChainInv' /\ LinkInv' /\ FinishInv' /\ LiveInv'
  BY <1>1, <1>7, <1>9, <1>13, <1>15, <1>16, KeepQueue
<1>18. SweepInv'
  BY <1>1, <1>16 DEF IInv, QueuePart, SweepInv, SweepOf, LastRank
<1>19. \A q \in Procs : pc[q] \in Executing => loc[q].list \in Seq(Nodes) /\ Len(loc[q].list) > 0
  BY ListFacts DEF HasList
<1>20. FrontInv'
  <2> SUFFICES ASSUME NEW q \in Procs PROVE FrontOf(q)'
    BY DEF FrontInv
  <2>1. FrontOf(q)
    BY DEF IInv, QueuePart, FrontInv
  <2>2. pc[q] \in Executing => loc[q].list[1] \in Nodes
        /\ (Len(loc[q].list) > 1 => loc[q].list[2] \in Nodes)
    BY <1>19
  <2> QED
    BY <1>1, <1>7, <2>1, <2>2 DEF FrontOf, Executing
<1>21. PassInv'
  <2> SUFFICES ASSUME NEW q \in Procs PROVE PassOf(q)'
    BY DEF PassInv
  <2>1. PassOf(q)
    BY DEF IInv, QueuePart, PassInv
  <2>2. pc[q] \in Executing => Len(loc[q].list) \in Nat
        /\ \A i \in 1..Len(loc[q].list) : loc[q].list[i] \in Nodes
    BY <1>19
  <2>3. pc[q] \in {"advance", "scan"} => \A i \in 1..(loc[q].cur - 1) : i \in 1..Len(loc[q].list)
    <3>1. pc[q] \in {"advance", "scan"} =>
              loc[q].cur \in 1..(Len(loc[q].list) + 1) /\ Len(loc[q].list) \in Nat
      BY <2>1, <2>2 DEF PassOf, Executing
    <3> QED
      BY <3>1
  <2>4. pc[q] \in Executing => \A i \in 1..Len(loc[q].list) :
           /\ node'[loc[q].list[i]].iterated = node[loc[q].list[i]].iterated
           /\ node'[loc[q].list[i]].high = node[loc[q].list[i]].high
    BY <1>7, <2>2
  <2> QED
    BY <1>1, <2>1, <2>3, <2>4 DEF PassOf, Executing
<1>22. StopPart'
  BY <1>1, <1>13, <1>14, <1>15, KeepStop
<1>23. SlotPart'
  BY <1>1, <1>15, SlotFrame DEF IInv
<1>24. CountInv'
  <2>1. Waiting' = Waiting
    BY <1>1, <1>7 DEF Waiting, Owns
  <2> QED
    BY <1>1, <2>1 DEF IInv, CountPart, CountInv, InPass
<1>25. LateInv' /\ InOrder'
  <2>1. \A t \in DOMAIN tasks : /\ tasks'[t].fate = "pending" => tasks[t].fate = "pending"
                                /\ tasks'[t].fate = "executed" => tasks[t].fate = "executed"
    BY <1>9, <1>11
  <2> QED
    BY <1>1, <1>9, <1>11, <2>1 DEF IInv, CountPart, LateInv, InOrder
<1>26. TypeInv'
  <2>1. \A t \in DOMAIN tasks' : tasks'[t].fate \in {"pending", "executed", "cancelled", "repeated"}
    BY <1>9, <1>11 DEF Task
  <2>2. LocalType' /\ HistoryType'
    BY <1>1, <1>12 DEF IInv, TypeInv, LocalType, HistoryType, slotVars
  <2> QED
    BY <1>1, <1>8, <2>1, <2>2 DEF IInv, TypeInv, TypeOK, slotVars, Node
<1> QED
  BY <1>16, <1>17, <1>18, <1>20, <1>21, <1>22, <1>23, <1>24, <1>25, <1>26 DEF IInv, QueuePart,
       CountPart

\* The next task of a pass: it is in the queue, and those before it are done.
LEMMA PeekFacts ==
  ASSUME IInv, NEW p \in Procs, pc[p] = "scan", Todo(p) # {}, NEW i, i = First(Todo(p)), NEW n,
         n = loc[p].list[i]
  PROVE  /\ i \in 1..Len(loc[p].list) /\ n \in Nodes /\ ranks[n] > 0 /\ ranks[n] <= LastRank(p)
         /\ ~node[n].iterated /\ node[n].high = loc[p].high
         /\ node[n].task \in DOMAIN tasks /\ node[n].task > 0 /\ node[n].task = ranks[n]
         /\ ranks[n] = FirstRank(p) + i - 1
         /\ tasks[node[n].task].high = loc[p].high
         /\ \A j \in 1..(i - 1) : node[loc[p].list[j]].high = loc[p].high =>
                node[loc[p].list[j]].iterated
<1>1. Runs(p) /\ HasList(p) /\ PassOf(p)
  BY DEF Runs, HasList, Executing, IInv, QueuePart, PassInv
<1>2. /\ loc[p].cur \in 1..(Len(loc[p].list) + 1) /\ Len(loc[p].list) \in Nat
      /\ End(p) \in loc[p].cur..(Len(loc[p].list) + 1)
      /\ \A j \in loc[p].cur..(End(p) - 1) : j \in 1..Len(loc[p].list)
         /\ ~node[loc[p].list[j]].stopTask
      /\ Todo(p) \subseteq 1..Len(loc[p].list) /\ Todo(p) \subseteq Nat
      /\ \A j \in Todo(p) : /\ j \in loc[p].cur..(End(p) - 1)
                            /\ node[loc[p].list[j]].high = loc[p].high
                            /\ ~node[loc[p].list[j]].iterated
  BY TodoFacts
<1>3. i \in Todo(p) /\ \A j \in Todo(p) : i <= j
  BY <1>2, FirstIsLeast
<1>4. i \in 1..Len(loc[p].list) /\ i \in loc[p].cur..(End(p) - 1)
  BY <1>2, <1>3
<1>5. /\ n \in Nodes /\ ranks[n] > 0 /\ ranks[n] <= LastRank(p) /\ ranks[n] = FirstRank(p) + i - 1
  BY <1>1, <1>4, ListFacts
<1>6. ~node[n].iterated /\ node[n].high = loc[p].high /\ ~node[n].stopTask
  BY <1>2, <1>3, <1>4
<1>7. node[n].task = ranks[n] /\ node[n].task > 0
  BY <1>5, <1>6, RankFacts
<1>8. node[n].task \in DOMAIN tasks /\ tasks[node[n].task].high = node[n].high
  BY <1>5, <1>7, RankFacts DEF IInv, NodePart, TaskInv
<1>9. ASSUME NEW j \in 1..(i - 1), node[loc[p].list[j]].high = loc[p].high
      PROVE  node[loc[p].list[j]].iterated
  <2>1. CASE j \in 1..(loc[p].cur - 1)
    BY <1>1, <1>9, <2>1 DEF PassOf
  <2>2. CASE j \notin 1..(loc[p].cur - 1)
    <3>1. j \in loc[p].cur..(End(p) - 1) /\ ~(i <= j)
      BY <1>2, <1>4, <2>2
    <3> QED
      BY <1>3, <1>9, <3>1 DEF Todo
  <2> QED
    BY <2>1, <2>2
<1> QED
  BY <1>4, <1>5, <1>6, <1>7, <1>8, <1>9

\* A task of the pass is iterated: it no longer waits.
LEMMA CountTake ==
  ASSUME IInv, NEW p \in Procs, pc[p] = "scan", pc'[p] \in {"scan", "advance"}, Alone(p),
         highTasks' = highTasks,
         NEW n \in Nodes, ranks[n] > 0, ~node[n].iterated, node[n].high = loc[p].high,
         node'[n].iterated,
         \A m \in Nodes : node'[m].high = node[m].high /\ (m # n => node'[m] = node[m]),
         \A q \in Procs, m \in Nodes : Owns(q, m)' <=> Owns(q, m),
         loc[p].niterated \in Nat, loc'[p].niterated = loc[p].niterated + 1,
         loc'[p].high = loc[p].high
  PROVE  CountInv'
<1>1. Runs(p) /\ InPass(p) /\ InPass(p)'
  BY DEF Runs, InPass, Pass, Executing
<1>2. \A q \in Procs : InPass(q) => q = p
  BY <1>1, RunnerFacts
<1>3. \A q \in Procs : InPass(q)' => q = p
  BY <1>2 DEF InPass, Alone
<1>4. Waiting' = Waiting \ {n}
  <2>1. \A q \in Procs, m \in Nodes : (Owns(q, m)' => pc'[q] # "count_high") <=>
            (Owns(q, m) => pc[q] # "count_high")
    BY DEF Alone
  <2> QED
    BY <2>1 DEF Waiting
<1>5. n \in Waiting <=> loc[p].high
  <2>1. \A q \in Procs : ~Owns(q, n)
    BY RankFacts
  <2> QED
    BY <2>1 DEF Waiting
<1>6. IsFiniteSet(Waiting)
  BY NodesAssumption, FS_Subset DEF Waiting
<1>7. Cardinality(Waiting) \in Nat /\ (n \in Waiting =>
          Cardinality(Waiting \ {n}) = Cardinality(Waiting) - 1)
  BY <1>6, FS_CardinalityType, FS_RemoveElement
<1>8. n \notin Waiting => Waiting \ {n} = Waiting
  OBVIOUS
<1>9. highTasks = Cardinality(Waiting) + (IF loc[p].high THEN loc[p].niterated ELSE 0)
  BY <1>1 DEF IInv, CountPart, CountInv
<1>10. highTasks' = Cardinality(Waiting') + (IF loc'[p].high THEN loc'[p].niterated ELSE 0)
  <2>1. CASE loc[p].high
    BY <1>4, <1>5, <1>7, <1>9, <2>1
  <2>2. CASE ~loc[p].high
    BY <1>4, <1>5, <1>8, <1>9, <2>2
  <2> QED
    BY <2>1, <2>2
<1>11. \A q \in Procs : pc'[q] # "begin"
  BY <1>3 DEF InPass, Pass
<1> QED
  BY <1>1, <1>3, <1>10, <1>11 DEF CountInv

\* What Started does to the history.
LEMMA StartedFacts ==
  ASSUME tasks \in Seq(Task), NEW t \in DOMAIN tasks, tasks[t].fate = "pending", tasks' = Started(t)
  PROVE  /\ tasks' \in Seq(Task) /\ Len(tasks') = Len(tasks) /\ DOMAIN tasks' = DOMAIN tasks
         /\ tasks'[t].fate = "executed" /\ tasks'[t].late = tasks[t].late
         /\ \A u \in DOMAIN tasks : /\ tasks'[u].high = tasks[u].high
                                       /\ tasks'[u].queue = tasks[u].queue
                                    /\ u # t => tasks'[u].fate = tasks[u].fate
                                    /\ \/ tasks'[u].late = tasks[u].late
                                       \/ /\ tasks[u].high /\ tasks[u].fate = "pending"
                                             /\ ~tasks[t].high
                                          /\ tasks'[u].late = tasks[u].late + 1
<1>1. /\ Len(tasks) \in Nat /\ DOMAIN tasks = 1..Len(tasks)
         /\ \A u \in DOMAIN tasks : tasks[u] \in Task
  OBVIOUS
<1>2. DOMAIN tasks' = 1..Len(tasks) /\ tasks' = [u \in 1..Len(tasks) |-> tasks'[u]]
  BY <1>1 DEF Started
<1>3. tasks'[t] = [tasks[t] EXCEPT !.fate = "executed"]
  BY DEF Started
<1>4. \A u \in DOMAIN tasks : u # t =>
         tasks'[u] = IF tasks[u].high /\ tasks[u].fate = "pending" /\ ~tasks[t].high
                       THEN [tasks[u] EXCEPT !.late = tasks[u].late + 1] ELSE tasks[u]
  BY DEF Started
<1>5. /\ tasks'[t] \in Task /\ tasks'[t].fate = "executed" /\ tasks'[t].late = tasks[t].late
      /\ tasks'[t].high = tasks[t].high /\ tasks'[t].queue = tasks[t].queue
  BY <1>1, <1>3 DEF Task
<1>6. ASSUME NEW u \in DOMAIN tasks, u # t
      PROVE  /\ tasks'[u] \in Task /\ tasks'[u].high = tasks[u].high
             /\ tasks'[u].queue = tasks[u].queue
             /\ tasks'[u].fate = tasks[u].fate
             /\ \/ tasks'[u].late = tasks[u].late
                \/ /\ tasks[u].high /\ tasks[u].fate = "pending" /\ ~tasks[t].high
                   /\ tasks'[u].late = tasks[u].late + 1
  <2>1. CASE tasks[u].high /\ tasks[u].fate = "pending" /\ ~tasks[t].high
    <3>1. tasks'[u] = [tasks[u] EXCEPT !.late = tasks[u].late + 1] /\ tasks[u] \in Task
      BY <1>1, <1>4, <1>6, <2>1
    <3>2. tasks[u].late + 1 \in Nat
      BY <3>1 DEF Task
    <3> QED
      BY <2>1, <3>1, <3>2 DEF Task
  <2>2. CASE ~(tasks[u].high /\ tasks[u].fate = "pending" /\ ~tasks[t].high)
    BY <1>1, <1>4, <1>6, <2>2
  <2> QED
    BY <2>1, <2>2
<1>7. tasks' \in Seq(Task) /\ Len(tasks') = Len(tasks)
  <2>1. \A u \in 1..Len(tasks) : tasks'[u] \in Task
    BY <1>1, <1>5, <1>6
  <2> QED
    BY <1>1, <1>2, <2>1, FunctionSeq
<1> QED
  BY <1>1, <1>2, <1>5, <1>6, <1>7

\* The two outcomes of peek_to_execute().
PeekStarts(p, i, n) ==
    /\ pc[p] = "scan" /\ node[n].status = "UNEXECUTED"
    /\ node' = [node EXCEPT ![n].iterated = TRUE, ![n].status = "EXECUTING"]
    /\ tasks' = Started(node[n].task)
    /\ Goto(p, "advance", [loc[p] EXCEPT !.cur = i, !.niterated = @ + 1])
    /\ UNCHANGED <<queueVars, pool, ids, handles, stopRuns, joined>>
PeekSkips(p, i, n) ==
    /\ pc[p] = "scan" /\ node[n].status # "UNEXECUTED"
    /\ node' = [node EXCEPT ![n].iterated = TRUE]
    /\ Goto(p, "scan", [loc[p] EXCEPT !.cur = i + 1, !.niterated = @ + 1])
    /\ tasks' = tasks
    /\ UNCHANGED <<queueVars, pool, ids, handles, stopRuns, joined>>

\* peek_to_execute() of a task that nobody has cancelled.
LEMMA PeekStart ==
  ASSUME IInv, NEW p \in Procs, Todo(p) # {}, NEW i, i = First(Todo(p)), NEW n, n = loc[p].list[i],
         PeekStarts(p, i, n)
  PROVE  IInv'
<1> DEFINE r == [loc[p] EXCEPT !.cur = i, !.niterated = @ + 1]
<1>0. pc[p] = "scan" /\ node[n].status = "UNEXECUTED"
  BY DEF PeekStarts
<1>t. PICK t : t = node[n].task
  OBVIOUS
<1>1. /\ i \in 1..Len(loc[p].list) /\ n \in Nodes /\ ranks[n] > 0 /\ ranks[n] <= LastRank(p)
      /\ ~node[n].iterated /\ node[n].high = loc[p].high
      /\ t \in DOMAIN tasks /\ t > 0 /\ t = ranks[n] /\ ranks[n] = FirstRank(p) + i - 1
      /\ tasks[t].high = loc[p].high
      /\ \A j \in 1..(i - 1) : node[loc[p].list[j]].high = loc[p].high =>
             node[loc[p].list[j]].iterated
  BY <1>0, <1>t, PeekFacts
<1>2. loc[p] \in Local /\ loc[p].niterated \in Nat /\ i \in Nat
  BY <1>1 DEF IInv, TypeInv, LocalType, Local
<1>3. r \in Local
  <2>1. loc[p].niterated + 1 \in Nat
    BY <1>2
  <2> QED
    BY <1>2, <2>1, Zenon DEF Local
<1>4. /\ r.cur = i /\ r.list = loc[p].list /\ r.handle = loc[p].handle /\ r.derefs = loc[p].derefs
      /\ r.destroy = loc[p].destroy /\ r.high = loc[p].high /\ r.niterated = loc[p].niterated + 1
  BY <1>2 DEF Local
<1>5. UNCHANGED slotVars /\ head' = head /\ pool' = pool /\ handles' = handles
      /\ highTasks' = highTasks
  BY DEF PeekStarts, queueVars, slotVars
<1>6. pc'[p] = "advance" /\ loc'[p] = r /\ Alone(p) /\ Only(p)
  <2>1. Goto(p, "advance", r)
    BY DEF PeekStarts
  <2> HIDE DEF r
  <2> QED
    BY <2>1, GotoFacts DEF IInv, TypeInv
<1>7. node \in [Nodes -> Node] /\ tasks \in Seq(Task) /\ highTasks \in Nat /\ ~loc[p].destroy
  BY <1>0, UnchangedTypes, NoDestroy DEF Executing
<1>8. tasks[t].fate = "pending"
  <2>1. t > 0 /\ n \in Nodes /\ node[n].task = t /\ node[n].status = "UNEXECUTED"
    BY <1>0, <1>t, <1>1
  <2>2. TaskInv
    BY DEF IInv, NodePart
  <2> QED
    BY <2>1, <2>2 DEF TaskInv
<1> HIDE DEF r
<1>9. /\ tasks' \in Seq(Task) /\ Len(tasks') = Len(tasks) /\ DOMAIN tasks' = DOMAIN tasks
      /\ tasks'[t].fate = "executed" /\ tasks'[t].late = tasks[t].late
      /\ \A u \in DOMAIN tasks : /\ tasks'[u].high = tasks[u].high /\ tasks'[u].queue = tasks[u].queue
                                 /\ u # t => tasks'[u].fate = tasks[u].fate
                                 /\ \/ tasks'[u].late = tasks[u].late
                                    \/ /\ tasks[u].high /\ tasks[u].fate = "pending" /\ ~tasks[t].high
                                       /\ tasks'[u].late = tasks[u].late + 1
  BY <1>t, <1>1, <1>7, <1>8, StartedFacts DEF PeekStarts
<1>10. ASSUME NEW m \in Nodes
       PROVE  /\ node'[m] \in Node
              /\ node'[m].version = node[m].version /\ node'[m].stopTask = node[m].stopTask
              /\ node'[m].high = node[m].high /\ node'[m].task = node[m].task
              /\ node'[m].next = node[m].next
              /\ m # n => node'[m] = node[m]
              /\ m = n => node'[m].iterated /\ node'[m].status = "EXECUTING"
  <2>1. node[m] \in Node
    BY <1>7
  <2> QED
    BY <1>1, <1>7, <2>1 DEF PeekStarts, Node
<1>11. node' \in [Nodes -> Node]
  <2>1. DOMAIN node' = Nodes /\ node' = [m \in Nodes |-> node'[m]]
    BY <1>7 DEF PeekStarts
  <2> QED
    BY <1>10, <2>1
<1>12. NodesKept /\ LinksKept
  <2>1. \A m \in Nodes : node[m].iterated => node[m].status # "UNEXECUTED"
    BY DEF IInv, NodePart, NodeInv
  <2> QED
    BY <1>1, <1>10, <2>1 DEF NodesKept, LinksKept
<1>13. TasksKept
  <2>1. ASSUME NEW m \in Nodes, node[m].task > 0
        PROVE  node'[m].status = "UNEXECUTED" <=> tasks'[node[m].task].fate = "pending"
    <3>1. CASE m = n
      BY <1>t, <1>9, <1>10, <3>1
    <3>2. CASE m # n
      <4>1. node[m].task # t /\ node[m].task \in DOMAIN tasks
        <5>1. node[m].task # t
          <6>1. \A a, b \in Nodes : node[b].task > 0 /\ node[a].task = node[b].task => a = b
            BY DEF IInv, NodePart, TaskInv
          <6>2. n \in Nodes /\ node[n].task > 0
            BY <1>t, <1>1
          <6> QED
            BY <1>t, <3>2, <6>1, <6>2
        <5>2. ranks[m] = node[m].task /\ ranks[m] \in Nat /\ ranks[m] <= Len(tasks)
              /\ DOMAIN tasks = 1..Len(tasks)
          BY <2>1, RankFacts
        <5> QED
          BY <2>1, <5>1, <5>2
      <4> QED
        BY <1>9, <1>10, <2>1, <3>2, <4>1 DEF IInv, NodePart, TaskInv
    <3> QED
      BY <3>1, <3>2
  <2>2. \A u \in DOMAIN tasks : tasks[u].fate # "repeated"
    BY DEF IInv, NodePart, TaskInv
  <2> QED
    BY <1>8, <1>9, <2>1, <2>2 DEF TasksKept
<1>14. /\ ranks' = ranks
       /\ \A q \in Procs, m \in Nodes : Owns(q, m)' <=> Owns(q, m)
       /\ ExecutorRest(p) => IInv'
  BY <1>0, <1>1, <1>3, <1>4, <1>5, <1>6, <1>7, <1>9, <1>10, <1>11, <1>12, <1>13, ExecutorStep
       DEF Executing
<1>15. SweepOf(p)' /\ FrontOf(p)'
  BY <1>6 DEF SweepOf, FrontOf
<1>16. PassOf(p)'
  <2>1. \A j \in 1..(i - 1) : loc[p].list[j] \in Nodes
    <3>1. \A j \in 1..(i - 1) : j \in 1..Len(loc[p].list)
      BY <1>1
    <3>2. HasList(p)
      BY <1>0 DEF HasList, Executing
    <3> QED
      BY <3>1, <3>2, ListFacts
  <2>2. \A j \in 1..(i - 1) : node'[loc[p].list[j]].high = loc[p].high =>
            node'[loc[p].list[j]].iterated
    BY <1>1, <1>10, <2>1
  <2> QED
    BY <1>1, <1>4, <1>6, <1>10, <2>2 DEF PassOf
<1>17. CountInv'
  BY <1>0, <1>1, <1>2, <1>4, <1>5, <1>6, <1>10, <1>14, CountTake
<1>18. Runs(p) /\ HasList(p)
  BY <1>0 DEF Runs, HasList, Executing
<1>19. LateInv'
  <2>1. \A q \in Procs : pc'[q] # "scan"
    BY <1>6, <1>18, RunnerFacts DEF Alone, InPass, Pass
  <2>2. \A u \in DOMAIN tasks : tasks[u].late <= 1 /\ tasks[u].late \in Nat
    <3>1. \A u \in DOMAIN tasks : tasks[u] \in Task
      BY <1>7
    <3> QED
      BY <3>1 DEF IInv, CountPart, LateInv, Task
  <2>3. ~loc[p].high => \A u \in DOMAIN tasks : tasks[u].high /\ tasks[u].fate = "pending" =>
            tasks[u].late = 0
    BY <1>0 DEF IInv, CountPart, LateInv
  <2>4. ASSUME NEW u \in DOMAIN tasks PROVE tasks'[u].late <= 1
    <3>1. \/ tasks'[u].late = tasks[u].late
          \/ /\ tasks[u].high /\ tasks[u].fate = "pending" /\ ~tasks[t].high
             /\ tasks'[u].late = tasks[u].late + 1
      BY <1>9
    <3> QED
      BY <1>1, <2>2, <2>3, <3>1
  <2> QED
    BY <1>9, <2>1, <2>4 DEF LateInv
<1>20. InOrder'
  <2> SUFFICES ASSUME NEW s \in DOMAIN tasks, NEW u \in DOMAIN tasks, s < u,
                      tasks'[s].high = tasks'[u].high,
                      tasks'[u].fate = "executed", tasks'[s].fate = "pending"
               PROVE  FALSE
    BY <1>9 DEF InOrder
  <2>1. s # t /\ tasks[s].fate = "pending" /\ tasks[s].high = tasks[u].high
    BY <1>9
  <2>2. CASE u # t
    BY <1>9, <2>1, <2>2 DEF IInv, CountPart, InOrder
  <2>3. CASE u = t
    <3>1. PICK m \in Nodes : ranks[m] = s /\ s > 0 /\ ~node[m].iterated
               /\ node[m].high = tasks[s].high
      BY <2>1, PendingFacts
    <3>2. FirstRank(p) <= ranks[m]
      BY <1>18, <3>1, RunnerFacts
    <3>3. FirstRank(p) \in Nat /\ s \in Nat /\ t \in Nat /\ LastRank(p) \in Nat
      <4>1. FirstRank(p) \in Nat /\ LastRank(p) = FirstRank(p) + Len(loc[p].list) - 1
            /\ Len(loc[p].list) \in Nat
            /\ Len(loc[p].list) > 0
        BY <1>18, ListFacts
      <4>2. DOMAIN tasks = 1..Len(tasks) /\ Len(tasks) \in Nat
        BY RankFacts
      <4>3. t \in DOMAIN tasks
        BY <1>1
      <4>4. s \in Nat /\ t \in Nat
        BY <4>2, <4>3
      <4>5. LastRank(p) \in Nat
        BY <4>1
      <4> QED
        BY <4>1, <4>4, <4>5
    <3>4. ranks[m] <= LastRank(p) /\ ranks[m] < ranks[n]
      BY <1>1, <2>3, <3>1, <3>3
    <3> DEFINE j == ranks[m] - FirstRank(p) + 1
    <3>5. loc[p].list[j] = m
      BY <1>18, <3>2, <3>4, InList
    <3>6. j \in 1..(i - 1)
      BY <1>1, <3>1, <3>2, <3>3, <3>4
    <3> HIDE DEF j
    <3> QED
      BY <1>1, <2>1, <2>3, <3>1, <3>5, <3>6
  <2> QED
    BY <2>2, <2>3
<1> QED
  BY <1>14, <1>15, <1>16, <1>17, <1>19, <1>20 DEF ExecutorRest

\* peek_to_execute() of a task that was cancelled before.
LEMMA PeekCancelled ==
  ASSUME IInv, NEW p \in Procs, Todo(p) # {}, NEW i, i = First(Todo(p)), NEW n, n = loc[p].list[i],
         PeekSkips(p, i, n)
  PROVE  IInv'
<1> DEFINE r == [loc[p] EXCEPT !.cur = i + 1, !.niterated = @ + 1]
<1>0. pc[p] = "scan" /\ node[n].status # "UNEXECUTED" /\ tasks' = tasks
  BY DEF PeekSkips
<1>1. /\ i \in 1..Len(loc[p].list) /\ n \in Nodes /\ ranks[n] > 0 /\ ranks[n] <= LastRank(p)
      /\ ~node[n].iterated /\ node[n].high = loc[p].high
      /\ \A j \in 1..(i - 1) : node[loc[p].list[j]].high = loc[p].high =>
             node[loc[p].list[j]].iterated
  BY <1>0, PeekFacts
<1>2. loc[p] \in Local /\ loc[p].niterated \in Nat /\ i \in Nat
  BY <1>1 DEF IInv, TypeInv, LocalType, Local
<1>3. r \in Local
  <2>1. loc[p].niterated + 1 \in Nat /\ i + 1 \in Nat
    BY <1>2
  <2> QED
    BY <1>2, <2>1, Zenon DEF Local
<1>4. /\ r.cur = i + 1 /\ r.list = loc[p].list /\ r.handle = loc[p].handle /\ r.derefs = loc[p].derefs
      /\ r.destroy = loc[p].destroy /\ r.high = loc[p].high /\ r.niterated = loc[p].niterated + 1
  BY <1>2 DEF Local
<1>5. UNCHANGED slotVars /\ head' = head /\ pool' = pool /\ handles' = handles
      /\ highTasks' = highTasks
  BY DEF PeekSkips, queueVars, slotVars
<1>6. pc'[p] = "scan" /\ loc'[p] = r /\ Alone(p) /\ Only(p)
  <2>1. Goto(p, "scan", r)
    BY DEF PeekSkips
  <2> HIDE DEF r
  <2> QED
    BY <2>1, GotoFacts DEF IInv, TypeInv
<1>7. node \in [Nodes -> Node] /\ tasks \in Seq(Task) /\ highTasks \in Nat /\ ~loc[p].destroy
  BY <1>0, UnchangedTypes, NoDestroy DEF Executing
<1> HIDE DEF r
<1>8. ASSUME NEW m \in Nodes
      PROVE  /\ node'[m] \in Node
             /\ node'[m].version = node[m].version /\ node'[m].stopTask = node[m].stopTask
             /\ node'[m].high = node[m].high /\ node'[m].task = node[m].task
             /\ node'[m].next = node[m].next /\ node'[m].status = node[m].status
             /\ m # n => node'[m] = node[m]
             /\ m = n => node'[m].iterated
  <2>1. node[m] \in Node
    BY <1>7
  <2> QED
    BY <1>1, <1>7, <2>1 DEF PeekSkips, Node
<1>9. node' \in [Nodes -> Node]
  <2>1. DOMAIN node' = Nodes /\ node' = [m \in Nodes |-> node'[m]]
    BY <1>7 DEF PeekSkips
  <2> QED
    BY <1>8, <2>1
<1>10. NodesKept /\ LinksKept
  <2>1. \A m \in Nodes : node[m].iterated => node[m].status # "UNEXECUTED"
    BY DEF IInv, NodePart, NodeInv
  <2> QED
    BY <1>0, <1>1, <1>8, <2>1 DEF NodesKept, LinksKept
<1>11. TasksKept
  BY <1>0, <1>8 DEF TasksKept, IInv, NodePart, TaskInv
<1>12. /\ ranks' = ranks
       /\ \A q \in Procs, m \in Nodes : Owns(q, m)' <=> Owns(q, m)
       /\ ExecutorRest(p) => IInv'
  BY <1>0, <1>1, <1>3, <1>4, <1>5, <1>6, <1>7, <1>8, <1>9, <1>10, <1>11, ExecutorStep DEF Executing
<1>13. SweepOf(p)' /\ FrontOf(p)'
  BY <1>6 DEF SweepOf, FrontOf
<1>14. PassOf(p)'
  <2>1. \A j \in 1..i : loc[p].list[j] \in Nodes
    <3>1. \A j \in 1..i : j \in 1..Len(loc[p].list)
      BY <1>1
    <3>2. HasList(p)
      BY <1>0 DEF HasList, Executing
    <3> QED
      BY <3>1, <3>2, ListFacts
  <2>2. ASSUME NEW j \in 1..i, node'[loc[p].list[j]].high = loc[p].high
        PROVE  node'[loc[p].list[j]].iterated
    <3>1. j = i \/ j \in 1..(i - 1)
      BY <1>1
    <3> QED
      BY <1>1, <1>8, <2>1, <2>2, <3>1
  <2>3. i + 1 \in 1..(Len(loc[p].list) + 1) /\ (i + 1) - 1 = i
    BY <1>1
  <2> QED
    BY <1>4, <1>6, <2>2, <2>3 DEF PassOf
<1>15. CountInv'
  BY <1>0, <1>1, <1>2, <1>4, <1>5, <1>6, <1>8, <1>12, CountTake
<1>16. LateInv' /\ InOrder'
  BY <1>0, <1>4, <1>6 DEF IInv, CountPart, LateInv, InOrder, Alone
<1> QED
  BY <1>12, <1>13, <1>14, <1>15, <1>16 DEF ExecutorRest

\* The iterator's search for the next task preserves the invariant.
LEMMA PeekStep ==
  ASSUME IInv, NEW p \in Procs, Peek(p)
  PROVE  IInv'
<1>1. PICK i, n : i = First(Todo(p)) /\ n = loc[p].list[i]
  OBVIOUS
<1>2. Todo(p) # {} /\ (PeekStarts(p, i, n) \/ PeekSkips(p, i, n))
  BY <1>1, Zenon DEF Peek, PeekStarts, PeekSkips
<1> QED
  BY <1>1, <1>2, PeekStart, PeekCancelled

\* Nobody holds a reference once the stop task is pushed: no task is on its way.
LEMMA RecycledFacts ==
  ASSUME IInv, Recycled
  PROVE  /\ \A q \in Procs : Held(q) = 0 \/ pc[q] = "unaddress"
         /\ \A q \in Procs, m \in Nodes : Owns(q, m) => node[m].stopTask /\ ~node[m].high
<1>1. \A q \in Procs : Held(q) = 0 \/ pc[q] = "unaddress"
  <2> SUFFICES ASSUME NEW q \in Procs, pc[q] # "unaddress" PROVE Held(q) = 0
    OBVIOUS
  <2>1. Held(q) \in 0..2 /\ (Held(q) >= 1 => vref.ver \in {thisId, thisId + 1})
    BY HeldType DEF IInv, TypeInv, SlotPart, HolderInv, Knows
  <2>2. vref.ver = thisId + 2 /\ thisId \in Nat
    BY VersionFacts DEF Recycled, IInv
  <2> QED
    BY <2>1, <2>2
<1>2. ASSUME NEW q \in Procs, NEW m \in Nodes, Owns(q, m) PROVE node[m].stopTask /\ ~node[m].high
  <2>1. pc[q] \in {"count_high", "exchange"}
        /\ (loc[q].derefs = 1 \/ (loc[q].derefs = 0 /\ node[m].stopTask))
    BY <1>2 DEF IInv, NodePart, OwnerInv, Owns
  <2>2. loc[q].derefs = 0
    BY <1>1, <2>1 DEF Held
  <2> QED
    BY <2>1, <2>2 DEF IInv, StopPart, StopNodeInv
<1> QED
  BY <1>1, <1>2

\* When the executor meets the stop task nothing else is left in the queue.
LEMMA StopTaskFacts ==
  ASSUME IInv, NEW p \in Procs, pc[p] = "begin", node[loc[p].list[1]].stopTask
  PROVE  /\ loc[p].list[1] \in Nodes /\ ~node[loc[p].list[1]].iterated /\ Len(loc[p].list) = 1
         /\ ranks[loc[p].list[1]] = Len(tasks) + 1 /\ ranks[loc[p].list[1]] = FirstRank(p)
         /\ Recycled /\ thisId \notin RunStops /\ joinButex = thisId /\ (\A q \in Procs : ~Closing(q))
         /\ \A t \in DOMAIN tasks : tasks[t].fate # "pending"
         /\ Waiting = {} /\ loc[p].high = FALSE /\ highTasks = 0 /\ loc[p].niterated = 0
<1> DEFINE n == loc[p].list[1]
<1>1. Runs(p) /\ HasList(p) /\ InPass(p)
  BY DEF Runs, HasList, Executing, InPass, Pass
<1>2. /\ Len(loc[p].list) \in Nat /\ Len(loc[p].list) > 0 /\ n \in Nodes /\ FirstRank(p) = ranks[n]
      /\ ranks[n] > 0
      /\ LastRank(p) = FirstRank(p) + Len(loc[p].list) - 1 /\ loc[p].list[Len(loc[p].list)] \in Nodes
  BY <1>1, ListFacts DEF FirstRank
<1>3. ~node[n].iterated
  BY DEF IInv, QueuePart, FrontInv, FrontOf
<1>4. ranks[n] = Len(tasks) + 1 /\ Len(tasks) \in Nat
  BY <1>2, RankFacts
<1>5. Len(loc[p].list) = 1
  <2>1. LastRank(p) <= Len(tasks) + 1
    BY <1>2, RankFacts DEF LastRank
  <2>2. LastRank(p) = Len(tasks) + 1 + Len(loc[p].list) - 1
    BY <1>2, <1>4
  <2>3. Len(loc[p].list) \in Nat /\ Len(loc[p].list) > 0 /\ Len(tasks) \in Nat
    BY <1>2, <1>4
  <2>4. PICK k, m, x : k = Len(loc[p].list) /\ m = Len(tasks) /\ x = LastRank(p)
    OBVIOUS
  <2>5. k \in Nat /\ k > 0 /\ m \in Nat /\ x <= m + 1 /\ x = m + 1 + k - 1
    BY <2>1, <2>2, <2>3, <2>4
  <2>6. k = 1
    BY <2>5
  <2> QED
    BY <2>4, <2>6
<1>6. Recycled /\ thisId \notin RunStops /\ joinButex = thisId /\ (\A q \in Procs : ~Closing(q))
  BY <1>2, <1>3 DEF IInv, StopPart, StopNodeInv
<1>7. \A m \in Nodes : node[m].task > 0 => node[m].iterated
  <2> SUFFICES ASSUME NEW m \in Nodes, node[m].task > 0, ~node[m].iterated PROVE FALSE
    OBVIOUS
  <2>1. ranks[m] <= Len(tasks) /\ ranks[m] = node[m].task /\ ranks[m] \in Nat
    BY RankFacts
  <2>2. FirstRank(p) <= ranks[m]
    BY <1>1, <2>1, RunnerFacts
  <2> QED
    BY <1>2, <1>4, <2>1, <2>2
<1>8. \A t \in DOMAIN tasks : tasks[t].fate # "pending"
  BY <1>7, PendingFacts
<1>9. Waiting = {}
  <2> SUFFICES ASSUME NEW m \in Nodes, node[m].high, ~node[m].iterated PROVE FALSE
    BY DEF Waiting
  <2>1. node[m].task \in Nat
    BY DEF IInv, TypeInv, TypeOK
  <2>2. node[m].task = 0
    BY <1>7, <2>1
  <2>3. \E q \in Procs : Owns(q, m)
    BY <2>2 DEF IInv, NodePart, NodeInv
  <2> QED
    BY <1>6, <2>3, RecycledFacts
<1>10. loc[p].high = FALSE
  <2>1. ~loc[p].high
    BY <1>9 DEF IInv, CountPart, CountInv
  <2>2. loc[p].high \in BOOLEAN
    BY DEF IInv, TypeInv, LocalType, Local
  <2> QED
    BY <2>1, <2>2
<1>11. highTasks = 0
  <2>1. highTasks = Cardinality(Waiting) + 0
    BY <1>1, <1>10 DEF IInv, CountPart, CountInv
  <2>2. Cardinality({}) = 0
    BY FS_EmptySet
  <2> QED
    BY <1>9, <2>1, <2>2
<1>12. loc[p].niterated = 0
  BY DEF IInv, QueuePart, PassInv, PassOf
<1> QED
  BY <1>2, <1>3, <1>4, <1>5, <1>6, <1>8, <1>9, <1>10, <1>11, <1>12

\* The execution of the stop task preserves the invariant: it is the last of its
\* incarnation.
LEMMA ExecuteStopStep ==
  ASSUME IInv, NEW p \in Procs, ExecuteStop(p)
  PROVE  IInv'
<1>1. pc[p] = "begin" /\ Runs(p) /\ HasList(p) /\ loc[p] \in Local
  BY DEF ExecuteStop, Runs, HasList, Executing, IInv, TypeInv, LocalType
<1>2. PICK n : n = loc[p].list[1]
  OBVIOUS
<1>3. n = Head(loc[p].list)
  BY <1>1, <1>2, ListFacts
<1>4. node[n].stopTask
  BY <1>3 DEF ExecuteStop
<1>5. /\ n \in Nodes /\ ~node[n].iterated /\ Len(loc[p].list) = 1
      /\ ranks[n] = Len(tasks) + 1 /\ ranks[n] = FirstRank(p)
      /\ Recycled /\ thisId \notin RunStops /\ joinButex = thisId /\ (\A q \in Procs : ~Closing(q))
      /\ \A t \in DOMAIN tasks : tasks[t].fate # "pending"
      /\ Waiting = {} /\ loc[p].high = FALSE /\ highTasks = 0
  BY <1>1, <1>2, <1>4, StopTaskFacts
<1>6. /\ UNCHANGED <<vref, stopped, thisId, joinButex, slot, ids, joined>> /\ head' = head
      /\ pool' = pool
      /\ handles' = handles /\ highTasks' = highTasks /\ tasks' = tasks
      /\ stopRuns' = Append(stopRuns, thisId)
  BY DEF ExecuteStop, queueVars
<1>7. ranks[n] > 0 /\ ranks[n] <= LastRank(p)
  BY <1>1, <1>5, ListFacts, RankFacts
<1> DEFINE r == [loc[p] EXCEPT !.destroy = TRUE, !.niterated = 1]
<1>8. /\ r \in Local /\ r.list = loc[p].list /\ r.handle = loc[p].handle /\ r.derefs = loc[p].derefs
      /\ r.high = loc[p].high
  <2>1. 1 \in Nat /\ TRUE \in BOOLEAN
    OBVIOUS
  <2>2. r \in Local
    BY <1>1, <2>1, Zenon DEF Local
  <2> QED
    BY <1>1, <2>2 DEF Local
<1>9. pc'[p] = "executed" /\ loc'[p] = r /\ Alone(p) /\ Only(p)
  <2>1. Goto(p, "executed", r)
    BY <1>5 DEF ExecuteStop
  <2> HIDE DEF r
  <2> QED
    BY <2>1, GotoFacts DEF IInv, TypeInv
<1> HIDE DEF r
<1>10. node \in [Nodes -> Node] /\ tasks \in Seq(Task) /\ highTasks \in Nat
  BY UnchangedTypes
<1>11. ASSUME NEW m \in Nodes
       PROVE  /\ node'[m] \in Node
              /\ node'[m].version = node[m].version /\ node'[m].stopTask = node[m].stopTask
              /\ node'[m].high = node[m].high /\ node'[m].task = node[m].task
              /\ node'[m].next = node[m].next
              /\ m # n => node'[m] = node[m]
              /\ m = n => node'[m].iterated /\ node'[m].status = "EXECUTED"
  <2>1. node[m] \in Node
    BY <1>10
  <2> QED
    BY <1>3, <1>5, <1>10, <2>1 DEF ExecuteStop, Node
<1>12. node' \in [Nodes -> Node]
  <2>1. DOMAIN node' = Nodes /\ node' = [m \in Nodes |-> node'[m]]
    BY <1>10 DEF ExecuteStop
  <2> QED
    BY <1>11, <2>1
<1>13. NodesKept /\ LinksKept
  <2>1. \A m \in Nodes : node[m].iterated => node[m].status # "UNEXECUTED"
    BY DEF IInv, NodePart, NodeInv
  <2> QED
    BY <1>7, <1>11, <2>1 DEF NodesKept, LinksKept
<1>14. TasksKept
  <2>1. \A m \in Nodes : node[m].task > 0 => m # n
    BY <1>4 DEF IInv, NodePart, NodeInv
  <2> QED
    BY <1>6, <1>11, <2>1 DEF TasksKept, IInv, NodePart, TaskInv
<1>15. \A q \in Procs : Stays(q) /\ Still(q)
  BY <1>1, <1>8, <1>9 DEF Stays, Still, Alone, Executing
<1>16. NodePart' /\ ranks' = ranks /\ \A q \in Procs, m \in Nodes : Owns(q, m)' <=> Owns(q, m)
  BY <1>6, <1>13, <1>14, <1>15, KeepNodes, OldHandles, StaysFacts
<1>17. HeadInv' /\ ListInv' /\ ChainInv' /\ LinkInv' /\ FinishInv' /\ LiveInv'
  <2>1. \A m \in Nodes : node'[m].iterated /\ ~node[m].iterated => ranks[m] <= LastRank(p)
    BY <1>7, <1>11
  <2> QED
    BY <1>1, <1>6, <1>13, <1>15, <1>16, <2>1, KeepQueue
<1>18. \A q \in Procs : q # p => ~Runs(q) /\ ~Runs(q)' /\ ~InPass(q)'
  BY <1>1, <1>9, RunnerFacts DEF Alone, Runs, InPass
<1>19. SweepInv' /\ FrontInv' /\ PassInv'
  BY <1>9, <1>18 DEF SweepInv, SweepOf, FrontInv, FrontOf, PassInv, PassOf, Runs, Executing
<1>20. SlotPart' /\ RunStops' = RunStops \cup {thisId}
  BY <1>5, <1>6, <1>15, SlotStopRun DEF IInv
<1>21. CountInv'
  <2>1. Waiting' = {}
    <3>1. Waiting' \subseteq Waiting
      <4>1. \A q \in Procs, m \in Nodes : (Owns(q, m)' => pc'[q] # "count_high") <=>
                (Owns(q, m) => pc[q] # "count_high")
        BY <1>1, <1>9, <1>16 DEF Alone
      <4> QED
        BY <1>5, <1>11, <4>1 DEF Waiting
    <3> QED
      BY <1>5, <3>1
  <2>2. Cardinality({}) = 0
    BY FS_EmptySet
  <2>3. \A q \in Procs : InPass(q)' => q = p
    BY <1>18
  <2>4. loc'[p].high = FALSE
    BY <1>5, <1>8, <1>9
  <2>5. \A q \in Procs : pc'[q] = "begin" => InPass(q)'
    BY DEF InPass, Pass
  <2> QED
    BY <1>5, <1>6, <1>9, <2>1, <2>2, <2>3, <2>4, <2>5 DEF CountInv
<1>22. LateInv' /\ InOrder'
  <2>1. \A q \in Procs : pc'[q] # "scan"
    BY <1>9, <1>18 DEF InPass, Pass
  <2> QED
    BY <1>6, <2>1 DEF IInv, CountPart, LateInv, InOrder
<1>23. thisId' = thisId /\ joinButex' = joinButex /\ slot' = slot /\ vref' = vref
       /\ (Recycled' <=> Recycled)
  BY <1>6 DEF Recycled
<1>24. \A q \in Procs : ~Closing(q)'
  BY <1>5, <1>9 DEF Closing, Closed, Alone
<1>25. StopNodeInv' /\ ClosingInv' /\ UnusedInv'
  <2>1. StopNodeInv'
    <3> SUFFICES ASSUME NEW m \in Nodes, node'[m].stopTask
                 PROVE  /\ Recycled' /\ ~node'[m].high /\ joinButex' = thisId'
                        /\ ~node'[m].iterated => thisId' \notin RunStops'
                        /\ \A k \in Nodes : node'[k].stopTask => k = m
                        /\ \A q \in Procs : ~Closing(q)'
      BY DEF StopNodeInv
    <3>1. m = n /\ ~node[m].high
      BY <1>4, <1>5, <1>11 DEF IInv, StopPart, StopNodeInv
    <3>2. \A k \in Nodes : node'[k].stopTask => k = m
      BY <1>4, <1>5, <1>11 DEF IInv, StopPart, StopNodeInv
    <3> QED
      BY <1>5, <1>11, <1>23, <1>24, <3>1, <3>2
  <2>2. ClosingInv'
    BY <1>24 DEF ClosingInv
  <2>3. UnusedInv'
    BY <1>5, <1>6, <1>23 DEF IInv, StopPart, UnusedInv
  <2> QED
    BY <2>1, <2>2, <2>3
<1>26. DestroyInv'
  <2> SUFFICES ASSUME NEW q \in Procs, HasList(q)', loc'[q].destroy
               PROVE  /\ pc'[q] \in {"executed", "more", "finish"} /\ Len(loc'[q].list) = 1
                      /\ node'[loc'[q].list[1]].stopTask /\ node'[loc'[q].list[1]].iterated
                      /\ thisId' \in RunStops' /\ (pc'[q] = "finish" => head' = NULL)
    BY DEF DestroyInv
  <2>1. CASE q = p
    BY <1>2, <1>4, <1>5, <1>8, <1>9, <1>11, <1>20, <1>23, <2>1
  <2>2. CASE q # p
    <3>1. pc'[q] = pc[q] /\ loc'[q] = loc[q] /\ HasList(q)
      BY <1>9, <2>2 DEF Alone, HasList
    <3>2. pc[q] = "finish" /\ head = NULL
      BY <1>18, <2>2, <3>1 DEF IInv, StopPart, DestroyInv, HasList, Runs
    <3> QED
      BY <1>1, <3>2, RunnerFacts
  <2> QED
    BY <2>1, <2>2
<1>27. TypeInv'
  <2>1. p \in Callers => pc'[p] \in CallerLabels
    BY <1>9 DEF CallerLabels, Pass
  <2>2. p \in Fibers => pc'[p] \in FiberLabels
    BY <1>9 DEF FiberLabels, Pass
  <2>3. LocalType'
    BY <1>8, <1>9, <2>1, <2>2, OnlyType DEF IInv, TypeInv
  <2>4. HistoryType'
    BY <1>6 DEF IInv, TypeInv, TypeOK, HistoryType
  <2> QED
    BY <1>6, <1>12, <2>3, <2>4 DEF IInv, TypeInv, TypeOK, Node
<1> QED
  BY <1>16, <1>17, <1>19, <1>20, <1>21, <1>22, <1>25, <1>26, <1>27 DEF IInv, QueuePart,
       CountPart, StopPart

\* Where the executor goes on, fiber or producer.
LEMMA AgainFacts ==
  ASSUME NEW p \in Procs
  PROVE  /\ Again(p) \in {"loop", "spawn"} /\ (p \in Callers => Again(p) # "loop")
         /\ (p \in Fibers => Again(p) # "spawn")
BY DistinctAssumption DEF Again, Procs

\* _more_tasks() = true: there is a task in the list, or one was pushed.
LEMMA MoreTasksStays ==
  ASSUME IInv, NEW p \in Procs, pc[p] = "more", ~loc[p].destroy, UNCHANGED slotVars, head' = head,
         pool' = pool,
         handles' = handles, highTasks' = highTasks, node' = node, tasks' = tasks, Alone(p), Only(p),
         loc'[p] \in Local, loc'[p].list = loc[p].list, loc'[p].handle = loc[p].handle,
         loc'[p].derefs = loc[p].derefs, loc'[p].destroy = loc[p].destroy,
         \/ (pc'[p] = Again(p) /\ ~node[loc[p].list[1]].iterated)
         \/ (pc'[p] = "sweep" /\ loc'[p].newHead \in Nodes /\ ranks[loc'[p].newHead] > LastRank(p))
  PROVE  IInv'
<1>1. pc'[p] \in {"loop", "spawn", "sweep"} /\ (p \in Callers => pc'[p] # "loop")
      /\ (p \in Fibers => pc'[p] # "spawn")
  BY AgainFacts
<1>2. pc[p] \in Executing /\ pc'[p] \in Executing /\ Runs(p) /\ ~InPass(p) /\ ~InPass(p)'
  BY <1>1 DEF Executing, Runs, InPass, Pass
<1>3. NodesKept /\ LinksKept /\ TasksKept
  BY SameNodes
<1>4. node \in [Nodes -> Node] /\ tasks \in Seq(Task) /\ highTasks \in Nat
  BY UnchangedTypes
<1>5. /\ ranks' = ranks /\ LastRank(p)' = LastRank(p)
      /\ \A q \in Procs, n \in Nodes : Owns(q, n)' <=> Owns(q, n)
      /\ ExecutorRest(p) => IInv'
  BY <1>1, <1>2, <1>3, <1>4, ExecutorStep
<1>6. FrontOf(p)
  BY DEF IInv, QueuePart, FrontInv
<1>7. FrontOf(p)' /\ PassOf(p)' /\ SweepOf(p)'
  <2>1. FrontOf(p)'
    <3>1. CASE pc'[p] = "sweep"
      BY <1>6, <3>1 DEF FrontOf
    <3>2. CASE pc'[p] = Again(p) /\ ~node[loc[p].list[1]].iterated
      BY <1>1, <3>2 DEF FrontOf
    <3> QED
      BY <3>1, <3>2
  <2>2. PassOf(p)'
    BY <1>1 DEF PassOf
  <2>3. SweepOf(p)'
    <3>1. CASE pc'[p] = "sweep"
      <4>1. Again(p) # "sweep"
        BY AgainFacts
      <4>2. loc'[p].newHead \in Nodes /\ ranks[loc'[p].newHead] > LastRank(p)
        BY <3>1, <4>1
      <4> QED
        BY <1>5, <4>2 DEF SweepOf
    <3>2. CASE pc'[p] # "sweep"
      BY <3>2 DEF SweepOf
    <3> QED
      BY <3>1, <3>2
  <2> QED
    BY <2>1, <2>2, <2>3
<1>8. CountInv' /\ LateInv' /\ InOrder'
  BY <1>1, <1>2, <1>5, SameCount
<1> QED
  BY <1>5, <1>7, <1>8 DEF ExecutorRest

\* The CAS of _head to NULL: the last node was iterated and is the head, so nothing is left.
LEMMA MoreTasksEnds ==
  ASSUME IInv, NEW p \in Procs, pc[p] = "more", head = loc[p].list[Len(loc[p].list)], head' = NULL,
         node[loc[p].list[1]].iterated, Len(loc[p].list) = 1, pc'[p] = "finish", loc'[p] = loc[p],
         UNCHANGED slotVars, pool' = pool, handles' = handles, highTasks' = highTasks, node' = node,
         tasks' = tasks, Alone(p), Only(p)
  PROVE  IInv'
<1>1. Runs(p) /\ HasList(p)
  BY DEF Runs, HasList, Executing
<1>2. /\ \A q \in Procs : Runs(q) => q = p
      /\ \A q \in Procs : InPass(q) => q = p
      /\ \A n \in Nodes : ranks[n] <= ranks[head]
      /\ \A n \in Nodes : ranks[n] > 0 /\ ~node[n].iterated => FirstRank(p) <= ranks[n]
      /\ \A q \in Procs : pc[q] \notin Closed
      /\ head \in Nodes /\ head # NULL
  BY <1>1, RunnerFacts
<1>3. FirstRank(p) = ranks[head] /\ LastRank(p) = ranks[head] /\ ranks[head] > 0
      /\ ranks[head] \in Nat
  BY <1>1, ListFacts DEF FirstRank, LastRank
<1>4. \A q \in Procs : ~Runs(q)'
  BY <1>2 DEF Runs, Alone, Executing
<1>5. NodesKept /\ LinksKept /\ TasksKept
  BY SameNodes
<1>6. \A q \in Procs : Keeps(q) /\ Still(q)
  BY DEF Keeps, Still, Alone, Quiet, Closed
<1>7. NodePart' /\ ranks' = ranks /\ \A q \in Procs, n \in Nodes : Owns(q, n)' <=> Owns(q, n)
  BY <1>5, <1>6, KeepNodes, OldHandles
<1>8. SlotPart'
  BY <1>6, SlotFrame DEF IInv
<1>9. \A q \in Procs : HasList(q)' => HasList(q) /\ loc'[q] = loc[q] /\ FirstRank(q)' = FirstRank(q)
  BY <1>1, <1>7 DEF HasList, Alone, FirstRank
<1>10. HeadInv' /\ ChainInv'
  BY <1>4 DEF HeadInv, ChainInv
<1>11. ListInv'
  BY <1>7, <1>9 DEF IInv, QueuePart, ListInv
<1>12. LinkInv'
  <2>1. ASSUME NEW q \in Procs, pc'[q] = "link" PROVE FALSE
    <3>1. pc[q] = "link"
      BY <2>1 DEF Alone
    <3>2. loc[q].node \in Nodes /\ ranks[loc[q].node] > LastRank(p)
      BY <1>1, <3>1 DEF IInv, QueuePart, LinkInv
    <3>3. ranks[loc[q].node] \in Nat /\ ranks[loc[q].node] <= ranks[head]
      BY <1>2, <3>2, RankFacts
    <3> QED
      BY <1>3, <3>2, <3>3
  <2> QED
    BY <2>1 DEF LinkInv
<1>13. SweepInv' /\ FrontInv' /\ PassInv'
  BY <1>4 DEF SweepInv, SweepOf, FrontInv, FrontOf, PassInv, PassOf, Runs, Executing
<1>14. FinishInv'
  <2> SUFFICES ASSUME NEW q \in Procs, pc'[q] = "finish"
               PROVE  /\ Len(loc'[q].list) = 1 /\ node'[loc'[q].list[1]].iterated
                      /\ \A s \in Procs : pc'[s] = "finish" /\ s # q =>
                             loc'[s].list[1] # loc'[q].list[1]
    BY <1>4 DEF FinishInv
  <2>1. \A s \in Procs : s # p /\ pc'[s] = "finish" =>
           /\ pc[s] = "finish" /\ loc'[s] = loc[s]
           /\ Len(loc[s].list) = 1 /\ node[loc[s].list[1]].iterated
           /\ FirstRank(s) < FirstRank(p)
    BY <1>1 DEF Alone, IInv, QueuePart, FinishInv
  <2>2. \A s \in Procs : s # p /\ pc'[s] = "finish" => loc[s].list[1] # loc[p].list[1]
    BY <1>3, <2>1 DEF FirstRank
  <2>3. \A s, u \in Procs : s # p /\ u # p /\ s # u /\ pc'[s] = "finish" /\ pc'[u] = "finish" =>
           loc[s].list[1] # loc[u].list[1]
    BY <2>1 DEF IInv, QueuePart, FinishInv
  <2> QED
    BY <2>1, <2>2, <2>3
<1>15. LiveInv'
  <2> SUFFICES ASSUME NEW n \in Nodes, ranks[n] > 0, ~node[n].iterated PROVE FALSE
    BY <1>7 DEF LiveInv
  <2>1. ranks[n] = ranks[head]
    <3>1. ranks[n] \in Nat /\ FirstRank(p) <= ranks[n] /\ ranks[n] <= ranks[head]
      BY <1>2, RankFacts
    <3> QED
      BY <1>3, <3>1
  <2>2. n = head
    BY <1>2, <1>3, <2>1, RankFacts
  <2> QED
    BY <2>2
<1>16. Waiting' = Waiting /\ (\A q \in Procs : ~InPass(q)') /\ (\A q \in Procs : ~InPass(q))
  <2>1. \A q \in Procs, n \in Nodes : (Owns(q, n)' => pc'[q] # "count_high") <=>
            (Owns(q, n) => pc[q] # "count_high")
    BY <1>7 DEF Alone
  <2>2. Waiting' = Waiting
    BY <2>1 DEF Waiting
  <2>3. \A q \in Procs : ~InPass(q)
    BY <1>2 DEF InPass, Pass
  <2>4. \A q \in Procs : ~InPass(q)'
    BY <2>3 DEF InPass, Alone, Pass
  <2> QED
    BY <2>2, <2>3, <2>4
<1>17. CountInv' /\ LateInv' /\ InOrder'
  BY <1>16 DEF IInv, CountPart, CountInv, LateInv, InOrder, InPass, Pass
<1>18. /\ vref' = vref /\ thisId' = thisId /\ joinButex' = joinButex /\ slot' = slot
       /\ stopRuns' = stopRuns
       /\ (Recycled' <=> Recycled) /\ RunStops' = RunStops
  BY DEF slotVars, Recycled, RunStops
<1>19. \A q \in Procs : ~Closing(q)'
  BY <1>2 DEF Closing, Alone, Closed
<1>20. StopNodeInv' /\ ClosingInv' /\ UnusedInv'
  BY <1>18, <1>19 DEF IInv, StopPart, StopNodeInv, ClosingInv, UnusedInv
<1>21. DestroyInv'
  BY <1>9, <1>18 DEF IInv, StopPart, DestroyInv, HasList, Alone
<1>22. TypeInv'
  <2>1. p \in Callers => pc'[p] \in CallerLabels
    BY DEF CallerLabels
  <2>2. p \in Fibers => pc'[p] \in FiberLabels
    BY DEF FiberLabels
  <2>3. loc'[p] \in Local
    BY DEF IInv, TypeInv, LocalType
  <2>4. LocalType'
    BY <2>1, <2>2, <2>3, OnlyType DEF IInv, TypeInv
  <2> QED
    BY <2>4 DEF IInv, TypeInv, TypeOK, HistoryType, slotVars
<1> QED
  BY <1>7, <1>8, <1>10, <1>11, <1>12, <1>13, <1>14, <1>15, <1>17, <1>20, <1>21, <1>22
     DEF IInv, QueuePart, CountPart, StopPart

\* The CAS of _more_tasks(), failed or not, preserves the invariant: it succeeds only
\* if nothing was pushed.
LEMMA MoreTasksStep ==
  ASSUME IInv, NEW p \in Procs, MoreTasks(p)
  PROVE  IInv'
<1>1. /\ pc[p] = "more" /\ Runs(p) /\ HasList(p) /\ loc[p] \in Local /\ UNCHANGED slotVars
      /\ pool' = pool
      /\ handles' = handles /\ highTasks' = highTasks /\ node' = node /\ tasks' = tasks
  BY DEF MoreTasks, Runs, HasList, Executing, IInv, TypeInv, LocalType, history, slotVars
<1>2. PICK l, tail : l = loc[p].list /\ tail = l[Len(l)]
  OBVIOUS
<1>3. Head(l) = l[1] /\ l[1] \in Nodes /\ tail \in Nodes /\ LastRank(p) = ranks[tail]
      /\ ranks[tail] > 0
  BY <1>1, <1>2, ListFacts DEF LastRank
<1>4. head \in Nodes /\ (\A n \in Nodes : ranks[n] <= ranks[head])
  BY <1>1, RunnerFacts
<1>5. loc[p].destroy => node[l[1]].iterated /\ head = tail
  <2> SUFFICES ASSUME loc[p].destroy PROVE node[l[1]].iterated /\ head = tail
    OBVIOUS
  <2>1. Len(l) = 1 /\ node[l[1]].stopTask /\ node[l[1]].iterated
    BY <1>1, <1>2 DEF IInv, StopPart, DestroyInv
  <2>2. ranks[tail] = Len(tasks) + 1
    BY <1>2, <1>3, <2>1, RankFacts
  <2>3. ranks[head] = ranks[tail]
    <3>1. ranks[head] \in Nat /\ ranks[head] <= Len(tasks) + 1 /\ ranks[tail] <= ranks[head]
          /\ Len(tasks) \in Nat
      BY <1>3, <1>4, RankFacts
    <3> QED
      BY <2>2, <3>1
  <2>4. head = tail
    BY <1>3, <1>4, <2>3, RankFacts
  <2> QED
    BY <2>1, <2>4
<1>6. \/ head = tail /\ ~node[l[1]].iterated /\ Goto(p, Again(p), loc[p]) /\ head' = head
      \/ /\ head = tail /\ node[l[1]].iterated /\ head' = NULL
         /\ Goto(p, IF Len(l) = 1 THEN "finish" ELSE "check_failed", loc[p])
      \/ head # tail /\ Goto(p, "sweep", [loc[p] EXCEPT !.newHead = head]) /\ head' = head
  BY <1>2, <1>3, Zenon DEF MoreTasks
<1>7. CASE head = tail /\ ~node[l[1]].iterated /\ Goto(p, Again(p), loc[p]) /\ head' = head
  <2>1. pc'[p] = Again(p) /\ loc'[p] = loc[p] /\ Alone(p) /\ Only(p)
    BY <1>7, GotoFacts DEF IInv, TypeInv
  <2>2. ~loc[p].destroy /\ ~node[loc[p].list[1]].iterated /\ head' = head
    BY <1>2, <1>5, <1>7
  <2>3. loc'[p] \in Local
    BY <1>1, <2>1
  <2> QED
    BY <1>1, <2>1, <2>2, <2>3, MoreTasksStays
<1>8. CASE /\ head = tail /\ node[l[1]].iterated /\ head' = NULL
           /\ Goto(p, IF Len(l) = 1 THEN "finish" ELSE "check_failed", loc[p])
  <2>1. Len(l) = 1
    BY <1>1, <1>2, <1>8 DEF IInv, QueuePart, FrontInv, FrontOf
  <2>2. pc'[p] = "finish" /\ loc'[p] = loc[p] /\ Alone(p) /\ Only(p)
    BY <1>8, <2>1, GotoFacts DEF IInv, TypeInv
  <2> QED
    BY <1>1, <1>2, <1>8, <2>1, <2>2, MoreTasksEnds
<1>9. CASE head # tail /\ Goto(p, "sweep", [loc[p] EXCEPT !.newHead = head]) /\ head' = head
  <2> DEFINE r == [loc[p] EXCEPT !.newHead = head]
  <2>1. /\ r \in Local /\ r.list = loc[p].list /\ r.handle = loc[p].handle /\ r.derefs = loc[p].derefs
        /\ r.destroy = loc[p].destroy /\ r.newHead = head
    <3>1. r \in Local
      BY <1>1, <1>4, Zenon DEF Local
    <3> QED
      BY <1>1, <3>1 DEF Local
  <2>2. Goto(p, "sweep", r)
    BY <1>9
  <2> HIDE DEF r
  <2>3. pc'[p] = "sweep" /\ loc'[p] = r /\ Alone(p) /\ Only(p)
    BY <2>2, GotoFacts DEF IInv, TypeInv
  <2>4. ranks[head] > LastRank(p)
    <3>1. ranks[head] # ranks[tail]
      BY <1>3, <1>4, <1>9, RankFacts
    <3>2. ranks[tail] <= ranks[head] /\ ranks[head] \in Nat /\ ranks[tail] \in Nat
      BY <1>3, <1>4, RankFacts
    <3> QED
      BY <1>3, <3>1, <3>2
  <2> QED
    BY <1>1, <1>2, <1>4, <1>5, <1>9, <2>1, <2>3, <2>4, MoreTasksStays
<1> QED
  BY <1>6, <1>7, <1>8, <1>9

\* What an executor knows of the nodes of its list.
LEMMA SameFront ==
  ASSUME IInv, NEW q \in Procs, pc'[q] = pc[q], loc'[q] = loc[q], HasList(q),
         \A i \in 1..Len(loc[q].list) : /\ node'[loc[q].list[i]].iterated = node[loc[q].list[i]].iterated
                                        /\ node'[loc[q].list[i]].high = node[loc[q].list[i]].high
  PROVE  FrontOf(q)' /\ PassOf(q)'
<1>1. PICK l : l = loc[q].list
  OBVIOUS
<1>2. PICK c : c = loc[q].cur
  OBVIOUS
<1>3. /\ Len(l) \in Nat /\ Len(l) > 0
      /\ \A i \in 1..Len(l) : node'[l[i]].iterated = node[l[i]].iterated
         /\ node'[l[i]].high = node[l[i]].high
  BY <1>1, ListFacts
<1>4. FrontOf(q)'
  <2>1. FrontOf(q)
    BY DEF IInv, QueuePart, FrontInv
  <2>2. 1 \in 1..Len(l) /\ (Len(l) > 1 => 2 \in 1..Len(l))
    BY <1>3
  <2> QED
    BY <1>1, <1>3, <2>1, <2>2 DEF FrontOf
<1>5. /\ pc[q] = "begin" => c = 1 /\ loc[q].niterated = 0
      /\ pc[q] = "advance" => c \in 1..Len(l) /\ node[l[c]].iterated
      /\ pc[q] = "scan" => c \in 1..(Len(l) + 1)
      /\ pc[q] \in {"advance", "scan"} => \A i \in 1..(c - 1) : node[l[i]].high = loc[q].high =>
             node[l[i]].iterated
  BY <1>1, <1>2 DEF IInv, QueuePart, PassInv, PassOf
<1>6. pc[q] \in {"scan", "advance"} => \A i \in 1..(c - 1) : i \in 1..Len(l)
  <2>1. PICK k : k = Len(l)
    OBVIOUS
  <2>2. k \in Nat /\ (pc[q] \in {"scan", "advance"} => c \in 1..(k + 1))
    BY <1>3, <1>5, <2>1
  <2>3. pc[q] \in {"scan", "advance"} => \A i \in 1..(c - 1) : i \in 1..k
    BY <2>2
  <2> QED
    BY <2>1, <2>3
<1>7. PassOf(q)'
  <2>1. pc[q] = "advance" => node'[l[c]].iterated
    BY <1>3, <1>5
  <2>2. pc[q] \in {"advance", "scan"} => \A i \in 1..(c - 1) : node'[l[i]].high = loc[q].high =>
            node'[l[i]].iterated
    BY <1>3, <1>5, <1>6
  <2> QED
    BY <1>1, <1>2, <1>5, <2>1, <2>2 DEF PassOf
<1> QED
  BY <1>4, <1>7

\* The end of an incarnation: the stop task was executed and its node returned.
LEMMA ClosedFacts ==
  ASSUME IInv, NEW f \in Procs, pc[f] \in Closed
  PROVE  /\ Recycled /\ head = NULL /\ thisId \in RunStops /\ stopped
         /\ joinButex = (IF pc[f] = "destroy" THEN thisId ELSE thisId + 2)
         /\ \A q \in Procs : Closing(q) => q = f
         /\ \A n \in Nodes : ~node[n].stopTask
         /\ \A q \in Procs : HasList(q) => ~loc[q].destroy
<1>1. Closing(f)
  BY DEF Closing
<1>2. Recycled /\ head = NULL /\ thisId \in RunStops /\ (\A q \in Procs : Closing(q) => q = f)
  BY <1>1 DEF IInv, StopPart, ClosingInv
<1>3. joinButex = (IF pc[f] = "destroy" THEN thisId ELSE thisId + 2)
  BY <1>1 DEF IInv, StopPart, ClosingInv
<1>4. stopped
  BY <1>2 DEF IInv, SlotPart, StoppedInv
<1>5. \A n \in Nodes : ~node[n].stopTask
  BY <1>1 DEF IInv, StopPart, StopNodeInv
<1>6. ASSUME NEW q \in Procs, HasList(q), loc[q].destroy PROVE FALSE
  <2>1. node[loc[q].list[1]].stopTask
    BY <1>6 DEF IInv, StopPart, DestroyInv
  <2>2. loc[q].list[1] \in Nodes
    BY <1>6, ListFacts
  <2> QED
    BY <1>5, <2>1, <2>2
<1> QED
  BY <1>2, <1>3, <1>4, <1>5, <1>6

\* A step after the stop task, at which the queue is empty and nobody else is at the
\* slot.
LEMMA ClosedStep ==
  ASSUME IInv, NEW f \in Procs, pc[f] \in Closed, TypeInv', SlotPart', UNCHANGED queueView,
         \A q \in Procs : Apart(q), stopRuns' = stopRuns, thisId' = thisId,
         \/ /\ vref' = vref /\ slot' = slot /\ joinButex' = thisId + 2 /\ pc'[f] # "destroy"
            /\ \A q \in Procs : Closing(q)' => q = f
         \/ \A q \in Procs : ~Closing(q)'
  PROVE  IInv'
<1>1. /\ Recycled /\ head = NULL /\ thisId \in RunStops /\ (\A q \in Procs : Closing(q) => q = f)
      /\ \A n \in Nodes : ~node[n].stopTask
      /\ \A q \in Procs : HasList(q) => ~loc[q].destroy
  BY ClosedFacts
<1>2. head' = head /\ node' = node /\ tasks' = tasks
  BY DEF queueView
<1>3. NodePart' /\ QueuePart' /\ CountPart'
  BY QuietFrame DEF IInv
<1>4. RunStops' = RunStops
  BY DEF RunStops
<1>5. StopNodeInv'
  BY <1>1, <1>2 DEF StopNodeInv
<1>6. ClosingInv'
  <2>1. CASE \A q \in Procs : ~Closing(q)'
    BY <2>1 DEF ClosingInv
  <2>2. CASE /\ vref' = vref /\ slot' = slot /\ joinButex' = thisId + 2 /\ pc'[f] # "destroy"
             /\ \A q \in Procs : Closing(q)' => q = f
    <3>1. Recycled'
      BY <1>1, <2>2 DEF Recycled
    <3> QED
      BY <1>1, <1>2, <1>4, <2>2, <3>1 DEF ClosingInv
  <2> QED
    BY <2>1, <2>2
<1>7. DestroyInv'
  <2>1. ASSUME NEW q \in Procs, HasList(q)', loc'[q].destroy PROVE FALSE
    <3>1. HasList(q)
      BY <2>1, ApartFacts
    <3>2. pc[q] \notin Quiet \cup Closed
      BY <3>1 DEF HasList, Quiet, Closed, Executing
    <3>3. loc'[q] = loc[q]
      BY <3>2 DEF Apart
    <3> QED
      BY <1>1, <2>1, <3>1, <3>3
  <2> QED
    BY <2>1 DEF DestroyInv
<1>8. UnusedInv'
  BY <1>1, <1>2, <1>4 DEF IInv, StopPart, UnusedInv
<1> QED
  BY <1>3, <1>5, <1>6, <1>7, <1>8 DEF IInv, StopPart

\* The new value of _join_butex preserves the invariant.
LEMMA DestroyStep ==
  ASSUME IInv, NEW f \in Fibers, Destroy(f)
  PROVE  IInv'
<1>1. f \in Procs /\ pc[f] = "destroy" /\ pc[f] \in Closed /\ loc[f] \in Local
  BY DEF Procs, Destroy, Closed, IInv, TypeInv, LocalType
<1>2. Recycled /\ head = NULL /\ thisId \in RunStops /\ stopped /\ joinButex = thisId
      /\ (\A q \in Procs : Closing(q) => q = f)
  BY <1>1, ClosedFacts
<1>3. joinButex' = joinButex + 2 /\ Goto(f, "wake_joiners", loc[f])
  BY <1>2 DEF Destroy
<1>4. pc'[f] = "wake_joiners" /\ loc'[f] = loc[f] /\ Alone(f) /\ Only(f)
  BY <1>1, <1>3, GotoFacts DEF IInv, TypeInv
<1>5. UNCHANGED <<vref, stopped, thisId, slot, ids, stopRuns, joined>> /\ UNCHANGED queueView
  BY DEF Destroy, queueView, history
<1>6. \A q \in Procs : Apart(q) /\ Still(q) /\ (Closing(q)' => q = f)
  BY <1>1, <1>2, <1>4 DEF Apart, Still, Alone, Closed, Closing
<1>7. SlotPart'
  BY <1>2, <1>3, <1>5, <1>6, SlotDestroy DEF IInv
<1>8. TypeInv'
  <2>1. LocalType'
    <3>1. f \in Callers => pc'[f] \in CallerLabels
      BY DistinctAssumption
    <3>2. f \in Fibers => pc'[f] \in FiberLabels
      BY <1>4 DEF FiberLabels, Closed
    <3> QED
      BY <1>1, <1>4, <3>1, <3>2, OnlyType DEF IInv, TypeInv
  <2>2. joinButex' \in Nat
    BY <1>3 DEF IInv, TypeInv, TypeOK
  <2> QED
    BY <1>5, <2>1, <2>2 DEF IInv, TypeInv, TypeOK, HistoryType, queueView
<1> QED
  BY <1>1, <1>2, <1>3, <1>4, <1>5, <1>6, <1>7, <1>8, ClosedStep

\* Waking the joiners preserves the invariant.
LEMMA WakeJoinersStep ==
  ASSUME IInv, NEW f \in Fibers, WakeJoiners(f)
  PROVE  IInv'
<1>1. f \in Procs /\ pc[f] = "wake_joiners" /\ pc[f] \in Closed
  BY DEF Procs, WakeJoiners, Closed
<1>2. joinButex = thisId + 2 /\ (\A q \in Procs : Closing(q) => q = f)
  BY <1>1, ClosedFacts
<1>3. UNCHANGED <<slotVars, queueView>> /\ loc' = loc
  BY DEF WakeJoiners, queueView, history, slotVars, queueVars
<1>4. ASSUME NEW q \in Procs
      PROVE  /\ pc'[q] = IF q = f THEN "return_slot" ELSE IF pc[q] = "join_wait" THEN "join" ELSE pc[q]
             /\ loc'[q] = loc[q]
  BY <1>3 DEF WakeJoiners
<1>5. \A q \in Procs : Apart(q) /\ (Closing(q)' => q = f)
  BY <1>1, <1>2, <1>4 DEF Apart, Closed, Closing, Quiet
<1>6. SlotPart'
  BY SlotWakeJoiners DEF IInv
<1>7. TypeInv'
  <2>1. pc' = [q \in Procs |-> pc'[q]]
    BY DEF WakeJoiners
  <2>2. \A c \in Callers : pc'[c] \in CallerLabels
    <3> SUFFICES ASSUME NEW c \in Callers PROVE pc'[c] \in CallerLabels
      OBVIOUS
    <3>1. c \in Procs /\ c # f /\ pc[c] \in CallerLabels
      BY DistinctAssumption DEF Procs, IInv, TypeInv, LocalType
    <3> QED
      BY <1>4, <3>1 DEF CallerLabels, Quiet
  <2>3. \A g \in Fibers : pc'[g] \in FiberLabels
    <3> SUFFICES ASSUME NEW g \in Fibers PROVE pc'[g] \in FiberLabels
      OBVIOUS
    <3>1. g \in Procs /\ pc[g] \in FiberLabels
      BY DEF Procs, IInv, TypeInv, LocalType
    <3>2. pc[g] # "join_wait"
      BY <3>1 DEF FiberLabels, Pass, Closed
    <3> QED
      BY <1>4, <3>1, <3>2 DEF FiberLabels, Closed
  <2>4. \A q \in Procs : pc'[q] \in CallerLabels \cup FiberLabels
    BY <2>2, <2>3 DEF Procs
  <2>5. LocalType'
    BY <1>3, <2>1, <2>2, <2>3, <2>4 DEF IInv, TypeInv, LocalType
  <2> QED
    BY <1>3, <2>5 DEF IInv, TypeInv, TypeOK, HistoryType, queueView, slotVars
<1>8. stopRuns' = stopRuns /\ thisId' = thisId /\ vref' = vref /\ slot' = slot
      /\ joinButex' = thisId + 2 /\ pc'[f] # "destroy"
  BY <1>1, <1>2, <1>3, <1>4 DEF slotVars
<1> QED
  BY <1>1, <1>3, <1>5, <1>6, <1>7, <1>8, ClosedStep

\* The return of the slot to the pool preserves the invariant.
LEMMA ReturnSlotStep ==
  ASSUME IInv, NEW f \in Fibers, ReturnSlot(f)
  PROVE  IInv'
<1>1. f \in Procs /\ pc[f] = "return_slot" /\ pc[f] \in Closed
  BY DEF Procs, ReturnSlot, Closed
<1>2. Recycled /\ thisId \in RunStops /\ joinButex = thisId + 2
      /\ (\A q \in Procs : Closing(q) => q = f)
  BY <1>1, ClosedFacts
<1>3. pc'[f] = "idle" /\ loc'[f] = Blank /\ Alone(f) /\ Only(f)
  <2>1. Goto(f, "idle", Blank)
    BY DEF ReturnSlot, Return
  <2> QED
    BY <1>1, <2>1, GotoFacts DEF IInv, TypeInv
<1>4. UNCHANGED <<vref, stopped, thisId, joinButex, ids, stopRuns, joined>> /\ UNCHANGED queueView
      /\ slot' = "pooled"
  BY DEF ReturnSlot, queueView, history
<1>5. \A q \in Procs : Apart(q) /\ ~Closing(q)'
  BY <1>1, <1>2, <1>3 DEF Apart, Alone, Closed, Closing, Quiet
<1>6. SlotPart'
  BY <1>2, SlotReturnSlot DEF IInv
<1>7. TypeInv'
  <2>1. LocalType'
    <3>1. f \in Callers => pc'[f] \in CallerLabels
      BY DistinctAssumption
    <3>2. f \in Fibers => pc'[f] \in FiberLabels
      BY <1>3 DEF FiberLabels
    <3> QED
      BY <1>1, <1>3, <3>1, <3>2, OnlyType, BlankFacts DEF IInv, TypeInv
  <2> QED
    BY <1>4, <2>1 DEF IInv, TypeInv, TypeOK, HistoryType, queueView
<1> QED
  BY <1>1, <1>4, <1>5, <1>6, <1>7, ClosedStep

\* Iterated nodes go back to the pool.
Returns(ns) == /\ ns \subseteq Nodes /\ ReturnNodes(ns)
               /\ \A n \in ns : ranks[n] > 0 /\ node[n].iterated
RanksWithout(ns) == \A n \in Nodes : /\ n \in ns =>
                                            ranks'[n] = 0 /\ ~node'[n].iterated /\ ~node'[n].high
                                     /\ n \notin ns => ranks'[n] = ranks[n] /\ node'[n] = node[n]

\* A node that goes back to the pool has a new version.
LEMMA ReturnedNode ==
  ASSUME IInv, NEW ns, Returns(ns), NEW n \in Nodes
  PROVE  /\ n \notin ns => node'[n] = node[n]
         /\ n \in ns => /\ node'[n] = [FreeNode EXCEPT !.version = node[n].version + 1]
                        /\ node'[n].version = node[n].version + 1 /\ node'[n].task = 0
                        /\ ~node'[n].stopTask
                        /\ ~node'[n].high /\ ~node'[n].iterated
         /\ node'[n] \in Node
<1>1. node[n] \in Node /\ node[n].version \in Nat /\ node[n].version + 1 \in Nat
  <2>1. node[n] \in Node
    BY UnchangedTypes
  <2> QED
    BY <2>1 DEF Node
<1>2. node'[n] = IF n \in ns THEN [FreeNode EXCEPT !.version = node[n].version + 1] ELSE node[n]
  BY DEF Returns, ReturnNodes
<1> DEFINE v == node[n].version + 1
<1>3. v \in Nat
  BY <1>1
<1> HIDE DEF v
<1> DEFINE x == [FreeNode EXCEPT !.version = v]
<1>4. /\ x.version = v /\ x.task = 0 /\ x.stopTask = FALSE /\ x.high = FALSE /\ x.iterated = FALSE
      /\ x \in Node
  BY <1>3 DEF Node, FreeNode
<1>5. n \in ns => node'[n] = x
  BY <1>2 DEF v
<1> HIDE DEF x
<1> QED
  BY <1>1, <1>2, <1>4, <1>5 DEF v

\* Nodes that go back to the pool: the others keep their ranks, and no handle fits
\* them any more.
LEMMA ReturnedFacts ==
  ASSUME IInv, NEW ns, Returns(ns), tasks' = tasks,
         \A h \in handles' : h \in Handle /\ ValidHandle(h),
         \A q \in Procs : Keeps(q)
  PROVE  /\ node' \in [Nodes -> Node] /\ pool' \subseteq Nodes
         /\ \A q \in Procs, n \in Nodes : Owns(q, n)' <=> Owns(q, n)
         /\ RanksWithout(ns) /\ Waiting' = Waiting /\ NodePart'
<1>1. node' \in [Nodes -> Node]
  <2>1. DOMAIN node' = Nodes /\ node' = [m \in Nodes |-> node'[m]]
    BY DEF Returns, ReturnNodes
  <2> QED
    BY <2>1, ReturnedNode
<1>2. pool' = pool \cup ns /\ pool' \subseteq Nodes /\ ns \subseteq Nodes
  BY DEF Returns, ReturnNodes, IInv, TypeInv, TypeOK
<1>3. \A q \in Procs : \A n : Owns(q, n)' <=> Owns(q, n)
  BY DEF Owns, Keeps
<1>4. \A q \in Procs, n \in Nodes : Owns(q, n) => n \notin ns /\ pc'[q] = pc[q] /\ loc'[q] = loc[q]
  <2>1. \A q \in Procs, n \in Nodes : Owns(q, n) => n \notin ns
    BY RankFacts DEF Returns
  <2> QED
    BY <2>1 DEF Owns, Keeps
<1>5. \A n \in Nodes : /\ n \notin ns => node'[n] = node[n]
                       /\ n \in ns => /\ node'[n].version = node[n].version + 1 /\ node'[n].task = 0
                                      /\ ~node'[n].stopTask /\ ~node'[n].high /\ ~node'[n].iterated
  BY ReturnedNode
<1>6. RanksWithout(ns)
  <2> SUFFICES ASSUME NEW n \in Nodes
               PROVE  /\ n \in ns => ranks'[n] = 0
                      /\ n \notin ns => ranks'[n] = ranks[n]
    BY <1>5 DEF RanksWithout
  <2>1. ranks'[n] = IF node'[n].task > 0 THEN node'[n].task
                    ELSE IF node'[n].stopTask /\ \A p \in Procs : ~Owns(p, n)'
                           THEN Len(tasks') + 1 ELSE 0
    BY DEF ranks
  <2>2. ranks[n] = IF node[n].task > 0 THEN node[n].task
                   ELSE IF node[n].stopTask /\ \A p \in Procs : ~Owns(p, n)
                          THEN Len(tasks) + 1 ELSE 0
    BY DEF ranks
  <2>3. n \in ns => ranks'[n] = 0
    BY <1>5, <2>1
  <2>4. n \notin ns => ranks'[n] = ranks[n]
    BY <1>3, <1>5, <2>1, <2>2
  <2> QED
    BY <2>3, <2>4
<1>7. Waiting' = Waiting
  <2>1. \A n \in Nodes : n \in ns => node[n].iterated
    BY DEF Returns
  <2>2. \A q \in Procs, n \in Nodes : (Owns(q, n)' => pc'[q] # "count_high") <=>
            (Owns(q, n) => pc[q] # "count_high")
    BY <1>3, <1>4
  <2> QED
    BY <1>5, <2>1, <2>2 DEF Waiting
<1>8. OwnerInv'
  <2>1. \A p \in Procs : pc'[p] \in {"count_high", "exchange"} => pc'[p] = pc[p] /\ loc'[p] = loc[p]
    BY DEF Keeps
  <2>2. \A p \in Procs, n \in Nodes : Owns(p, n) => n \notin pool /\ n \notin pool'
    BY <1>2, <1>4 DEF IInv, NodePart, OwnerInv
  <2>3. OwnerInv
    BY DEF IInv, NodePart
  <2>4. \A p \in Procs : pc'[p] \in {"count_high", "exchange"} => loc'[p].node \in Nodes
    BY <2>1, <2>3 DEF OwnerInv
  <2>5. ASSUME NEW p \in Procs, NEW n \in Nodes, Owns(p, n)'
        PROVE  /\ n \notin pool' /\ node'[n].task = 0 /\ ~node'[n].iterated
               /\ node'[n].status = "UNEXECUTED"
               /\ node'[n].next = UNCONNECTED
               /\ pc'[p] = "count_high" => ~node'[n].stopTask /\ node'[n].high
               /\ loc'[p].derefs = 1 \/ (loc'[p].derefs = 0 /\ node'[n].stopTask)
    <3>1. Owns(p, n) /\ node'[n] = node[n] /\ pc'[p] = pc[p] /\ loc'[p] = loc[p] /\ n \notin pool'
      BY <1>3, <1>4, <1>5, <2>2, <2>5
    <3> QED
      BY <2>3, <3>1 DEF OwnerInv
  <2>6. \A p, q \in Procs, n \in Nodes : Owns(p, n)' /\ Owns(q, n)' => p = q
    BY <1>3, <2>3 DEF OwnerInv
  <2> QED
    BY <2>4, <2>5, <2>6 DEF OwnerInv
<1>9. NodeInv'
  <2> SUFFICES ASSUME NEW n \in Nodes
               PROVE  /\ n \in pool' => node'[n].task = 0 /\ ~node'[n].stopTask /\ ~node'[n].high
                         /\ ~node'[n].iterated
                      /\ node'[n].iterated => node'[n].status # "UNEXECUTED" /\ ranks'[n] > 0
                      /\ node'[n].task > 0 => ~node'[n].stopTask
                      /\ node'[n].high /\ node'[n].task = 0 => \E p \in Procs : Owns(p, n)'
    BY DEF NodeInv
  <2>1. CASE n \in ns
    BY <1>5, <2>1
  <2>2. CASE n \notin ns
    <3>1. node'[n] = node[n] /\ ranks'[n] = ranks[n] /\ (n \in pool' <=> n \in pool)
      BY <1>2, <1>6, <2>2 DEF RanksWithout
    <3> QED
      BY <1>3, <3>1 DEF IInv, NodePart, NodeInv
  <2> QED
    BY <2>1, <2>2
<1>10. TaskInv'
  <2>1. \A n \in Nodes : node'[n].task > 0 => n \notin ns /\ node'[n] = node[n]
    BY <1>5
  <2>2. ASSUME NEW t \in DOMAIN tasks, tasks[t].fate = "pending"
        PROVE  \E n \in Nodes : node'[n].task = t
    <3>1. PICK n \in Nodes : node[n].task = t /\ ~node[n].iterated
      BY <2>2, PendingFacts
    <3>2. n \notin ns
      BY <3>1 DEF Returns
    <3> QED
      BY <1>5, <3>1, <3>2
  <2>3. TaskInv
    BY DEF IInv, NodePart
  <2>4. \A n \in Nodes : node'[n].task > 0 =>
         /\ node'[n].task <= Len(tasks)
         /\ tasks[node'[n].task].high = node'[n].high
         /\ (node'[n].status = "UNEXECUTED" <=> tasks[node'[n].task].fate = "pending")
    BY <2>1, <2>3 DEF TaskInv
  <2>5. \A m, n \in Nodes : node'[n].task > 0 /\ node'[m].task = node'[n].task => m = n
    BY <2>1, <2>3 DEF TaskInv
  <2>6. \A t \in DOMAIN tasks : tasks[t].fate # "repeated"
    BY <2>3 DEF TaskInv
  <2> QED
    BY <2>2, <2>4, <2>5, <2>6 DEF TaskInv
<1>11. HandleInv'
  <2>1. ASSUME NEW h \in Handle, ValidHandle(h)
        PROVE  /\ h.task \in 1..Len(tasks') /\ h.version <= node'[h.node].version
               /\ h.version = node'[h.node].version => node'[h.node].task = h.task
    <3>1. h.node \in Nodes /\ h.version \in Nat /\ h.task \in 1..Len(tasks)
          /\ h.version <= node[h.node].version
          /\ (h.version = node[h.node].version => node[h.node].task = h.task)
      BY <2>1 DEF Handle, ValidHandle
    <3>2. node[h.node].version \in Nat
      BY <3>1 DEF IInv, TypeInv, TypeOK
    <3>3. CASE h.node \notin ns
      BY <1>5, <3>1, <3>3
    <3>4. CASE h.node \in ns
      BY <1>5, <3>1, <3>2, <3>4
    <3> QED
      BY <3>3, <3>4
  <2>2. \A h \in handles' : ValidHandle(h)'
    BY <2>1 DEF ValidHandle
  <2>3. ASSUME NEW p \in Procs, pc'[p] \notin Quiet \cup Closed, loc'[p].handle # NULL
        PROVE  ValidHandle(loc'[p].handle)
    BY <2>3 DEF Keeps, IInv, NodePart, HandleInv
  <2>4. ASSUME NEW p \in Procs, pc'[p] \notin Quiet \cup Closed, NEW h, h = loc'[p].handle, h # NULL
        PROVE  ValidHandle(h)'
    <3>1. h \in Handle
      <4>1. loc[p].handle \in Handle \cup {NULL}
        BY DEF IInv, TypeInv, LocalType, Local
      <4> QED
        BY <2>4, <4>1 DEF Keeps
    <3> QED
      BY <2>1, <2>3, <2>4, <3>1 DEF ValidHandle
  <2> QED
    BY <2>2, <2>4 DEF HandleInv
<1> QED
  BY <1>1, <1>2, <1>3, <1>6, <1>7, <1>8, <1>9, <1>10, <1>11 DEF NodePart

\* q goes on with a suffix of its list that is behind the nodes that are returned.
Sheds(q, ns) == \E d \in Nat :
    /\ d < Len(loc[q].list) /\ Len(loc'[q].list) = Len(loc[q].list) - d
    /\ \A i \in 1..Len(loc'[q].list) : loc'[q].list[i] = loc[q].list[i + d]
    /\ \A i \in 1..d : node[loc[q].list[i]].iterated
    /\ \A n \in ns : ranks[n] < FirstRank(q) + d

\* The list of the executor without the nodes at its front.
LEMMA ShedFacts ==
  ASSUME IInv, NEW ns, NEW q \in Procs, HasList(q), Sheds(q, ns), RanksWithout(ns)
  PROVE  /\ Len(loc'[q].list) > 0 /\ FirstRank(q)' >= FirstRank(q) /\ FirstRank(q)' \in Nat
         /\ LastRank(q)' = LastRank(q) /\ FirstRank(q)' <= LastRank(q) /\ LastRank(q) \in Nat
         /\ \A i \in 1..Len(loc'[q].list) : ranks'[loc'[q].list[i]] = FirstRank(q)' + i - 1
         /\ \A n \in ns : ranks[n] < FirstRank(q)'
         /\ \A n \in Nodes : FirstRank(q) <= ranks[n] /\ ~node[n].iterated =>
                FirstRank(q)' <= ranks[n]
<1>1. PICK d \in Nat :
        /\ d < Len(loc[q].list) /\ Len(loc'[q].list) = Len(loc[q].list) - d
        /\ \A i \in 1..Len(loc'[q].list) : loc'[q].list[i] = loc[q].list[i + d]
        /\ \A i \in 1..d : node[loc[q].list[i]].iterated
        /\ \A n \in ns : ranks[n] < FirstRank(q) + d
  BY DEF Sheds
<1>2. PICK k, f, l, m : k = Len(loc[q].list) /\ f = FirstRank(q) /\ l = LastRank(q)
           /\ m = Len(loc'[q].list)
  OBVIOUS
<1>3. /\ k \in Nat /\ k > 0 /\ f \in Nat /\ f > 0 /\ l = f + k - 1
      /\ \A i \in 1..k : loc[q].list[i] \in Nodes /\ ranks[loc[q].list[i]] = f + i - 1
  BY <1>2, ListFacts
<1>4. d < k /\ m = k - d /\ m \in Nat /\ m > 0
  BY <1>1, <1>2, <1>3
<1>5. ASSUME NEW i \in 1..m PROVE ranks'[loc'[q].list[i]] = f + d + i - 1
  <2>1. i + d \in 1..k
    BY <1>3, <1>4
  <2>2. loc'[q].list[i] = loc[q].list[i + d] /\ loc[q].list[i + d] \in Nodes
        /\ ranks[loc[q].list[i + d]] = f + (i + d) - 1
    BY <1>1, <1>2, <1>3, <2>1
  <2>3. loc[q].list[i + d] \notin ns
    <3>1. \A n \in ns : ranks[n] < f + d
      BY <1>1, <1>2
    <3> QED
      BY <1>3, <2>2, <3>1
  <2>4. ranks'[loc[q].list[i + d]] = ranks[loc[q].list[i + d]]
    BY <2>2, <2>3 DEF RanksWithout
  <2>5. f + (i + d) - 1 = f + d + i - 1
    BY <1>3
  <2> QED
    BY <2>2, <2>4, <2>5
<1>6. 1 \in 1..m /\ m \in 1..m
  BY <1>4
<1>7. FirstRank(q)' = f + d
  <2>1. FirstRank(q)' = ranks'[loc'[q].list[1]]
    BY DEF FirstRank
  <2>2. ranks'[loc'[q].list[1]] = f + d + 1 - 1
    BY <1>5, <1>6
  <2>3. f + d + 1 - 1 = f + d
    BY <1>3
  <2> QED
    BY <2>1, <2>2, <2>3
<1>8. LastRank(q)' = l
  <2>1. LastRank(q)' = ranks'[loc'[q].list[m]]
    BY <1>2 DEF LastRank
  <2>2. ranks'[loc'[q].list[m]] = f + d + m - 1
    BY <1>5, <1>6
  <2>3. f + d + m - 1 = l
    BY <1>3, <1>4
  <2> QED
    BY <2>1, <2>2, <2>3
<1>9. ASSUME NEW n \in Nodes, f <= ranks[n], ~node[n].iterated PROVE f + d <= ranks[n]
  <2>1. PICK x : x = ranks[n]
    OBVIOUS
  <2>2. x \in Nat /\ f <= x
    BY <1>9, <2>1, RankFacts
  <2>3. SUFFICES ASSUME x < f + d PROVE FALSE
    BY <1>3, <2>1, <2>2
  <2>4. x <= l
    BY <1>3, <1>4, <2>2, <2>3
  <2>5. loc[q].list[x - f + 1] = n
    BY <1>2, <1>9, <2>1, <2>4, InList
  <2>6. x - f + 1 \in 1..d
    BY <1>3, <2>2, <2>3
  <2> QED
    BY <1>1, <1>9, <2>5, <2>6
<1>10. f + d >= f /\ f + d \in Nat /\ f + d <= l /\ l \in Nat
  BY <1>3, <1>4
<1>11. \A n \in ns : ranks[n] < f + d
  BY <1>1, <1>2
<1> QED
  BY <1>2, <1>4, <1>5, <1>7, <1>8, <1>9, <1>10, <1>11

\* The queue without these nodes.
LEMMA ShedQueue ==
  ASSUME IInv, NEW ns, RanksWithout(ns), head' = head, Len(tasks') = Len(tasks),
         \A q \in Procs : Runs(q)' <=> Runs(q),
         \A q \in Procs : Runs(q) => Sheds(q, ns),
         \A q \in Procs : pc'[q] = "finish" =>
             pc[q] = "finish" /\ loc'[q] = loc[q] /\ loc[q].list[1] \notin ns,
         \A q \in Procs : pc'[q] = "link" => pc[q] = "link" /\ loc'[q] = loc[q]
  PROVE  HeadInv' /\ ListInv' /\ ChainInv' /\ LinkInv' /\ FinishInv' /\ LiveInv'
<1>1. \A q \in Procs : HasList(q)' <=> Runs(q)' \/ pc'[q] = "finish"
  BY DEF HasList, Runs
<1>2. \A q \in Procs : Runs(q) \/ pc[q] = "finish" => HasList(q)
  BY DEF HasList, Runs
<1>3. \A q \in Procs : Runs(q) =>
         /\ Len(loc'[q].list) > 0 /\ FirstRank(q)' >= FirstRank(q) /\ FirstRank(q)' \in Nat
         /\ LastRank(q)' = LastRank(q) /\ FirstRank(q)' <= LastRank(q) /\ LastRank(q) \in Nat
         /\ \A i \in 1..Len(loc'[q].list) : ranks'[loc'[q].list[i]] = FirstRank(q)' + i - 1
         /\ \A n \in ns : ranks[n] < FirstRank(q)'
         /\ \A n \in Nodes : FirstRank(q) <= ranks[n] /\ ~node[n].iterated =>
                FirstRank(q)' <= ranks[n]
  BY <1>2, ShedFacts
<1>4. \A q \in Procs, n \in Nodes : Runs(q) /\ ranks[n] >= LastRank(q) =>
          n \notin ns /\ ranks'[n] = ranks[n] /\ node'[n] = node[n]
  <2> SUFFICES ASSUME NEW q \in Procs, NEW n \in Nodes, Runs(q), ranks[n] >= LastRank(q)
      PROVE  n \notin ns
    BY DEF RanksWithout
  <2>1. FirstRank(q)' \in Nat /\ LastRank(q) \in Nat /\ FirstRank(q)' <= LastRank(q)
        /\ (n \in ns => ranks[n] < FirstRank(q)')
    BY <1>3
  <2>2. ranks[n] \in Nat
    BY RankFacts
  <2> QED
    BY <2>1, <2>2
<1>5. \A n \in Nodes : ranks'[n] \in Nat /\ ranks'[n] <= ranks[n]
      /\ (ranks'[n] > 0 => n \notin ns /\ ranks'[n] = ranks[n] /\ node'[n] = node[n])
  BY RankFacts DEF RanksWithout
<1>6. HeadInv'
  <2>1. \A p, q \in Procs : Runs(p)' /\ Runs(q)' => p = q
    BY DEF IInv, QueuePart, HeadInv
  <2>2. head' = NULL <=> \A p \in Procs : ~Runs(p)'
    BY DEF IInv, QueuePart, HeadInv
  <2>3. ASSUME head # NULL PROVE ranks'[head] > 0 /\ ranks'[head] >= Len(tasks)
               /\ \A n \in Nodes : ranks'[n] <= ranks'[head]
    <3>1. PICK p \in Procs : Runs(p)
      BY <2>3 DEF IInv, QueuePart, HeadInv
    <3>2. head \in Nodes /\ LastRank(p) <= ranks[head]
      BY <3>1, RunnerFacts
    <3>3. ranks[head] \in Nat /\ LastRank(p) \in Nat
      BY <1>3, <3>1, <3>2, RankFacts
    <3>4. ranks'[head] = ranks[head]
      BY <1>4, <3>1, <3>2, <3>3
    <3>5. ranks[head] > 0 /\ ranks[head] >= Len(tasks) /\ \A n \in Nodes : ranks[n] <= ranks[head]
      BY <2>3 DEF IInv, QueuePart, HeadInv
    <3>6. \A n \in Nodes : ranks'[n] <= ranks[head]
      <4> SUFFICES ASSUME NEW n \in Nodes PROVE ranks'[n] <= ranks[head]
        OBVIOUS
      <4>1. ranks'[n] \in Nat /\ ranks[n] \in Nat /\ ranks'[n] <= ranks[n] /\ ranks[n] <= ranks[head]
        BY <1>5, <3>5, RankFacts
      <4> QED
        BY <3>3, <4>1
    <3> QED
      BY <3>4, <3>5, <3>6
  <2> QED
    BY <2>1, <2>2, <2>3 DEF HeadInv
<1>7. \A q \in Procs : pc'[q] = "finish" =>
         /\ HasList(q) /\ loc'[q] = loc[q] /\ FirstRank(q)' = FirstRank(q) /\ Len(loc[q].list) = 1
         /\ loc[q].list[1] \in Nodes /\ node'[loc[q].list[1]] = node[loc[q].list[1]]
         /\ FirstRank(q) > 0 /\ FirstRank(q) \in Nat
  <2> SUFFICES ASSUME NEW q \in Procs, pc'[q] = "finish"
               PROVE  /\ HasList(q) /\ loc'[q] = loc[q] /\ FirstRank(q)' = FirstRank(q)
                      /\ Len(loc[q].list) = 1
                      /\ loc[q].list[1] \in Nodes /\ node'[loc[q].list[1]] = node[loc[q].list[1]]
                      /\ FirstRank(q) > 0 /\ FirstRank(q) \in Nat
    OBVIOUS
  <2>1. HasList(q) /\ pc[q] = "finish" /\ loc'[q] = loc[q] /\ loc[q].list[1] \notin ns
    BY <1>2
  <2>2. Len(loc[q].list) = 1
    BY <2>1 DEF IInv, QueuePart, FinishInv
  <2>3. loc[q].list[1] \in Nodes /\ FirstRank(q) > 0 /\ FirstRank(q) \in Nat
    BY <2>1, ListFacts
  <2> QED
    BY <2>1, <2>2, <2>3 DEF RanksWithout, FirstRank
<1>8. ListInv'
  <2> SUFFICES ASSUME NEW q \in Procs, HasList(q)'
               PROVE  /\ Len(loc'[q].list) > 0 /\ FirstRank(q)' > 0
                      /\ \A i \in 1..Len(loc'[q].list) : ranks'[loc'[q].list[i]] = FirstRank(q)' + i - 1
    BY DEF ListInv
  <2>1. CASE Runs(q)
    <3>1. FirstRank(q) > 0 /\ FirstRank(q) \in Nat
      BY <1>2, <2>1, ListFacts
    <3> QED
      BY <1>3, <2>1, <3>1
  <2>2. CASE pc'[q] = "finish"
    <3>1. /\ loc'[q] = loc[q] /\ FirstRank(q)' = FirstRank(q) /\ Len(loc[q].list) = 1
          /\ FirstRank(q) > 0 /\ FirstRank(q) \in Nat
      BY <1>7, <2>2
    <3>2. \A i \in 1..1 : i = 1
      OBVIOUS
    <3>3. ranks'[loc'[q].list[1]] = FirstRank(q)'
      BY DEF FirstRank
    <3> QED
      BY <3>1, <3>2, <3>3
  <2> QED
    BY <1>1, <2>1, <2>2
<1>9. ChainInv'
  <2> SUFFICES ASSUME NEW p \in Procs, NEW n \in Nodes, Runs(p), ranks'[n] > LastRank(p)
               PROVE  /\ ~node'[n].iterated
                      /\ node'[n].next # UNCONNECTED =>
                             node'[n].next \in Nodes /\ ranks'[node'[n].next] = ranks'[n] - 1
    BY <1>3 DEF ChainInv
  <2>1. LastRank(p) \in Nat /\ ranks'[n] \in Nat /\ ranks[n] \in Nat
    BY <1>3, <1>5, RankFacts
  <2>2. ranks'[n] = ranks[n] /\ node'[n] = node[n] /\ ranks[n] > LastRank(p)
    BY <1>5, <2>1
  <2>3. /\ ~node[n].iterated
        /\ node[n].next # UNCONNECTED => node[n].next \in Nodes /\ ranks[node[n].next] = ranks[n] - 1
    BY <2>2 DEF IInv, QueuePart, ChainInv
  <2>4. node[n].next # UNCONNECTED => ranks'[node[n].next] = ranks[node[n].next]
    <3>1. ranks[n] - 1 >= LastRank(p)
      BY <2>1, <2>2
    <3> QED
      BY <1>4, <2>3, <3>1
  <2> QED
    BY <2>2, <2>3, <2>4
<1>10. LinkInv'
  <2> SUFFICES ASSUME NEW q \in Procs, pc'[q] = "link"
               PROVE  /\ loc'[q].node \in Nodes /\ loc'[q].prev \in Nodes
                      /\ node'[loc'[q].node].next = UNCONNECTED
                      /\ ranks'[loc'[q].prev] = ranks'[loc'[q].node] - 1
                      /\ head' # NULL
                      /\ \A p \in Procs : Runs(p)' => ranks'[loc'[q].node] > LastRank(p)'
                      /\ \A r \in Procs : pc'[r] = "link" /\ r # q => loc'[r].node # loc'[q].node
    BY DEF LinkInv
  <2>1. pc[q] = "link" /\ loc'[q] = loc[q]
    OBVIOUS
  <2>2. /\ loc[q].node \in Nodes /\ loc[q].prev \in Nodes
        /\ node[loc[q].node].next = UNCONNECTED
        /\ ranks[loc[q].prev] = ranks[loc[q].node] - 1
        /\ head # NULL
        /\ \A p \in Procs : Runs(p) => ranks[loc[q].node] > LastRank(p)
        /\ \A r \in Procs : pc[r] = "link" /\ r # q => loc[r].node # loc[q].node
    BY <2>1 DEF IInv, QueuePart, LinkInv
  <2>3. PICK p \in Procs : Runs(p)
    BY <2>2 DEF IInv, QueuePart, HeadInv
  <2>4. ranks[loc[q].node] \in Nat /\ LastRank(p) \in Nat /\ ranks[loc[q].node] > LastRank(p)
    BY <1>3, <2>2, <2>3, RankFacts
  <2>5. ranks[loc[q].node] >= LastRank(p) /\ ranks[loc[q].node] - 1 >= LastRank(p)
    BY <2>4
  <2>6. ranks'[loc[q].node] = ranks[loc[q].node] /\ node'[loc[q].node] = node[loc[q].node]
    BY <1>4, <2>2, <2>3, <2>5
  <2>7. ranks'[loc[q].prev] = ranks[loc[q].prev]
    BY <1>4, <2>2, <2>3, <2>5
  <2> QED
    BY <1>3, <2>1, <2>2, <2>6, <2>7
<1>11. FinishInv'
  <2> SUFFICES ASSUME NEW p \in Procs, pc'[p] = "finish"
               PROVE  /\ Len(loc'[p].list) = 1 /\ node'[loc'[p].list[1]].iterated
                      /\ \A q \in Procs : Runs(q)' => FirstRank(p)' < FirstRank(q)'
                      /\ \A q \in Procs : pc'[q] = "finish" /\ q # p =>
                             loc'[q].list[1] # loc'[p].list[1]
    BY DEF FinishInv
  <2>1. pc[p] = "finish"
    OBVIOUS
  <2>2. /\ Len(loc[p].list) = 1 /\ node[loc[p].list[1]].iterated
        /\ \A q \in Procs : Runs(q) => FirstRank(p) < FirstRank(q)
        /\ \A q \in Procs : pc[q] = "finish" /\ q # p => loc[q].list[1] # loc[p].list[1]
    BY <2>1 DEF IInv, QueuePart, FinishInv
  <2>3. ASSUME NEW q \in Procs, Runs(q) PROVE FirstRank(p)' < FirstRank(q)'
    <3>1. FirstRank(p) < FirstRank(q) /\ FirstRank(p)' = FirstRank(p) /\ FirstRank(p) \in Nat
      BY <1>7, <2>2, <2>3
    <3>2. FirstRank(q)' >= FirstRank(q) /\ FirstRank(q)' \in Nat /\ FirstRank(q) \in Nat
      BY <1>2, <1>3, <2>3, ListFacts
    <3> QED
      BY <3>1, <3>2
  <2> QED
    BY <1>7, <2>2, <2>3
<1>12. LiveInv'
  <2> SUFFICES ASSUME NEW n \in Nodes, ranks'[n] > 0, ~node'[n].iterated
               PROVE  \E p \in Procs : Runs(p)' /\ FirstRank(p)' <= ranks'[n]
    BY DEF LiveInv
  <2>1. ranks'[n] = ranks[n] /\ node'[n] = node[n]
    BY <1>5
  <2>2. PICK p \in Procs : Runs(p) /\ FirstRank(p) <= ranks[n]
    BY <2>1 DEF IInv, QueuePart, LiveInv
  <2> QED
    BY <1>3, <2>1, <2>2
<1> QED
  BY <1>6, <1>8, <1>9, <1>10, <1>11, <1>12

\* The executor returns the first nodes of its list and goes on.
ShedsRest(p) == FrontOf(p)' /\ PassOf(p)' /\ SweepOf(p)' /\ CountInv' /\ pc'[p] # "scan"

\* A step of the executor that returns the front of its list: what is left to show is
\* ShedsRest.
LEMMA ShedStep ==
  ASSUME IInv, NEW p \in Procs, NEW ns, Returns(ns), Sheds(p, ns), pc[p] \in Executing,
         pc'[p] \in Executing,
         \A n \in ns : ranks[n] >= FirstRank(p), Alone(p), Only(p),
         p \in Callers => pc'[p] # "loop", p \in Fibers => pc'[p] # "spawn",
         loc'[p] \in Local, loc'[p].handle = loc[p].handle, loc'[p].derefs = loc[p].derefs,
         loc'[p].destroy = loc[p].destroy, loc[p].destroy => pc'[p] = "more",
         UNCHANGED slotVars, head' = head, handles' = handles, tasks' = tasks, highTasks' \in Nat
  PROVE  /\ RanksWithout(ns) /\ Waiting' = Waiting
         /\ \A q \in Procs : q # p => ~InPass(q)' /\ ~InPass(q)
         /\ ShedsRest(p) => IInv'
<1>1. Runs(p) /\ Runs(p)' /\ HasList(p)
  BY DEF Runs, HasList
<1>2. /\ head # NULL /\ (\A q \in Procs : Runs(q) => q = p) /\ (\A q \in Procs : pc[q] \notin Closed)
      /\ (\A q \in Procs : InPass(q) => q = p)
  BY <1>1, RunnerFacts
<1>3. \A q \in Procs : Keeps(q) /\ Still(q)
  BY DEF Keeps, Still, Alone, Executing, Quiet, Closed
<1>4. /\ node' \in [Nodes -> Node] /\ pool' \subseteq Nodes
      /\ \A q \in Procs, n \in Nodes : Owns(q, n)' <=> Owns(q, n)
      /\ RanksWithout(ns) /\ Waiting' = Waiting /\ NodePart'
  BY <1>3, OldHandles, ReturnedFacts
<1>5. \A q \in Procs : q # p => ~InPass(q)' /\ ~InPass(q) /\ ~Runs(q)' /\ ~Runs(q)
  BY <1>2 DEF Alone, InPass, Runs
<1>6. ASSUME NEW q \in Procs, pc'[q] = "finish"
      PROVE  pc[q] = "finish" /\ loc'[q] = loc[q] /\ loc[q].list[1] \notin ns
  <2>1. q # p
    BY <1>6 DEF Executing
  <2>2. pc[q] = "finish" /\ loc'[q] = loc[q]
    BY <1>6, <2>1 DEF Alone
  <2>3. FirstRank(q) < FirstRank(p) /\ HasList(q)
    BY <1>1, <2>2 DEF IInv, QueuePart, FinishInv, HasList
  <2>4. FirstRank(q) \in Nat /\ FirstRank(p) \in Nat
    BY <1>1, <2>3, ListFacts
  <2>5. ~(FirstRank(q) >= FirstRank(p))
    BY <2>3, <2>4
  <2> QED
    BY <2>2, <2>5 DEF FirstRank
<1>7. \A q \in Procs : pc'[q] = "link" => pc[q] = "link" /\ loc'[q] = loc[q]
  BY DEF Alone, Executing
<1>8. HeadInv' /\ ListInv' /\ ChainInv' /\ LinkInv' /\ FinishInv' /\ LiveInv'
  BY <1>1, <1>4, <1>5, <1>6, <1>7, ShedQueue
<1>9. SlotPart'
  BY <1>3, SlotFrame DEF IInv
<1>10. thisId' = thisId /\ joinButex' = joinButex /\ slot' = slot /\ vref' = vref
       /\ RunStops' = RunStops /\ (Recycled' <=> Recycled)
  BY DEF slotVars, Recycled, RunStops
<1>11. \A q \in Procs : ~Closing(q)'
  BY <1>2 DEF Closing, Alone, Closed, Executing
<1>12. StopNodeInv' /\ ClosingInv' /\ UnusedInv'
  <2>1. \A n \in Nodes : node'[n].stopTask => node'[n] = node[n]
    BY ReturnedNode
  <2>2. StopNodeInv'
    BY <1>10, <1>11, <2>1 DEF IInv, StopPart, StopNodeInv
  <2>3. ClosingInv'
    BY <1>11 DEF ClosingInv
  <2>4. UnusedInv'
    BY <1>10 DEF IInv, StopPart, UnusedInv
  <2> QED
    BY <2>2, <2>3, <2>4
<1>13. DestroyInv'
  <2> SUFFICES ASSUME NEW q \in Procs, HasList(q)', loc'[q].destroy
               PROVE  /\ pc'[q] \in {"executed", "more", "finish"} /\ Len(loc'[q].list) = 1
                      /\ node'[loc'[q].list[1]].stopTask /\ node'[loc'[q].list[1]].iterated
                      /\ thisId' \in RunStops'
                      /\ pc'[q] = "finish" => head' = NULL
    BY DEF DestroyInv
  <2>1. CASE q # p
    <3>1. pc[q] = pc'[q] /\ loc'[q] = loc[q] /\ HasList(q)
      BY <2>1 DEF Alone, HasList
    <3>2. pc[q] = "finish"
      BY <1>5, <2>1, <3>1 DEF HasList, Runs
    <3> QED
      BY <1>2, <3>1, <3>2 DEF IInv, StopPart, DestroyInv
  <2>2. CASE q = p
    <3>1. /\ loc[p].destroy /\ pc'[p] = "more" /\ Len(loc[p].list) = 1
          /\ node[loc[p].list[1]].stopTask /\ node[loc[p].list[1]].iterated /\ thisId \in RunStops
      BY <1>1, <2>2 DEF IInv, StopPart, DestroyInv
    <3>2. Len(loc'[p].list) = 1 /\ loc'[p].list[1] = loc[p].list[1]
          /\ \A n \in ns : ranks[n] < FirstRank(p) + 0
      <4>1. PICK d \in Nat :
              /\ d < 1 /\ Len(loc'[p].list) = 1 - d
              /\ \A i \in 1..Len(loc'[p].list) : loc'[p].list[i] = loc[p].list[i + d]
              /\ \A n \in ns : ranks[n] < FirstRank(p) + d
        BY <3>1 DEF Sheds
      <4>2. d = 0 /\ 1 - d = 1 /\ 1 + d = 1 /\ 1 \in 1..1
        BY <4>1
      <4> QED
        BY <4>1, <4>2
    <3>3. loc[p].list[1] \in Nodes /\ FirstRank(p) \in Nat
      BY <1>1, ListFacts
    <3>4. loc[p].list[1] \notin ns
      BY <3>2, <3>3 DEF FirstRank
    <3>5. node'[loc[p].list[1]] = node[loc[p].list[1]]
      BY <3>3, <3>4, ReturnedNode
    <3> QED
      BY <1>10, <2>2, <3>1, <3>2, <3>5
  <2> QED
    BY <2>1, <2>2
<1>14. TypeInv'
  <2>1. p \in Callers => pc'[p] \in CallerLabels
    BY DEF CallerLabels, Executing, Pass
  <2>2. p \in Fibers => pc'[p] \in FiberLabels
    BY DEF FiberLabels, Executing, Pass
  <2>3. LocalType'
    BY <2>1, <2>2, OnlyType DEF IInv, TypeInv
  <2>4. HistoryType'
    BY DEF IInv, TypeInv, HistoryType, slotVars
  <2> QED
    BY <1>4, <2>3, <2>4 DEF IInv, TypeInv, TypeOK, Node, slotVars
<1>15. ASSUME ShedsRest(p) PROVE IInv'
  <2>1. SweepInv' /\ FrontInv' /\ PassInv'
    <3>1. \A q \in Procs : q # p => pc'[q] \notin Executing
      BY <1>5 DEF Runs
    <3>2. \A q \in Procs : q # p => SweepOf(q)' /\ FrontOf(q)' /\ PassOf(q)'
      BY <3>1 DEF SweepOf, FrontOf, PassOf, Executing
    <3> QED
      BY <1>15, <3>2 DEF ShedsRest, SweepInv, FrontInv, PassInv
  <2>2. LateInv' /\ InOrder'
    <3>1. \A q \in Procs : pc'[q] # "scan"
      BY <1>5, <1>15 DEF InPass, Pass, ShedsRest
    <3> QED
      BY <3>1 DEF IInv, CountPart, LateInv, InOrder
  <2> QED
    BY <1>4, <1>8, <1>9, <1>12, <1>13, <1>14, <1>15, <2>1, <2>2
       DEF IInv, QueuePart, CountPart, StopPart, ShedsRest
<1> QED
  BY <1>4, <1>5, <1>15

\* The first node of the list of _execute_tasks() may be returned when it was iterated.
LEMMA LoopBeginStep ==
  ASSUME IInv, NEW f \in Fibers, LoopBegin(f)
  PROVE  IInv'
<1>1. f \in Procs /\ pc[f] = "loop" /\ pc[f] \in Executing /\ HasList(f) /\ Runs(f)
      /\ loc[f] \in Local /\ f \notin Callers
      /\ ~loc[f].destroy
  <2>1. f \in Procs /\ pc[f] = "loop" /\ f \notin Callers
    BY DistinctAssumption DEF Procs, LoopBegin
  <2>2. pc[f] \in Executing /\ HasList(f) /\ Runs(f) /\ loc[f] \in Local
    BY <2>1 DEF Executing, HasList, Runs, IInv, TypeInv, LocalType
  <2>3. ~loc[f].destroy
    BY <2>1, <2>2, NoDestroy
  <2> QED
    BY <2>1, <2>2, <2>3
<1>2. PICK l : l = loc[f].list
  OBVIOUS
<1>3. /\ l \in Seq(Nodes) /\ Len(l) \in Nat /\ Len(l) > 0 /\ Head(l) = l[1] /\ l[1] \in Nodes
      /\ FirstRank(f) \in Nat /\ FirstRank(f) > 0 /\ FirstRank(f) = ranks[l[1]]
      /\ \A i \in 1..Len(l) : l[i] \in Nodes /\ ranks[l[i]] = FirstRank(f) + i - 1
  BY <1>1, <1>2, ListFacts DEF FirstRank
<1>4. PICK drop : drop = node[l[1]].iterated
  OBVIOUS
<1>5. drop => Len(l) > 1 /\ ~node[l[2]].iterated
  BY <1>1, <1>2, <1>4 DEF IInv, QueuePart, FrontInv, FrontOf
<1>6. drop => MayReturn(l[1])
  BY <1>3, <1>4 DEF IInv, NodePart, NodeInv, MayReturn
<1> DEFINE ns == IF drop THEN {l[1]} ELSE {}
           ll == IF drop THEN Tail(l) ELSE l
           d == IF drop THEN 1 ELSE 0
           r == [loc[f] EXCEPT !.list = ll, !.high = highTasks > 0, !.cur = 1, !.niterated = 0,
           !.shouldBreak = FALSE]
<1>7. ReturnNodes(ns) /\ Goto(f, "begin", r) /\ UNCHANGED <<queueVars, history>>
  <2>1. ~(drop /\ (Len(l) = 1 \/ ~MayReturn(l[1])))
    BY <1>3, <1>5, <1>6
  <2> QED
    BY <1>2, <1>3, <1>4, <2>1, Zenon DEF LoopBegin
<1>8. /\ ll \in Seq(Nodes) /\ d \in Nat /\ d < Len(l) /\ Len(ll) = Len(l) - d
      /\ \A i \in 1..Len(ll) : ll[i] = l[i + d]
  BY <1>3, <1>5
<1> HIDE DEF ll
<1>9. highTasks \in Nat /\ (highTasks > 0) \in BOOLEAN
  BY DEF IInv, TypeInv, TypeOK
<1>10. r \in Local
  <2>1. 1 \in Nat /\ 0 \in Nat /\ FALSE \in BOOLEAN
    OBVIOUS
  <2> QED
    BY <1>1, <1>8, <1>9, <2>1, Zenon DEF Local
<1>11. /\ r.list = ll /\ r.handle = loc[f].handle /\ r.derefs = loc[f].derefs
       /\ r.destroy = loc[f].destroy
       /\ r.cur = 1 /\ r.niterated = 0 /\ r.high = (highTasks > 0)
  BY <1>1 DEF Local
<1> HIDE DEF r
<1>12. pc'[f] = "begin" /\ loc'[f] = r /\ Alone(f) /\ Only(f)
  BY <1>1, <1>7, GotoFacts DEF IInv, TypeInv
<1>13. /\ UNCHANGED slotVars /\ head' = head /\ handles' = handles /\ tasks' = tasks
       /\ highTasks' = highTasks
  BY <1>7 DEF slotVars, queueVars, history
<1>14. Returns(ns) /\ \A n \in ns : ranks[n] >= FirstRank(f) /\ ranks[n] < FirstRank(f) + d
  <2>1. ns \subseteq Nodes /\ \A n \in ns : drop /\ n = l[1]
    BY <1>3
  <2>2. \A n \in ns : ranks[n] > 0 /\ node[n].iterated /\ ranks[n] >= FirstRank(f)
        /\ ranks[n] < FirstRank(f) + d
    BY <1>3, <1>4, <2>1
  <2> HIDE DEF ns
  <2> QED
    BY <1>7, <2>1, <2>2 DEF Returns
<1>15. Sheds(f, ns)
  <2>1. \A i \in 1..d : node[l[i]].iterated
    BY <1>4
  <2>2. loc'[f].list = ll
    BY <1>11, <1>12
  <2> HIDE DEF ns, d
  <2> QED
    BY <1>2, <1>8, <1>14, <2>1, <2>2 DEF Sheds
<1>16. pc'[f] \in Executing /\ pc'[f] # "spawn" /\ pc'[f] # "scan"
  BY <1>12 DEF Executing
<1>17. \A n \in ns : ranks[n] >= FirstRank(f)
  BY <1>14
<1> HIDE DEF ns, d
<1>18. /\ RanksWithout(ns) /\ Waiting' = Waiting
       /\ \A q \in Procs : q # f => ~InPass(q)' /\ ~InPass(q)
       /\ ShedsRest(f) => IInv'
  BY <1>1, <1>9, <1>10, <1>11, <1>12, <1>13, <1>14, <1>15, <1>16, <1>17, ShedStep
<1>19. FrontOf(f)'
  <2>1. loc'[f].list[1] = l[1 + d] /\ 1 + d \in 1..Len(l)
    <3>1. 1 \in 1..Len(ll) /\ 1 + d \in 1..Len(l)
      BY <1>3, <1>8
    <3> QED
      BY <1>8, <1>11, <1>12, <3>1
  <2>2. ~node[l[1 + d]].iterated
    BY <1>4, <1>5 DEF d
  <2>3. l[1 + d] \in Nodes /\ l[1 + d] \notin ns
    <3>1. l[1 + d] \in Nodes
      BY <1>3, <2>1
    <3>2. \A n \in ns : node[n].iterated
      BY <1>14 DEF Returns
    <3> QED
      BY <2>2, <3>1, <3>2
  <2>4. ~node'[loc'[f].list[1]].iterated
    BY <1>18, <2>1, <2>2, <2>3 DEF RanksWithout
  <2> QED
    BY <1>12, <2>4 DEF FrontOf
<1>20. PassOf(f)' /\ SweepOf(f)'
  BY <1>11, <1>12 DEF PassOf, SweepOf
<1>21. CountInv'
  <2>1. \A q \in Procs : ~InPass(q)
    BY <1>1, <1>18 DEF InPass, Pass
  <2>2. highTasks = Cardinality(Waiting)
    BY <2>1 DEF IInv, CountPart, CountInv
  <2>3. highTasks > 0 => Waiting # {}
    BY <1>9, <2>2, FS_EmptySet
  <2>4. InPass(f)'
    BY <1>12 DEF InPass, Pass
  <2>5. \A q \in Procs : pc'[q] = "begin" => InPass(q)'
    BY DEF InPass, Pass
  <2>6. highTasks = Cardinality(Waiting') + (IF loc'[f].high THEN loc'[f].niterated ELSE 0)
    BY <1>9, <1>11, <1>12, <1>18, <2>2
  <2>7. \A q \in Procs : InPass(q)' => q = f
    BY <1>18
  <2>8. loc'[f].high => Waiting' # {}
    BY <1>11, <1>12, <1>18, <2>3
  <2> QED
    BY <1>1, <1>13, <2>4, <2>5, <2>6, <2>7, <2>8 DEF CountInv
<1> QED
  BY <1>16, <1>18, <1>19, <1>20, <1>21 DEF ShedsRest

\* The return of the executed nodes preserves the invariant.
LEMMA ReleaseStep ==
  ASSUME IInv, NEW p \in Procs, Release(p)
  PROVE  IInv'
<1>1. pc[p] = "executed" /\ pc[p] \in Executing /\ HasList(p) /\ Runs(p) /\ InPass(p)
      /\ loc[p] \in Local
  BY DEF Release, Executing, HasList, Runs, InPass, Pass, IInv, TypeInv, LocalType
<1>2. PICK l : l = loc[p].list
  OBVIOUS
<1>3. /\ l \in Seq(Nodes) /\ Len(l) \in Nat /\ Len(l) > 0 /\ DOMAIN l = 1..Len(l)
      /\ FirstRank(p) \in Nat /\ FirstRank(p) > 0
      /\ \A i \in 1..Len(l) : l[i] \in Nodes /\ ranks[l[i]] = FirstRank(p) + i - 1 /\ ranks[l[i]] > 0
  BY <1>1, <1>2, ListFacts
<1> DEFINE S == {i \in DOMAIN l : i = Len(l) \/ ~node[l[i]].iterated}
<1>4. PICK k : k = First(S)
  OBVIOUS
<1>5. k \in S /\ k \in Nat /\ \A j \in S : k <= j
  <2>1. S \subseteq Nat /\ Len(l) \in S
    BY <1>3
  <2> HIDE DEF S
  <2> QED
    BY <1>4, <2>1, FirstIsLeast
<1>6. k \in 1..Len(l) /\ (k = Len(l) \/ ~node[l[k]].iterated)
  BY <1>3, <1>5
<1>7. \A i \in 1..(k - 1) : i \in 1..Len(l) /\ node[l[i]].iterated
  <2> SUFFICES ASSUME NEW i \in 1..(k - 1) PROVE i \in 1..Len(l) /\ node[l[i]].iterated
    OBVIOUS
  <2>1. i \in 1..Len(l) /\ ~(k <= i)
    <3>1. PICK m : m = Len(l)
      OBVIOUS
    <3>2. m \in Nat /\ k \in Nat /\ k \in 1..m
      BY <1>3, <1>5, <1>6, <3>1
    <3>3. i \in 1..m /\ ~(k <= i)
      BY <3>2
    <3> QED
      BY <3>1, <3>3
  <2>2. i \notin S
    BY <1>5, <2>1
  <2> QED
    BY <1>3, <2>1, <2>2
<1> DEFINE ns == {l[i] : i \in 1..(k - 1)}
           ll == SubSeq(l, k, Len(l))
           r == [loc[p] EXCEPT !.list = ll]
<1>8. ns \subseteq Nodes /\ \A i \in 1..(k - 1) : MayReturn(l[i])
  <2>1. \A i \in 1..(k - 1) : l[i] \in Nodes /\ node[l[i]].iterated
    BY <1>3, <1>7
  <2> QED
    BY <2>1 DEF MayReturn, IInv, NodePart, NodeInv
<1>9. /\ ReturnNodes(ns) /\ Goto(p, "more", [loc[p] EXCEPT !.list = SubSeq(@, k, Len(@))])
      /\ highTasks' = IF loc[p].high THEN highTasks - loc[p].niterated ELSE highTasks
      /\ UNCHANGED <<head, vref, stopped, thisId, joinButex, slot, history>>
  BY <1>2, <1>4, <1>8, Zenon DEF Release
<1> HIDE DEF S
<1>10. /\ ll \in Seq(Nodes) /\ Len(ll) = Len(l) - (k - 1)
          /\ \A i \in 1..Len(ll) : ll[i] = l[i + (k - 1)]
  <2>1. PICK m : m = Len(l)
    OBVIOUS
  <2>2. m \in Nat /\ k \in Nat /\ k \in 1..m
    BY <1>3, <1>5, <1>6, <2>1
  <2>3. k <= m + 1 /\ m - k + 1 = m - (k - 1) /\ \A i : i \in 1..(m - k + 1) =>
            k + i - 1 = i + (k - 1)
    BY <2>2
  <2>4. ll = SubSeq(l, k, m)
    BY <2>1
  <2>5. /\ SubSeq(l, k, m) \in Seq(Nodes) /\ Len(SubSeq(l, k, m)) = m - k + 1
        /\ \A i \in 1..(m - k + 1) : SubSeq(l, k, m)[i] = l[k + i - 1]
    <3> HIDE DEF ll
    <3> QED
      BY <1>3, <2>1, <2>2, <2>3
  <2> HIDE DEF ll
  <2> QED
    BY <2>1, <2>3, <2>4, <2>5
<1>11. Goto(p, "more", r)
  BY <1>1, <1>2, <1>9 DEF Local
<1> HIDE DEF ll
<1>12. r \in Local
  BY <1>1, <1>10, Zenon DEF Local
<1>13. /\ r.list = ll /\ r.handle = loc[p].handle /\ r.derefs = loc[p].derefs
       /\ r.destroy = loc[p].destroy
  BY <1>1 DEF Local
<1> HIDE DEF r
<1>14. pc'[p] = "more" /\ loc'[p] = r /\ Alone(p) /\ Only(p)
  BY <1>11, GotoFacts DEF IInv, TypeInv
<1>15. UNCHANGED slotVars /\ head' = head /\ handles' = handles /\ tasks' = tasks
  BY <1>9 DEF slotVars, history
<1>16. PICK d : d = k - 1
  OBVIOUS
<1>17. d \in Nat /\ d < Len(l) /\ Len(ll) = Len(l) - d /\ (\A i \in 1..Len(ll) : ll[i] = l[i + d])
       /\ \A i \in 1..d : i \in 1..Len(l) /\ node[l[i]].iterated
  <2>1. PICK m, x : m = Len(l) /\ x = Len(ll)
    OBVIOUS
  <2>2. m \in Nat /\ k \in Nat /\ k \in 1..m
    BY <1>3, <1>5, <1>6, <2>1
  <2>3. d \in Nat /\ d < m
    BY <1>16, <2>2
  <2> QED
    BY <1>7, <1>10, <1>16, <2>1, <2>3
<1>18. \A n \in ns : /\ ranks[n] > 0 /\ node[n].iterated
                     /\ ranks[n] >= FirstRank(p) /\ ranks[n] < FirstRank(p) + d
  <2> SUFFICES ASSUME NEW i \in 1..d
               PROVE  /\ ranks[l[i]] > 0 /\ node[l[i]].iterated
                      /\ ranks[l[i]] >= FirstRank(p) /\ ranks[l[i]] < FirstRank(p) + d
    BY <1>16
  <2>1. i \in 1..Len(l) /\ node[l[i]].iterated
    BY <1>17
  <2>2. ranks[l[i]] = FirstRank(p) + i - 1 /\ ranks[l[i]] > 0
    BY <1>3, <2>1
  <2> QED
    BY <1>3, <1>17, <2>1, <2>2
<1> HIDE DEF ns
<1>19. Returns(ns)
  BY <1>8, <1>9, <1>18 DEF Returns
<1>20. Sheds(p, ns)
  BY <1>2, <1>13, <1>14, <1>17, <1>18 DEF Sheds
<1>21. \/ loc[p].high = TRUE /\ highTasks = Cardinality(Waiting) + loc[p].niterated
       \/ loc[p].high = FALSE /\ highTasks = Cardinality(Waiting) + 0
  <2>1. loc[p].high \in BOOLEAN
    BY <1>1 DEF Local
  <2> QED
    BY <1>1, <2>1 DEF IInv, CountPart, CountInv
<1>22. IsFiniteSet(Waiting) /\ Cardinality(Waiting) \in Nat /\ loc[p].niterated \in Nat
  <2>1. Waiting \subseteq Nodes
    BY DEF Waiting
  <2>2. IsFiniteSet(Waiting)
    BY <2>1, NodesAssumption, FS_Subset
  <2> QED
    BY <1>1, <2>2, FS_CardinalityType DEF Local
<1>23. highTasks' = Cardinality(Waiting) /\ highTasks' \in Nat
  <2>1. PICK c, i : c = Cardinality(Waiting) /\ i = loc[p].niterated
    OBVIOUS
  <2>2. c \in Nat /\ i \in Nat
    BY <1>22, <2>1
  <2>3. CASE loc[p].high = TRUE /\ highTasks = c + i
    <3>1. highTasks' = highTasks - loc[p].niterated
      BY <1>9, <2>3
    <3>2. highTasks' = (c + i) - i
      BY <2>1, <2>3, <3>1
    <3> QED
      BY <2>1, <2>2, <3>2
  <2>4. CASE loc[p].high = FALSE /\ highTasks = c + 0
    <3>1. highTasks' = c + 0
      BY <1>9, <2>1, <2>4
    <3> QED
      BY <2>1, <2>2, <3>1
  <2> QED
    BY <1>21, <2>1, <2>3, <2>4
<1>24. pc'[p] \in Executing /\ pc'[p] # "spawn" /\ pc'[p] # "scan" /\ pc'[p] # "loop" /\ ~InPass(p)'
  BY <1>14 DEF Executing, InPass, Pass
<1>25. \A n \in ns : ranks[n] >= FirstRank(p)
  BY <1>18
<1>26. /\ RanksWithout(ns) /\ Waiting' = Waiting
       /\ \A q \in Procs : q # p => ~InPass(q)' /\ ~InPass(q)
       /\ ShedsRest(p) => IInv'
  BY <1>1, <1>12, <1>13, <1>14, <1>15, <1>19, <1>20, <1>23, <1>24, <1>25, ShedStep
<1>27. FrontOf(p)'
  <2>1. loc'[p].list[1] = l[k] /\ Len(loc'[p].list) = Len(l) - (k - 1)
    <3>1. 1 \in 1..Len(ll) /\ 1 + (k - 1) = k
      BY <1>3, <1>6, <1>10
    <3> QED
      BY <1>10, <1>13, <1>14, <3>1
  <2>2. l[k] \in Nodes /\ ranks[l[k]] = FirstRank(p) + k - 1
    BY <1>3, <1>6
  <2>3. l[k] \notin ns
    <3>1. \A n \in ns : ranks[n] < FirstRank(p) + d
      BY <1>18
    <3> QED
      BY <1>3, <1>6, <1>16, <1>17, <2>2, <3>1
  <2>4. node'[l[k]] = node[l[k]]
    BY <1>26, <2>2, <2>3 DEF RanksWithout
  <2>5. node'[loc'[p].list[1]].iterated => Len(loc'[p].list) = 1
    <3>1. node[l[k]].iterated => k = Len(l)
      BY <1>6
    <3>2. k = Len(l) => Len(l) - (k - 1) = 1
      BY <1>3
    <3> QED
      BY <2>1, <2>4, <3>1, <3>2
  <2> QED
    BY <1>14, <2>5 DEF FrontOf
<1>28. PassOf(p)' /\ SweepOf(p)'
  BY <1>14 DEF PassOf, SweepOf
<1>29. CountInv'
  <2>1. \A q \in Procs : ~InPass(q)'
    BY <1>24, <1>26
  <2>2. \A q \in Procs : pc'[q] # "begin"
    BY <2>1 DEF InPass, Pass
  <2> QED
    BY <1>23, <1>26, <2>1, <2>2 DEF CountInv
<1> QED
  BY <1>24, <1>26, <1>27, <1>28, <1>29 DEF ShedsRest

\* A process that leaves the queue with a node to return.
LEMMA FinishFacts ==
  ASSUME IInv, NEW p \in Procs, Finish(p)
  PROVE  /\ pc[p] = "finish" /\ HasList(p) /\ loc[p] \in Local /\ Returns({loc[p].list[1]})
         /\ Alone(p) /\ Only(p)
         /\ UNCHANGED slotVars /\ head' = head /\ tasks' = tasks /\ highTasks' = highTasks
         /\ loc'[p] \in Local /\ loc'[p].derefs = loc[p].derefs
         /\ \A h \in handles' : h \in Handle /\ ValidHandle(h)
         /\ \/ p \in Fibers /\ loc[p].destroy /\ pc'[p] = "destroy"
            \/ pc'[p] = "idle" /\ loc[p].derefs = 0
            \/ p \in Callers /\ pc'[p] = "deref" /\ loc[p].derefs # 0
<1>1. pc[p] = "finish" /\ HasList(p) /\ loc[p] \in Local
  BY DEF Finish, HasList, IInv, TypeInv, LocalType
<1>2. PICK n : n = loc[p].list[1]
  OBVIOUS
<1>3. n = Head(loc[p].list) /\ n \in Nodes /\ ranks[n] > 0
  BY <1>1, <1>2, ListFacts DEF FirstRank
<1>4. node[n].iterated
  BY <1>1, <1>2 DEF IInv, QueuePart, FinishInv
<1>5. MayReturn(n)
  BY <1>3, <1>4 DEF MayReturn, IInv, NodePart, NodeInv
<1>6. ReturnNodes({n}) /\ UNCHANGED <<queueVars, ids, tasks, stopRuns, joined>>
  BY <1>3 DEF Finish
<1>7. Returns({n})
  BY <1>3, <1>4, <1>6 DEF Returns
<1>8. UNCHANGED slotVars /\ head' = head /\ tasks' = tasks /\ highTasks' = highTasks
  BY <1>6 DEF slotVars, queueVars
<1>9. \A h \in handles \cup ({loc[p].handle} \ {NULL}) : h \in Handle /\ ValidHandle(h)
  <2>1. loc[p].handle \in Handle \cup {NULL}
    BY <1>1 DEF Local
  <2>2. pc[p] \notin Quiet \cup Closed
    BY <1>1 DEF Quiet, Closed
  <2>3. \A h \in {loc[p].handle} \ {NULL} : ValidHandle(h)
    BY <2>2 DEF IInv, NodePart, HandleInv
  <2> QED
    BY <2>1, <2>3, OldHandles
<1>10. \/ /\ p \in Fibers /\ handles' = handles
          /\ IF loc[p].destroy THEN Goto(p, "destroy", loc[p]) ELSE Return(p)
       \/ p \notin Fibers /\ Pushed(p) /\ Continue(p)
  BY <1>3, <1>5 DEF Finish
<1>11. LocalType
  BY DEF IInv, TypeInv
<1>12. CASE /\ p \in Fibers /\ handles' = handles
            /\ IF loc[p].destroy THEN Goto(p, "destroy", loc[p]) ELSE Return(p)
  <2>1. loc[p].derefs = 0
    BY <1>12 DEF IInv, SlotPart, DerefsInv
  <2>2. CASE loc[p].destroy /\ Goto(p, "destroy", loc[p])
    <3>1. pc'[p] = "destroy" /\ loc'[p] = loc[p] /\ Alone(p) /\ Only(p)
      BY <1>11, <2>2, GotoFacts
    <3> QED
      BY <1>1, <1>2, <1>7, <1>8, <1>9, <1>12, <2>2, <3>1
  <2>3. CASE Return(p)
    <3>1. pc'[p] = "idle" /\ loc'[p] = Blank /\ Alone(p) /\ Only(p)
      BY <1>11, <2>3, GotoFacts DEF Return
    <3> QED
      BY <1>1, <1>2, <1>7, <1>8, <1>9, <1>12, <2>1, <3>1, BlankFacts
  <2> QED
    BY <1>12, <2>2, <2>3
<1>13. CASE p \notin Fibers /\ Pushed(p) /\ Continue(p)
  <2>1. p \in Callers
    BY <1>13 DEF Procs
  <2>2. /\ Only(p) /\ Alone(p) /\ pc'[p] \in {"deref", "idle"} /\ loc'[p] \in Local
        /\ loc'[p].derefs = loc[p].derefs /\ (pc'[p] = "deref" <=> loc[p].derefs # 0)
    BY <1>11, <1>13, ContinueFacts
  <2>3. \A h \in handles' : h \in Handle /\ ValidHandle(h)
    BY <1>9, <1>13 DEF Pushed
  <2> QED
    BY <1>1, <1>2, <1>7, <1>8, <2>1, <2>2, <2>3
<1> QED
  BY <1>10, <1>12, <1>13

\* The return of the last node, after the CAS, preserves the invariant although
\* another executor may be at work.
LEMMA FinishStep ==
  ASSUME IInv, NEW p \in Procs, Finish(p)
  PROVE  IInv'
<1>1. /\ pc[p] = "finish" /\ HasList(p) /\ loc[p] \in Local /\ Returns({loc[p].list[1]}) /\ Alone(p)
      /\ Only(p)
      /\ UNCHANGED slotVars /\ head' = head /\ tasks' = tasks /\ highTasks' = highTasks
      /\ loc'[p] \in Local /\ loc'[p].derefs = loc[p].derefs
      /\ \A h \in handles' : h \in Handle /\ ValidHandle(h)
  BY FinishFacts
<1>2. \/ p \in Fibers /\ loc[p].destroy /\ pc'[p] = "destroy"
      \/ pc'[p] = "idle" /\ loc[p].derefs = 0
      \/ p \in Callers /\ pc'[p] = "deref" /\ loc[p].derefs # 0
  BY FinishFacts
<1>3. PICK n : n = loc[p].list[1]
  OBVIOUS
<1>4. n \in Nodes /\ ranks[n] = FirstRank(p) /\ FirstRank(p) \in Nat
  BY <1>1, <1>3, ListFacts DEF FirstRank
<1> DEFINE ns == {n}
<1>5. Returns(ns)
  BY <1>1, <1>3
<1>6. \A q \in Procs : Keeps(q)
  BY <1>1, <1>2 DEF Keeps, Alone, Quiet, Closed
<1>7. \A q \in Procs : Still(q)
  <2>1. loc[p].derefs # 0 => loc[p].derefs \in {1, 2}
    BY <1>1 DEF Local
  <2> QED
    BY <1>1, <1>2, <2>1 DEF Still, Alone
<1>8. /\ node' \in [Nodes -> Node] /\ pool' \subseteq Nodes
      /\ \A q \in Procs, m \in Nodes : Owns(q, m)' <=> Owns(q, m)
      /\ RanksWithout(ns) /\ Waiting' = Waiting /\ NodePart'
  <2> HIDE DEF ns
  <2> QED
    BY <1>1, <1>5, <1>6, ReturnedFacts
<1>9. ~Runs(p) /\ ~Runs(p)' /\ ~HasList(p)' /\ ~InPass(p) /\ ~InPass(p)'
  BY <1>1, <1>2 DEF Runs, HasList, InPass, Executing, Pass
<1>10. \A q \in Procs : q # p => pc'[q] = pc[q] /\ loc'[q] = loc[q]
  BY <1>1 DEF Alone
<1>11. \A q \in Procs : Runs(q)' <=> Runs(q)
  BY <1>9, <1>10 DEF Runs
<1>12. ASSUME NEW q \in Procs, Runs(q)
       PROVE  /\ Sheds(q, ns) /\ q # p /\ HasList(q)
              /\ \A i \in 1..Len(loc[q].list) : loc[q].list[i] \in Nodes /\ loc[q].list[i] # n
  <2>1. HasList(q) /\ q # p /\ loc'[q] = loc[q]
    BY <1>9, <1>10, <1>12 DEF HasList, Runs
  <2>2. FirstRank(p) < FirstRank(q)
    BY <1>1, <1>12 DEF IInv, QueuePart, FinishInv
  <2>3. PICK l : l = loc[q].list
    OBVIOUS
  <2>4. /\ Len(l) \in Nat /\ Len(l) > 0 /\ FirstRank(q) \in Nat
        /\ \A i \in 1..Len(l) : l[i] \in Nodes /\ ranks[l[i]] = FirstRank(q) + i - 1
    BY <2>1, <2>3, ListFacts
  <2>5. \A i \in 1..Len(l) : l[i] # n
    <3> SUFFICES ASSUME NEW i \in 1..Len(l), l[i] = n PROVE FALSE
      OBVIOUS
    <3>1. FirstRank(p) = FirstRank(q) + i - 1
      BY <1>4, <2>4
    <3> QED
      BY <1>4, <2>2, <2>4, <3>1
  <2>6. /\ 0 < Len(l) /\ Len(l) = Len(l) - 0 /\ (\A i \in 1..Len(l) : i + 0 = i)
        /\ \A m \in ns : ranks[m] < FirstRank(q) + 0
    BY <1>4, <2>2, <2>4
  <2>7. Sheds(q, ns)
    <3>1. 0 \in Nat /\ 1..0 = {}
      OBVIOUS
    <3>2. \A i \in 1..Len(l) : l[i] = l[i + 0]
      BY <2>6
    <3> HIDE DEF ns
    <3> QED
      BY <2>1, <2>3, <2>6, <3>1, <3>2 DEF Sheds
  <2> QED
    BY <2>1, <2>3, <2>4, <2>5, <2>7
<1>13. \A q \in Procs : pc'[q] = "finish" =>
          q # p /\ pc[q] = "finish" /\ loc'[q] = loc[q] /\ loc[q].list[1] \notin ns
  <2> SUFFICES ASSUME NEW q \in Procs, pc'[q] = "finish"
               PROVE  q # p /\ pc[q] = "finish" /\ loc'[q] = loc[q] /\ loc[q].list[1] # n
    OBVIOUS
  <2>1. q # p
    BY <1>2
  <2> QED
    BY <1>1, <1>3, <1>10, <2>1 DEF IInv, QueuePart, FinishInv
<1>14. \A q \in Procs : pc'[q] = "link" => pc[q] = "link" /\ loc'[q] = loc[q]
  BY <1>2, <1>10
<1>15. HeadInv' /\ ListInv' /\ ChainInv' /\ LinkInv' /\ FinishInv' /\ LiveInv'
  <2> HIDE DEF ns
  <2> QED
    BY <1>1, <1>8, <1>11, <1>12, <1>13, <1>14, ShedQueue
<1>16. \A m \in Nodes : m # n => ranks'[m] = ranks[m] /\ node'[m] = node[m]
  BY <1>8 DEF RanksWithout
<1>17. ASSUME NEW q \in Procs PROVE SweepOf(q)' /\ FrontOf(q)' /\ PassOf(q)'
  <2>1. CASE ~Runs(q)
    <3>1. pc'[q] \notin Executing
      BY <1>11, <2>1 DEF Runs
    <3> QED
      BY <3>1 DEF Executing, SweepOf, FrontOf, PassOf
  <2>2. CASE Runs(q)
    <3>1. q # p /\ HasList(q) /\ \A i \in 1..Len(loc[q].list) : loc[q].list[i] \in Nodes
          /\ loc[q].list[i] # n
      BY <1>12, <2>2
    <3>2. pc'[q] = pc[q] /\ loc'[q] = loc[q]
      BY <1>10, <3>1
    <3>3. PICK l : l = loc[q].list
      OBVIOUS
    <3>4. Len(l) \in Nat /\ Len(l) > 0 /\ LastRank(q) \in Nat /\ FirstRank(q) > FirstRank(p)
          /\ LastRank(q) >= FirstRank(q)
      <4>1. PICK k, x, y : k = Len(l) /\ x = FirstRank(q) /\ y = LastRank(q)
        OBVIOUS
      <4>2. k \in Nat /\ k > 0 /\ x \in Nat /\ y = x + k - 1
        BY <3>1, <3>3, <4>1, ListFacts
      <4>3. y \in Nat /\ y >= x
        BY <4>2
      <4>4. FirstRank(p) < FirstRank(q)
        BY <1>1, <2>2 DEF IInv, QueuePart, FinishInv
      <4> QED
        BY <1>4, <4>1, <4>2, <4>3, <4>4
    <3>5. \A i \in 1..Len(l) : node'[l[i]] = node[l[i]] /\ ranks'[l[i]] = ranks[l[i]]
      BY <1>16, <3>1, <3>3
    <3>6. SweepOf(q)'
      <4>1. LastRank(q)' = LastRank(q)
        <5>1. Len(l) \in 1..Len(l)
          BY <3>4
        <5> QED
          BY <3>2, <3>3, <3>5, <5>1 DEF LastRank
      <4>2. pc[q] = "sweep" => loc[q].newHead \in Nodes /\ ranks[loc[q].newHead] > LastRank(q)
        BY DEF IInv, QueuePart, SweepInv, SweepOf
      <4>3. pc[q] = "sweep" => loc[q].newHead # n
        <5>1. ASSUME pc[q] = "sweep", loc[q].newHead = n PROVE FALSE
          <6>1. FirstRank(p) > LastRank(q)
            BY <1>4, <4>2, <5>1
          <6> QED
            BY <1>4, <3>4, <6>1, ListFacts, <3>1
        <5> QED
          BY <5>1
      <4> QED
        BY <1>16, <3>2, <4>1, <4>2, <4>3 DEF SweepOf
    <3>7. FrontOf(q)' /\ PassOf(q)'
      BY <3>1, <3>2, <3>3, <3>5, SameFront
    <3> QED
      BY <3>6, <3>7
  <2> QED
    BY <2>1, <2>2
<1>18. SlotPart'
  BY <1>1, <1>7, SlotFrame DEF IInv
<1>19. \A q \in Procs : /\ InPass(q)' <=> InPass(q)
                        /\ InPass(q) => loc'[q] = loc[q] /\ pc'[q] = pc[q]
  BY <1>9, <1>10 DEF InPass
<1>20. CountInv' /\ LateInv' /\ InOrder'
  <2>1. \A q \in Procs : pc'[q] \in {"begin", "scan"} => InPass(q)'
    BY DEF InPass, Pass
  <2>2. CountInv'
    BY <1>1, <1>8, <1>19, <2>1 DEF IInv, CountPart, CountInv
  <2>3. LateInv' /\ InOrder'
    BY <1>1, <1>19, <2>1 DEF IInv, CountPart, LateInv, InOrder
  <2> QED
    BY <2>2, <2>3
<1>21. thisId' = thisId /\ joinButex' = joinButex /\ slot' = slot /\ vref' = vref
       /\ RunStops' = RunStops /\ (Recycled' <=> Recycled)
  BY <1>1 DEF slotVars, Recycled, RunStops
<1>22. \A m \in Nodes : node'[m].stopTask => m # n /\ node'[m] = node[m]
  BY <1>5, ReturnedNode
<1>23. StopNodeInv' /\ ClosingInv'
  <2>1. CASE p \in Fibers /\ loc[p].destroy /\ pc'[p] = "destroy"
    <3>1. node[n].stopTask /\ thisId \in RunStops /\ head = NULL
      BY <1>1, <1>3, <2>1 DEF IInv, StopPart, DestroyInv
    <3>2. Recycled /\ joinButex = thisId /\ (\A m \in Nodes : node[m].stopTask => m = n)
          /\ \A q \in Procs : ~Closing(q)
      BY <1>4, <3>1 DEF IInv, StopPart, StopNodeInv
    <3>3. \A m \in Nodes : ~node'[m].stopTask
      BY <1>22, <3>2
    <3>4. \A q \in Procs : Closing(q)' => q = p
      BY <1>10, <3>2 DEF Closing
    <3>5. StopNodeInv'
      BY <3>3 DEF StopNodeInv
    <3>6. ClosingInv'
      BY <1>1, <1>21, <2>1, <3>1, <3>2, <3>4 DEF ClosingInv
    <3> QED
      BY <3>5, <3>6
  <2>2. CASE pc'[p] \in {"idle", "deref"}
    <3>1. \A q \in Procs : /\ Closing(q)' <=> Closing(q)
                           /\ Closing(q) => pc'[q] = pc[q]
      BY <1>1, <1>10, <2>2 DEF Closing, Closed
    <3>2. StopNodeInv'
      BY <1>21, <1>22, <3>1 DEF IInv, StopPart, StopNodeInv
    <3>3. ClosingInv'
      BY <1>1, <1>21, <3>1 DEF IInv, StopPart, ClosingInv
    <3> QED
      BY <3>2, <3>3
  <2> QED
    BY <1>2, <2>1, <2>2
<1>24. DestroyInv'
  <2> SUFFICES ASSUME NEW q \in Procs, HasList(q)', loc'[q].destroy
               PROVE  /\ pc'[q] \in {"executed", "more", "finish"} /\ Len(loc'[q].list) = 1
                      /\ node'[loc'[q].list[1]].stopTask /\ node'[loc'[q].list[1]].iterated
                      /\ thisId' \in RunStops'
                      /\ pc'[q] = "finish" => head' = NULL
    BY DEF DestroyInv
  <2>1. q # p /\ pc'[q] = pc[q] /\ loc'[q] = loc[q] /\ HasList(q)
    BY <1>9, <1>10 DEF HasList
  <2>2. loc[q].list[1] \in Nodes /\ 1 \in 1..Len(loc[q].list)
    BY <2>1, ListFacts
  <2>3. loc[q].list[1] # n
    <3>1. CASE Runs(q)
      BY <1>12, <2>2, <3>1
    <3>2. CASE pc[q] = "finish"
      BY <1>13, <2>1, <3>2
    <3> QED
      BY <2>1, <3>1, <3>2 DEF HasList, Runs
  <2>4. node'[loc[q].list[1]] = node[loc[q].list[1]]
    BY <1>16, <2>2, <2>3
  <2> QED
    BY <1>1, <1>21, <2>1, <2>4 DEF IInv, StopPart, DestroyInv
<1>25. UnusedInv'
  BY <1>1, <1>21 DEF IInv, StopPart, UnusedInv
<1>26. TypeInv'
  <2>1. p \in Callers => pc'[p] \in CallerLabels
    BY <1>2, DistinctAssumption DEF CallerLabels, Quiet
  <2>2. p \in Fibers => pc'[p] \in FiberLabels
    BY <1>2, DistinctAssumption DEF FiberLabels, Closed
  <2>3. LocalType'
    BY <1>1, <2>1, <2>2, OnlyType DEF IInv, TypeInv
  <2>4. HistoryType'
    BY <1>1 DEF IInv, TypeInv, HistoryType, slotVars
  <2>5. handles' \subseteq Handle
    BY <1>1
  <2> QED
    BY <1>1, <1>8, <2>3, <2>4, <2>5 DEF IInv, TypeInv, TypeOK, Node, slotVars
<1> QED
  BY <1>8, <1>15, <1>17, <1>18, <1>20, <1>23, <1>24, <1>25, <1>26
     DEF IInv, QueuePart, CountPart, StopPart, SweepInv, FrontInv, PassInv

-----------------------------------------------------------------------------
(* Pushing a task *)

\* The locals of a process that has not entered start_execute() yet.
Fresh(r) == r.cur = 1 /\ r.niterated = 0 /\ r.destroy = FALSE /\ r.handle = NULL
FreshInv == \A p \in Procs : pc[p] \in Quiet \cup {"count_high", "exchange"} => Fresh(loc[p])

\* p has no part in the queue before and after, and no node of the queue changes.
LEMMA OutsideQueue ==
  ASSUME IInv, NEW p \in Procs, Alone(p), ranks' = ranks, head' = head, Len(tasks') = Len(tasks),
         \A n \in Nodes : ranks[n] > 0 => node'[n] = node[n],
         pc[p] \in Quiet \cup {"count_high", "exchange"},
         pc'[p] \in Quiet \cup {"count_high", "exchange"}
  PROVE  QueuePart'
<1>1. /\ ~Runs(p) /\ ~Runs(p)' /\ ~HasList(p) /\ ~HasList(p)'
      /\ pc[p] \notin {"link", "finish", "sweep"} /\ pc'[p] \notin {"link", "finish", "sweep"}
      /\ pc[p] \notin Executing /\ pc'[p] \notin Executing
  BY DEF Runs, HasList, Quiet, Executing
<1>2. \A q \in Procs : q # p => pc'[q] = pc[q] /\ loc'[q] = loc[q]
  BY DEF Alone
<1>3. \A q \in Procs : Runs(q)' <=> Runs(q)
  BY <1>1, <1>2 DEF Runs
<1>4. \A q \in Procs : HasList(q)' <=> HasList(q)
  BY <1>1, <1>2 DEF HasList
<1>5. \A q \in Procs : HasList(q) => q # p /\ FirstRank(q)' = FirstRank(q)
      /\ LastRank(q)' = LastRank(q) /\ loc'[q] = loc[q]
  BY <1>1, <1>2 DEF FirstRank, LastRank
<1>6. \A q \in Procs : Runs(q) \/ pc[q] = "finish" => HasList(q)
  BY DEF Runs, HasList
<1>7. \A q \in Procs : HasList(q) =>
         \A i \in 1..Len(loc[q].list) : node'[loc[q].list[i]] = node[loc[q].list[i]]
  BY ListFacts
<1>8. \A q \in Procs : HasList(q) => Len(loc[q].list) \in Nat /\ Len(loc[q].list) > 0
      /\ LastRank(q) \in Nat /\ LastRank(q) > 0
  <2> SUFFICES ASSUME NEW q \in Procs, HasList(q)
               PROVE  Len(loc[q].list) \in Nat /\ Len(loc[q].list) > 0 /\ LastRank(q) \in Nat
                      /\ LastRank(q) > 0
    OBVIOUS
  <2>1. PICK k, x, y : k = Len(loc[q].list) /\ x = FirstRank(q) /\ y = LastRank(q)
    OBVIOUS
  <2>2. k \in Nat /\ k > 0 /\ x \in Nat /\ x > 0 /\ y = x + k - 1
    BY <2>1, ListFacts
  <2>3. y \in Nat /\ y > 0
    BY <2>2
  <2> QED
    BY <2>1, <2>2, <2>3
<1>9. HeadInv'
  BY <1>3 DEF IInv, QueuePart, HeadInv
<1>10. ListInv'
  BY <1>4, <1>5 DEF IInv, QueuePart, ListInv
<1>11. \A q \in Procs, n \in Nodes : Runs(q) /\ ranks[n] > LastRank(q) => node'[n] = node[n]
  <2> SUFFICES ASSUME NEW q \in Procs, NEW n \in Nodes, Runs(q), ranks[n] > LastRank(q)
      PROVE  ranks[n] > 0
    OBVIOUS
  <2>1. LastRank(q) \in Nat /\ ranks[n] \in Nat
    BY <1>6, <1>8, RankFacts
  <2> QED
    BY <2>1
<1>12. ChainInv'
  BY <1>3, <1>5, <1>6, <1>11 DEF IInv, QueuePart, ChainInv
<1>13. LinkInv'
  <2> SUFFICES ASSUME NEW q \in Procs, pc'[q] = "link"
               PROVE  /\ loc'[q].node \in Nodes /\ loc'[q].prev \in Nodes
                      /\ node'[loc'[q].node].next = UNCONNECTED
                      /\ ranks'[loc'[q].prev] = ranks'[loc'[q].node] - 1
                      /\ head' # NULL
                      /\ \A s \in Procs : Runs(s)' => ranks'[loc'[q].node] > LastRank(s)'
                      /\ \A s \in Procs : pc'[s] = "link" /\ s # q => loc'[s].node # loc'[q].node
    BY DEF LinkInv
  <2>1. pc[q] = "link" /\ loc'[q] = loc[q] /\ \A s \in Procs : pc'[s] = "link" =>
            pc[s] = "link" /\ loc'[s] = loc[s]
    BY <1>1, <1>2
  <2>2. /\ loc[q].node \in Nodes /\ loc[q].prev \in Nodes
        /\ node[loc[q].node].next = UNCONNECTED
        /\ ranks[loc[q].prev] = ranks[loc[q].node] - 1
        /\ head # NULL
        /\ \A s \in Procs : Runs(s) => ranks[loc[q].node] > LastRank(s)
        /\ \A s \in Procs : pc[s] = "link" /\ s # q => loc[s].node # loc[q].node
    BY <2>1 DEF IInv, QueuePart, LinkInv
  <2>3. PICK s \in Procs : Runs(s)
    BY <2>2 DEF IInv, QueuePart, HeadInv
  <2>4. node'[loc[q].node] = node[loc[q].node]
    BY <1>11, <2>2, <2>3
  <2> QED
    BY <1>3, <1>5, <1>6, <2>1, <2>2, <2>4
<1>14. FinishInv'
  <2>1. \A q \in Procs : pc'[q] = "finish" =>
            pc[q] = "finish" /\ q # p /\ loc'[q] = loc[q] /\ HasList(q)
    BY <1>1, <1>2, <1>6
  <2>2. \A q \in Procs : pc'[q] = "finish" => node'[loc[q].list[1]] = node[loc[q].list[1]]
    <3>1. \A q \in Procs : HasList(q) => 1 \in 1..Len(loc[q].list)
      BY <1>8
    <3> QED
      BY <1>7, <2>1, <3>1
  <2> QED
    BY <1>3, <1>5, <1>6, <2>1, <2>2 DEF IInv, QueuePart, FinishInv
<1>15. LiveInv'
  BY <1>3, <1>5, <1>6 DEF IInv, QueuePart, LiveInv
<1>16. ASSUME NEW q \in Procs PROVE SweepOf(q)' /\ FrontOf(q)' /\ PassOf(q)'
  <2>1. CASE pc'[q] \notin Executing
    BY <2>1 DEF SweepOf, FrontOf, PassOf, Executing
  <2>2. CASE pc'[q] \in Executing
    <3>1. q # p /\ pc'[q] = pc[q] /\ loc'[q] = loc[q] /\ HasList(q)
      BY <1>1, <1>2, <2>2 DEF HasList
    <3>2. PICK l : l = loc[q].list
      OBVIOUS
    <3>3. Len(l) \in Nat /\ Len(l) > 0 /\ \A i \in 1..Len(l) : node'[l[i]] = node[l[i]]
      BY <1>7, <1>8, <3>1, <3>2
    <3>4. SweepOf(q)'
      BY <1>5, <3>1 DEF SweepOf, IInv, QueuePart, SweepInv
    <3>5. FrontOf(q)' /\ PassOf(q)'
      BY <3>1, <3>2, <3>3, SameFront
    <3> QED
      BY <3>4, <3>5
  <2> QED
    BY <2>1, <2>2
<1> QED
  BY <1>9, <1>10, <1>12, <1>13, <1>14, <1>15, <1>16 DEF QueuePart, SweepInv, FrontInv, PassInv

\* p takes a node from the pool and sets it to x.
Takes(p, n, x) ==
    /\ n \in pool /\ pool' = pool \ {n} /\ node' = [node EXCEPT ![n] = x]
    /\ x \in Node /\ x.version = node[n].version /\ x.task = 0 /\ ~x.iterated
    /\ x.status = "UNEXECUTED"
    /\ x.next = UNCONNECTED
    /\ pc[p] \in Quiet /\ pc'[p] \in {"count_high", "exchange"} /\ loc'[p].node = n
    /\ loc'[p].handle = NULL
    /\ x.high <=> pc'[p] = "count_high"
    /\ x.stopTask => ~x.high
    /\ loc'[p].derefs = 1 \/ (loc'[p].derefs = 0 /\ x.stopTask)

\* A node taken from the pool is not in the queue.
LEMMA TakeNode ==
  ASSUME IInv, NEW p \in Procs, NEW n, NEW x, Takes(p, n, x), Alone(p), tasks' = tasks,
         handles' = handles
  PROVE  /\ n \in Nodes /\ node' \in [Nodes -> Node] /\ pool' \subseteq Nodes /\ node'[n] = x
         /\ ~node[n].stopTask /\ ranks[n] = 0
         /\ \A m \in Nodes : m # n => node'[m] = node[m]
         /\ ranks' = ranks /\ Waiting' = Waiting /\ NodePart'
<1>1. n \in Nodes /\ n \in pool /\ pool' = pool \ {n} /\ pool' \subseteq Nodes /\ pool \subseteq Nodes
  BY DEF Takes, IInv, TypeInv, TypeOK
<1>2. node \in [Nodes -> Node] /\ x \in Node
  BY UnchangedTypes DEF Takes
<1>3. node' \in [Nodes -> Node] /\ node'[n] = x /\ \A m \in Nodes : m # n => node'[m] = node[m]
  BY <1>1, <1>2 DEF Takes
<1>4. /\ x.version = node[n].version /\ x.task = 0 /\ ~x.iterated /\ x.status = "UNEXECUTED"
      /\ x.next = UNCONNECTED /\ (x.high <=> pc'[p] = "count_high") /\ (x.stopTask => ~x.high)
      /\ (loc'[p].derefs = 1 \/ (loc'[p].derefs = 0 /\ x.stopTask))
      /\ pc[p] \in Quiet /\ pc'[p] \in {"count_high", "exchange"} /\ loc'[p].node = n
      /\ loc'[p].handle = NULL
  BY DEF Takes
<1>5. node[n].task = 0 /\ ~node[n].stopTask /\ ~node[n].high /\ ~node[n].iterated
  BY <1>1 DEF IInv, NodePart, NodeInv
<1>6. \A q \in Procs : q # p => pc'[q] = pc[q] /\ loc'[q] = loc[q]
  BY DEF Alone
<1>7. /\ \A m : Owns(p, m)' <=> m = n
      /\ \A m : ~Owns(p, m)
      /\ \A q \in Procs : \A m : q # p => (Owns(q, m)' <=> Owns(q, m))
      /\ \A q \in Procs : ~Owns(q, n)
  <2>1. \A q \in Procs : ~Owns(q, n)
    BY <1>1 DEF IInv, NodePart, OwnerInv
  <2> QED
    BY <1>4, <1>6, <2>1 DEF Owns, Quiet
<1>8. ranks[n] = 0
  BY <1>1, <1>5 DEF ranks
<1>9. ASSUME NEW m \in Nodes PROVE ranks'[m] = ranks[m]
  <2>1. ranks'[m] = IF node'[m].task > 0 THEN node'[m].task
                    ELSE IF node'[m].stopTask /\ \A q \in Procs : ~Owns(q, m)'
                           THEN Len(tasks') + 1 ELSE 0
    BY DEF ranks
  <2>2. CASE m = n
    BY <1>3, <1>4, <1>7, <1>8, <2>1, <2>2
  <2>3. CASE m # n
    <3>1. node'[m] = node[m] /\ ((\A q \in Procs : ~Owns(q, m)') <=> (\A q \in Procs : ~Owns(q, m)))
      BY <1>3, <1>7, <2>3
    <3> QED
      BY <2>1, <3>1 DEF ranks
  <2> QED
    BY <2>2, <2>3
<1>10. ranks' = ranks
  <2>1. ranks = [m \in Nodes |-> ranks[m]] /\ ranks' = [m \in Nodes |-> ranks'[m]]
    BY DEF ranks
  <2> QED
    BY <1>9, <2>1
<1>11. Waiting' = Waiting
  <2>1. n \notin Waiting
    BY <1>5 DEF Waiting
  <2>2. n \notin Waiting'
    BY <1>3, <1>4, <1>7 DEF Waiting
  <2>3. ASSUME NEW m \in Nodes, m # n PROVE m \in Waiting' <=> m \in Waiting
    <3>1. \A q \in Procs : (Owns(q, m)' => pc'[q] # "count_high") <=>
              (Owns(q, m) => pc[q] # "count_high")
      BY <1>6, <1>7, <2>3
    <3> QED
      BY <1>3, <2>3, <3>1 DEF Waiting
  <2>4. Waiting \subseteq Nodes /\ Waiting' \subseteq Nodes
    BY DEF Waiting
  <2> QED
    BY <2>1, <2>2, <2>3, <2>4
<1>12. OwnerInv'
  <2>1. OwnerInv
    BY DEF IInv, NodePart
  <2>2. \A q \in Procs : pc'[q] \in {"count_high", "exchange"} => loc'[q].node \in Nodes
    BY <1>1, <1>4, <1>6, <2>1 DEF OwnerInv
  <2>3. ASSUME NEW q \in Procs, NEW m \in Nodes, Owns(q, m)'
        PROVE  /\ m \notin pool' /\ node'[m].task = 0 /\ ~node'[m].iterated
               /\ node'[m].status = "UNEXECUTED"
               /\ node'[m].next = UNCONNECTED
               /\ pc'[q] = "count_high" => ~node'[m].stopTask /\ node'[m].high
               /\ loc'[q].derefs = 1 \/ (loc'[q].derefs = 0 /\ node'[m].stopTask)
    <3>1. CASE q = p
      <4>1. m = n
        BY <1>7, <2>3, <3>1
      <4> QED
        BY <1>1, <1>3, <1>4, <3>1, <4>1
    <3>2. CASE q # p
      <4>1. Owns(q, m) /\ m # n /\ node'[m] = node[m] /\ pc'[q] = pc[q] /\ loc'[q] = loc[q]
        BY <1>3, <1>6, <1>7, <2>3, <3>2
      <4> QED
        BY <1>1, <2>1, <4>1 DEF OwnerInv
    <3> QED
      BY <3>1, <3>2
  <2>4. \A q, s \in Procs, m \in Nodes : Owns(q, m)' /\ Owns(s, m)' => q = s
    BY <1>7, <2>1 DEF OwnerInv
  <2> QED
    BY <2>2, <2>3, <2>4 DEF OwnerInv
<1>13. NodeInv'
  <2> SUFFICES ASSUME NEW m \in Nodes
               PROVE  /\ m \in pool' => node'[m].task = 0 /\ ~node'[m].stopTask /\ ~node'[m].high
                         /\ ~node'[m].iterated
                      /\ node'[m].iterated => node'[m].status # "UNEXECUTED" /\ ranks'[m] > 0
                      /\ node'[m].task > 0 => ~node'[m].stopTask
                      /\ node'[m].high /\ node'[m].task = 0 => \E q \in Procs : Owns(q, m)'
    BY DEF NodeInv
  <2>1. CASE m = n
    BY <1>1, <1>3, <1>4, <1>7, <2>1
  <2>2. CASE m # n
    <3>1. node'[m] = node[m] /\ ranks'[m] = ranks[m] /\ (m \in pool' => m \in pool)
          /\ \A q \in Procs : Owns(q, m) => Owns(q, m)'
      BY <1>1, <1>3, <1>7, <1>9, <2>2
    <3> QED
      BY <3>1 DEF IInv, NodePart, NodeInv
  <2> QED
    BY <2>1, <2>2
<1>14. TaskInv'
  <2>1. TaskInv
    BY DEF IInv, NodePart
  <2>2. \A m \in Nodes : node'[m].task > 0 => node'[m] = node[m]
    BY <1>3, <1>4
  <2>3. \A m \in Nodes : node[m].task = node'[m].task
    BY <1>3, <1>4, <1>5
  <2>4. \A m \in Nodes : node'[m].task > 0 =>
         /\ node'[m].task <= Len(tasks)
         /\ tasks[node'[m].task].high = node'[m].high
         /\ (node'[m].status = "UNEXECUTED" <=> tasks[node'[m].task].fate = "pending")
    BY <2>1, <2>2 DEF TaskInv
  <2>5. \A m, k \in Nodes : node'[k].task > 0 /\ node'[m].task = node'[k].task => m = k
    BY <2>1, <2>3 DEF TaskInv
  <2>6. \A t \in DOMAIN tasks : tasks[t].fate # "repeated"
        /\ (tasks[t].fate = "pending" => \E m \in Nodes : node'[m].task = t)
    BY <2>1, <2>3 DEF TaskInv
  <2> QED
    BY <2>4, <2>5, <2>6 DEF TaskInv
<1>15. HandleInv'
  <2>1. ASSUME NEW h \in Handle, ValidHandle(h) PROVE ValidHandle(h)'
    <3>1. h.node \in Nodes
      BY <2>1 DEF Handle
    <3>2. node'[h.node].version = node[h.node].version /\ node'[h.node].task = node[h.node].task
      BY <1>3, <1>4, <1>5, <3>1
    <3> QED
      BY <2>1, <3>2 DEF ValidHandle
  <2>2. \A h \in handles' : ValidHandle(h)'
    BY <2>1, OldHandles
  <2>3. ASSUME NEW q \in Procs, pc'[q] \notin Quiet \cup Closed, NEW h, h = loc'[q].handle, h # NULL
        PROVE  ValidHandle(h)'
    <3>1. q # p /\ pc[q] \notin Quiet \cup Closed /\ h = loc[q].handle
      BY <1>4, <1>6, <2>3
    <3>2. h \in Handle
      BY <2>3, <3>1 DEF IInv, TypeInv, LocalType, Local
    <3>3. ValidHandle(h)
      BY <2>3, <3>1 DEF IInv, NodePart, HandleInv
    <3> QED
      BY <2>1, <3>2, <3>3
  <2> QED
    BY <2>2, <2>3 DEF HandleInv
<1> QED
  BY <1>1, <1>3, <1>5, <1>8, <1>10, <1>11, <1>12, <1>13, <1>14, <1>15 DEF NodePart

\* The nodes, the queue and the counter when a node is taken from the pool.
LEMMA TakeStep ==
  ASSUME IInv, NEW p \in Callers, NEW n, NEW x, Takes(p, n, x), Alone(p), Only(p), tasks' = tasks,
         handles' = handles,
         head' = head, highTasks' = highTasks, loc'[p] \in Local
  PROVE  NodePart' /\ QueuePart' /\ CountPart' /\ LocalType'
<1>1. p \in Procs
  BY DEF Procs
<1>2. /\ n \in Nodes /\ \A m \in Nodes : m # n => node'[m] = node[m]
      /\ ranks[n] = 0 /\ ranks' = ranks /\ Waiting' = Waiting /\ NodePart'
  BY <1>1, TakeNode
<1>3. pc[p] \in Quiet /\ pc'[p] \in {"count_high", "exchange"}
  BY DEF Takes
<1>4. QueuePart'
  <2>1. \A m \in Nodes : ranks[m] > 0 => node'[m] = node[m]
    BY <1>2
  <2> QED
    BY <1>1, <1>2, <1>3, <2>1, OutsideQueue
<1>5. \A q \in Procs : /\ InPass(q)' <=> InPass(q)
                       /\ InPass(q) => loc'[q] = loc[q] /\ pc'[q] = pc[q]
  BY <1>3 DEF InPass, Pass, Alone, Quiet
<1>6. CountPart'
  <2>1. \A q \in Procs : pc'[q] \in {"begin", "scan"} => InPass(q)'
    BY DEF InPass, Pass
  <2>2. CountInv'
    BY <1>2, <1>5, <2>1 DEF IInv, CountPart, CountInv
  <2>3. LateInv' /\ InOrder'
    BY <1>5, <2>1 DEF IInv, CountPart, LateInv, InOrder
  <2> QED
    BY <2>2, <2>3 DEF CountPart
<1>7. LocalType'
  <2>1. p \in Fibers => pc'[p] \in FiberLabels
    BY DistinctAssumption
  <2>2. pc'[p] \in CallerLabels
    BY <1>3 DEF CallerLabels
  <2> QED
    BY <1>1, <2>1, <2>2, OnlyType DEF IInv, TypeInv
<1> QED
  BY <1>2, <1>4, <1>6, <1>7

\* execute() taking a node preserves the invariant.
LEMMA AllocateStep ==
  ASSUME IInv, FreshInv, NEW p \in Callers, NEW opt \in Options, Allocate(p, opt)
  PROVE  IInv'
<1>1. p \in Procs /\ pc[p] = "execute" /\ pc[p] \in Quiet /\ loc[p] \in Local /\ loc[p].derefs = 1
      /\ loc[p].handle = NULL
  BY DEF Procs, Allocate, Quiet, IInv, TypeInv, LocalType, SlotPart, DerefsInv, FreshInv, Fresh
<1>2. UNCHANGED slotVars /\ head' = head /\ tasks' = tasks /\ handles' = handles
      /\ highTasks' = highTasks
  BY DEF Allocate, queueVars, history, slotVars
<1>3. CASE stopped /\ Goto(p, "deref", loc[p]) /\ UNCHANGED <<node, pool>>
  <2>1. pc'[p] = "deref" /\ loc'[p] = loc[p] /\ Alone(p) /\ Only(p)
    BY <1>1, <1>3, GotoFacts DEF IInv, TypeInv
  <2>2. UNCHANGED queueView
    BY <1>2, <1>3 DEF queueView
  <2> QED
    BY <1>1, <1>2, <2>1, <2>2, QuietStill
<1>4. ASSUME NEW n \in pool, pool' = pool \ {n},
             node' = [node EXCEPT ![n] = [FreeNode EXCEPT !.version = node[n].version,
                                !.high = opt \in {"high", "high_in_place"},
                                !.inPlace = opt \in {"in_place", "high_in_place"}]],
             Goto(p, IF opt \in {"high", "high_in_place"} THEN "count_high" ELSE "exchange",
                        [loc[p] EXCEPT !.node = n])
      PROVE  IInv'
  <2>1. n \in Nodes /\ node[n].version \in Nat
    BY <1>4 DEF IInv, TypeInv, TypeOK
  <2>2. PICK hi, ip : hi = (opt \in {"high", "high_in_place"})
             /\ ip = (opt \in {"in_place", "high_in_place"})
    OBVIOUS
  <2>3. hi \in BOOLEAN /\ ip \in BOOLEAN
    BY <2>2
  <2> DEFINE v == node[n].version
             x == [FreeNode EXCEPT !.version = v, !.high = hi, !.inPlace = ip]
             r == [loc[p] EXCEPT !.node = n]
             lab == IF hi THEN "count_high" ELSE "exchange"
  <2>4. v \in Nat
    BY <2>1
  <2>5. node' = [node EXCEPT ![n] = x] /\ Goto(p, lab, r)
    BY <1>4, <2>2
  <2> HIDE DEF v
  <2>6. /\ x \in Node /\ x.version = v /\ x.task = 0 /\ x.iterated = FALSE /\ x.status = "UNEXECUTED"
        /\ x.next = UNCONNECTED /\ x.high = hi /\ x.stopTask = FALSE
    BY <2>3, <2>4 DEF FreeNode, Node
  <2>7. r \in Local
    BY <1>1, <2>1, Zenon DEF Local
  <2>8. r.node = n /\ r.handle = NULL /\ r.derefs = 1 /\ r.ver = loc[p].ver
        /\ r.newVer = loc[p].newVer
    BY <1>1, <2>1 DEF Local
  <2> HIDE DEF r, lab, x
  <2>9. pc'[p] = lab /\ loc'[p] = r /\ Alone(p) /\ Only(p)
    BY <1>1, <2>5, GotoFacts DEF IInv, TypeInv
  <2>10. lab \in {"count_high", "exchange"} /\ (hi <=> lab = "count_high")
    BY <2>3 DEF lab
  <2>11. Takes(p, n, x)
    BY <1>1, <1>4, <2>5, <2>6, <2>8, <2>9, <2>10 DEF Takes, v
  <2>12. NodePart' /\ QueuePart' /\ CountPart' /\ LocalType'
    BY <1>2, <2>7, <2>9, <2>11, TakeStep
  <2>13. /\ node' \in [Nodes -> Node] /\ pool' \subseteq Nodes /\ node'[n] = x
         /\ \A m \in Nodes : m # n => node'[m] = node[m]
    BY <1>1, <1>2, <2>9, <2>11, TakeNode
  <2>14. SlotPart'
    <3>1. \A q \in Procs : Still(q)
      BY <1>1, <2>8, <2>9, <2>10 DEF Still, Alone
    <3> QED
      BY <1>2, <3>1, SlotFrame DEF IInv
  <2>15. TypeInv'
    BY <1>2, <2>12, <2>13 DEF IInv, TypeInv, TypeOK, Node, HistoryType, slotVars
  <2>16. thisId' = thisId /\ joinButex' = joinButex /\ slot' = slot /\ vref' = vref
         /\ RunStops' = RunStops /\ (Recycled' <=> Recycled)
    BY <1>2 DEF slotVars, Recycled, RunStops
  <2>17. \A m \in Nodes : node'[m].stopTask => node'[m] = node[m]
    BY <2>6, <2>13
  <2>18. \A q \in Procs : /\ Closing(q)' <=> Closing(q)
                          /\ Closing(q) => pc'[q] = pc[q]
                          /\ HasList(q)' => HasList(q) /\ pc'[q] = pc[q] /\ loc'[q] = loc[q]
    BY <1>1, <2>9, <2>10 DEF Closing, HasList, Alone, Quiet, Closed, Executing
  <2>19. StopNodeInv' /\ ClosingInv' /\ UnusedInv'
    <3>1. StopNodeInv'
      BY <2>16, <2>17, <2>18 DEF IInv, StopPart, StopNodeInv
    <3>2. ClosingInv'
      BY <1>2, <2>16, <2>18 DEF IInv, StopPart, ClosingInv
    <3>3. UnusedInv'
      BY <1>2, <2>16 DEF IInv, StopPart, UnusedInv
    <3> QED
      BY <3>1, <3>2, <3>3
  <2>20. DestroyInv'
    <3>1. ASSUME NEW q \in Procs, HasList(q) PROVE node'[loc[q].list[1]] = node[loc[q].list[1]]
      <4>1. loc[q].list[1] \in Nodes /\ ranks[loc[q].list[1]] > 0
        BY <3>1, ListFacts DEF FirstRank
      <4>2. loc[q].list[1] # n
        BY <1>4, <4>1, RankFacts
      <4> QED
        BY <2>13, <4>1, <4>2
    <3> QED
      BY <1>2, <2>16, <2>18, <3>1 DEF IInv, StopPart, DestroyInv
  <2> QED
    BY <2>12, <2>14, <2>15, <2>19, <2>20 DEF IInv, StopPart
<1> QED
  BY <1>3, <1>4 DEF Allocate

\* The CAS makes one of those who leave push the stop task, the only one of the incarnation.
LEMMA RecycleStep ==
  ASSUME IInv, FreshInv, NEW p \in Callers, Recycle(p)
  PROVE  IInv'
<1>1. p \in Procs /\ pc[p] = "recycle" /\ pc[p] \in Quiet /\ loc[p] \in Local /\ loc[p].derefs = 0
      /\ loc[p].handle = NULL
  BY DEF Procs, Recycle, Quiet, IInv, TypeInv, LocalType, SlotPart, DerefsInv, FreshInv, Fresh
<1>2. /\ UNCHANGED <<stopped, thisId, joinButex, slot, ids, stopRuns, joined>> /\ head' = head
      /\ tasks' = tasks /\ handles' = handles /\ highTasks' = highTasks
  BY DEF Recycle, history
<1>3. CASE Continue(p) /\ UNCHANGED <<vref, node, pool>>
  <2>1. /\ Only(p) /\ Alone(p) /\ pc'[p] \in {"deref", "idle"} /\ loc'[p] \in Local
        /\ loc'[p].derefs = loc[p].derefs /\ (pc'[p] = "deref" <=> loc[p].derefs # 0)
    BY <1>1, <1>3, ContinueFacts DEF IInv, TypeInv
  <2>2. UNCHANGED queueView /\ UNCHANGED slotVars /\ pc[p] \in Quiet \ {"unaddress", "stop_set"}
    BY <1>1, <1>2, <1>3 DEF queueView, slotVars
  <2> QED
    BY <2>1, <2>2, QuietStill
<1>4. CASE /\ vref = [ver |-> loc[p].ver, ref |-> 0] /\ vref' = [ver |-> loc[p].newVer, ref |-> 0]
           /\ OnRecycle(p)
  <2>1. PICK n \in pool : /\ pool' = pool \ {n}
                          /\ node' = [node EXCEPT ![n] = [FreeNode EXCEPT !.version = node[n].version,
                                                                         !.stopTask = TRUE]]
                          /\ Goto(p, "exchange", [loc[p] EXCEPT !.node = n])
    BY <1>4 DEF OnRecycle
  <2>2. n \in Nodes /\ node[n].version \in Nat
    BY <2>1 DEF IInv, TypeInv, TypeOK
  <2> DEFINE v == node[n].version
             x == [FreeNode EXCEPT !.version = v, !.stopTask = TRUE]
             r == [loc[p] EXCEPT !.node = n]
  <2>3. v \in Nat /\ node' = [node EXCEPT ![n] = x] /\ Goto(p, "exchange", r)
    BY <2>1, <2>2
  <2> HIDE DEF v
  <2>4. /\ x \in Node /\ x.version = v /\ x.task = 0 /\ x.iterated = FALSE /\ x.status = "UNEXECUTED"
        /\ x.next = UNCONNECTED /\ x.high = FALSE /\ x.stopTask = TRUE
    BY <2>3 DEF FreeNode, Node
  <2>5. r \in Local
    BY <1>1, <2>2, Zenon DEF Local
  <2>6. r.node = n /\ r.handle = NULL /\ r.derefs = 0 /\ r.ver = loc[p].ver
        /\ r.newVer = loc[p].newVer
    BY <1>1, <2>2 DEF Local
  <2> HIDE DEF r, x
  <2>7. pc'[p] = "exchange" /\ loc'[p] = r /\ Alone(p) /\ Only(p)
    BY <1>1, <2>3, GotoFacts DEF IInv, TypeInv
  <2>8. Takes(p, n, x)
    BY <1>1, <2>1, <2>3, <2>4, <2>6, <2>7 DEF Takes, v
  <2>9. NodePart' /\ QueuePart' /\ CountPart' /\ LocalType'
    BY <1>2, <2>5, <2>7, <2>8, TakeStep
  <2>10. /\ node' \in [Nodes -> Node] /\ pool' \subseteq Nodes /\ node'[n] = x
         /\ \A m \in Nodes : m # n => node'[m] = node[m]
    BY <1>1, <1>2, <2>7, <2>8, TakeNode
  <2>11. /\ SlotPart' /\ slot = "used" /\ vref.ver = thisId + 1 /\ Recycled'
         /\ thisId \notin RunStops /\ joinButex = thisId
    BY <1>1, <1>2, <1>4, <2>6, <2>7, SlotRecycle DEF IInv
  <2>12. ~Recycled /\ RunStops' = RunStops
    <3>1. thisId \in Nat /\ thisId + 1 # thisId + 2
      BY DEF IInv, TypeInv, TypeOK
    <3> QED
      BY <1>2, <2>11, <3>1 DEF Recycled, RunStops
  <2>13. (\A m \in Nodes : ~node[m].stopTask) /\ (\A q \in Procs : ~Closing(q))
    BY <2>12 DEF IInv, StopPart, StopNodeInv, ClosingInv
  <2>14. \A q \in Procs : ~Closing(q)' /\ (HasList(q)' => HasList(q) /\ loc'[q] = loc[q])
    BY <2>7, <2>13 DEF Closing, HasList, Alone, Closed, Executing
  <2>15. \A m \in Nodes : node'[m].stopTask => m = n
    BY <2>10, <2>13
  <2>16. StopNodeInv'
    BY <1>2, <2>2, <2>4, <2>10, <2>11, <2>12, <2>14, <2>15 DEF StopNodeInv
  <2>17. ClosingInv'
    BY <2>14 DEF ClosingInv
  <2>18. DestroyInv'
    <3>1. ASSUME NEW q \in Procs, HasList(q)', loc'[q].destroy PROVE FALSE
      <4>1. HasList(q) /\ loc[q].destroy
        BY <2>14, <3>1
      <4>2. node[loc[q].list[1]].stopTask /\ loc[q].list[1] \in Nodes
        BY <4>1, ListFacts DEF IInv, StopPart, DestroyInv
      <4> QED
        BY <2>13, <4>2
    <3> QED
      BY <3>1 DEF DestroyInv
  <2>19. UnusedInv'
    BY <1>2, <2>12 DEF IInv, StopPart, UnusedInv
  <2>20. TypeInv'
    <3>1. vref' \in [ver : Nat, ref : Nat]
      BY <1>1, <1>4 DEF Local
    <3> QED
      BY <1>2, <2>9, <2>10, <3>1 DEF IInv, TypeInv, TypeOK, Node, HistoryType
  <2> QED
    BY <2>9, <2>11, <2>16, <2>17, <2>18, <2>19, <2>20 DEF IInv, StopPart
<1> QED
  BY <1>3, <1>4 DEF Recycle

\* execute() counting a high-priority task preserves the invariant.
LEMMA CountHighStep ==
  ASSUME IInv, NEW p \in Callers, CountHigh(p)
  PROVE  IInv'
<1>1. p \in Procs /\ pc[p] = "count_high" /\ loc[p] \in Local
  BY DEF Procs, CountHigh, IInv, TypeInv, LocalType
<1>2. /\ UNCHANGED slotVars /\ head' = head /\ tasks' = tasks /\ handles' = handles
      /\ highTasks' = highTasks + 1
      /\ node' = node /\ pool' = pool
  BY DEF CountHigh, slotVars, history
<1>3. pc'[p] = "exchange" /\ loc'[p] = loc[p] /\ Alone(p) /\ Only(p)
  BY <1>1, GotoFacts DEF CountHigh, IInv, TypeInv
<1>4. \A q \in Procs : q # p => pc'[q] = pc[q] /\ loc'[q] = loc[q]
  BY <1>3 DEF Alone
<1>5. PICK n \in Nodes : n = loc[p].node
  BY <1>1 DEF IInv, NodePart, OwnerInv
<1>6. Owns(p, n) /\ (\A m : Owns(p, m) => m = n) /\ (\A q \in Procs : Owns(q, n) => q = p)
  BY <1>1, <1>5 DEF Owns, IInv, NodePart, OwnerInv
<1>7. node[n].high /\ ~node[n].iterated
  BY <1>1, <1>6 DEF IInv, NodePart, OwnerInv
<1>8. \A q \in Procs : \A m : Owns(q, m)' <=> Owns(q, m)
  BY <1>1, <1>3, <1>4 DEF Owns
<1>9. ranks' = ranks
  BY <1>2, <1>8 DEF ranks
<1>10. NodePart'
  <2>1. OwnerInv'
    <3>1. \A q \in Procs : loc'[q] = loc[q] /\ (pc'[q] = "count_high" => pc[q] = "count_high")
          /\ (pc'[q] \in {"count_high", "exchange"} => pc[q] \in {"count_high", "exchange"})
      BY <1>1, <1>3, <1>4
    <3> QED
      BY <1>2, <1>8, <3>1 DEF IInv, NodePart, OwnerInv
  <2>2. NodeInv'
    BY <1>2, <1>8, <1>9 DEF IInv, NodePart, NodeInv
  <2>3. TaskInv'
    BY <1>2 DEF IInv, NodePart, TaskInv
  <2>4. HandleInv'
    <3>1. \A h : ValidHandle(h)' <=> ValidHandle(h)
      BY <1>2 DEF ValidHandle
    <3>2. \A q \in Procs : loc'[q] = loc[q]
          /\ (pc'[q] \notin Quiet \cup Closed => pc[q] \notin Quiet \cup Closed)
      BY <1>1, <1>3, <1>4 DEF Quiet, Closed
    <3> QED
      BY <1>2, <3>1, <3>2 DEF IInv, NodePart, HandleInv
  <2> QED
    BY <2>1, <2>2, <2>3, <2>4 DEF NodePart
<1>11. QueuePart'
  BY <1>1, <1>2, <1>3, <1>9, OutsideQueue
<1>12. Waiting' = Waiting \cup {n} /\ n \notin Waiting
  <2>1. n \notin Waiting
    BY <1>1, <1>6 DEF Waiting
  <2>2. n \in Waiting'
    <3>1. \A q \in Procs : Owns(q, n)' => pc'[q] # "count_high"
      BY <1>3, <1>6, <1>8
    <3> QED
      BY <1>2, <1>7, <3>1 DEF Waiting
  <2>3. ASSUME NEW m \in Nodes, m # n PROVE m \in Waiting' <=> m \in Waiting
    <3>1. \A q \in Procs : (Owns(q, m)' => pc'[q] # "count_high") <=>
              (Owns(q, m) => pc[q] # "count_high")
      BY <1>4, <1>6, <1>8, <2>3
    <3> QED
      BY <1>2, <2>3, <3>1 DEF Waiting
  <2>4. Waiting \subseteq Nodes /\ Waiting' \subseteq Nodes
    BY DEF Waiting
  <2> QED
    BY <2>1, <2>2, <2>3, <2>4
<1>13. Cardinality(Waiting') = Cardinality(Waiting) + 1 /\ Cardinality(Waiting) \in Nat
  <2>1. Waiting \subseteq Nodes
    BY DEF Waiting
  <2>2. IsFiniteSet(Waiting)
    BY <2>1, NodesAssumption, FS_Subset
  <2> QED
    BY <1>12, <2>2, FS_AddElement, FS_CardinalityType
<1>14. \A q \in Procs : /\ InPass(q)' <=> InPass(q)
                        /\ InPass(q) => loc'[q] = loc[q] /\ pc'[q] = pc[q]
  BY <1>1, <1>3, <1>4 DEF InPass, Pass
<1>15. \A q \in Procs : pc'[q] \in {"begin", "scan"} => InPass(q)'
  BY DEF InPass, Pass
<1>16. CountInv'
  <2>1. ASSUME NEW q \in Procs, InPass(q)'
        PROVE  highTasks' = Cardinality(Waiting') + (IF loc'[q].high THEN loc'[q].niterated ELSE 0)
    <3>1. InPass(q) /\ loc'[q] = loc[q]
      BY <1>14, <2>1
    <3>2. PICK x : x = IF loc[q].high THEN loc[q].niterated ELSE 0
      OBVIOUS
    <3>3. x \in Nat
      BY <3>2 DEF IInv, TypeInv, LocalType, Local
    <3>4. highTasks = Cardinality(Waiting) + x
      BY <3>1, <3>2 DEF IInv, CountPart, CountInv
    <3>5. highTasks' = Cardinality(Waiting') + x
      BY <1>2, <1>13, <3>3, <3>4
    <3> QED
      BY <3>1, <3>2, <3>5
  <2>2. ASSUME \A q \in Procs : ~InPass(q)' PROVE highTasks' = Cardinality(Waiting')
    BY <1>2, <1>13, <1>14, <2>2 DEF IInv, CountPart, CountInv
  <2>3. \A q \in Procs : pc'[q] = "begin" /\ loc'[q].high => Waiting' # {}
    BY <1>12
  <2> QED
    BY <2>1, <2>2, <2>3 DEF CountInv
<1>17. LateInv' /\ InOrder'
  BY <1>2, <1>14, <1>15 DEF IInv, CountPart, LateInv, InOrder
<1>18. SlotPart'
  <2>1. loc[p].derefs = 1
    BY <1>1 DEF IInv, SlotPart, DerefsInv
  <2>2. \A q \in Procs : Still(q)
    BY <1>1, <1>3, <1>4 DEF Still
  <2> QED
    BY <1>2, <2>2, SlotFrame DEF IInv
<1>19. thisId' = thisId /\ joinButex' = joinButex /\ slot' = slot /\ vref' = vref
       /\ RunStops' = RunStops /\ (Recycled' <=> Recycled)
  BY <1>2 DEF slotVars, Recycled, RunStops
<1>20. \A q \in Procs : /\ Closing(q)' <=> Closing(q)
                        /\ Closing(q) => pc'[q] = pc[q]
                        /\ HasList(q)' => HasList(q) /\ pc'[q] = pc[q] /\ loc'[q] = loc[q]
  BY <1>1, <1>3, <1>4 DEF Closing, HasList, Closed, Executing
<1>21. StopPart'
  <2>1. StopNodeInv'
    BY <1>2, <1>19, <1>20 DEF IInv, StopPart, StopNodeInv
  <2>2. ClosingInv'
    BY <1>2, <1>19, <1>20 DEF IInv, StopPart, ClosingInv
  <2>3. DestroyInv'
    BY <1>2, <1>19, <1>20 DEF IInv, StopPart, DestroyInv
  <2>4. UnusedInv'
    BY <1>2, <1>19 DEF IInv, StopPart, UnusedInv
  <2> QED
    BY <2>1, <2>2, <2>3, <2>4 DEF StopPart
<1>22. TypeInv'
  <2>1. p \in Fibers => pc'[p] \in FiberLabels
    BY DistinctAssumption
  <2>2. pc'[p] \in CallerLabels
    BY <1>3 DEF CallerLabels
  <2>3. LocalType'
    BY <1>1, <1>3, <2>1, <2>2, OnlyType DEF IInv, TypeInv
  <2>4. highTasks' \in Nat
    BY <1>2 DEF IInv, TypeInv, TypeOK
  <2> QED
    BY <1>2, <2>3, <2>4 DEF IInv, TypeInv, TypeOK, HistoryType, slotVars
<1> QED
  BY <1>10, <1>11, <1>16, <1>17, <1>18, <1>21, <1>22 DEF IInv, CountPart

\* The handle that execute() returns is of its task.
LEMMA PushedHandles ==
  ASSUME IInv, NEW p \in Procs, pc[p] \notin Quiet \cup Closed, Pushed(p)
  PROVE  \A h \in handles' : h \in Handle /\ ValidHandle(h)
<1>1. loc[p].handle \in Handle \cup {NULL}
  BY DEF IInv, TypeInv, LocalType, Local
<1>2. \A h \in {loc[p].handle} \ {NULL} : ValidHandle(h)
  BY DEF IInv, NodePart, HandleInv
<1> QED
  BY <1>1, <1>2, OldHandles DEF Pushed

\* The producer links its node, behind those of the executor, to its predecessor.
LEMMA LinkStep ==
  ASSUME IInv, NEW p \in Callers, Link(p)
  PROVE  IInv'
<1>1. p \in Procs /\ pc[p] = "link" /\ loc[p] \in Local /\ pc[p] \notin Quiet \cup Closed
  BY DEF Procs, Link, Quiet, Closed, IInv, TypeInv, LocalType
<1>2. /\ UNCHANGED slotVars /\ head' = head /\ tasks' = tasks /\ highTasks' = highTasks
      /\ pool' = pool
      /\ \A h \in handles' : h \in Handle /\ ValidHandle(h)
  BY <1>1, PushedHandles DEF Link, slotVars, queueVars
<1>3. /\ Only(p) /\ Alone(p) /\ pc'[p] \in {"deref", "idle"} /\ loc'[p] \in Local
      /\ loc'[p].derefs = loc[p].derefs /\ (pc'[p] = "deref" <=> loc[p].derefs # 0)
  BY <1>1, ContinueFacts DEF Link, IInv, TypeInv
<1>4. \A q \in Procs : q # p => pc'[q] = pc[q] /\ loc'[q] = loc[q]
  BY <1>3 DEF Alone
<1>5. PICK n, m : n = loc[p].node /\ m = loc[p].prev
  OBVIOUS
<1>6. /\ n \in Nodes /\ m \in Nodes /\ ranks[m] = ranks[n] - 1 /\ head # NULL
      /\ \A q \in Procs : Runs(q) => ranks[n] > LastRank(q)
      /\ \A q \in Procs : pc[q] = "link" /\ q # p => loc[q].node # n
  BY <1>1, <1>5 DEF IInv, QueuePart, LinkInv
<1>7. node \in [Nodes -> Node] /\ node' = [node EXCEPT ![n].next = m]
  BY <1>5, UnchangedTypes DEF Link
<1>8. ASSUME NEW k \in Nodes
      PROVE  /\ node'[k] \in Node /\ node'[k].version = node[k].version
             /\ node'[k].stopTask = node[k].stopTask
             /\ node'[k].high = node[k].high /\ node'[k].task = node[k].task
             /\ node'[k].iterated = node[k].iterated
             /\ node'[k].status = node[k].status
             /\ k # n => node'[k] = node[k]
             /\ k = n => node'[k].next = m
  <2>1. node[k] \in Node
    BY <1>7
  <2> QED
    BY <1>6, <1>7, <2>1 DEF Node
<1>9. node' \in [Nodes -> Node]
  <2>1. DOMAIN node' = Nodes /\ node' = [k \in Nodes |-> node'[k]]
    BY <1>7
  <2> QED
    BY <1>8, <2>1
<1>10. ranks[n] > 0 /\ ranks[n] \in Nat
  <2>1. PICK q \in Procs : Runs(q)
    BY <1>6 DEF IInv, QueuePart, HeadInv
  <2>2. ranks[n] > LastRank(q) /\ LastRank(q) = FirstRank(q) + Len(loc[q].list) - 1
        /\ FirstRank(q) \in Nat /\ FirstRank(q) > 0
        /\ Len(loc[q].list) \in Nat /\ Len(loc[q].list) > 0 /\ ranks[n] \in Nat
    BY <1>6, <2>1, RunnerFacts, ListFacts, RankFacts
  <2>3. PICK k, x, y, z : k = Len(loc[q].list) /\ x = FirstRank(q) /\ y = LastRank(q) /\ z = ranks[n]
    OBVIOUS
  <2>4. k \in Nat /\ k > 0 /\ x \in Nat /\ x > 0 /\ y = x + k - 1 /\ z > y /\ z \in Nat
    BY <2>2, <2>3
  <2>5. z > 0
    BY <2>4
  <2> QED
    BY <2>3, <2>4, <2>5
<1>11. NodesKept /\ TasksKept
  <2>1. NodesKept
    BY <1>8, <1>10 DEF NodesKept, IInv, NodePart, NodeInv
  <2>2. TasksKept
    BY <1>2, <1>8 DEF TasksKept, IInv, NodePart, TaskInv
  <2> QED
    BY <2>1, <2>2
<1>12. \A q \in Procs : Keeps(q)
  BY <1>1, <1>3, <1>4 DEF Keeps, Quiet
<1>13. NodePart' /\ ranks' = ranks /\ (\A q \in Procs, k \in Nodes : Owns(q, k)' <=> Owns(q, k))
  BY <1>2, <1>11, <1>12, KeepNodes
<1>14. ~HasList(p) /\ ~HasList(p)' /\ ~Runs(p) /\ ~Runs(p)' /\ pc'[p] # "link"
       /\ pc'[p] \notin Executing /\ pc'[p] # "finish"
  BY <1>1, <1>3 DEF HasList, Runs, Executing
<1>15. \A q \in Procs : (Runs(q)' <=> Runs(q)) /\ (HasList(q)' <=> HasList(q))
       /\ (Runs(q) \/ pc[q] = "finish" => HasList(q))
  BY <1>4, <1>14 DEF Runs, HasList
<1>16. \A q \in Procs : HasList(q) => q # p /\ FirstRank(q)' = FirstRank(q)
       /\ LastRank(q)' = LastRank(q) /\ loc'[q] = loc[q] /\ pc'[q] = pc[q]
  BY <1>4, <1>13, <1>14 DEF FirstRank, LastRank
<1>17. HeadInv'
  BY <1>2, <1>13, <1>15 DEF IInv, QueuePart, HeadInv
<1>18. ListInv'
  BY <1>13, <1>15, <1>16 DEF IInv, QueuePart, ListInv
<1>19. ChainInv'
  <2> SUFFICES ASSUME NEW q \in Procs, NEW k \in Nodes, Runs(q), ranks[k] > LastRank(q)
               PROVE  /\ ~node'[k].iterated
                      /\ node'[k].next # UNCONNECTED =>
                             node'[k].next \in Nodes /\ ranks[node'[k].next] = ranks[k] - 1
    BY <1>13, <1>15, <1>16 DEF ChainInv
  <2>1. /\ ~node[k].iterated
        /\ node[k].next # UNCONNECTED => node[k].next \in Nodes /\ ranks[node[k].next] = ranks[k] - 1
    BY DEF IInv, QueuePart, ChainInv
  <2> QED
    BY <1>6, <1>8, <2>1
<1>20. LinkInv'
  <2> SUFFICES ASSUME NEW q \in Procs, pc'[q] = "link"
               PROVE  /\ loc'[q].node \in Nodes /\ loc'[q].prev \in Nodes
                      /\ node'[loc'[q].node].next = UNCONNECTED
                      /\ ranks'[loc'[q].prev] = ranks'[loc'[q].node] - 1
                      /\ head' # NULL
                      /\ \A s \in Procs : Runs(s)' => ranks'[loc'[q].node] > LastRank(s)'
                      /\ \A s \in Procs : pc'[s] = "link" /\ s # q => loc'[s].node # loc'[q].node
    BY DEF LinkInv
  <2>1. q # p /\ pc[q] = "link" /\ loc'[q] = loc[q] /\ \A s \in Procs : pc'[s] = "link" =>
            pc[s] = "link" /\ loc'[s] = loc[s]
    BY <1>4, <1>14
  <2>2. /\ loc[q].node \in Nodes /\ loc[q].prev \in Nodes
        /\ node[loc[q].node].next = UNCONNECTED
        /\ ranks[loc[q].prev] = ranks[loc[q].node] - 1
        /\ \A s \in Procs : Runs(s) => ranks[loc[q].node] > LastRank(s)
        /\ \A s \in Procs : pc[s] = "link" /\ s # q => loc[s].node # loc[q].node
    BY <2>1 DEF IInv, QueuePart, LinkInv
  <2>3. node'[loc[q].node] = node[loc[q].node]
    BY <1>6, <1>8, <2>1, <2>2
  <2> QED
    BY <1>2, <1>6, <1>13, <1>15, <1>16, <2>1, <2>2, <2>3
<1>21. \A q \in Procs : HasList(q) => \A i \in 1..Len(loc[q].list) : loc[q].list[i] \in Nodes
  BY ListFacts
<1>22. \A q \in Procs : HasList(q) => Len(loc[q].list) \in Nat /\ Len(loc[q].list) > 0
       /\ 1 \in 1..Len(loc[q].list)
  BY ListFacts
<1>23. FinishInv'
  <2>1. \A q \in Procs : pc'[q] = "finish" =>
            pc[q] = "finish" /\ q # p /\ loc'[q] = loc[q] /\ HasList(q)
    BY <1>4, <1>14, <1>15
  <2>2. \A q \in Procs : pc'[q] = "finish" =>
            node'[loc[q].list[1]].iterated = node[loc[q].list[1]].iterated
    BY <1>8, <1>21, <1>22, <2>1
  <2> QED
    BY <1>15, <1>16, <2>1, <2>2 DEF IInv, QueuePart, FinishInv
<1>24. LiveInv'
  BY <1>8, <1>13, <1>15, <1>16 DEF IInv, QueuePart, LiveInv
<1>25. ASSUME NEW q \in Procs PROVE SweepOf(q)' /\ FrontOf(q)' /\ PassOf(q)'
  <2>1. CASE pc'[q] \notin Executing
    BY <2>1 DEF SweepOf, FrontOf, PassOf, Executing
  <2>2. CASE pc'[q] \in Executing
    <3>1. q # p /\ pc'[q] = pc[q] /\ loc'[q] = loc[q] /\ HasList(q) /\ LastRank(q)' = LastRank(q)
      BY <1>4, <1>14, <1>16, <2>2 DEF HasList
    <3>2. PICK l : l = loc[q].list
      OBVIOUS
    <3>3. /\ Len(l) \in Nat /\ Len(l) > 0
          /\ \A i \in 1..Len(l) : node'[l[i]].iterated = node[l[i]].iterated
             /\ node'[l[i]].high = node[l[i]].high
      BY <1>8, <1>21, <1>22, <3>1, <3>2
    <3>4. SweepOf(q)'
      BY <1>13, <3>1 DEF SweepOf, IInv, QueuePart, SweepInv
    <3>5. FrontOf(q)' /\ PassOf(q)'
      BY <3>1, <3>2, <3>3, SameFront
    <3> QED
      BY <3>4, <3>5
  <2> QED
    BY <2>1, <2>2
<1>26. SlotPart'
  <2>1. loc[p].derefs # 0 => loc[p].derefs \in {1, 2}
    BY <1>1 DEF Local
  <2>2. \A q \in Procs : Still(q)
    BY <1>1, <1>3, <1>4, <2>1 DEF Still
  <2> QED
    BY <1>2, <2>2, SlotFrame DEF IInv
<1>27. \A q \in Procs : /\ InPass(q)' <=> InPass(q)
                        /\ InPass(q) => loc'[q] = loc[q] /\ pc'[q] = pc[q]
  BY <1>1, <1>3, <1>4 DEF InPass, Pass
<1>28. CountPart'
  <2>1. \A q \in Procs : pc'[q] \in {"begin", "scan"} => InPass(q)'
    BY DEF InPass, Pass
  <2>2. Waiting' = Waiting
    <3>1. \A q \in Procs, k \in Nodes : (Owns(q, k)' => pc'[q] # "count_high") <=>
              (Owns(q, k) => pc[q] # "count_high")
      BY <1>1, <1>3, <1>4, <1>13
    <3> QED
      BY <1>8, <3>1 DEF Waiting
  <2>3. CountInv'
    BY <1>2, <1>27, <2>1, <2>2 DEF IInv, CountPart, CountInv
  <2>4. LateInv' /\ InOrder'
    BY <1>2, <1>27, <2>1 DEF IInv, CountPart, LateInv, InOrder
  <2> QED
    BY <2>3, <2>4 DEF CountPart
<1>29. thisId' = thisId /\ joinButex' = joinButex /\ slot' = slot /\ vref' = vref
       /\ RunStops' = RunStops /\ (Recycled' <=> Recycled)
  BY <1>2 DEF slotVars, Recycled, RunStops
<1>30. \A q \in Procs : /\ Closing(q)' <=> Closing(q)
                        /\ Closing(q) => pc'[q] = pc[q]
  BY <1>1, <1>3, <1>4 DEF Closing, Closed
<1>31. StopPart'
  <2>1. StopNodeInv'
    BY <1>8, <1>29, <1>30 DEF IInv, StopPart, StopNodeInv
  <2>2. ClosingInv'
    BY <1>2, <1>29, <1>30 DEF IInv, StopPart, ClosingInv
  <2>3. DestroyInv'
    <3>1. \A q \in Procs : HasList(q) => loc[q].list[1] \in Nodes
      BY <1>21, <1>22
    <3> QED
      BY <1>2, <1>8, <1>15, <1>16, <1>29, <3>1 DEF IInv, StopPart, DestroyInv
  <2>4. UnusedInv'
    BY <1>2, <1>29 DEF IInv, StopPart, UnusedInv
  <2> QED
    BY <2>1, <2>2, <2>3, <2>4 DEF StopPart
<1>32. TypeInv'
  <2>1. p \in Fibers => pc'[p] \in FiberLabels
    BY DistinctAssumption
  <2>2. pc'[p] \in CallerLabels
    BY <1>3 DEF CallerLabels, Quiet
  <2>3. LocalType'
    BY <1>1, <1>3, <2>1, <2>2, OnlyType DEF IInv, TypeInv
  <2>4. handles' \subseteq Handle
    BY <1>2
  <2> QED
    BY <1>2, <1>9, <2>3, <2>4 DEF IInv, TypeInv, TypeOK, Node, HistoryType, slotVars
<1> QED
  BY <1>13, <1>17, <1>18, <1>19, <1>20, <1>23, <1>24, <1>25, <1>26, <1>28, <1>31, <1>32
     DEF IInv, QueuePart, SweepInv, FrontInv, PassInv

\* A fiber goes on with the list of the producer.
LEMMA SpawnStep ==
  ASSUME IInv, NEW p \in Callers, NEW f \in Fibers, Spawn(p, f)
  PROVE  IInv'
<1>1. p \in Procs /\ f \in Procs /\ p # f /\ pc[p] = "spawn" /\ pc[f] = "idle" /\ pc[p] \notin Quiet
      \cup Closed
      /\ p \notin Fibers /\ f \notin Callers /\ LocalType
  BY DistinctAssumption DEF Procs, Spawn, Quiet, Closed, IInv, TypeInv
<1>2. /\ UNCHANGED slotVars /\ head' = head /\ tasks' = tasks /\ highTasks' = highTasks
      /\ pool' = pool /\ node' = node
      /\ \A h \in handles' : h \in Handle /\ ValidHandle(h)
  BY <1>1, PushedHandles DEF Spawn, slotVars, queueVars
<1> DEFINE r == [Blank EXCEPT !.op = "fiber", !.list = loc[p].list]
<1>3. loc[p].list \in Seq(Nodes)
  BY <1>1 DEF LocalType, Local
<1>4. r \in Local
  BY <1>3, BlankFacts, Zenon DEF Local
<1>5. r.list = loc[p].list /\ r.handle = NULL /\ r.derefs = 0 /\ r.destroy = FALSE
  BY BlankFacts DEF Blank
<1>6. Rest(p) \in Local /\ Rest(p).derefs = loc[p].derefs /\ RestLabel(p) \in {"deref", "idle"}
      /\ (RestLabel(p) = "deref" <=> loc[p].derefs # 0)
  BY <1>1, RestFacts
<1>7. /\ pc' = [pc EXCEPT ![p] = RestLabel(p), ![f] = "loop"]
      /\ loc' = [loc EXCEPT ![p] = Rest(p), ![f] = r]
  BY DEF Spawn
<1> HIDE DEF r
<1>8. DOMAIN pc = Procs /\ DOMAIN loc = Procs
  BY <1>1 DEF LocalType
<1>9. /\ pc'[p] = RestLabel(p) /\ loc'[p] = Rest(p) /\ pc'[f] = "loop" /\ loc'[f] = r
      /\ \A q \in Procs : q # p /\ q # f => pc'[q] = pc[q] /\ loc'[q] = loc[q]
  BY <1>1, <1>7, <1>8
<1>10. HasList(p) /\ Runs(p) /\ ~HasList(p)' /\ ~Runs(p)' /\ ~HasList(f) /\ ~Runs(f) /\ HasList(f)'
       /\ Runs(f)'
  BY <1>1, <1>6, <1>9 DEF HasList, Runs, Executing
<1>11. /\ head \in Nodes /\ head # NULL
       /\ \A q \in Procs : Runs(q) => q = p
       /\ \A q \in Procs : pc[q] \notin Closed
  BY <1>1, <1>10, RunnerFacts
<1>12. \A q \in Procs : Runs(q)' <=> q = f
  BY <1>9, <1>10, <1>11 DEF Runs
<1>13. NodesKept /\ LinksKept /\ TasksKept
  BY <1>2, SameNodes
<1>14. \A q \in Procs : Keeps(q)
  BY <1>1, <1>5, <1>6, <1>9 DEF Keeps, Quiet
<1>15. NodePart' /\ ranks' = ranks /\ (\A q \in Procs, n \in Nodes : Owns(q, n)' <=> Owns(q, n))
  BY <1>2, <1>13, <1>14, KeepNodes
<1>16. FirstRank(f)' = FirstRank(p) /\ LastRank(f)' = LastRank(p) /\ loc'[f].list = loc[p].list
  BY <1>5, <1>9, <1>15 DEF FirstRank, LastRank
<1>17. \A q \in Procs : q # f /\ HasList(q)' =>
           q # p /\ HasList(q) /\ pc[q] = "finish" /\ pc'[q] = pc[q] /\ loc'[q] = loc[q]
           /\ FirstRank(q)' = FirstRank(q)
  <2>1. \A q \in Procs : q # f /\ HasList(q)' =>
            q # p /\ HasList(q) /\ pc'[q] = pc[q] /\ loc'[q] = loc[q]
    BY <1>9, <1>10 DEF HasList
  <2>2. \A q \in Procs : q # p /\ HasList(q) => pc[q] = "finish"
    BY <1>11 DEF HasList, Runs
  <2> QED
    BY <1>15, <2>1, <2>2 DEF FirstRank
<1>18. HeadInv'
  <2>1. ranks[head] > 0 /\ ranks[head] >= Len(tasks) /\ \A n \in Nodes : ranks[n] <= ranks[head]
    BY <1>11 DEF IInv, QueuePart, HeadInv
  <2> QED
    BY <1>1, <1>2, <1>11, <1>12, <1>15, <2>1 DEF HeadInv
<1>19. ListInv'
  <2> SUFFICES ASSUME NEW q \in Procs, HasList(q)'
               PROVE  /\ Len(loc'[q].list) > 0 /\ FirstRank(q)' > 0
                      /\ \A i \in 1..Len(loc'[q].list) : ranks'[loc'[q].list[i]] = FirstRank(q)' + i - 1
    BY DEF ListInv
  <2>1. CASE q = f
    <3>1. /\ Len(loc[p].list) > 0 /\ FirstRank(p) > 0
          /\ \A i \in 1..Len(loc[p].list) : ranks[loc[p].list[i]] = FirstRank(p) + i - 1
      BY <1>1, <1>10, ListFacts
    <3> QED
      BY <1>15, <1>16, <2>1, <3>1
  <2>2. CASE q # f
    BY <1>15, <1>17, <2>2 DEF IInv, QueuePart, ListInv
  <2> QED
    BY <2>1, <2>2
<1>20. ChainInv'
  <2> SUFFICES ASSUME NEW n \in Nodes, ranks[n] > LastRank(p)
               PROVE  /\ ~node[n].iterated
                      /\ node[n].next # UNCONNECTED =>
                             node[n].next \in Nodes /\ ranks[node[n].next] = ranks[n] - 1
    BY <1>2, <1>12, <1>15, <1>16 DEF ChainInv
  <2> QED
    BY <1>1, <1>10 DEF IInv, QueuePart, ChainInv
<1>21. LinkInv'
  <2>1. \A q \in Procs : pc'[q] = "link" => pc[q] = "link" /\ loc'[q] = loc[q]
    BY <1>6, <1>9
  <2> SUFFICES ASSUME NEW q \in Procs, pc'[q] = "link"
               PROVE  /\ loc[q].node \in Nodes /\ loc[q].prev \in Nodes
                      /\ node[loc[q].node].next = UNCONNECTED
                      /\ ranks[loc[q].prev] = ranks[loc[q].node] - 1
                      /\ head # NULL
                      /\ ranks[loc[q].node] > LastRank(p)
                      /\ \A s \in Procs : pc[s] = "link" /\ s # q => loc[s].node # loc[q].node
    BY <1>2, <1>12, <1>15, <1>16, <2>1 DEF LinkInv
  <2> QED
    BY <1>1, <1>10, <2>1 DEF IInv, QueuePart, LinkInv
<1>22. FinishInv'
  <2>1. \A q \in Procs : pc'[q] = "finish" => HasList(q)' /\ q # f
    BY <1>9 DEF HasList
  <2> SUFFICES ASSUME NEW q \in Procs, pc'[q] = "finish"
               PROVE  /\ Len(loc[q].list) = 1 /\ node[loc[q].list[1]].iterated
                      /\ FirstRank(q) < FirstRank(p)
                      /\ \A s \in Procs : pc[s] = "finish" /\ s # q => loc[s].list[1] # loc[q].list[1]
    BY <1>2, <1>12, <1>16, <1>17, <2>1 DEF FinishInv
  <2>2. pc[q] = "finish"
    BY <1>17, <2>1
  <2> QED
    BY <1>1, <1>10, <2>2 DEF IInv, QueuePart, FinishInv
<1>23. LiveInv'
  <2> SUFFICES ASSUME NEW n \in Nodes, ranks[n] > 0, ~node[n].iterated
               PROVE  FirstRank(p) <= ranks[n]
    BY <1>1, <1>2, <1>10, <1>15, <1>16 DEF LiveInv
  <2> QED
    BY <1>1, <1>10, RunnerFacts
<1>24. ASSUME NEW q \in Procs PROVE SweepOf(q)' /\ FrontOf(q)' /\ PassOf(q)'
  <2>1. CASE q # f
    <3>1. pc'[q] \notin Executing
      BY <1>12, <2>1 DEF Runs
    <3> QED
      BY <3>1 DEF SweepOf, FrontOf, PassOf, Executing
  <2>2. CASE q = f
    <3>1. FrontOf(p)
      BY <1>1 DEF IInv, QueuePart, FrontInv
    <3>2. FrontOf(f)'
      BY <1>1, <1>2, <1>9, <1>16, <3>1 DEF FrontOf
    <3>3. PassOf(f)' /\ SweepOf(f)'
      BY <1>9 DEF PassOf, SweepOf
    <3> QED
      BY <2>2, <3>2, <3>3
  <2> QED
    BY <2>1, <2>2
<1>25. SlotPart'
  <2>1. loc[p].derefs # 0 => loc[p].derefs \in {1, 2}
    BY <1>1 DEF LocalType, Local
  <2>2. loc[f].derefs = 0
    BY <1>1 DEF IInv, SlotPart, DerefsInv
  <2>3. \A q \in Procs : Still(q)
    BY <1>1, <1>5, <1>6, <1>9, <2>1, <2>2 DEF Still
  <2> QED
    BY <1>2, <2>3, SlotFrame DEF IInv
<1>26. \A q \in Procs : ~InPass(q) /\ ~InPass(q)' /\ pc'[q] \notin {"begin", "scan"}
  <2>1. \A q \in Procs : ~InPass(q)
    BY <1>1, <1>10, RunnerFacts DEF InPass, Pass
  <2>2. \A q \in Procs : ~InPass(q)'
    BY <1>6, <1>9, <2>1 DEF InPass, Pass
  <2> QED
    BY <2>1, <2>2 DEF InPass, Pass
<1>27. CountPart'
  <2>1. Waiting' = Waiting
    <3>1. \A q \in Procs, k \in Nodes : (Owns(q, k)' => pc'[q] # "count_high") <=>
              (Owns(q, k) => pc[q] # "count_high")
      BY <1>1, <1>6, <1>9, <1>15
    <3> QED
      BY <1>2, <3>1 DEF Waiting
  <2>2. CountInv'
    BY <1>2, <1>26, <2>1 DEF IInv, CountPart, CountInv
  <2>3. LateInv' /\ InOrder'
    BY <1>2, <1>26 DEF IInv, CountPart, LateInv, InOrder
  <2> QED
    BY <2>2, <2>3 DEF CountPart
<1>28. thisId' = thisId /\ joinButex' = joinButex /\ slot' = slot /\ vref' = vref
       /\ RunStops' = RunStops /\ (Recycled' <=> Recycled)
  BY <1>2 DEF slotVars, Recycled, RunStops
<1>29. \A q \in Procs : ~Closing(q) /\ ~Closing(q)'
  BY <1>6, <1>9, <1>11 DEF Closing, Closed
<1>30. StopPart'
  <2>1. StopNodeInv'
    BY <1>2, <1>28, <1>29 DEF IInv, StopPart, StopNodeInv
  <2>2. ClosingInv'
    BY <1>29 DEF ClosingInv
  <2>3. DestroyInv'
    BY <1>2, <1>5, <1>9, <1>17, <1>28 DEF IInv, StopPart, DestroyInv
  <2>4. UnusedInv'
    BY <1>2, <1>28 DEF IInv, StopPart, UnusedInv
  <2> QED
    BY <2>1, <2>2, <2>3, <2>4 DEF StopPart
<1>31. TypeInv'
  <2>1. "deref" \in CallerLabels /\ "idle" \in CallerLabels /\ "loop" \in FiberLabels
    BY DEF CallerLabels, FiberLabels, Quiet
  <2>2. pc' \in [Procs -> CallerLabels \cup FiberLabels]
    <3>1. RestLabel(p) \in CallerLabels \cup FiberLabels /\ "loop" \in CallerLabels \cup FiberLabels
      BY <1>6, <2>1
    <3> QED
      BY <1>1, <1>7, <3>1 DEF LocalType
  <2>3. loc' \in [Procs -> Local]
    BY <1>1, <1>4, <1>6, <1>7 DEF LocalType
  <2>4. \A c \in Callers : pc'[c] \in CallerLabels
    BY <1>1, <1>6, <1>9, <2>1 DEF LocalType, Procs
  <2>5. \A g \in Fibers : pc'[g] \in FiberLabels
    BY <1>1, <1>9, <2>1 DEF LocalType, Procs
  <2>6. handles' \subseteq Handle
    BY <1>2
  <2> QED
    BY <1>2, <2>2, <2>3, <2>4, <2>5, <2>6 DEF IInv, TypeInv, TypeOK, LocalType, HistoryType,
         slotVars
<1> QED
  BY <1>15, <1>18, <1>19, <1>20, <1>21, <1>22, <1>23, <1>24, <1>25, <1>27, <1>30, <1>31
     DEF IInv, QueuePart, SweepInv, FrontInv, PassInv

\* The node that p is about to push: the stop task is the last one, and a task has a
\* reference that keeps the stop task away.
LEMMA ExchangeOwner ==
  ASSUME IInv, NEW p \in Procs, pc[p] = "exchange", NEW n, n = loc[p].node
  PROVE  /\ n \in Nodes /\ Owns(p, n) /\ n \notin pool /\ node[n].task = 0 /\ ~node[n].iterated
         /\ node[n].status = "UNEXECUTED" /\ node[n].next = UNCONNECTED /\ ranks[n] = 0
         /\ (node[n].stopTask => ~node[n].high) /\ slot = "used"
         /\ (~node[n].stopTask => thisId \notin RunStops)
         /\ \A m \in Nodes : node[m].stopTask => m = n
         /\ \A q \in Procs : ~Closing(q)
         /\ \A q \in Procs : HasList(q) => ~loc[q].destroy
         /\ \A m \in Nodes : ranks[m] <= Len(tasks)
<1>1. n \in Nodes /\ Owns(p, n)
  BY DEF Owns, IInv, NodePart, OwnerInv
<1>2. /\ n \notin pool /\ node[n].task = 0 /\ ~node[n].iterated
      /\ node[n].status = "UNEXECUTED" /\ node[n].next = UNCONNECTED
      /\ (loc[p].derefs = 1 \/ (loc[p].derefs = 0 /\ node[n].stopTask))
  BY <1>1 DEF IInv, NodePart, OwnerInv
<1>3. ranks[n] = 0
  BY <1>1, <1>2 DEF ranks
<1>6. /\ (node[n].stopTask => ~node[n].high) /\ slot = "used"
      /\ (~node[n].stopTask => thisId \notin RunStops)
      /\ \A m \in Nodes : node[m].stopTask => m = n
      /\ \A q \in Procs : ~Closing(q)
  <2>1. CASE node[n].stopTask
    <3>1. Recycled /\ ~node[n].high /\ (\A m \in Nodes : node[m].stopTask => m = n)
          /\ \A q \in Procs : ~Closing(q)
      BY <1>1, <2>1 DEF IInv, StopPart, StopNodeInv
    <3> QED
      BY <2>1, <3>1 DEF Recycled
  <2>2. CASE ~node[n].stopTask
    <3>1. Held(p) >= 1
      BY <1>2, <2>2 DEF Held
    <3>2. slot = "used" /\ vref.ver \in {thisId, thisId + 1}
      BY <3>1 DEF IInv, SlotPart, HolderInv, Knows
    <3>3. thisId \in Nat
      BY DEF IInv, TypeInv, TypeOK
    <3>4. vref.ver # thisId + 2
      BY <3>2, <3>3
    <3>5. ~Recycled
      BY <3>4 DEF Recycled
    <3>6. (\A m \in Nodes : ~node[m].stopTask) /\ (\A q \in Procs : ~Closing(q))
      BY <3>5 DEF IInv, StopPart, StopNodeInv, ClosingInv
    <3>7. thisId \notin RunStops
      BY <3>2, <3>4 DEF IInv, SlotPart, VersionInv
    <3> QED
      BY <2>2, <3>2, <3>6, <3>7
  <2> QED
    BY <2>1, <2>2
<1>7. ASSUME NEW q \in Procs, HasList(q), loc[q].destroy PROVE FALSE
  <2>1. node[loc[q].list[1]].stopTask
    BY <1>7 DEF IInv, StopPart, DestroyInv
  <2>2. loc[q].list[1] \in Nodes /\ ranks[loc[q].list[1]] > 0
    BY <1>7, ListFacts DEF FirstRank
  <2> QED
    BY <1>3, <1>6, <2>1, <2>2
<1>8. ASSUME NEW m \in Nodes PROVE ranks[m] <= Len(tasks)
  <2>1. CASE ranks[m] > 0
    <3>1. ~node[m].stopTask
      BY <1>3, <1>6, <2>1
    <3> QED
      BY <2>1, <3>1, RankFacts
  <2>2. CASE ~(ranks[m] > 0)
    BY <2>2, RankFacts
  <2> QED
    BY <2>1, <2>2
<1> QED
  BY <1>1, <1>2, <1>3, <1>6, <1>7, <1>8

\* What the exchange of _head does.
NewTask(n) == [high |-> node[n].high, queue |-> thisId, fate |-> "pending", late |-> 0]
Entered(p, n) ==
    /\ head' = n /\ Alone(p) /\ Only(p) /\ handles' = handles /\ pool' = pool
    /\ highTasks' = highTasks
    /\ UNCHANGED slotVars
    /\ node' \in [Nodes -> Node] /\ tasks' \in Seq(Task)
    /\ \A m \in Nodes : m # n => node'[m] = node[m]
    /\ node'[n].version = node[n].version /\ node'[n].stopTask = node[n].stopTask
    /\ node'[n].high = node[n].high /\ node'[n].iterated = node[n].iterated
    /\ node'[n].status = node[n].status
    /\ node'[n].task = TaskNumber(n)
    /\ Len(tasks') = (IF node[n].stopTask THEN Len(tasks) ELSE Len(tasks) + 1)
    /\ \A t \in 1..Len(tasks) : tasks'[t] = tasks[t]
    /\ ~node[n].stopTask => tasks'[Len(tasks) + 1] = NewTask(n)
    /\ loc'[p] \in Local /\ loc'[p].handle = NewHandle(n) /\ loc'[p].derefs = loc[p].derefs
    /\ loc'[p].cur = 1 /\ loc'[p].niterated = 0 /\ loc'[p].destroy = FALSE
    /\ \/ /\ head # NULL /\ pc'[p] = "link" /\ loc'[p].node = n /\ loc'[p].prev = head
          /\ node'[n].next = UNCONNECTED
       \/ /\ head = NULL /\ pc'[p] \in {"begin", "spawn"} /\ loc'[p].list = <<n>>
             /\ loc'[p].high = node[n].high

\* What the exchange of _head does.
LEMMA ExchangeEffect ==
  ASSUME IInv, FreshInv, NEW p \in Procs, Exchange(p)
  PROVE  pc[p] = "exchange" /\ Entered(p, loc[p].node)
<1>1. pc[p] = "exchange" /\ loc[p] \in Local /\ loc[p].cur = 1 /\ loc[p].niterated = 0
      /\ loc[p].destroy = FALSE /\ LocalType
  BY DEF Exchange, IInv, TypeInv, LocalType, FreshInv, Fresh
<1>2. PICK n : n = loc[p].node
  OBVIOUS
<1>3. n \in Nodes /\ node[n].next = UNCONNECTED
  BY <1>1, <1>2, ExchangeOwner
<1>4. /\ head' = n /\ handles' = handles /\ pool' = pool /\ highTasks' = highTasks
      /\ UNCHANGED slotVars
      /\ tasks' = EnterTask(n)
  BY <1>2 DEF Exchange, slotVars
<1>5. node \in [Nodes -> Node] /\ tasks \in Seq(Task) /\ node[n] \in Node /\ thisId \in Nat
      /\ head \in Nodes \cup {NULL}
  BY <1>3, UnchangedTypes DEF IInv, TypeInv, TypeOK
<1>6. /\ tasks' \in Seq(Task) /\ Len(tasks') = (IF node[n].stopTask THEN Len(tasks) ELSE Len(tasks) + 1)
      /\ \A t \in 1..Len(tasks) : tasks'[t] = tasks[t]
      /\ ~node[n].stopTask => tasks'[Len(tasks) + 1] = NewTask(n)
  <2>1. CASE node[n].stopTask
    BY <1>4, <1>5, <2>1 DEF EnterTask
  <2>2. CASE ~node[n].stopTask
    <3>1. tasks' = Append(tasks, NewTask(n))
      BY <1>4, <2>2 DEF EnterTask, NewTask
    <3>2. NewTask(n) \in Task
      BY <1>5 DEF NewTask, Task, Node
    <3> QED
      BY <1>5, <2>2, <3>1, <3>2
  <2> QED
    BY <2>1, <2>2
<1>7. TaskNumber(n) \in Nat /\ NewHandle(n) \in Handle \cup {NULL}
  <2>1. TaskNumber(n) \in Nat
    BY <1>5 DEF TaskNumber
  <2>2. node[n].version \in Nat
    BY <1>5 DEF Node
  <2> QED
    BY <1>3, <2>1, <2>2 DEF NewHandle, Handle
<1> DEFINE r == [loc[p] EXCEPT !.handle = NewHandle(n)]
<1>8. r \in Local
  BY <1>1, <1>7, Zenon DEF Local
<1>9. /\ r.handle = NewHandle(n) /\ r.derefs = loc[p].derefs /\ r.cur = 1 /\ r.niterated = 0
      /\ r.destroy = FALSE
      /\ r.node = n
  BY <1>1, <1>2, <1>7 DEF Local
<1>10. \/ /\ head # NULL /\ node' = [node EXCEPT ![n].task = TaskNumber(n)]
          /\ Goto(p, "link", [r EXCEPT !.prev = head])
       \/ /\ head = NULL /\ node' = [node EXCEPT ![n].task = TaskNumber(n), ![n].next = NULL]
          /\ Goto(p, IF node[n].inPlace THEN "begin" ELSE "spawn",
             [r EXCEPT !.list = <<n>>, !.high = node[n].high])
  BY <1>2, Zenon DEF Exchange
<1> HIDE DEF r
<1>11. /\ \A m \in Nodes : m # n => node'[m] = node[m]
       /\ node' \in [Nodes -> Node]
       /\ node'[n].version = node[n].version /\ node'[n].stopTask = node[n].stopTask
       /\ node'[n].high = node[n].high /\ node'[n].iterated = node[n].iterated
       /\ node'[n].status = node[n].status
       /\ node'[n].task = TaskNumber(n) /\ (head # NULL => node'[n].next = UNCONNECTED)
  <2>1. DOMAIN node' = Nodes /\ node' = [m \in Nodes |-> node'[m]] /\ \A m \in Nodes : m # n =>
            node'[m] = node[m]
    BY <1>5, <1>10
  <2>2. /\ node'[n] \in Node
        /\ node'[n].version = node[n].version /\ node'[n].stopTask = node[n].stopTask
        /\ node'[n].high = node[n].high /\ node'[n].iterated = node[n].iterated
        /\ node'[n].status = node[n].status
        /\ node'[n].task = TaskNumber(n) /\ (head # NULL => node'[n].next = UNCONNECTED)
    BY <1>3, <1>5, <1>7, <1>10 DEF Node
  <2>3. \A m \in Nodes : node'[m] \in Node
    BY <1>5, <2>1, <2>2
  <2> QED
    BY <2>1, <2>2, <2>3
<1>12. CASE head # NULL /\ Goto(p, "link", [r EXCEPT !.prev = head])
  <2> DEFINE s == [r EXCEPT !.prev = head]
  <2>1. s \in Local
    BY <1>5, <1>8, Zenon DEF Local
  <2>2. /\ s.handle = r.handle /\ s.derefs = r.derefs /\ s.cur = r.cur /\ s.niterated = r.niterated
        /\ s.destroy = r.destroy /\ s.node = r.node /\ s.prev = head
    BY <1>5, <1>8 DEF Local
  <2>3. Goto(p, "link", s)
    BY <1>12
  <2> HIDE DEF s
  <2>4. pc'[p] = "link" /\ loc'[p] = s /\ Alone(p) /\ Only(p)
    BY <1>1, <2>3, GotoFacts
  <2> QED
    BY <1>1, <1>2, <1>4, <1>6, <1>9, <1>11, <1>12, <2>1, <2>2, <2>4 DEF Entered
<1>13. CASE head = NULL /\ Goto(p, IF node[n].inPlace THEN "begin" ELSE "spawn",
            [r EXCEPT !.list = <<n>>, !.high = node[n].high])
  <2>1. node[n].high \in BOOLEAN
    BY <1>5 DEF Node
  <2>2. <<n>> \in Seq(Nodes)
    BY <1>3
  <2>3. PICK l, hi, lab : l = <<n>> /\ hi = node[n].high
             /\ lab = IF node[n].inPlace THEN "begin" ELSE "spawn"
    OBVIOUS
  <2> DEFINE s == [r EXCEPT !.list = l, !.high = hi]
  <2>4. s \in Local
    BY <1>8, <2>1, <2>2, <2>3, Zenon DEF Local
  <2>5. /\ s.handle = r.handle /\ s.derefs = r.derefs /\ s.cur = r.cur /\ s.niterated = r.niterated
        /\ s.destroy = r.destroy /\ s.list = l /\ s.high = hi
    BY <1>8 DEF Local
  <2>6. Goto(p, lab, s) /\ lab \in {"begin", "spawn"}
    BY <1>13, <2>3
  <2> HIDE DEF s
  <2>7. pc'[p] = lab /\ loc'[p] = s /\ Alone(p) /\ Only(p)
    BY <1>1, <2>6, GotoFacts
  <2> QED
    BY <1>1, <1>2, <1>4, <1>6, <1>9, <1>11, <1>13, <2>3, <2>4, <2>5, <2>6, <2>7 DEF Entered
<1> QED
  BY <1>10, <1>12, <1>13

\* The node that p pushes becomes the last one.
LEMMA ExchangeRanks ==
  ASSUME IInv, NEW p \in Procs, pc[p] = "exchange", NEW n, n = loc[p].node, Entered(p, n)
  PROVE  /\ \A q \in Procs, m \in Nodes : Owns(q, m)' <=> q # p /\ Owns(q, m)
         /\ \A q \in Procs : ~Owns(q, n)'
         /\ \A m \in Nodes : Owns(p, m) => m = n
         /\ ranks'[n] = Len(tasks) + 1
         /\ \A m \in Nodes : m # n => ranks'[m] = ranks[m]
         /\ Waiting' = Waiting
<1>1. /\ n \in Nodes /\ Owns(p, n) /\ node[n].task = 0 /\ ranks[n] = 0
      /\ \A m \in Nodes : node[m].stopTask => m = n
  BY ExchangeOwner
<1>2. /\ pc'[p] \in {"link", "begin", "spawn"}
         /\ (\A q \in Procs : q # p => pc'[q] = pc[q] /\ loc'[q] = loc[q])
      /\ \A m \in Nodes : m # n => node'[m] = node[m]
  BY DEF Entered, Alone
<1>3. \A q \in Procs, m \in Nodes : Owns(q, m)' <=> (q # p /\ Owns(q, m))
  BY <1>2 DEF Owns
<1>4. \A q \in Procs : Owns(q, n) => q = p
  BY <1>1 DEF IInv, NodePart, OwnerInv
<1>5. \A q \in Procs : ~Owns(q, n)'
  BY <1>1, <1>3, <1>4
<1>6. \A m \in Nodes : Owns(p, m) => m = n
  BY DEF Owns
<1>7. ranks'[n] = Len(tasks) + 1
  <2>1. Len(tasks) \in Nat
    BY RankFacts
  <2>2. CASE node[n].stopTask
    <3>1. node'[n].task = 0 /\ node'[n].stopTask /\ Len(tasks') = Len(tasks)
      BY <2>2 DEF Entered, TaskNumber
    <3> QED
      BY <1>1, <1>5, <2>1, <3>1 DEF ranks
  <2>3. CASE ~node[n].stopTask
    <3>1. node'[n].task = Len(tasks) + 1
      BY <2>3 DEF Entered, TaskNumber
    <3> QED
      BY <1>1, <2>1, <3>1 DEF ranks
  <2> QED
    BY <2>2, <2>3
<1>8. ASSUME NEW m \in Nodes, m # n PROVE ranks'[m] = ranks[m]
  <2>1. node'[m] = node[m] /\ ~node[m].stopTask
    BY <1>1, <1>2, <1>8
  <2> QED
    BY <2>1 DEF ranks
<1>9. ASSUME NEW m \in Nodes PROVE m \in Waiting' <=> m \in Waiting
  <2>1. node'[m].high = node[m].high /\ node'[m].iterated = node[m].iterated
    BY <1>2 DEF Entered
  <2>2. \A q \in Procs : (Owns(q, m)' => pc'[q] # "count_high") <=>
            (Owns(q, m) => pc[q] # "count_high")
    BY <1>2, <1>3
  <2> QED
    BY <2>1, <2>2 DEF Waiting
<1>10. Waiting' = Waiting
  <2>1. Waiting' \subseteq Nodes /\ Waiting \subseteq Nodes
    BY DEF Waiting
  <2> QED
    BY <1>9, <2>1
<1> QED
  BY <1>3, <1>5, <1>6, <1>7, <1>8, <1>10

\* The exchange: nodes, tasks and handles.
LEMMA ExchangeNodes ==
  ASSUME IInv, NEW p \in Procs, pc[p] = "exchange", NEW n, n = loc[p].node, Entered(p, n)
  PROVE  NodePart'
<1>1. /\ n \in Nodes /\ Owns(p, n) /\ n \notin pool /\ node[n].task = 0 /\ ~node[n].iterated
      /\ node[n].status = "UNEXECUTED" /\ (node[n].stopTask => ~node[n].high)
  BY ExchangeOwner
<1>2. /\ pc'[p] \in {"link", "begin", "spawn"}
         /\ (\A q \in Procs : q # p => pc'[q] = pc[q] /\ loc'[q] = loc[q])
      /\ \A m \in Nodes : m # n => node'[m] = node[m]
  BY DEF Entered, Alone
<1>3. /\ \A q \in Procs, m \in Nodes : Owns(q, m)' <=> q # p /\ Owns(q, m)
      /\ \A q \in Procs : ~Owns(q, n)'
      /\ \A m \in Nodes : Owns(p, m) => m = n
      /\ \A m \in Nodes : m # n => ranks'[m] = ranks[m]
  BY ExchangeRanks
<1>4. /\ pool' = pool /\ handles' = handles
      /\ node'[n].version = node[n].version /\ node'[n].stopTask = node[n].stopTask
      /\ node'[n].high = node[n].high /\ node'[n].iterated = node[n].iterated
      /\ node'[n].status = node[n].status
      /\ node'[n].task = TaskNumber(n)
  BY DEF Entered
<1>50. PICK T, U : T = Len(tasks) /\ U = Len(tasks')
  OBVIOUS
<1>5. T \in Nat /\ DOMAIN tasks = 1..T /\ U \in Nat /\ DOMAIN tasks' = 1..U
  <2>1. tasks' \in Seq(Task)
    BY DEF Entered
  <2> QED
    BY <1>50, <2>1, RankFacts
<1>6. /\ \A t \in 1..T : tasks'[t] = tasks[t]
      /\ node[n].stopTask => node'[n].task = 0 /\ U = T
      /\ ~node[n].stopTask => /\ node'[n].task = T + 1 /\ U = T + 1
                              /\ tasks'[T + 1].high = node[n].high
                              /\ tasks'[T + 1].fate = "pending"
  <2>1. NewTask(n).high = node[n].high /\ NewTask(n).fate = "pending"
    BY DEF NewTask
  <2> QED
    BY <1>50, <2>1 DEF Entered, TaskNumber
<1>7. OwnerInv'
  <2>1. \A q \in Procs : pc'[q] \in {"count_high", "exchange"} =>
            q # p /\ pc'[q] = pc[q] /\ loc'[q] = loc[q]
    BY <1>2
  <2>2. \A q \in Procs, m \in Nodes : Owns(q, m)' =>
            q # p /\ Owns(q, m) /\ m # n /\ node'[m] = node[m] /\ pc'[q] = pc[q] /\ loc'[q] = loc[q]
    BY <1>2, <1>3
  <2> QED
    BY <1>4, <2>1, <2>2 DEF IInv, NodePart, OwnerInv
<1>8. NodeInv'
  <2> SUFFICES ASSUME NEW m \in Nodes
               PROVE  /\ m \in pool' => node'[m].task = 0 /\ ~node'[m].stopTask /\ ~node'[m].high
                         /\ ~node'[m].iterated
                      /\ node'[m].iterated => node'[m].status # "UNEXECUTED" /\ ranks'[m] > 0
                      /\ node'[m].task > 0 => ~node'[m].stopTask
                      /\ node'[m].high /\ node'[m].task = 0 => \E q \in Procs : Owns(q, m)'
    BY DEF NodeInv
  <2>1. CASE m = n
    BY <1>1, <1>4, <1>5, <1>6, <2>1
  <2>2. CASE m # n
    <3>1. /\ m \in pool => node[m].task = 0 /\ ~node[m].stopTask /\ ~node[m].high /\ ~node[m].iterated
          /\ node[m].iterated => node[m].status # "UNEXECUTED" /\ ranks[m] > 0
          /\ node[m].task > 0 => ~node[m].stopTask
          /\ node[m].high /\ node[m].task = 0 => \E q \in Procs : Owns(q, m)
      BY DEF IInv, NodePart, NodeInv
    <3>2. \A q \in Procs : Owns(q, m) => Owns(q, m)'
      BY <1>3, <2>2
    <3> QED
      BY <1>2, <1>3, <1>4, <2>2, <3>1, <3>2
  <2> QED
    BY <2>1, <2>2
<1>9. TaskInv'
  <2>1. ASSUME NEW m \in Nodes, node'[m].task > 0
        PROVE  /\ node'[m].task <= U
               /\ tasks'[node'[m].task].high = node'[m].high
               /\ node'[m].status = "UNEXECUTED" <=> tasks'[node'[m].task].fate = "pending"
               /\ m # n => node'[m].task <= T
    <3>1. CASE m = n
      BY <1>1, <1>4, <1>5, <1>6, <2>1, <3>1
    <3>2. CASE m # n
      <4>1. node'[m] = node[m] /\ node[m].task > 0 /\ node[m].task \in Nat
        BY <1>2, <2>1, <3>2, UnchangedTypes DEF Node
      <4>2. /\ node[m].task <= T
            /\ tasks[node[m].task].high = node[m].high
            /\ node[m].status = "UNEXECUTED" <=> tasks[node[m].task].fate = "pending"
        BY <1>50, <4>1 DEF IInv, NodePart, TaskInv
      <4>3. PICK t : t = node[m].task
        OBVIOUS
      <4>4. t \in 1..T /\ t <= U
        BY <1>5, <1>6, <4>1, <4>2, <4>3
      <4> QED
        BY <1>6, <4>1, <4>2, <4>3, <4>4
    <3> QED
      BY <3>1, <3>2
  <2>2. ASSUME NEW m \in Nodes, NEW k \in Nodes, node'[k].task > 0, node'[m].task = node'[k].task
        PROVE  m = k
    <3>1. node'[m].task > 0
      BY <2>2
    <3>2. CASE m # n /\ k # n
      BY <1>2, <2>2, <3>2 DEF IInv, NodePart, TaskInv
    <3>3. CASE m = n /\ k # n
      BY <1>5, <1>6, <2>1, <2>2, <3>1, <3>3
    <3>4. CASE m # n /\ k = n
      BY <1>5, <1>6, <2>1, <2>2, <3>1, <3>4
    <3> QED
      BY <3>2, <3>3, <3>4
  <2>3. ASSUME NEW t \in DOMAIN tasks'
        PROVE  /\ tasks'[t].fate # "repeated"
               /\ tasks'[t].fate = "pending" => \E m \in Nodes : node'[m].task = t
    <3>1. CASE t \in 1..T
      <4>1. tasks'[t] = tasks[t] /\ t > 0 /\ t \in DOMAIN tasks
        BY <1>5, <1>6, <3>1
      <4>2. /\ tasks[t].fate # "repeated"
            /\ tasks[t].fate = "pending" => \E m \in Nodes : node[m].task = t
        BY <4>1 DEF IInv, NodePart, TaskInv
      <4>3. \A m \in Nodes : node[m].task = t => node'[m].task = t
        BY <1>1, <1>2, <4>1
      <4> QED
        BY <4>1, <4>2, <4>3
    <3>2. CASE t \notin 1..T
      <4>1. ~node[n].stopTask /\ t = T + 1
        BY <1>5, <1>6, <3>2
      <4> QED
        BY <1>1, <1>6, <4>1
    <3> QED
      BY <3>1, <3>2
  <2> QED
    BY <1>50, <2>1, <2>2, <2>3 DEF TaskInv
<1>10. HandleInv'
  <2>1. ASSUME NEW h \in Handle, ValidHandle(h) PROVE ValidHandle(h)'
    <3>1. h.node \in Nodes /\ h.task \in 1..T /\ h.version <= node[h.node].version
          /\ (h.version = node[h.node].version => node[h.node].task = h.task)
      BY <1>50, <2>1 DEF Handle, ValidHandle
    <3>2. h.task \in 1..U /\ h.task # 0
      BY <1>5, <1>6, <3>1
    <3>3. CASE h.node = n
      BY <1>1, <1>4, <1>50, <3>1, <3>2, <3>3 DEF ValidHandle
    <3>4. CASE h.node # n
      BY <1>2, <1>50, <3>1, <3>2, <3>4 DEF ValidHandle
    <3> QED
      BY <3>3, <3>4
  <2>2. \A h \in handles : h \in Handle /\ ValidHandle(h)
    BY DEF IInv, TypeInv, TypeOK, NodePart, HandleInv
  <2>3. ASSUME NEW q \in Procs, pc'[q] \notin Quiet \cup Closed, NEW h \in {loc'[q].handle} \ {NULL}
        PROVE  ValidHandle(h)'
    <3>1. CASE q # p
      <4>1. pc[q] \notin Quiet \cup Closed /\ h \in {loc[q].handle} \ {NULL}
        BY <1>2, <2>3, <3>1
      <4>2. h \in Handle
        BY <4>1 DEF IInv, TypeInv, LocalType, Local
      <4>3. ValidHandle(h)
        BY <4>1 DEF IInv, NodePart, HandleInv
      <4> QED
        BY <2>1, <4>2, <4>3
    <3>2. CASE q = p
      <4>1. h = NewHandle(n) /\ h # NULL
        BY <2>3, <3>2 DEF Entered
      <4>2. ~node[n].stopTask /\ h = [node |-> n, version |-> node[n].version, task |-> TaskNumber(n)]
        BY <4>1 DEF NewHandle
      <4>3. h.node = n /\ h.version = node[n].version /\ h.task = T + 1
        BY <1>50, <4>2 DEF TaskNumber
      <4>4. node[n].version \in Nat
        BY <1>1, UnchangedTypes DEF Node
      <4>5. h.task \in 1..U /\ h.version <= node'[n].version /\ node'[n].task = h.task
        BY <1>4, <1>5, <1>6, <4>2, <4>3, <4>4
      <4> QED
        BY <1>50, <4>3, <4>5 DEF ValidHandle
    <3> QED
      BY <3>1, <3>2
  <2> QED
    BY <1>4, <2>1, <2>2, <2>3 DEF HandleInv
<1> QED
  BY <1>7, <1>8, <1>9, <1>10 DEF NodePart

\* The queue when it had an executor: the new node is behind all others and not
\* linked yet.
LEMMA ExchangeJoins ==
  ASSUME IInv, NEW p \in Procs, pc[p] = "exchange", NEW n, n = loc[p].node, Entered(p, n), head # NULL
  PROVE  QueuePart'
<1>1. /\ n \in Nodes /\ ~node[n].iterated /\ ranks[n] = 0 /\ \A m \in Nodes : ranks[m] <= Len(tasks)
  BY ExchangeOwner
<1>2. /\ head' = n /\ pc'[p] = "link" /\ loc'[p].node = n /\ loc'[p].prev = head
      /\ node'[n].next = UNCONNECTED /\ node'[n].iterated = node[n].iterated
      /\ \A m \in Nodes : m # n => node'[m] = node[m]
  BY DEF Entered
<1>3. \A q \in Procs : q # p => pc'[q] = pc[q] /\ loc'[q] = loc[q]
  BY DEF Entered, Alone
<1>4. PICK T, U : T = Len(tasks) /\ U = Len(tasks')
  OBVIOUS
<1>5. T \in Nat /\ U \in {T, T + 1} /\ (\A m \in Nodes : ranks[m] \in Nat /\ ranks[m] <= T)
  BY <1>1, <1>4, RankFacts DEF Entered
<1>6. ranks'[n] = T + 1 /\ \A m \in Nodes : m # n => ranks'[m] = ranks[m]
  BY <1>4, ExchangeRanks
<1>7. PICK e \in Procs : Runs(e)
  BY DEF IInv, QueuePart, HeadInv
<1>8. /\ head \in Nodes /\ ranks[head] = T /\ T > 0 /\ head # n
  <2>1. head \in Nodes /\ ranks[head] > 0 /\ ranks[head] >= T
    BY <1>4, <1>7, RunnerFacts DEF IInv, QueuePart, HeadInv
  <2> QED
    BY <1>1, <1>5, <2>1
<1>9. ~Runs(p) /\ ~Runs(p)' /\ ~HasList(p) /\ ~HasList(p)' /\ pc'[p] \notin Executing
      /\ pc'[p] # "finish"
  BY <1>2 DEF Runs, HasList, Executing
<1>10. \A q \in Procs : (Runs(q)' <=> Runs(q)) /\ (HasList(q)' <=> HasList(q))
       /\ (Runs(q) \/ pc[q] = "finish" => HasList(q))
  BY <1>3, <1>9 DEF Runs, HasList
<1>11. \A q \in Procs : HasList(q) => q # p /\ loc'[q] = loc[q] /\ pc'[q] = pc[q]
  BY <1>3, <1>9
<1>12. ASSUME NEW q \in Procs, HasList(q)
       PROVE  /\ Len(loc[q].list) \in Nat /\ Len(loc[q].list) > 0
              /\ \A i \in 1..Len(loc[q].list) : loc[q].list[i] \in Nodes /\ loc[q].list[i] # n
              /\ 1 \in 1..Len(loc[q].list) /\ Len(loc[q].list) \in 1..Len(loc[q].list)
              /\ FirstRank(q) \in Nat /\ LastRank(q) \in Nat /\ LastRank(q) > 0
              /\ FirstRank(q) <= LastRank(q)
              /\ LastRank(q) <= T
  <2>1. PICK k, x, y, l : k = Len(loc[q].list) /\ x = FirstRank(q) /\ y = LastRank(q)
             /\ l = loc[q].list
    OBVIOUS
  <2>2. /\ k \in Nat /\ k > 0 /\ x \in Nat /\ x > 0 /\ y = x + k - 1 /\ l[k] \in Nodes
        /\ \A i \in 1..k : l[i] \in Nodes /\ ranks[l[i]] > 0
    BY <1>12, <2>1, ListFacts
  <2>3. y \in Nat /\ y > 0 /\ x <= y /\ 1 \in 1..k /\ k \in 1..k
    BY <2>2
  <2>4. y <= T
    BY <1>5, <2>1, <2>2 DEF LastRank
  <2>5. \A i \in 1..k : l[i] # n
    BY <1>1, <2>2
  <2> QED
    BY <2>1, <2>2, <2>3, <2>4, <2>5
<1>13. ASSUME NEW q \in Procs, HasList(q) PROVE FirstRank(q)' = FirstRank(q)
              /\ LastRank(q)' = LastRank(q)
  BY <1>6, <1>11, <1>12, <1>13 DEF FirstRank, LastRank
<1>14. HeadInv'
  <2>1. head' # NULL /\ ranks'[head'] = T + 1
    BY <1>1, <1>2, <1>6, DistinctAssumption
  <2>2. \A m \in Nodes : ranks'[m] <= T + 1
    BY <1>5, <1>6
  <2>3. T + 1 > 0 /\ T + 1 >= U
    BY <1>5
  <2>4. \A q, s \in Procs : Runs(q) /\ Runs(s) => q = s
    BY DEF IInv, QueuePart, HeadInv
  <2> QED
    BY <1>4, <1>7, <1>10, <2>1, <2>2, <2>3, <2>4 DEF HeadInv
<1>15. ListInv'
  <2> SUFFICES ASSUME NEW q \in Procs, HasList(q)
               PROVE  /\ Len(loc'[q].list) > 0 /\ FirstRank(q)' > 0
                      /\ \A i \in 1..Len(loc'[q].list) : ranks'[loc'[q].list[i]] = FirstRank(q)' + i - 1
    BY <1>10 DEF ListInv
  <2>1. /\ Len(loc[q].list) > 0 /\ FirstRank(q) > 0
        /\ \A i \in 1..Len(loc[q].list) : ranks[loc[q].list[i]] = FirstRank(q) + i - 1
    BY DEF IInv, QueuePart, ListInv
  <2>2. \A i \in 1..Len(loc[q].list) : ranks'[loc[q].list[i]] = ranks[loc[q].list[i]]
    BY <1>6, <1>12
  <2> QED
    BY <1>11, <1>13, <2>1, <2>2
<1>16. ChainInv'
  <2> SUFFICES ASSUME NEW q \in Procs, NEW m \in Nodes, Runs(q), ranks'[m] > LastRank(q)
               PROVE  /\ ~node'[m].iterated
                      /\ node'[m].next # UNCONNECTED =>
                            node'[m].next \in Nodes /\ ranks'[node'[m].next] = ranks'[m] - 1
    BY <1>10, <1>13 DEF ChainInv
  <2>1. CASE m = n
    BY <1>1, <1>2, <2>1
  <2>2. CASE m # n
    <3>1. ranks[m] > LastRank(q) /\ ranks'[m] = ranks[m] /\ node'[m] = node[m]
      BY <1>2, <1>6, <2>2
    <3>2. /\ ~node[m].iterated
          /\ node[m].next # UNCONNECTED =>
                 node[m].next \in Nodes /\ ranks[node[m].next] = ranks[m] - 1
      BY <3>1 DEF IInv, QueuePart, ChainInv
    <3>3. LastRank(q) \in Nat /\ LastRank(q) > 0 /\ ranks[m] \in Nat
      BY <1>5, <1>10, <1>12
    <3>4. node[m].next # UNCONNECTED => node[m].next # n
      BY <1>1, <3>1, <3>2, <3>3
    <3> QED
      BY <1>6, <3>1, <3>2, <3>4
  <2> QED
    BY <2>1, <2>2
<1>17. LinkInv'
  <2>1. ASSUME NEW q \in Procs, pc[q] = "link"
        PROVE  /\ loc[q].node \in Nodes /\ loc[q].node # n /\ loc[q].prev \in Nodes /\ loc[q].prev # n
               /\ node[loc[q].node].next = UNCONNECTED
               /\ ranks[loc[q].prev] = ranks[loc[q].node] - 1
               /\ \A s \in Procs : Runs(s) => ranks[loc[q].node] > LastRank(s)
               /\ \A r \in Procs : pc[r] = "link" /\ r # q => loc[r].node # loc[q].node
    <3>1. /\ loc[q].node \in Nodes /\ loc[q].prev \in Nodes
          /\ node[loc[q].node].next = UNCONNECTED
          /\ ranks[loc[q].prev] = ranks[loc[q].node] - 1
          /\ \A s \in Procs : Runs(s) => ranks[loc[q].node] > LastRank(s)
          /\ \A r \in Procs : pc[r] = "link" /\ r # q => loc[r].node # loc[q].node
      BY <2>1 DEF IInv, QueuePart, LinkInv
    <3>2. ranks[loc[q].node] > LastRank(e) /\ LastRank(e) \in Nat /\ LastRank(e) > 0
          /\ ranks[loc[q].node] \in Nat
      BY <1>5, <1>7, <1>10, <1>12, <3>1
    <3>3. PICK x, y : x = ranks[loc[q].node] /\ y = LastRank(e)
      OBVIOUS
    <3>4. x # 0 /\ x - 1 # 0
      BY <3>2, <3>3
    <3> QED
      BY <1>1, <3>1, <3>3, <3>4
  <2> SUFFICES ASSUME NEW q \in Procs, pc'[q] = "link"
               PROVE  /\ loc'[q].node \in Nodes /\ loc'[q].prev \in Nodes
                      /\ node'[loc'[q].node].next = UNCONNECTED
                      /\ ranks'[loc'[q].prev] = ranks'[loc'[q].node] - 1
                      /\ head' # NULL
                      /\ \A s \in Procs : Runs(s)' => ranks'[loc'[q].node] > LastRank(s)'
                      /\ \A s \in Procs : pc'[s] = "link" /\ s # q => loc'[s].node # loc'[q].node
    BY DEF LinkInv
  <2>2. head' # NULL
    BY <1>1, <1>2, DistinctAssumption
  <2>3. CASE q = p
    <3>1. ranks'[head] = T + 1 - 1
      BY <1>5, <1>6, <1>8
    <3>2. \A s \in Procs : Runs(s) => T + 1 > LastRank(s)
      BY <1>5, <1>10, <1>12
    <3>3. \A s \in Procs : pc'[s] = "link" /\ s # p => loc'[s].node # n
      BY <1>3, <2>1
    <3>4. \A s \in Procs : Runs(s)' => ranks'[n] > LastRank(s)'
      BY <1>6, <1>10, <1>13, <3>2
    <3>5. ranks'[head] = ranks'[n] - 1
      <4>1. PICK x, y : x = ranks'[head] /\ y = ranks'[n]
        OBVIOUS
      <4>2. x = y - 1
        BY <1>5, <1>6, <3>1, <4>1
      <4> QED
        BY <4>1, <4>2
    <3> QED
      BY <1>1, <1>2, <1>8, <2>2, <2>3, <3>3, <3>4, <3>5
  <2>4. CASE q # p
    <3>1. pc[q] = "link" /\ loc'[q] = loc[q]
      BY <1>3, <2>4
    <3>2. /\ loc[q].node \in Nodes /\ loc[q].node # n /\ loc[q].prev \in Nodes /\ loc[q].prev # n
          /\ node[loc[q].node].next = UNCONNECTED
          /\ ranks[loc[q].prev] = ranks[loc[q].node] - 1
          /\ \A s \in Procs : Runs(s) => ranks[loc[q].node] > LastRank(s)
          /\ \A r \in Procs : pc[r] = "link" /\ r # q => loc[r].node # loc[q].node
      BY <2>1, <3>1
    <3>3. \A s \in Procs : pc'[s] = "link" /\ s # q => loc'[s].node # loc[q].node
      BY <1>2, <1>3, <3>2
    <3> QED
      BY <1>2, <1>6, <1>10, <1>13, <2>2, <3>1, <3>2, <3>3
  <2> QED
    BY <2>3, <2>4
<1>18. FinishInv'
  <2>1. \A q \in Procs : pc'[q] = "finish" =>
            pc[q] = "finish" /\ q # p /\ loc'[q] = loc[q] /\ HasList(q)
    BY <1>3, <1>9, <1>10
  <2>2. \A q \in Procs : pc'[q] = "finish" =>
            node'[loc[q].list[1]].iterated = node[loc[q].list[1]].iterated
    BY <1>2, <1>12, <2>1
  <2> QED
    BY <1>10, <1>13, <2>1, <2>2 DEF IInv, QueuePart, FinishInv
<1>19. LiveInv'
  <2> SUFFICES ASSUME NEW m \in Nodes, ranks'[m] > 0, ~node'[m].iterated
               PROVE  \E q \in Procs : Runs(q)' /\ FirstRank(q)' <= ranks'[m]
    BY DEF LiveInv
  <2>1. CASE m = n
    <3>1. FirstRank(e) <= T + 1
      BY <1>5, <1>7, <1>10, <1>12
    <3> QED
      BY <1>6, <1>7, <1>10, <1>13, <2>1, <3>1
  <2>2. CASE m # n
    BY <1>2, <1>6, <1>10, <1>13, <2>2 DEF IInv, QueuePart, LiveInv
  <2> QED
    BY <2>1, <2>2
<1>20. ASSUME NEW q \in Procs PROVE SweepOf(q)' /\ FrontOf(q)' /\ PassOf(q)'
  <2>1. CASE pc'[q] \notin Executing
    BY <2>1 DEF SweepOf, FrontOf, PassOf, Executing
  <2>2. CASE pc'[q] \in Executing
    <3>1. q # p /\ pc'[q] = pc[q] /\ loc'[q] = loc[q] /\ HasList(q) /\ LastRank(q)' = LastRank(q)
      BY <1>3, <1>9, <1>13, <2>2 DEF HasList
    <3>2. \A i \in 1..Len(loc[q].list) : /\ node'[loc[q].list[i]].iterated = node[loc[q].list[i]].iterated
                                         /\ node'[loc[q].list[i]].high = node[loc[q].list[i]].high
      BY <1>2, <1>12, <3>1
    <3>3. SweepOf(q)'
      <4> SUFFICES ASSUME pc[q] = "sweep" PROVE loc[q].newHead \in Nodes
                          /\ ranks'[loc[q].newHead] > LastRank(q)
        BY <3>1 DEF SweepOf
      <4>1. loc[q].newHead \in Nodes /\ ranks[loc[q].newHead] > LastRank(q)
        BY DEF IInv, QueuePart, SweepInv, SweepOf
      <4>2. LastRank(q) \in Nat
        BY <1>12, <3>1
      <4> QED
        BY <1>1, <1>6, <4>1, <4>2
    <3>4. FrontOf(q)' /\ PassOf(q)'
      BY <3>1, <3>2, SameFront
    <3> QED
      BY <3>3, <3>4
  <2> QED
    BY <2>1, <2>2
<1> QED
  BY <1>14, <1>15, <1>16, <1>17, <1>18, <1>19, <1>20 DEF QueuePart, SweepInv, FrontInv, PassInv

\* The queue when it was empty: p executes, and all other nodes are done.
LEMMA ExchangeStarts ==
  ASSUME IInv, NEW p \in Procs, pc[p] = "exchange", NEW n, n = loc[p].node, Entered(p, n), head = NULL
  PROVE  QueuePart'
<1>1. /\ n \in Nodes /\ ~node[n].iterated /\ ranks[n] = 0 /\ \A m \in Nodes : ranks[m] <= Len(tasks)
  BY ExchangeOwner
<1>2. /\ head' = n /\ pc'[p] \in {"begin", "spawn"} /\ loc'[p].list = <<n>>
      /\ loc'[p].cur = 1 /\ loc'[p].niterated = 0 /\ node'[n].iterated = node[n].iterated
      /\ \A m \in Nodes : m # n => node'[m] = node[m]
  BY DEF Entered
<1>3. \A q \in Procs : q # p => pc'[q] = pc[q] /\ loc'[q] = loc[q]
  BY DEF Entered, Alone
<1>4. PICK T, U : T = Len(tasks) /\ U = Len(tasks')
  OBVIOUS
<1>5. T \in Nat /\ U \in {T, T + 1} /\ (\A m \in Nodes : ranks[m] \in Nat /\ ranks[m] <= T)
  BY <1>1, <1>4, RankFacts DEF Entered
<1>6. ranks'[n] = T + 1 /\ \A m \in Nodes : m # n => ranks'[m] = ranks[m]
  BY <1>4, ExchangeRanks
<1>7. \A q \in Procs : ~Runs(q) /\ pc[q] # "link"
  BY DEF IInv, QueuePart, HeadInv, LinkInv
<1>8. /\ Runs(p)' /\ HasList(p)' /\ (\A q \in Procs : Runs(q)' => q = p)
         /\ (\A q \in Procs : pc'[q] # "link")
      /\ (\A q \in Procs : HasList(q)' /\ q # p => pc'[q] = "finish")
      /\ (\A q \in Procs : pc'[q] = "finish" =>
             q # p /\ pc[q] = "finish" /\ HasList(q) /\ loc'[q] = loc[q])
      /\ (\A q \in Procs : pc'[q] \in Executing => q = p)
  BY <1>2, <1>3, <1>7 DEF Runs, HasList, Executing
<1>9. Len(loc'[p].list) = 1 /\ loc'[p].list[1] = n /\ FirstRank(p)' = T + 1 /\ LastRank(p)' = T + 1
  <2>1. Len(loc'[p].list) = 1 /\ loc'[p].list[1] = n
    BY <1>2
  <2> QED
    BY <1>6, <2>1 DEF FirstRank, LastRank
<1>10. ASSUME NEW q \in Procs, pc'[q] = "finish"
       PROVE  /\ Len(loc[q].list) = 1 /\ loc[q].list[1] \in Nodes /\ loc[q].list[1] # n
              /\ node[loc[q].list[1]].iterated
              /\ FirstRank(q)' = FirstRank(q) /\ FirstRank(q) \in Nat /\ FirstRank(q) > 0
              /\ FirstRank(q) <= T
  <2>1. pc[q] = "finish" /\ HasList(q) /\ loc'[q] = loc[q]
    BY <1>8, <1>10
  <2>2. loc[q].list[1] \in Nodes /\ FirstRank(q) \in Nat /\ FirstRank(q) > 0
    BY <2>1, ListFacts
  <2>3. Len(loc[q].list) = 1 /\ node[loc[q].list[1]].iterated
    BY <2>1 DEF IInv, QueuePart, FinishInv
  <2> QED
    BY <1>1, <1>5, <1>6, <2>1, <2>2, <2>3 DEF FirstRank
<1>11. HeadInv'
  <2>1. head' # NULL /\ ranks'[head'] = T + 1
    BY <1>1, <1>2, <1>6, DistinctAssumption
  <2>2. \A m \in Nodes : ranks'[m] <= T + 1
    BY <1>5, <1>6
  <2>3. T + 1 > 0 /\ T + 1 >= U
    BY <1>5
  <2> QED
    BY <1>4, <1>8, <2>1, <2>2, <2>3 DEF HeadInv
<1>12. ListInv'
  <2> SUFFICES ASSUME NEW q \in Procs, HasList(q)'
               PROVE  /\ Len(loc'[q].list) > 0 /\ FirstRank(q)' > 0
                      /\ \A i \in 1..Len(loc'[q].list) : ranks'[loc'[q].list[i]] = FirstRank(q)' + i - 1
    BY DEF ListInv
  <2>1. CASE q = p
    <3>1. \A i \in 1..Len(loc'[p].list) : i = 1
      BY <1>9
    <3> QED
      BY <1>5, <1>6, <1>9, <2>1, <3>1
  <2>2. CASE q # p
    <3>1. pc'[q] = "finish" /\ loc'[q] = loc[q]
      BY <1>8, <2>2
    <3>2. \A i \in 1..Len(loc[q].list) : i = 1
      <4>1. Len(loc[q].list) = 1
        BY <1>10, <3>1
      <4> QED
        BY <4>1
    <3>3. ranks'[loc'[q].list[1]] = FirstRank(q)'
      BY DEF FirstRank
    <3> QED
      BY <1>10, <3>1, <3>2, <3>3
  <2> QED
    BY <2>1, <2>2
<1>13. ChainInv'
  <2>1. \A m \in Nodes : ~(ranks'[m] > T + 1)
    BY <1>5, <1>6
  <2> QED
    BY <1>8, <1>9, <2>1 DEF ChainInv
<1>14. LinkInv'
  BY <1>8 DEF LinkInv
<1>15. FinishInv'
  <2> SUFFICES ASSUME NEW q \in Procs, pc'[q] = "finish"
               PROVE  /\ Len(loc'[q].list) = 1 /\ node'[loc'[q].list[1]].iterated
                      /\ \A s \in Procs : Runs(s)' => FirstRank(q)' < FirstRank(s)'
                      /\ \A s \in Procs : pc'[s] = "finish" /\ s # q =>
                             loc'[s].list[1] # loc'[q].list[1]
    BY DEF FinishInv
  <2>1. FirstRank(q)' < T + 1
    BY <1>5, <1>10
  <2>2. \A s \in Procs : Runs(s)' => FirstRank(q)' < FirstRank(s)'
    BY <1>8, <1>9, <2>1
  <2>3. \A s \in Procs : pc'[s] = "finish" /\ s # q => loc'[s].list[1] # loc'[q].list[1]
    BY <1>8 DEF IInv, QueuePart, FinishInv
  <2>4. Len(loc'[q].list) = 1 /\ node'[loc'[q].list[1]].iterated
    BY <1>2, <1>8, <1>10
  <2> QED
    BY <2>2, <2>3, <2>4
<1>16. LiveInv'
  <2> SUFFICES ASSUME NEW m \in Nodes, ranks'[m] > 0, ~node'[m].iterated
               PROVE  \E q \in Procs : Runs(q)' /\ FirstRank(q)' <= ranks'[m]
    BY DEF LiveInv
  <2>1. CASE m = n
    <3>1. T + 1 <= T + 1
      BY <1>5
    <3> QED
      BY <1>6, <1>8, <1>9, <2>1, <3>1
  <2>2. CASE m # n
    BY <1>2, <1>6, <1>7, <2>2 DEF IInv, QueuePart, LiveInv
  <2> QED
    BY <2>1, <2>2
<1>17. ASSUME NEW q \in Procs PROVE SweepOf(q)' /\ FrontOf(q)' /\ PassOf(q)'
  <2>1. CASE pc'[q] \notin Executing
    BY <2>1 DEF SweepOf, FrontOf, PassOf, Executing
  <2>2. CASE pc'[q] \in Executing
    <3>1. q = p
      BY <1>8, <2>2
    <3> QED
      BY <1>1, <1>2, <1>9, <3>1 DEF SweepOf, FrontOf, PassOf
  <2> QED
    BY <2>1, <2>2
<1> QED
  BY <1>11, <1>12, <1>13, <1>14, <1>15, <1>16, <1>17 DEF QueuePart, SweepInv, FrontInv, PassInv

\* The exchange: counter and order of the tasks.
LEMMA ExchangeCount ==
  ASSUME IInv, NEW p \in Procs, pc[p] = "exchange", NEW n, n = loc[p].node, Entered(p, n)
  PROVE  CountPart'
<1>1. /\ n \in Nodes /\ ~node[n].iterated /\ Waiting' = Waiting /\ highTasks' = highTasks
      /\ \A q \in Procs : ~Owns(q, n)'
  <2>1. n \in Nodes /\ ~node[n].iterated
    BY ExchangeOwner
  <2>2. Waiting' = Waiting /\ \A q \in Procs : ~Owns(q, n)'
    BY ExchangeRanks
  <2>3. highTasks' = highTasks
    BY DEF Entered
  <2> QED
    BY <2>1, <2>2, <2>3
<1>2. \A q \in Procs : q # p => pc'[q] = pc[q] /\ loc'[q] = loc[q]
  BY DEF Entered, Alone
<1>3. \/ head # NULL /\ pc'[p] = "link"
      \/ head = NULL /\ pc'[p] \in {"begin", "spawn"} /\ loc'[p].high = node[n].high
  BY DEF Entered
<1>4. loc'[p].niterated = 0 /\ ~InPass(p) /\ (InPass(p)' <=> pc'[p] = "begin")
  BY <1>3 DEF Entered, InPass, Pass
<1>5. \A q \in Procs : q # p => (InPass(q)' <=> InPass(q))
  BY <1>2 DEF InPass
<1>6. head = NULL => \A q \in Procs : ~InPass(q)
  BY DEF IInv, QueuePart, HeadInv, Runs, InPass, Pass, Executing
<1>7. highTasks \in Nat
  BY UnchangedTypes
<1>8. CountInv'
  <2>1. CASE pc'[p] # "begin"
    <3>1. \A q \in Procs : (InPass(q)' <=> InPass(q)) /\ (InPass(q) => q # p)
      BY <1>4, <1>5, <2>1
    <3>2. \A q \in Procs : pc'[q] = "begin" => q # p
      BY <2>1
    <3> QED
      BY <1>1, <1>2, <3>1, <3>2 DEF IInv, CountPart, CountInv
  <2>2. CASE pc'[p] = "begin"
    <3>1. head = NULL /\ loc'[p].high = node[n].high /\ InPass(p)' /\ \A q \in Procs : InPass(q)' =>
              q = p
      BY <1>3, <1>4, <1>5, <1>6, <2>2
    <3>2. highTasks = Cardinality(Waiting)
      BY <1>6, <3>1 DEF IInv, CountPart, CountInv
    <3>3. highTasks' = Cardinality(Waiting') + (IF loc'[p].high THEN loc'[p].niterated ELSE 0)
      <4>1. PICK c, x : c = Cardinality(Waiting) /\ x = IF loc'[p].high THEN loc'[p].niterated ELSE 0
        OBVIOUS
      <4>2. x = 0
        BY <1>4, <4>1
      <4>3. highTasks' = c + x
        BY <1>1, <1>7, <3>2, <4>1, <4>2
      <4> QED
        BY <1>1, <4>1, <4>3
    <3>4. loc'[p].high => n \in Waiting'
      <4>1. node'[n].high = node[n].high /\ node'[n].iterated = node[n].iterated
        BY DEF Entered
      <4> QED
        BY <1>1, <3>1, <4>1 DEF Waiting
    <3>5. \A q \in Procs : pc'[q] = "begin" => InPass(q)'
      BY DEF InPass, Pass
    <3> QED
      BY <3>1, <3>3, <3>4, <3>5 DEF CountInv
  <2> QED
    BY <2>1, <2>2
<1>9. PICK T, U : T = Len(tasks) /\ U = Len(tasks')
  OBVIOUS
<1>10. T \in Nat /\ U \in {T, T + 1} /\ DOMAIN tasks = 1..T /\ DOMAIN tasks' = 1..U
  <2>1. tasks' \in Seq(Task)
    BY DEF Entered
  <2> QED
    BY <1>9, <2>1, RankFacts DEF Entered
<1>11. ASSUME NEW t \in DOMAIN tasks'
       PROVE  \/ t \in DOMAIN tasks /\ t <= T /\ tasks'[t] = tasks[t]
              \/ t = T + 1 /\ tasks'[t].fate = "pending" /\ tasks'[t].late = 0
  <2>1. CASE t \in 1..T
    <3>1. tasks'[t] = tasks[t]
      BY <1>9, <2>1 DEF Entered
    <3> QED
      BY <1>10, <2>1, <3>1
  <2>2. CASE t \notin 1..T
    <3>1. t = T + 1 /\ U = T + 1 /\ T # T + 1
      BY <1>10, <2>2
    <3>2. ~node[n].stopTask
      BY <1>9, <3>1 DEF Entered
    <3>3. tasks'[t] = NewTask(n)
      BY <1>9, <3>1, <3>2 DEF Entered
    <3> QED
      BY <3>1, <3>3 DEF NewTask
  <2> QED
    BY <2>1, <2>2
<1>12. LateInv'
  <2>1. \A t \in DOMAIN tasks' : tasks'[t].late <= 1
    BY <1>11 DEF IInv, CountPart, LateInv
  <2>2. \A q \in Procs : pc'[q] = "scan" => pc[q] = "scan" /\ loc'[q] = loc[q]
    BY <1>2, <1>3
  <2> QED
    BY <1>11, <2>1, <2>2 DEF IInv, CountPart, LateInv
<1>13. InOrder'
  <2> SUFFICES ASSUME NEW t \in DOMAIN tasks', NEW u \in DOMAIN tasks', t < u,
                      tasks'[t].high = tasks'[u].high,
                      tasks'[u].fate = "executed"
               PROVE  tasks'[t].fate # "pending"
    BY DEF InOrder
  <2>1. u \in DOMAIN tasks /\ tasks'[u] = tasks[u] /\ u <= T
    BY <1>11
  <2>2. t # T + 1
    BY <1>10, <2>1
  <2>3. t \in DOMAIN tasks /\ tasks'[t] = tasks[t]
    BY <1>11, <2>2
  <2> QED
    BY <2>1, <2>3 DEF IInv, CountPart, InOrder
<1> QED
  BY <1>8, <1>12, <1>13 DEF CountPart

\* The exchange: the stop task comes behind all tasks.
LEMMA ExchangeStop ==
  ASSUME IInv, NEW p \in Procs, pc[p] = "exchange", NEW n, n = loc[p].node, Entered(p, n)
  PROVE  StopPart'
<1>1. /\ n \in Nodes /\ slot = "used" /\ (~node[n].stopTask => thisId \notin RunStops)
      /\ (\A q \in Procs : ~Closing(q)) /\ (\A q \in Procs : HasList(q) => ~loc[q].destroy)
  BY ExchangeOwner
<1>2. \A q \in Procs : q # p => pc'[q] = pc[q] /\ loc'[q] = loc[q]
  BY DEF Entered, Alone
<1>3. pc'[p] \in {"link", "begin", "spawn"} /\ loc'[p].destroy = FALSE
  BY DEF Entered
<1>4. thisId' = thisId /\ joinButex' = joinButex /\ slot' = slot /\ vref' = vref
      /\ RunStops' = RunStops /\ (Recycled' <=> Recycled)
  BY DEF Entered, slotVars, Recycled, RunStops
<1>5. \A q \in Procs : ~Closing(q)'
  BY <1>1, <1>2, <1>3 DEF Closing, Closed
<1>6. \A q \in Procs : HasList(q)' => ~loc'[q].destroy
  BY <1>1, <1>2, <1>3 DEF HasList
<1>7. \A m \in Nodes : node'[m].stopTask = node[m].stopTask /\ node'[m].high = node[m].high
      /\ node'[m].iterated = node[m].iterated
  BY DEF Entered
<1>8. StopNodeInv'
  BY <1>4, <1>5, <1>7 DEF IInv, StopPart, StopNodeInv
<1>9. ClosingInv'
  BY <1>5 DEF ClosingInv
<1>10. DestroyInv'
  BY <1>6 DEF DestroyInv
<1>11. UnusedInv'
  <2>1. ASSUME NEW t \in DOMAIN tasks', tasks'[t].fate = "pending"
        PROVE  tasks'[t].queue \notin RunStops
    <3>1. PICK T, U : T = Len(tasks) /\ U = Len(tasks')
      OBVIOUS
    <3>2. T \in Nat /\ U \in {T, T + 1} /\ DOMAIN tasks = 1..T /\ DOMAIN tasks' = 1..U
      <4>1. tasks' \in Seq(Task)
        BY DEF Entered
      <4> QED
        BY <3>1, <4>1, RankFacts DEF Entered
    <3>3. CASE t \in 1..T
      <4>1. tasks'[t] = tasks[t] /\ t \in DOMAIN tasks
        BY <3>1, <3>2, <3>3 DEF Entered
      <4> QED
        BY <2>1, <4>1 DEF IInv, StopPart, UnusedInv
    <3>4. CASE t \notin 1..T
      <4>1. t = T + 1 /\ U = T + 1 /\ T # T + 1
        BY <3>2, <3>4
      <4>2. ~node[n].stopTask
        BY <3>1, <4>1 DEF Entered
      <4>3. tasks'[t] = NewTask(n)
        BY <3>1, <4>1, <4>2 DEF Entered
      <4> QED
        BY <1>1, <4>2, <4>3 DEF NewTask
    <3> QED
      BY <3>3, <3>4
  <2> QED
    BY <1>1, <1>4, <2>1 DEF UnusedInv
<1> QED
  BY <1>8, <1>9, <1>10, <1>11 DEF StopPart

\* The exchange of _head: the new node is the last one of the queue.
LEMMA ExchangeStep ==
  ASSUME IInv, FreshInv, NEW p \in Callers, Exchange(p)
  PROVE  IInv'
<1>1. PICK n : n = loc[p].node
  OBVIOUS
<1>2. p \in Procs /\ pc[p] = "exchange" /\ Entered(p, n)
  BY <1>1, ExchangeEffect DEF Procs
<1>3. n \in Nodes
  BY <1>1, <1>2, ExchangeOwner
<1>4. QueuePart'
  <2>1. CASE head # NULL
    BY <1>1, <1>2, <2>1, ExchangeJoins
  <2>2. CASE head = NULL
    BY <1>1, <1>2, <2>2, ExchangeStarts
  <2> QED
    BY <2>1, <2>2
<1>5. NodePart' /\ CountPart' /\ StopPart'
  BY <1>1, <1>2, ExchangeNodes, ExchangeCount, ExchangeStop
<1>6. /\ UNCHANGED slotVars /\ Alone(p) /\ Only(p) /\ pc'[p] \in {"link", "begin", "spawn"}
      /\ loc'[p].derefs = loc[p].derefs /\ loc'[p] \in Local
      /\ head' = n /\ handles' = handles /\ pool' = pool /\ highTasks' = highTasks
      /\ node' \in [Nodes -> Node] /\ tasks' \in Seq(Task)
  BY <1>2 DEF Entered
<1>7. SlotPart'
  <2>1. \A q \in Procs : q # p => Still(q)
    BY <1>6 DEF Alone, Still
  <2>2. Still(p)
    BY <1>2, <1>6 DEF Still
  <2> QED
    BY <1>6, <2>1, <2>2, SlotFrame DEF IInv
<1>8. TypeInv'
  <2>1. p \in Fibers => pc'[p] \in FiberLabels
    BY DistinctAssumption
  <2>2. pc'[p] \in CallerLabels
    BY <1>6 DEF CallerLabels, Pass
  <2>3. LocalType'
    BY <1>2, <1>6, <2>1, <2>2, OnlyType DEF IInv, TypeInv
  <2>4. \A t \in DOMAIN tasks' : tasks'[t].fate \in {"pending", "executed", "cancelled", "repeated"}
    <3>1. \A t \in DOMAIN tasks' : tasks'[t] \in Task
      BY <1>6
    <3> QED
      BY <3>1 DEF Task
  <2> QED
    BY <1>3, <1>6, <2>3, <2>4 DEF IInv, TypeInv, TypeOK, Node, HistoryType, slotVars
<1> QED
  BY <1>4, <1>5, <1>7, <1>8 DEF IInv

-----------------------------------------------------------------------------
(* Sweeping the nodes that were pushed since *)

\* Arithmetic of the induction along the walk.
LEMMA StepBack ==
  ASSUME NEW N \in Nat, NEW k \in Nat, NEW i \in Nat, i <= k, i # 0, k <= N, NEW m, m = k - i + 1
  PROVE  m \in 0..N /\ m # 0 /\ m - 1 = k - i /\ i - 1 \in 0..k /\ k - (i - 1) = m /\ ~(i <= i - 1)
OBVIOUS

PlacesOf(w, tail) == {i \in DOMAIN w : w[i] = tail}
Walked(p, k, w) ==
    /\ k \in Nat /\ k > 0 /\ w[0] = loc[p].newHead
    /\ \A j \in 0..k : w[j] \in Nodes /\ ranks[w[j]] = LastRank(p) + k - j
    /\ \A j \in 0..(k - 1) : node[w[j]].next = w[j + 1]

\* The walk from the new head to the old tail goes down the order of the pushes,
\* without a gap.
LEMMA SweepWalk ==
  ASSUME IInv, NEW p \in Procs, pc[p] = "sweep", NEW tail, tail = loc[p].list[Len(loc[p].list)],
         NEW w, w = Walk(loc[p].newHead), NEW at, at = PlacesOf(w, tail), at # {}, NEW k,
         k = First(at)
  PROVE  Walked(p, k, w)
<1>1. PICK N, h, b, r : N = Cardinality(Nodes) /\ h = loc[p].newHead /\ b = LastRank(p)
           /\ r = ranks[h]
  OBVIOUS
<1>2. /\ DOMAIN w = 0..N /\ N \in Nat /\ w[0] = h
      /\ \A i \in 0..N : i # 0 => w[i] = IF w[i - 1] \in Nodes THEN node[w[i - 1]].next ELSE w[i - 1]
  BY <1>1, WalkSteps
<1>30. at = {i \in DOMAIN w : w[i] = tail}
  BY DEF PlacesOf
<1>3. at \subseteq Nat /\ at # {}
  BY <1>2, <1>30
<1>4. k \in at /\ k \in Nat /\ \A j \in at : k <= j
  BY <1>3, FirstIsLeast
<1>5. k \in 0..N /\ w[k] = tail
  BY <1>2, <1>4, <1>30
<1>6. \A j \in 0..N : j < k => w[j] # tail
  <2> SUFFICES ASSUME NEW j \in 0..N, j < k, w[j] = tail PROVE FALSE
    OBVIOUS
  <2>1. j \in at
    BY <1>2, <1>30
  <2>2. k <= j
    BY <1>4, <2>1
  <2> QED
    BY <1>4, <2>2
<1>7. Runs(p) /\ HasList(p)
  BY DEF Runs, HasList, Executing
<1>8. tail \in Nodes /\ b \in Nat /\ b > 0 /\ ranks[tail] = b
  <2>1. PICK x, y : x = FirstRank(p) /\ y = Len(loc[p].list)
    OBVIOUS
  <2>2. x \in Nat /\ x > 0 /\ y \in Nat /\ y > 0 /\ b = x + y - 1 /\ tail \in Nodes
    BY <1>1, <1>7, <2>1, ListFacts
  <2>3. ranks[tail] = b
    BY <1>1 DEF LastRank
  <2> QED
    BY <2>2, <2>3
<1>9. h \in Nodes /\ r > b /\ r \in Nat
  BY <1>1, RankFacts DEF IInv, QueuePart, SweepInv, SweepOf
<1>10. \A j \in 0..k : w[j] \in Nodes
  <2> DEFINE Bad == {i \in 0..k : w[k - i] \notin Nodes}
  <2>1. SUFFICES ASSUME Bad # {} PROVE FALSE
    <3>1. ASSUME NEW j \in 0..k, w[j] \notin Nodes PROVE k - j \in Bad
      <4>1. k - j \in 0..k /\ k - (k - j) = j
        BY <1>4
      <4> QED
        BY <3>1, <4>1
    <3> QED
      BY <3>1
  <2>2. PICK i \in Bad : \A j \in Bad : i <= j
    <3>1. Bad \subseteq Nat
      BY <1>4
    <3> HIDE DEF Bad
    <3> QED
      BY <2>1, <3>1, LeastOf
  <2>3. i \in 0..k /\ w[k - i] \notin Nodes /\ i # 0
    BY <1>4, <1>5, <1>8, <2>2
  <2>4. PICK m : m = k - i + 1
    OBVIOUS
  <2>5. m \in 0..N /\ m # 0 /\ m - 1 = k - i /\ i - 1 \in 0..k /\ k - (i - 1) = m /\ ~(i <= i - 1)
    <3>1. i \in Nat /\ i <= k /\ i # 0 /\ k <= N
      BY <1>5, <2>3
    <3>2. N \in Nat /\ k \in Nat
      BY <1>2, <1>4
    <3> QED
      BY <2>4, <3>1, <3>2, StepBack
  <2>6. w[m] = w[k - i]
    BY <1>2, <2>3, <2>5
  <2>7. i - 1 \in Bad
    BY <2>3, <2>5, <2>6
  <2> HIDE DEF Bad
  <2> QED
    BY <2>2, <2>5, <2>7
<1>11. \A j \in 0..(k - 1) : node[w[j]].next = w[j + 1]
  <2> SUFFICES ASSUME NEW j \in 0..(k - 1) PROVE node[w[j]].next = w[j + 1]
    OBVIOUS
  <2>1. j \in 0..k /\ j + 1 \in 0..N /\ j + 1 # 0 /\ j + 1 - 1 = j
    BY <1>2, <1>4, <1>5
  <2> QED
    BY <1>2, <1>10, <2>1
<1>12. \A j \in 0..k : ranks[w[j]] = r - j /\ r - j >= b
  <2> DEFINE Bad == {j \in 0..k : ~(ranks[w[j]] = r - j /\ r - j >= b)}
  <2>1. SUFFICES ASSUME Bad # {} PROVE FALSE
    OBVIOUS
  <2>2. PICK j \in Bad : \A i \in Bad : j <= i
    <3>1. Bad \subseteq Nat
      BY <1>4
    <3> HIDE DEF Bad
    <3> QED
      BY <2>1, <3>1, LeastOf
  <2>3. j \in 0..k /\ ~(ranks[w[j]] = r - j /\ r - j >= b) /\ j # 0
    <3>1. ranks[w[0]] = r - 0 /\ r - 0 >= b
      BY <1>1, <1>2, <1>8, <1>9
    <3> QED
      BY <2>2, <3>1
  <2>4. PICK i : i = j - 1
    OBVIOUS
  <2>5. i \in 0..k /\ i \in 0..(k - 1) /\ i \in 0..N /\ i < k /\ i + 1 = j /\ ~(j <= i)
    BY <1>2, <1>4, <1>5, <2>3, <2>4
  <2>6. i \notin Bad
    <3> HIDE DEF Bad
    <3> QED
      BY <2>2, <2>5
  <2>7. ranks[w[i]] = r - i /\ r - i >= b
    BY <2>5, <2>6
  <2> HIDE DEF Bad
  <2>8. w[i] \in Nodes /\ w[i] # tail /\ w[j] \in Nodes /\ node[w[i]].next = w[j]
    BY <1>6, <1>10, <1>11, <2>3, <2>5
  <2>9. ranks[w[i]] # b
    BY <1>8, <2>8, RankFacts
  <2>10. ranks[w[i]] > LastRank(p)
    BY <1>1, <1>8, <1>9, <2>5, <2>7, <2>9
  <2>11. w[j] # UNCONNECTED
    BY <2>8, DistinctAssumption
  <2>12. ranks[w[j]] = ranks[w[i]] - 1
    BY <1>7, <2>8, <2>10, <2>11 DEF IInv, QueuePart, ChainInv
  <2>13. ranks[w[j]] = r - j /\ r - j >= b
    BY <1>8, <1>9, <2>5, <2>7, <2>9, <2>12
  <2> QED
    BY <2>3, <2>13
<1>13. r = b + k /\ k > 0
  <2>1. k \in 0..k
    BY <1>4
  <2>2. b = r - k
    BY <1>5, <1>8, <1>12, <2>1
  <2> QED
    BY <1>4, <1>8, <1>9, <2>2
<1>14. \A j \in 0..k : ranks[w[j]] = b + k - j
  BY <1>4, <1>8, <1>9, <1>12, <1>13
<1> QED
  BY <1>1, <1>2, <1>4, <1>10, <1>11, <1>13, <1>14 DEF Walked

\* What the sweep does: k nodes, in the order of their pushes, join the list.
Swept(p, k, w) ==
    /\ pc'[p] = Again(p) /\ Alone(p) /\ Only(p) /\ UNCHANGED slotVars
    /\ head' = head /\ tasks' = tasks /\ handles' = handles /\ pool' = pool /\ highTasks' = highTasks
    /\ node' \in [Nodes -> Node]
    /\ \A m \in Nodes : /\ node'[m].version = node[m].version /\ node'[m].stopTask = node[m].stopTask
                        /\ node'[m].high = node[m].high /\ node'[m].task = node[m].task
                        /\ node'[m].iterated = node[m].iterated /\ node'[m].status = node[m].status
                        /\ (\A j \in 0..(k - 1) : m # w[j]) => node'[m] = node[m]
    /\ loc'[p] \in Local /\ loc'[p].handle = loc[p].handle /\ loc'[p].derefs = loc[p].derefs
    /\ loc'[p].destroy = loc[p].destroy
    /\ Len(loc'[p].list) = Len(loc[p].list) + k
    /\ \A i \in 1..Len(loc[p].list) : loc'[p].list[i] = loc[p].list[i]
    /\ \A i \in 1..k : loc'[p].list[Len(loc[p].list) + i] = w[k - i]

\* The members of one list behind another.
LEMMA ConcatFacts ==
  ASSUME NEW S, NEW a \in Seq(S), NEW b \in Seq(S)
  PROVE  /\ a \o b \in Seq(S) /\ Len(a \o b) = Len(a) + Len(b)
         /\ (\A i \in 1..Len(a) : (a \o b)[i] = a[i])
         /\ \A i \in 1..Len(b) : (a \o b)[Len(a) + i] = b[i]
<1>1. a \o b \in Seq(S) /\ Len(a \o b) = Len(a) + Len(b)
  OBVIOUS
<1>2. \A i \in 1..Len(a) : (a \o b)[i] = a[i]
  OBVIOUS
<1>3. \A i \in 1..Len(b) : (a \o b)[Len(a) + i] = b[i]
  OBVIOUS
<1> QED
  BY <1>1, <1>2, <1>3

\* What _more_tasks() does with the nodes between the new head and the old tail: they
\* are reversed behind the list.
LEMMA SweepEffect ==
  ASSUME IInv, NEW p \in Procs, SweepNew(p)
  PROVE  pc[p] = "sweep" /\ \E k, w : Walked(p, k, w) /\ Swept(p, k, w)
<1>1. PICK l, tail, w : l = loc[p].list /\ tail = l[Len(l)] /\ w = Walk(loc[p].newHead)
  OBVIOUS
<1>2. PICK at, k : at = PlacesOf(w, tail) /\ k = First(at)
  OBVIOUS
<1>3. pc[p] = "sweep" /\ at # {}
  BY <1>1, <1>2 DEF SweepNew, PlacesOf
<1>4. PICK s : s = [i \in 1..k |-> w[k - i]]
  OBVIOUS
<1> DEFINE r == [loc[p] EXCEPT !.list = l \o s, !.newHead = NULL]
<1>5. /\ Goto(p, Again(p), r)
      /\ node' = [n \in Nodes |-> IF n \in {w[i] : i \in 0..(k - 1)}
                                   THEN [node[n] EXCEPT !.next = NULL] ELSE node[n]]
  BY <1>1, <1>2, <1>4, Zenon DEF SweepNew, PlacesOf
<1>6. UNCHANGED slotVars /\ head' = head /\ tasks' = tasks /\ handles' = handles /\ pool' = pool
      /\ highTasks' = highTasks
  BY DEF SweepNew, queueVars, history, slotVars
<1>7. Walked(p, k, w)
  <2>1. tail = loc[p].list[Len(loc[p].list)] /\ w = Walk(loc[p].newHead)
    BY <1>1
  <2> QED
    BY <1>2, <1>3, <2>1, SweepWalk
<1>8. k \in Nat /\ k > 0 /\ \A j \in 0..k : w[j] \in Nodes
  BY <1>7 DEF Walked
<1>9. l \in Seq(Nodes) /\ loc[p] \in Local /\ LocalType
  <2>1. HasList(p)
    BY <1>3 DEF HasList, Executing
  <2> QED
    BY <1>1, <2>1, ListFacts DEF IInv, TypeInv, LocalType
<1>10. s \in Seq(Nodes) /\ Len(s) = k /\ \A i \in 1..k : s[i] = w[k - i]
  <2>1. \A i \in 1..k : k - i \in 0..k
    BY <1>8
  <2>2. \A i \in 1..k : s[i] = w[k - i]
    BY <1>4
  <2>3. \A i \in 1..k : s[i] \in Nodes
    BY <1>8, <2>1, <2>2
  <2>4. s = [i \in 1..k |-> s[i]]
    BY <1>4
  <2> QED
    BY <1>8, <2>2, <2>3, <2>4, FunctionSeq
<1>11. PICK ll : ll = l \o s
  OBVIOUS
<1>12. /\ ll \in Seq(Nodes) /\ Len(ll) = Len(l) + k /\ (\A i \in 1..Len(l) : ll[i] = l[i])
       /\ \A i \in 1..k : ll[Len(l) + i] = w[k - i]
  <2>0. l \in Seq(Nodes) /\ s \in Seq(Nodes)
    BY <1>9, <1>10
  <2>a. l \o s \in Seq(Nodes) /\ Len(l \o s) = Len(l) + Len(s)
        /\ \A i \in 1..Len(l) : (l \o s)[i] = l[i]
    BY <2>0, ConcatFacts
  <2>1. ll \in Seq(Nodes) /\ Len(ll) = Len(l) + k /\ (\A i \in 1..Len(l) : ll[i] = l[i])
    BY <2>a, <1>10, <1>11
  <2>2. \A i \in 1..k : ll[Len(l) + i] = s[i]
    BY <1>9, <1>10, <1>11, ConcatFacts
  <2> QED
    BY <1>10, <2>1, <2>2
<1>13. r = [loc[p] EXCEPT !.list = ll, !.newHead = NULL]
  BY <1>11
<1>14. r \in Local
  BY <1>9, <1>12, <1>13, Zenon DEF Local
<1>15. r.handle = loc[p].handle /\ r.derefs = loc[p].derefs /\ r.destroy = loc[p].destroy
       /\ r.list = ll
  BY <1>9, <1>12, <1>13 DEF Local
<1> HIDE DEF r
<1>16. pc'[p] = Again(p) /\ loc'[p] = r /\ Alone(p) /\ Only(p)
  BY <1>5, <1>9, GotoFacts
<1>17. ASSUME NEW m \in Nodes
       PROVE  /\ node'[m] \in Node /\ node'[m].version = node[m].version
              /\ node'[m].stopTask = node[m].stopTask
              /\ node'[m].high = node[m].high /\ node'[m].task = node[m].task
              /\ node'[m].iterated = node[m].iterated /\ node'[m].status = node[m].status
              /\ (\A j \in 0..(k - 1) : m # w[j]) => node'[m] = node[m]
  <2>1. node[m] \in Node
    BY UnchangedTypes
  <2>2. node'[m] = IF m \in {w[i] : i \in 0..(k - 1)} THEN [node[m] EXCEPT !.next = NULL] ELSE node[m]
    BY <1>5
  <2>3. (\A j \in 0..(k - 1) : m # w[j]) => node'[m] = node[m]
    BY <2>2
  <2>4. node'[m] = node[m] \/ node'[m] = [node[m] EXCEPT !.next = NULL]
    BY <2>2
  <2> QED
    BY <2>1, <2>3, <2>4 DEF Node
<1>18. node' \in [Nodes -> Node]
  <2>1. DOMAIN node' = Nodes /\ node' = [m \in Nodes |-> node'[m]]
    BY <1>5
  <2> QED
    BY <1>17, <2>1
<1>19. Swept(p, k, w)
  BY <1>1, <1>6, <1>12, <1>14, <1>15, <1>16, <1>17, <1>18 DEF Swept
<1> QED
  BY <1>3, <1>7, <1>19

\* The list of p afterwards.
LEMMA SweepList ==
  ASSUME IInv, NEW p \in Procs, pc[p] = "sweep", NEW k, NEW w, Walked(p, k, w), Swept(p, k, w),
         ranks' = ranks
  PROVE  /\ Len(loc'[p].list) = Len(loc[p].list) + k
         /\ FirstRank(p)' = FirstRank(p) /\ LastRank(p)' = LastRank(p) + k
         /\ \A i \in 1..Len(loc'[p].list) : ranks[loc'[p].list[i]] = FirstRank(p) + i - 1
<1>1. HasList(p)
  BY DEF HasList, Executing
<1>2. PICK l, c, x, b : l = loc[p].list /\ c = Len(l) /\ x = FirstRank(p) /\ b = LastRank(p)
  OBVIOUS
<1>3. c \in Nat /\ c > 0 /\ x \in Nat /\ x > 0 /\ b = x + c - 1
      /\ \A i \in 1..c : ranks[l[i]] = x + i - 1
  BY <1>1, <1>2, ListFacts
<1>4. PICK ll : ll = loc'[p].list
  OBVIOUS
<1>5. Len(ll) = c + k /\ (\A i \in 1..c : ll[i] = l[i]) /\ \A i \in 1..k : ll[c + i] = w[k - i]
  BY <1>2, <1>4 DEF Swept
<1>6. k \in Nat /\ k > 0 /\ \A j \in 0..k : ranks[w[j]] = b + k - j
  BY <1>2 DEF Walked
<1>7. ASSUME NEW i \in 1..(c + k) PROVE ranks[ll[i]] = x + i - 1
  <2>1. CASE i <= c
    <3>1. i \in 1..c
      BY <1>3, <1>6, <2>1
    <3> QED
      BY <1>3, <1>5, <3>1
  <2>2. CASE ~(i <= c)
    <3>1. PICK j : j = i - c
      OBVIOUS
    <3>2. j \in 1..k /\ c + j = i /\ k - j \in 0..k
      BY <1>3, <1>6, <2>2, <3>1
    <3>3. ll[i] = w[k - j]
      BY <1>5, <3>2
    <3>4. ranks[ll[i]] = b + k - (k - j)
      BY <1>6, <3>2, <3>3
    <3>5. b + k - (k - j) = x + i - 1
      BY <1>3, <1>6, <3>1, <3>2
    <3> QED
      BY <3>4, <3>5
  <2> QED
    BY <2>1, <2>2
<1>8. 1 \in 1..(c + k) /\ c + k \in 1..(c + k)
  BY <1>3, <1>6
<1>9. ranks[ll[1]] = x /\ ranks[ll[c + k]] = b + k
  <2>1. ranks[ll[1]] = x + 1 - 1 /\ ranks[ll[c + k]] = x + (c + k) - 1
    BY <1>7, <1>8
  <2>2. x + 1 - 1 = x /\ x + (c + k) - 1 = b + k
    BY <1>3, <1>6
  <2> QED
    BY <2>1, <2>2
<1>10. FirstRank(p)' = x /\ LastRank(p)' = b + k
  BY <1>4, <1>5, <1>9 DEF FirstRank, LastRank
<1> QED
  BY <1>2, <1>4, <1>5, <1>7, <1>10

\* The queue with these nodes in the list.
LEMMA SweepQueue ==
  ASSUME IInv, NEW p \in Procs, pc[p] = "sweep", NEW k, NEW w, Walked(p, k, w), Swept(p, k, w),
         ranks' = ranks
  PROVE  QueuePart'
<1>1. Runs(p) /\ HasList(p) /\ pc'[p] \in {"loop", "spawn"}
  BY AgainFacts DEF Runs, HasList, Executing, Swept
<1>2. Runs(p)' /\ HasList(p)' /\ pc'[p] \in Executing
      /\ pc'[p] \notin {"finish", "link", "sweep", "begin", "advance", "scan", "more"}
  BY <1>1 DEF Runs, HasList, Executing
<1>3. \A q \in Procs : q # p => pc'[q] = pc[q] /\ loc'[q] = loc[q] /\ (Runs(q)' <=> Runs(q))
      /\ (HasList(q)' <=> HasList(q))
  BY DEF Swept, Alone, Runs, HasList
<1>4. \A q \in Procs : (Runs(q)' <=> Runs(q)) /\ (Runs(q) => q = p)
  BY <1>1, <1>2, <1>3, RunnerFacts
<1>5. \A q \in Procs : q # p /\ HasList(q) => pc[q] = "finish" /\ FirstRank(q)' = FirstRank(q)
  BY <1>3, <1>4 DEF Runs, HasList, FirstRank
<1>6. PICK l, c, x, b : l = loc[p].list /\ c = Len(l) /\ x = FirstRank(p) /\ b = LastRank(p)
  OBVIOUS
<1>7. /\ c \in Nat /\ c > 0 /\ x \in Nat /\ x > 0 /\ b = x + c - 1 /\ l[1] \in Nodes
      /\ b \in Nat /\ b > 0
  <2>1. c \in Nat /\ c > 0 /\ x \in Nat /\ x > 0 /\ b = x + c - 1 /\ l[1] \in Nodes
    BY <1>1, <1>6, ListFacts
  <2> QED
    BY <2>1
<1>8. k \in Nat /\ k > 0 /\ (\A j \in 0..k : w[j] \in Nodes /\ ranks[w[j]] = b + k - j)
      /\ \A j \in 0..(k - 1) : node[w[j]].next = w[j + 1]
  BY <1>6 DEF Walked
<1>9. /\ FirstRank(p)' = x /\ LastRank(p)' = b + k /\ Len(loc'[p].list) = c + k
      /\ \A i \in 1..Len(loc'[p].list) : ranks[loc'[p].list[i]] = x + i - 1
  BY <1>6, SweepList
<1>10. \A m \in Nodes : /\ node'[m].iterated = node[m].iterated /\ node'[m].high = node[m].high
                        /\ (\A j \in 0..(k - 1) : m # w[j]) => node'[m] = node[m]
  BY DEF Swept
<1>11. head' = head /\ tasks' = tasks
  BY DEF Swept
<1>12. \A m \in Nodes : ranks[m] \in Nat
  BY RankFacts
\* A node that was not linked to its predecessor was not swept.
<1>13. ASSUME NEW m \in Nodes, ranks[m] > b, node[m].next = UNCONNECTED PROVE ranks[m] > b + k
  <2> SUFFICES ASSUME ~(ranks[m] > b + k) PROVE FALSE
    OBVIOUS
  <2>1. PICK y, j : y = ranks[m] /\ j = b + k - y
    OBVIOUS
  <2>2. y \in Nat /\ y > b /\ y <= b + k
    BY <1>7, <1>8, <1>12, <1>13, <2>1
  <2>3. j \in 0..k /\ j \in 0..(k - 1) /\ j + 1 \in 0..k /\ b + k - j = y
    BY <1>7, <1>8, <2>1, <2>2
  <2>4. w[j] \in Nodes /\ ranks[w[j]] = y /\ y > 0
    BY <1>7, <1>8, <2>2, <2>3
  <2>5. w[j] = m
    BY <2>1, <2>4, RankFacts
  <2>6. w[j + 1] \in Nodes /\ node[m].next = w[j + 1]
    BY <1>8, <2>3, <2>5
  <2> QED
    BY <1>13, <2>6, DistinctAssumption
<1>14. ASSUME NEW m \in Nodes, ranks[m] > b + k PROVE node'[m] = node[m] /\ ranks[m] > b
  <2>1. \A j \in 0..(k - 1) : m # w[j]
    <3> SUFFICES ASSUME NEW j \in 0..(k - 1), m = w[j] PROVE FALSE
      OBVIOUS
    <3>1. j \in 0..k /\ j \in Nat
      BY <1>8
    <3>2. ranks[m] = b + k - j
      BY <1>8, <3>1
    <3> QED
      BY <1>7, <1>8, <1>14, <3>1, <3>2
  <2>2. ranks[m] > b
    BY <1>7, <1>8, <1>12, <1>14
  <2> QED
    BY <1>10, <2>1, <2>2
<1>15. HeadInv'
  BY <1>4, <1>11 DEF IInv, QueuePart, HeadInv
<1>16. ListInv'
  <2> SUFFICES ASSUME NEW q \in Procs, HasList(q)'
               PROVE  /\ Len(loc'[q].list) > 0 /\ FirstRank(q)' > 0
                      /\ \A i \in 1..Len(loc'[q].list) : ranks[loc'[q].list[i]] = FirstRank(q)' + i - 1
    BY DEF ListInv
  <2>1. CASE q = p
    <3>1. c + k > 0
      BY <1>7, <1>8
    <3> QED
      BY <1>7, <1>9, <2>1, <3>1
  <2>2. CASE q # p
    BY <1>3, <1>5, <2>2 DEF IInv, QueuePart, ListInv
  <2> QED
    BY <2>1, <2>2
<1>17. ChainInv'
  <2> SUFFICES ASSUME NEW m \in Nodes, ranks[m] > b + k
               PROVE  /\ ~node'[m].iterated
                      /\ node'[m].next # UNCONNECTED =>
                            node'[m].next \in Nodes /\ ranks[node'[m].next] = ranks[m] - 1
    BY <1>4, <1>9 DEF ChainInv
  <2>1. node'[m] = node[m] /\ ranks[m] > LastRank(p)
    BY <1>6, <1>14
  <2> QED
    BY <1>1, <2>1 DEF IInv, QueuePart, ChainInv
<1>18. LinkInv'
  <2> SUFFICES ASSUME NEW q \in Procs, pc'[q] = "link"
               PROVE  /\ loc'[q].node \in Nodes /\ loc'[q].prev \in Nodes
                      /\ node'[loc'[q].node].next = UNCONNECTED
                      /\ ranks'[loc'[q].prev] = ranks'[loc'[q].node] - 1
                      /\ head' # NULL
                      /\ \A s \in Procs : Runs(s)' => ranks'[loc'[q].node] > LastRank(s)'
                      /\ \A s \in Procs : pc'[s] = "link" /\ s # q => loc'[s].node # loc'[q].node
    BY DEF LinkInv
  <2>1. q # p /\ pc[q] = "link" /\ loc'[q] = loc[q] /\ \A s \in Procs : pc'[s] = "link" =>
            pc[s] = "link" /\ loc'[s] = loc[s]
    BY <1>2, <1>3
  <2>2. /\ loc[q].node \in Nodes /\ loc[q].prev \in Nodes
        /\ node[loc[q].node].next = UNCONNECTED
        /\ ranks[loc[q].prev] = ranks[loc[q].node] - 1 /\ head # NULL
        /\ \A s \in Procs : Runs(s) => ranks[loc[q].node] > LastRank(s)
        /\ \A s \in Procs : pc[s] = "link" /\ s # q => loc[s].node # loc[q].node
    BY <2>1 DEF IInv, QueuePart, LinkInv
  <2>3. ranks[loc[q].node] > b + k
    BY <1>1, <1>6, <1>13, <2>2
  <2>4. node'[loc[q].node] = node[loc[q].node]
    BY <1>14, <2>2, <2>3
  <2>5. \A s \in Procs : Runs(s)' => ranks[loc[q].node] > LastRank(s)'
    BY <1>4, <1>9, <2>3
  <2> QED
    BY <1>11, <2>1, <2>2, <2>4, <2>5
<1>19. FinishInv'
  <2>1. \A q \in Procs : pc'[q] = "finish" =>
            pc[q] = "finish" /\ q # p /\ loc'[q] = loc[q] /\ HasList(q)
    BY <1>2, <1>3 DEF HasList
  <2>2. \A q \in Procs : pc'[q] = "finish" =>
            node'[loc[q].list[1]].iterated = node[loc[q].list[1]].iterated
    BY <1>10, <2>1, ListFacts
  <2>3. \A q \in Procs : pc'[q] = "finish" => FirstRank(q)' < FirstRank(p)'
    BY <1>1, <1>5, <1>6, <1>9, <2>1 DEF IInv, QueuePart, FinishInv
  <2> QED
    BY <1>4, <2>1, <2>2, <2>3 DEF IInv, QueuePart, FinishInv
<1>20. LiveInv'
  <2>1. \A m \in Nodes : ranks[m] > 0 /\ ~node'[m].iterated => x <= ranks[m]
    BY <1>1, <1>6, <1>10, RunnerFacts
  <2> QED
    BY <1>1, <1>2, <1>9, <2>1 DEF LiveInv
<1>21. ASSUME NEW q \in Procs PROVE SweepOf(q)' /\ FrontOf(q)' /\ PassOf(q)'
  <2>1. CASE pc'[q] \notin Executing
    BY <2>1 DEF SweepOf, FrontOf, PassOf, Executing
  <2>2. CASE pc'[q] \in Executing
    <3>1. q = p
      BY <1>4, <2>2 DEF Runs
    <3>2. loc'[p].list[1] = l[1] /\ loc'[p].list[c + 1] = w[k - 1]
      <4>1. 1 \in 1..c /\ 1 \in 1..k
        BY <1>7, <1>8
      <4> QED
        BY <1>6, <4>1 DEF Swept
    <3>3. node'[l[1]].iterated => c = 1
      BY <1>6, <1>7, <1>10 DEF IInv, QueuePart, FrontInv, FrontOf
    <3>4. w[k - 1] \in Nodes /\ ~node'[w[k - 1]].iterated
      <4>1. k - 1 \in 0..k /\ b + k - (k - 1) > b
        BY <1>7, <1>8
      <4>2. w[k - 1] \in Nodes /\ ranks[w[k - 1]] > LastRank(p)
        BY <1>6, <1>8, <4>1
      <4>3. ~node[w[k - 1]].iterated
        BY <1>1, <4>2 DEF IInv, QueuePart, ChainInv
      <4> QED
        BY <1>10, <4>2, <4>3
    <3>5. FrontOf(p)'
      <4> SUFFICES ASSUME node'[loc'[p].list[1]].iterated
                   PROVE  Len(loc'[p].list) > 1 /\ ~node'[loc'[p].list[2]].iterated
        BY <1>2 DEF FrontOf
      <4>1. c = 1
        BY <3>2, <3>3
      <4>2. c + k > 1 /\ c + 1 = 2
        BY <1>8, <4>1
      <4> QED
        BY <1>9, <3>2, <3>4, <4>2
    <3>6. SweepOf(p)' /\ PassOf(p)'
      BY <1>2 DEF SweepOf, PassOf
    <3> QED
      BY <3>1, <3>5, <3>6
  <2> QED
    BY <2>1, <2>2
<1> QED
  BY <1>15, <1>16, <1>17, <1>18, <1>19, <1>20, <1>21 DEF QueuePart, SweepInv, FrontInv, PassInv

\* The reversal of the new nodes preserves the invariant.
LEMMA SweepNewStep ==
  ASSUME IInv, NEW p \in Procs, SweepNew(p)
  PROVE  IInv'
<1>1. pc[p] = "sweep"
  BY SweepEffect
<1>2. PICK k, w : Walked(p, k, w) /\ Swept(p, k, w)
  BY SweepEffect
<1>3. /\ pc'[p] \in {"loop", "spawn"} /\ (p \in Callers => pc'[p] # "loop")
         /\ (p \in Fibers => pc'[p] # "spawn")
  BY <1>2, AgainFacts DEF Swept
<1>4. /\ Alone(p) /\ Only(p) /\ UNCHANGED slotVars
      /\ head' = head /\ tasks' = tasks /\ handles' = handles /\ pool' = pool
      /\ highTasks' = highTasks
      /\ node' \in [Nodes -> Node] /\ loc'[p] \in Local /\ loc'[p].handle = loc[p].handle
      /\ loc'[p].derefs = loc[p].derefs /\ loc'[p].destroy = loc[p].destroy
  BY <1>2 DEF Swept
<1>5. \A m \in Nodes : /\ node'[m].version = node[m].version /\ node'[m].stopTask = node[m].stopTask
                       /\ node'[m].high = node[m].high /\ node'[m].task = node[m].task
                       /\ node'[m].iterated = node[m].iterated /\ node'[m].status = node[m].status
                       /\ (\A j \in 0..(k - 1) : m # w[j]) => node'[m] = node[m]
  BY <1>2 DEF Swept
<1>6. k \in Nat /\ \A j \in 0..(k - 1) : ranks[w[j]] > 0
  <2>1. k \in Nat /\ \A j \in 0..k : ranks[w[j]] = LastRank(p) + k - j
    BY <1>2 DEF Walked
  <2>2. HasList(p)
    BY <1>1 DEF HasList, Executing
  <2>3. PICK c, x, b : c = Len(loc[p].list) /\ x = FirstRank(p) /\ b = LastRank(p)
    OBVIOUS
  <2>4. c \in Nat /\ c > 0 /\ x \in Nat /\ x > 0 /\ b = x + c - 1
    BY <2>2, <2>3, ListFacts
  <2>5. \A j \in 0..(k - 1) : j \in 0..k /\ b + k - j > 0
    BY <2>1, <2>4
  <2> QED
    BY <2>1, <2>3, <2>5
<1>7. NodesKept /\ TasksKept
  <2>1. NodesKept
    BY <1>5, <1>6 DEF NodesKept, IInv, NodePart, NodeInv
  <2>2. TasksKept
    BY <1>4, <1>5 DEF TasksKept, IInv, NodePart, TaskInv
  <2> QED
    BY <2>1, <2>2
<1>8. \A q \in Procs : Keeps(q)
  BY <1>1, <1>3, <1>4 DEF Alone, Keeps, Quiet, Closed
<1>9. NodePart' /\ ranks' = ranks /\ (\A q \in Procs, m \in Nodes : Owns(q, m)' <=> Owns(q, m))
  BY <1>4, <1>7, <1>8, KeepNodes, OldHandles
<1>10. QueuePart'
  BY <1>1, <1>2, <1>9, SweepQueue
<1>11. Runs(p) /\ ~loc[p].destroy
  BY <1>1, NoDestroy DEF Runs, Executing
<1>12. CountPart'
  <2>1. ~InPass(p) /\ ~InPass(p)' /\ pc'[p] # "scan"
    BY <1>1, <1>3 DEF InPass, Pass
  <2>2. InOrder' /\ CountInv' /\ LateInv'
    BY <1>1, <1>3, <1>4, <1>5, <1>9, <1>11, <2>1, SameCount
  <2> QED
    BY <2>2 DEF CountPart
<1>13. SlotPart'
  <2>1. \A q \in Procs : q # p => Still(q)
    BY <1>4 DEF Alone, Still
  <2>2. Still(p)
    BY <1>1, <1>3, <1>4 DEF Still
  <2> QED
    BY <1>4, <2>1, <2>2, SlotFrame DEF IInv
<1>14. thisId' = thisId /\ joinButex' = joinButex /\ slot' = slot /\ vref' = vref
       /\ RunStops' = RunStops /\ (Recycled' <=> Recycled)
  BY <1>4 DEF slotVars, Recycled, RunStops
<1>15. \A q \in Procs : ~Closing(q) /\ ~Closing(q)'
  <2>1. \A q \in Procs : pc[q] \notin Closed
    BY <1>11, RunnerFacts
  <2> QED
    BY <1>3, <1>4, <2>1 DEF Alone, Closing, Closed
<1>16. StopPart'
  <2>1. StopNodeInv'
    BY <1>5, <1>14, <1>15 DEF IInv, StopPart, StopNodeInv
  <2>2. ClosingInv'
    BY <1>15 DEF ClosingInv
  <2>3. DestroyInv'
    <3>1. \A q \in Procs : HasList(q)' /\ loc'[q].destroy =>
              q # p /\ HasList(q) /\ pc'[q] = pc[q] /\ loc'[q] = loc[q]
      BY <1>4, <1>11 DEF Alone, HasList
    <3>2. \A q \in Procs : HasList(q) => loc[q].list[1] \in Nodes
      BY ListFacts
    <3> QED
      BY <1>4, <1>5, <1>14, <3>1, <3>2 DEF IInv, StopPart, DestroyInv
  <2>4. UnusedInv'
    BY <1>4, <1>14 DEF IInv, StopPart, UnusedInv
  <2> QED
    BY <2>1, <2>2, <2>3, <2>4 DEF StopPart
<1>17. TypeInv'
  <2>1. p \in Fibers => pc'[p] \in FiberLabels
    BY <1>3 DEF FiberLabels
  <2>2. p \in Callers => pc'[p] \in CallerLabels
    BY <1>3 DEF CallerLabels
  <2>3. LocalType'
    BY <1>4, <2>1, <2>2, OnlyType DEF IInv, TypeInv
  <2> QED
    BY <1>4, <2>3 DEF IInv, TypeInv, TypeOK, Node, HistoryType, slotVars
<1> QED
  BY <1>9, <1>10, <1>12, <1>13, <1>16, <1>17 DEF IInv

-----------------------------------------------------------------------------
(* A process outside start_execute() has not begun to iterate *)

\* Assignments that leave the iterator's locals alone.
LEMMA FreshRecords ==
  ASSUME NEW r \in Local, Fresh(r)
  PROVE  /\ \A v, u : /\ Fresh([r EXCEPT !.ver = v, !.newVer = u])
                      /\ Fresh([r EXCEPT !.op = u, !.ver = v])
                      /\ Fresh([r EXCEPT !.derefs = u, !.ver = v])
                      /\ Fresh([r EXCEPT !.op = u, !.derefs = v])
         /\ \A v : /\ Fresh([r EXCEPT !.newVer = v])
                   /\ Fresh([r EXCEPT !.derefs = v])
                   /\ Fresh([r EXCEPT !.node = v])
<1>1. DOMAIN r = {"op", "ver", "newVer", "derefs", "node", "prev", "newHead", "handle",
                  "list", "high", "cur", "niterated", "shouldBreak", "destroy"}
  BY DEF Local
<1> QED
  BY <1>1 DEF Fresh

\* A call begins with fresh locals.
LEMMA FreshBlank == Fresh(Blank) /\ Blank \in Local
BY BlankFacts DEF Fresh

\* A step to a place outside start_execute() with fresh locals.
LEMMA FreshGoto ==
  ASSUME LocalType, FreshInv, NEW p \in Procs, NEW l, NEW r, Goto(p, l, r),
         l \in Quiet \cup {"count_high", "exchange"} => Fresh(r)
  PROVE  FreshInv'
<1>1. pc'[p] = l /\ loc'[p] = r /\ Alone(p)
  BY GotoFacts
<1> QED
  BY <1>1 DEF FreshInv, Alone

\* The return of a call.
LEMMA FreshReturn ==
  ASSUME LocalType, FreshInv, NEW p \in Procs, Return(p)
  PROVE  FreshInv'
BY FreshGoto, FreshBlank DEF Return

\* A call that has done its work has fresh locals.
LEMMA FreshRest ==
  ASSUME NEW p \in Procs
  PROVE  Fresh(Rest(p))
BY FreshBlank, FreshRecords DEF Rest

\* The end of a call's work.
LEMMA FreshContinue ==
  ASSUME LocalType, FreshInv, NEW p \in Procs, Continue(p)
  PROVE  FreshInv'
BY FreshGoto, FreshRest DEF Continue

\* Steps of a caller outside start_execute().
LEMMA FreshCaller ==
  ASSUME LocalType, FreshInv, NEW c \in Callers, CallerStep(c)
  PROVE  FreshInv'
<1>1. c \in Procs /\ loc[c] \in Local
  BY DEF Procs, LocalType
<1>2. pc[c] \in Quiet \cup {"count_high", "exchange"} => Fresh(loc[c])
  BY <1>1 DEF FreshInv
<1>3. CASE Unaddress(c)
  <2>1. Fresh(loc[c])
    BY <1>2, <1>3 DEF Unaddress, Quiet
  <2>2. CASE Return(c)
    BY <1>1, <2>2, FreshReturn
  <2>3. CASE Goto(c, "recycle", [loc[c] EXCEPT !.ver = vref.ver, !.newVer = vref.ver + 1])
    BY <1>1, <2>1, <2>3, FreshGoto, FreshRecords
  <2>4. CASE Goto(c, "check_failed", loc[c])
    BY <1>1, <2>1, <2>4, FreshGoto
  <2> QED
    BY <1>3, <2>2, <2>3, <2>4 DEF Unaddress
<1>4. CASE Dereference(c)
  <2> DEFINE r == [loc[c] EXCEPT !.derefs = loc[c].derefs - 1, !.ver = vref.ver]
  <2>1. Fresh(r)
    BY <1>1, <1>2, <1>4, FreshRecords DEF Dereference, Quiet
  <2>2. Goto(c, "deref", r) \/ Return(c) \/ Goto(c, "deref_last", r) \/ Goto(c, "check_failed", r)
    BY <1>4, Zenon DEF Dereference
  <2> HIDE DEF r
  <2> QED
    BY <1>1, <2>1, <2>2, FreshGoto, FreshReturn
<1>5. CASE DereferenceLast(c)
  <2>1. Fresh(loc[c])
    BY <1>2, <1>5 DEF DereferenceLast, Quiet
  <2>2. Goto(c, "recycle", [loc[c] EXCEPT !.newVer = thisId + 2]) \/ Goto(c, "invalid_id", loc[c])
    BY <1>5, Zenon DEF DereferenceLast
  <2> QED
    BY <1>1, <2>1, <2>2, FreshGoto, FreshRecords
<1>6. CASE DereferenceInvalid(c)
  BY <1>1, <1>6, FreshContinue DEF DereferenceInvalid
<1>7. CASE Recycle(c)
  <2>1. Fresh(loc[c])
    BY <1>2, <1>7 DEF Recycle, Quiet
  <2>2. CASE OnRecycle(c)
    <3>1. PICK n : Goto(c, "exchange", [loc[c] EXCEPT !.node = n])
      BY <2>2 DEF OnRecycle
    <3> QED
      BY <1>1, <2>1, <3>1, FreshGoto, FreshRecords
  <2>3. CASE Continue(c)
    BY <1>1, <2>3, FreshContinue
  <2> QED
    BY <1>7, <2>2, <2>3 DEF Recycle
<1>8. CASE StopCas(c)
  <2>1. Fresh(loc[c])
    BY <1>2, <1>8 DEF StopCas, Quiet
  <2> QED
    BY <1>1, <1>8, <2>1, FreshGoto DEF StopCas
<1>9. CASE StopSet(c)
  <2>1. Fresh(loc[c])
    BY <1>2, <1>9 DEF StopSet, Quiet
  <2> QED
    BY <1>1, <1>9, <2>1, FreshGoto, FreshRecords DEF StopSet
<1>10. CASE JoinTest(c)
  <2>1. Fresh(loc[c])
    BY <1>2, <1>10 DEF JoinTest, Quiet
  <2> QED
    BY <1>1, <1>10, <2>1, FreshGoto, FreshReturn DEF JoinTest
<1>11. ASSUME NEW opt \in Options, Allocate(c, opt) PROVE FreshInv'
  <2>1. Fresh(loc[c])
    BY <1>2, <1>11 DEF Allocate, Quiet
  <2>2. Goto(c, "deref", loc[c]) \/ \E n, l : Goto(c, l, [loc[c] EXCEPT !.node = n])
    BY <1>11, Zenon DEF Allocate
  <2> QED
    BY <1>1, <2>1, <2>2, FreshGoto, FreshRecords
<1>12. CASE CountHigh(c)
  <2>1. Fresh(loc[c])
    BY <1>2, <1>12 DEF CountHigh
  <2> QED
    BY <1>1, <1>12, <2>1, FreshGoto DEF CountHigh
<1>13. CASE Exchange(c)
  <2>1. (\E r : Goto(c, "link", r)) \/ (\E b, r : Goto(c, IF b THEN "begin" ELSE "spawn", r))
    BY <1>13, Zenon DEF Exchange
  <2>2. PICK l, r : Goto(c, l, r) /\ l \in {"link", "begin", "spawn"}
    BY <2>1
  <2>3. l \notin Quiet \cup {"count_high", "exchange"}
    BY <2>2 DEF Quiet
  <2> QED
    BY <1>1, <2>2, <2>3, FreshGoto
<1>14. CASE Link(c)
  BY <1>1, <1>14, FreshContinue DEF Link
<1>15. ASSUME NEW f \in Fibers, Spawn(c, f) PROVE FreshInv'
  <2>1. f \in Procs /\ f # c
    BY DistinctAssumption DEF Procs
  <2>2. /\ \A q \in Procs : q # c /\ q # f => pc'[q] = pc[q] /\ loc'[q] = loc[q]
        /\ pc'[f] = "loop" /\ loc'[c] = Rest(c)
    BY <1>1, <1>15, <2>1 DEF Spawn, LocalType
  <2> QED
    BY <1>1, <2>1, <2>2, FreshRest DEF FreshInv, Quiet
<1> QED
  BY <1>3, <1>4, <1>5, <1>6, <1>7, <1>8, <1>9, <1>10, <1>11, <1>12, <1>13, <1>14, <1>15 DEF
       CallerStep

\* Steps of an executor.
LEMMA FreshExecute ==
  ASSUME LocalType, FreshInv, NEW p \in Procs, Execute(p)
  PROVE  FreshInv'
<1>1. CASE ExecuteStop(p)
  <2>1. (\E r : Goto(p, "executed", r)) \/ (\E r : Goto(p, "check_failed", r))
    BY <1>1, Zenon DEF ExecuteStop
  <2> QED
    BY <2>1, FreshGoto DEF Quiet
<1>2. CASE Advance(p)
  <2>1. \E b, r : Goto(p, IF b THEN "destruct" ELSE "scan", r)
    BY <1>2, Zenon DEF Advance
  <2>2. PICK b, r, l : Goto(p, l, r) /\ l = IF b THEN "destruct" ELSE "scan"
    BY <2>1
  <2>3. l \notin Quiet \cup {"count_high", "exchange"}
    BY <2>2 DEF Quiet
  <2> QED
    BY <2>2, <2>3, FreshGoto
<1>3. CASE ScanEnd(p)
  <2>1. \E r : Goto(p, "destruct", r)
    BY <1>3, Zenon DEF ScanEnd
  <2> QED
    BY <2>1, FreshGoto DEF Quiet
<1>4. CASE Peek(p)
  <2>1. (\E r : Goto(p, "advance", r)) \/ (\E r : Goto(p, "scan", r))
    BY <1>4, Zenon DEF Peek
  <2> QED
    BY <2>1, FreshGoto DEF Quiet
<1>5. CASE Destruct(p)
  <2>1. Goto(p, "executed", loc[p])
    BY <1>5 DEF Destruct
  <2> QED
    BY <2>1, FreshGoto DEF Quiet
<1>6. CASE Release(p)
  <2>1. (\E r : Goto(p, "more", r)) \/ (\E r : Goto(p, "check_failed", r))
    BY <1>6, Zenon DEF Release
  <2> QED
    BY <2>1, FreshGoto DEF Quiet
<1>7. \A r : Goto(p, Again(p), r) => FreshInv'
  BY FreshGoto DEF Again, Quiet
<1>8. CASE MoreTasks(p)
  <2>1. \/ Goto(p, Again(p), loc[p])
        \/ Goto(p, IF Len(loc[p].list) = 1 THEN "finish" ELSE "check_failed", loc[p])
        \/ Goto(p, "sweep", [loc[p] EXCEPT !.newHead = head])
    BY <1>8, Zenon DEF MoreTasks
  <2>2. CASE Goto(p, IF Len(loc[p].list) = 1 THEN "finish" ELSE "check_failed", loc[p])
    <3>1. PICK l : Goto(p, l, loc[p]) /\ l = IF Len(loc[p].list) = 1 THEN "finish" ELSE "check_failed"
      BY <2>2
    <3>2. l \notin Quiet \cup {"count_high", "exchange"}
      BY <3>1 DEF Quiet
    <3> QED
      BY <3>1, <3>2, FreshGoto
  <2>3. CASE Goto(p, "sweep", [loc[p] EXCEPT !.newHead = head])
    BY <2>3, FreshGoto DEF Quiet
  <2> QED
    BY <1>7, <2>1, <2>2, <2>3
<1>9. CASE SweepNew(p)
  <2>1. \E r : Goto(p, Again(p), r)
    BY <1>9, Zenon DEF SweepNew
  <2> QED
    BY <1>7, <2>1
<1>10. CASE Finish(p)
  <2>1. Goto(p, "check_failed", loc[p]) \/ Goto(p, "destroy", loc[p]) \/ Return(p) \/ Continue(p)
    BY <1>10, Zenon DEF Finish
  <2>2. CASE Goto(p, "check_failed", loc[p]) \/ Goto(p, "destroy", loc[p])
    BY <2>2, FreshGoto DEF Quiet
  <2> QED
    BY <2>1, <2>2, FreshReturn, FreshContinue
<1> QED
  BY <1>1, <1>2, <1>3, <1>4, <1>5, <1>6, <1>8, <1>9, <1>10 DEF Execute

\* Steps that only a fiber takes.
LEMMA FreshFiber ==
  ASSUME LocalType, FreshInv, NEW f \in Fibers, FiberStep(f)
  PROVE  FreshInv'
<1>1. f \in Procs
  BY DEF Procs
<1>2. CASE LoopBegin(f) \/ Destroy(f)
  <2>1. \/ \E r : Goto(f, "begin", r)
        \/ \E r : Goto(f, "check_failed", r)
        \/ \E r : Goto(f, "wake_joiners", r)
    BY <1>2, Zenon DEF LoopBegin, Destroy
  <2> QED
    BY <1>1, <2>1, FreshGoto DEF Quiet
<1>3. CASE WakeJoiners(f)
  <2>1. loc' = loc /\ \A q \in Procs : pc'[q] = "return_slot" \/ pc'[q] = pc[q] \/ pc[q] = "join_wait"
    BY <1>3 DEF WakeJoiners
  <2> QED
    BY <2>1 DEF FreshInv, Quiet
<1>4. CASE ReturnSlot(f)
  BY <1>1, <1>4, FreshReturn DEF ReturnSlot
<1> QED
  BY <1>2, <1>3, <1>4 DEF FiberStep

\* Every step keeps the locals fresh outside start_execute().
LEMMA FreshStep ==
  ASSUME LocalType, FreshInv, Next
  PROVE  FreshInv'
<1>1. CASE Create
  BY <1>1 DEF Create, CreateReset, CreateRef, CreateId, FreshInv
<1>2. ASSUME NEW c \in Callers, Call(c) PROVE FreshInv'
  <2>1. c \in Procs
    BY DEF Procs
  <2>2. ASSUME NEW op, NEW v, Address(c, op, v) PROVE FreshInv'
    <3>1. \/ Goto(c, op, [Blank EXCEPT !.op = op, !.derefs = 1])
          \/ Goto(c, "unaddress", [Blank EXCEPT !.op = op, !.ver = vref.ver])
      BY <2>2, Zenon DEF Address
    <3> QED
      BY <2>1, <3>1, FreshGoto, FreshBlank, FreshRecords
  <2>3. ASSUME NEW v, JoinCall(c, v) PROVE FreshInv'
    BY <2>1, <2>3, FreshGoto, FreshBlank, FreshRecords DEF JoinCall
  <2> QED
    BY <1>2, <2>2, <2>3 DEF Call
<1>3. ASSUME NEW h, Cancel(h) PROVE FreshInv'
  BY <1>3 DEF Cancel, FreshInv
<1> QED
  BY <1>1, <1>2, <1>3, FreshCaller, FreshExecute, FreshFiber DEF Next

-----------------------------------------------------------------------------
(* The inductive invariant *)

\* The invariant holds in the beginning.
LEMMA InitHolds == Init => IInv /\ FreshInv
<1> SUFFICES ASSUME Init PROVE IInv /\ FreshInv
  OBVIOUS
<1>1. \A p \in Procs : pc[p] = "idle" /\ loc[p] = Blank
  BY DEF Init
<1>2. /\ head = NULL /\ vref = [ver |-> 0, ref |-> 0] /\ stopped = FALSE /\ highTasks = 0
      /\ thisId = 0
      /\ joinButex = 0 /\ slot = "pooled" /\ pool = Nodes /\ ids = {} /\ handles = {} /\ tasks = << >>
      /\ stopRuns = << >> /\ joined = {} /\ node = [n \in Nodes |-> FreeNode]
  BY DEF Init
<1>3. FreeNode \in Node /\ ~FreeNode.stopTask /\ ~FreeNode.high /\ ~FreeNode.iterated
      /\ FreeNode.task = 0
  BY DEF FreeNode, Node
<1>4. \A n \in Nodes : node[n] = FreeNode
  BY <1>2
<1>5. node \in [Nodes -> Node]
  BY <1>2, <1>3
<1>6. DOMAIN tasks = {} /\ Len(tasks) = 0 /\ DOMAIN stopRuns = {} /\ RunStops = {}
      /\ tasks \in Seq(Task) /\ stopRuns \in Seq(Nat)
  BY <1>2 DEF RunStops
<1>7. TypeInv
  <2>1. TypeOK
    BY <1>2, <1>5, <1>6 DEF TypeOK, Node
  <2>2. LocalType
    <3>1. pc \in [Procs -> CallerLabels \cup FiberLabels] /\ loc \in [Procs -> Local]
      BY BlankFacts DEF Init, CallerLabels, FiberLabels, Quiet
    <3> QED
      BY <1>1, <3>1 DEF LocalType, Procs, CallerLabels, FiberLabels, Quiet
  <2> QED
    BY <1>6, <2>1, <2>2 DEF TypeInv, HistoryType
<1>8. \A p \in Procs : /\ Held(p) = 0 /\ ~Runs(p) /\ ~HasList(p) /\ ~InPass(p) /\ ~Closing(p)
                       /\ \A n : ~Owns(p, n)
  BY <1>1, BlankFacts DEF Held, Runs, HasList, InPass, Closing, Owns, Executing, Pass, Closed
<1>9. SlotPart
  <2>1. DerefsInv
    BY <1>1, BlankFacts DEF DerefsInv
  <2>2. RefInv
    <3>1. Once = {} /\ Twice = {}
      BY <1>8 DEF Once, Twice
    <3>2. ~Base
      BY <1>2 DEF Base
    <3>3. vref.ref = 0
      BY <1>2
    <3>4. IsFiniteSet({}) /\ Cardinality({}) = 0
      BY FS_EmptySet
    <3> QED
      BY <3>1, <3>2, <3>3, <3>4 DEF RefInv
  <2>3. VersionInv
    BY <1>2 DEF VersionInv
  <2>4. StopRunInv
    BY <1>2, <1>6 DEF StopRunInv
  <2>5. HolderInv
    BY <1>1, <1>8 DEF HolderInv, Knows
  <2>6. StoppedInv
    BY <1>2 DEF StoppedInv, Recycled
  <2> QED
    BY <2>1, <2>2, <2>3, <2>4, <2>5, <2>6 DEF SlotPart
<1>10. \A n \in Nodes : ranks[n] = 0
  BY <1>3, <1>4 DEF ranks
<1>11. NodePart
  <2>1. OwnerInv
    BY <1>1, <1>8 DEF OwnerInv
  <2>2. NodeInv
    BY <1>3, <1>4 DEF NodeInv
  <2>3. TaskInv
    BY <1>3, <1>4, <1>6 DEF TaskInv
  <2>4. HandleInv
    BY <1>1, <1>2 DEF HandleInv, Quiet
  <2> QED
    BY <2>1, <2>2, <2>3, <2>4 DEF NodePart
<1>12. QueuePart
  <2>1. HeadInv
    BY <1>2, <1>8 DEF HeadInv
  <2>2. ListInv /\ ChainInv
    BY <1>8 DEF ListInv, ChainInv
  <2>3. LinkInv /\ FinishInv
    BY <1>1 DEF LinkInv, FinishInv
  <2>4. LiveInv
    BY <1>10 DEF LiveInv
  <2>5. SweepInv /\ FrontInv /\ PassInv
    BY <1>1 DEF SweepInv, SweepOf, FrontInv, FrontOf, PassInv, PassOf
  <2> QED
    BY <2>1, <2>2, <2>3, <2>4, <2>5 DEF QueuePart
<1>13. CountPart
  <2>1. Waiting = {}
    BY <1>3, <1>4 DEF Waiting
  <2>2. highTasks = Cardinality(Waiting)
    BY <1>2, <2>1, FS_EmptySet
  <2>3. CountInv
    BY <1>1, <1>8, <2>2 DEF CountInv
  <2>4. LateInv /\ InOrder
    BY <1>6 DEF LateInv, InOrder
  <2> QED
    BY <2>3, <2>4 DEF CountPart
<1>14. StopPart
  <2>1. StopNodeInv
    BY <1>3, <1>4 DEF StopNodeInv
  <2>2. ClosingInv /\ DestroyInv
    BY <1>8 DEF ClosingInv, DestroyInv
  <2>3. UnusedInv
    BY <1>2, <1>6 DEF UnusedInv
  <2> QED
    BY <2>1, <2>2, <2>3 DEF StopPart
<1>15. FreshInv
  BY <1>1, FreshBlank DEF FreshInv
<1> QED
  BY <1>7, <1>9, <1>11, <1>12, <1>13, <1>14, <1>15 DEF IInv

\* The invariant holds when nothing changes.
LEMMA Stutter ==
  ASSUME IInv, FreshInv, UNCHANGED vars
  PROVE  IInv' /\ FreshInv'
<1>1. UNCHANGED slotVars /\ UNCHANGED queueView /\ pc' = pc /\ loc' = loc
  BY DEF vars, queueVars, slotVars, queueView
<1>2. \A q \in Procs : Still(q) /\ Apart(q)
  BY <1>1 DEF Still, Apart
<1>3. SlotPart'
  BY <1>1, <1>2, SlotFrame DEF IInv
<1>4. NodePart' /\ QueuePart' /\ CountPart'
  BY <1>1, <1>2, QuietFrame DEF IInv
<1>5. StopPart'
  <2>1. /\ node' = node /\ head' = head /\ tasks' = tasks /\ thisId' = thisId
        /\ joinButex' = joinButex /\ slot' = slot
        /\ RunStops' = RunStops /\ (Recycled' <=> Recycled)
    BY <1>1 DEF slotVars, queueView, RunStops, Recycled
  <2>2. \A q \in Procs : (Closing(q)' <=> Closing(q)) /\ (Closing(q) => pc'[q] = pc[q])
    BY <1>1 DEF Closing
  <2> QED
    BY <1>2, <2>1, <2>2, StopFrame DEF IInv
<1>6. TypeInv'
  BY <1>1 DEF IInv, TypeInv, TypeOK, LocalType, HistoryType, slotVars, queueView
<1>7. FreshInv'
  BY <1>1 DEF FreshInv
<1> QED
  BY <1>3, <1>4, <1>5, <1>6, <1>7 DEF IInv

\* Every step preserves the invariant.
LEMMA NextStep ==
  ASSUME IInv, FreshInv, Next
  PROVE  IInv' /\ FreshInv'
<1>1. FreshInv'
  BY FreshStep DEF IInv, TypeInv
<1>2. ASSUME Create PROVE IInv'
  BY <1>2, CreateStep
<1>3. ASSUME NEW c \in Callers, Call(c) PROVE IInv'
  BY <1>3, AddressStep, JoinCallStep DEF Call
<1>4. ASSUME NEW c \in Callers, CallerStep(c) PROVE IInv'
  BY <1>4, UnaddressStep, DereferenceStep, DereferenceLastStep, DereferenceInvalidStep,
       RecycleStep, StopCasStep,
     StopSetStep, JoinTestStep, AllocateStep, CountHighStep, ExchangeStep, LinkStep,
     SpawnStep DEF CallerStep
<1>5. ASSUME NEW p \in Procs, Execute(p) PROVE IInv'
  BY <1>5, ExecuteStopStep, AdvanceStep, ScanEndStep, PeekStep, DestructStep, ReleaseStep,
       MoreTasksStep,
     SweepNewStep, FinishStep DEF Execute
<1>6. ASSUME NEW f \in Fibers, FiberStep(f) PROVE IInv'
  BY <1>6, LoopBeginStep, DestroyStep, WakeJoinersStep, ReturnSlotStep DEF FiberStep
<1>7. ASSUME NEW h \in handles, Cancel(h) PROVE IInv'
  BY <1>7, CancelStep
<1>8. IInv'
  BY <1>2, <1>3, <1>4, <1>5, <1>6, <1>7 DEF Next
<1> QED
  BY <1>1, <1>8

\* The inductive invariant holds in every reachable state.
THEOREM Invariant == Spec => [](IInv /\ FreshInv)
<1>1. Init => IInv /\ FreshInv
  BY InitHolds
<1>2. IInv /\ FreshInv /\ [Next]_vars => (IInv /\ FreshInv)'
  BY NextStep, Stutter
<1> QED
  BY <1>1, <1>2, PTL DEF Spec

-----------------------------------------------------------------------------
(* The theorems *)

\* The types of the queue, of its nodes and of the history; neither the counter of
\* high-priority tasks nor the number of references becomes negative.
THEOREM TypeCorrect == Spec => []TypeOK
<1>1. IInv => TypeOK
  BY DEF IInv, TypeInv
<1> QED
  BY <1>1, Invariant, PTL

\* What a slot in the pool looks like: create() finds it as it expects.
LEMMA PooledSlot ==
  ASSUME IInv, slot = "pooled"
  PROVE  head = NULL /\ highTasks = 0
<1>1. head = NULL
  BY DEF IInv, StopPart, UnusedInv
<1>2. \A p \in Procs : ~Runs(p)
  BY <1>1 DEF IInv, QueuePart, HeadInv
<1>3. \A p \in Procs : ~InPass(p)
  BY <1>2 DEF Runs, InPass, Pass, Executing
<1>4. ASSUME NEW n \in Nodes, n \in Waiting PROVE FALSE
  <2>1. node[n].high /\ ~node[n].iterated
    BY <1>4 DEF Waiting
  <2>2. CASE node[n].task = 0
    <3>1. PICK p \in Procs : Owns(p, n)
      BY <2>1, <2>2 DEF IInv, NodePart, NodeInv
    <3>2. loc[p].derefs = 1 \/ node[n].stopTask
      BY <3>1 DEF IInv, NodePart, OwnerInv
    <3>3. ~node[n].stopTask
      BY <2>1 DEF IInv, StopPart, StopNodeInv
    <3>4. Held(p) >= 1 /\ pc[p] # "unaddress"
      BY <3>1, <3>2, <3>3 DEF Held, Owns
    <3> QED
      BY <3>4 DEF IInv, SlotPart, HolderInv, Knows
  <2>3. CASE node[n].task # 0
    <3>1. node[n].task > 0 /\ ranks[n] > 0
      <4>1. node[n].task \in Nat
        BY UnchangedTypes DEF Node
      <4> QED
        BY <2>3, <4>1, RankFacts
    <3> QED
      BY <1>2, <2>1, <3>1 DEF IInv, QueuePart, LiveInv
  <2> QED
    BY <2>2, <2>3
<1>5. Waiting = {}
  BY <1>4 DEF Waiting
<1>6. highTasks = 0
  BY <1>3, <1>5, FS_EmptySet DEF IInv, CountPart, CountInv
<1> QED
  BY <1>1, <1>6

\* Tasks are executed by at most one process, and by one while _head is not NULL; no
\* CHECK of the code fails.
THEOREM ExecutorCorrect == Spec => []ExecutorSound
<1>1. ASSUME IInv PROVE SingleExecutor
  <2> DEFINE es == {p \in Procs : pc[p] \in Executing}
  <2>1. \A p, q \in es : p = q
    BY <1>1 DEF IInv, QueuePart, HeadInv, Runs
  <2>2. head = NULL <=> es = {}
    BY <1>1 DEF IInv, QueuePart, HeadInv, Runs
  <2> HIDE DEF es
  <2>3. Cardinality(es) <= 1
    <3>1. CASE es = {}
      BY <3>1, FS_EmptySet
    <3>2. CASE es # {}
      <4>1. PICK e : es = {e}
        BY <2>1, <3>2
      <4>2. Cardinality(es) = 1
        BY <4>1, FS_Singleton
      <4> QED
        BY <4>2
    <3> QED
      BY <3>1, <3>2
  <2> QED
    BY <2>2, <2>3 DEF SingleExecutor, es
<1>2. ASSUME IInv PROVE ChecksHold
  <2>1. \A p \in Procs : pc[p] # "check_failed"
    BY <1>2 DEF IInv, TypeInv, LocalType, CallerLabels, FiberLabels, Quiet, Pass, Closed
  <2> QED
    BY <1>2, <2>1, PooledSlot DEF ChecksHold
<1>3. IInv => ExecutorSound
  BY <1>1, <1>2 DEF ExecutorSound
<1> QED
  BY <1>3, Invariant, PTL

\* Tasks of one priority start in the order of their pushes, and a high-priority task
\* in the queue waits for at most one normal task.
THEOREM OrderCorrect == Spec => []OrderKept
<1>1. IInv => OrderKept
  BY DEF IInv, CountPart, LateInv, OrderKept, HighPriorityFirst
<1> QED
  BY <1>1, Invariant, PTL

\* The stop task is executed once per incarnation and behind all tasks, join() returns
\* after it, and "Invalid id" is logged for a recycled queue only.
THEOREM StopCorrect == Spec => []StopSound
<1>1. ASSUME IInv PROVE StopIsLast
  BY <1>1 DEF IInv, SlotPart, StopRunInv, StopPart, UnusedInv, RunStops, StopIsLast
<1>2. ASSUME IInv PROVE JoinAfterStop
  BY <1>2 DEF IInv, SlotPart, StopRunInv, RunStops, JoinAfterStop
<1>3. ASSUME IInv PROVE InvalidIdIsRecycled
  <2> SUFFICES ASSUME NEW p \in Procs, pc[p] = "invalid_id"
               PROVE  \E i \in DOMAIN stopRuns : stopRuns[i] + 1 = loc[p].ver
    BY DEF InvalidIdIsRecycled
  <2>1. PICK v \in RunStops : loc[p].ver = v + 1
    BY <1>3 DEF IInv, SlotPart, HolderInv, Knows
  <2> QED
    BY <2>1 DEF RunStops
<1>4. IInv => StopSound
  BY <1>1, <1>2, <1>3 DEF StopSound
<1> QED
  BY <1>4, Invariant, PTL

\* The fate of a task changes once, from pending to executed or to cancelled: a step of
\* peek_to_execute() or cancel() acts on a pending task, and no other step on any.
THEOREM FateCorrect == Spec => FateFollows
<1> DEFINE Final == \A t \in DOMAIN tasks : tasks'[t].fate # tasks[t].fate =>
                      tasks[t].fate = "pending" /\ tasks'[t].fate \in {"executed", "cancelled"}
<1>1. ASSUME tasks' = tasks PROVE Final
  BY <1>1
<1>2. ASSUME IInv, FreshInv, NEW c \in Callers, Exchange(c) PROVE Final
  <2>1. Entered(c, loc[c].node)
    BY <1>2, ExchangeEffect DEF Procs
  <2>2. \A t \in DOMAIN tasks : tasks'[t] = tasks[t]
    BY <1>2, <2>1, RankFacts DEF Entered
  <2> QED
    BY <2>2
<1>3. ASSUME IInv, NEW p \in Procs, Peek(p) PROVE Final
  <2>1. PICK i, n : i = First(Todo(p)) /\ n = loc[p].list[i]
    OBVIOUS
  <2>2. Todo(p) # {} /\ (PeekStarts(p, i, n) \/ PeekSkips(p, i, n))
    BY <1>3, <2>1, Zenon DEF Peek, PeekStarts, PeekSkips
  <2>3. CASE PeekStarts(p, i, n)
    <3>1. pc[p] = "scan" /\ node[n].status = "UNEXECUTED" /\ tasks' = Started(node[n].task)
      BY <2>3 DEF PeekStarts
    <3>2. n \in Nodes /\ node[n].task \in DOMAIN tasks /\ node[n].task > 0
      BY <1>3, <2>1, <2>2, <3>1, PeekFacts
    <3>3. tasks[node[n].task].fate = "pending" /\ tasks \in Seq(Task)
      BY <1>3, <3>1, <3>2, UnchangedTypes DEF IInv, NodePart, TaskInv
    <3>4. /\ tasks'[node[n].task].fate = "executed"
          /\ \A u \in DOMAIN tasks : u # node[n].task => tasks'[u].fate = tasks[u].fate
      BY <3>1, <3>2, <3>3, StartedFacts
    <3> QED
      BY <3>3, <3>4
  <2>4. CASE PeekSkips(p, i, n)
    BY <1>1, <2>4 DEF PeekSkips
  <2> QED
    BY <2>2, <2>3, <2>4
<1>4. ASSUME IInv, NEW h \in handles, Cancel(h) PROVE Final
  <2>1. node[h.node].version = h.version /\ node[h.node].status = "UNEXECUTED"
        /\ tasks' = [tasks EXCEPT ![h.task].fate = "cancelled"]
    BY <1>4 DEF Cancel
  <2>2. h.node \in Nodes /\ h.task \in DOMAIN tasks /\ node[h.node].task = h.task /\ h.task > 0
    BY <1>4, <2>1, OldHandles, RankFacts DEF ValidHandle, Handle
  <2>3. tasks[h.task].fate = "pending" /\ tasks \in Seq(Task)
    BY <1>4, <2>1, <2>2, UnchangedTypes DEF IInv, NodePart, TaskInv
  <2>4. tasks[h.task] \in Task
    BY <2>2, <2>3
  <2>5. tasks'[h.task].fate = "cancelled" /\ \A u \in DOMAIN tasks : u # h.task =>
            tasks'[u] = tasks[u]
    BY <2>1, <2>2, <2>4 DEF Task
  <2> QED
    BY <2>3, <2>5
<1>5. ASSUME NEW c \in Callers, Call(c) PROVE tasks' = tasks
  BY <1>5 DEF Call, Address, JoinCall, history
<1>6. ASSUME NEW c \in Callers, CallerStep(c) PROVE tasks' = tasks \/ Exchange(c)
  <2>1. ASSUME NEW opt \in Options, Allocate(c, opt) PROVE tasks' = tasks
    BY <2>1 DEF Allocate, history
  <2>2. ASSUME NEW f \in Fibers, Spawn(c, f) PROVE tasks' = tasks
    BY <2>2 DEF Spawn
  <2>3. ASSUME Unaddress(c) \/ Dereference(c) \/ DereferenceLast(c) \/ DereferenceInvalid(c)
        PROVE  tasks' = tasks
    BY <2>3 DEF Unaddress, Dereference, DereferenceLast, DereferenceInvalid, history
  <2>4. ASSUME Recycle(c) \/ StopCas(c) \/ StopSet(c) \/ JoinTest(c) \/ CountHigh(c) \/ Link(c)
        PROVE  tasks' = tasks
    BY <2>4 DEF Recycle, StopCas, StopSet, JoinTest, CountHigh, Link, history
  <2> QED
    BY <1>6, <2>1, <2>2, <2>3, <2>4 DEF CallerStep
<1>7. ASSUME NEW p \in Procs, Execute(p) PROVE tasks' = tasks \/ Peek(p)
  <2>1. ASSUME ExecuteStop(p) \/ Advance(p) \/ ScanEnd(p) \/ Destruct(p) PROVE tasks' = tasks
    BY <2>1 DEF ExecuteStop, Advance, ScanEnd, Destruct, history
  <2>2. ASSUME Release(p) \/ MoreTasks(p) \/ SweepNew(p) \/ Finish(p) PROVE tasks' = tasks
    BY <2>2 DEF Release, MoreTasks, SweepNew, Finish, history
  <2> QED
    BY <1>7, <2>1, <2>2 DEF Execute
<1>8. ASSUME NEW f \in Fibers, FiberStep(f) PROVE tasks' = tasks
  BY <1>8 DEF FiberStep, LoopBegin, Destroy, WakeJoiners, ReturnSlot, history
<1>9. ASSUME Create PROVE tasks' = tasks
  BY <1>9 DEF Create, CreateReset, CreateRef, CreateId, history
<1> HIDE DEF Final
<1>10. IInv /\ FreshInv /\ Next => Final
  BY <1>1, <1>2, <1>3, <1>4, <1>5, <1>6, <1>7, <1>8, <1>9 DEF Next
<1>11. IInv /\ FreshInv /\ [Next]_vars => [Final]_vars
  BY <1>10
<1>12. Spec => [][Final]_vars
  BY <1>11, Invariant, PTL DEF Spec
<1> QED
  BY <1>12 DEF Final, FateFollows
=============================================================================
