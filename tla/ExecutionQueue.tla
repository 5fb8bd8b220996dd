---------------------------- MODULE ExecutionQueue ----------------------------
(***************************************************************************)
(* ExecutionQueue (src/eabase/fiber/execution_queue.cc, _inl.h): a         *)
(* wait-free multi-producer queue of tasks.  The producer that finds the   *)
(* queue empty gets the right to execute: it runs its task in place or     *)
(* starts a fiber, which leaves when no task is left.  A queue is named by *)
(* a versioned id; stop() makes the id invalid, the last reference pushes  *)
(* a stop task, and executing that returns the slot to the resource pool.  *)
(*                                                                         *)
(* One slot, used by one incarnation after another.  Each operation on an  *)
(* atomic, each section under TaskNode::mutex and each use of a butex or   *)
(* pool is a step.  The nodes that an executor has taken over are seen by  *)
(* nobody else: they are the sequence `list' of its locals, head first.    *)
(* The user's execute function iterates to the end and calls nothing here. *)
(* Executors are fibers; use_pthread is not modelled.                      *)
(***************************************************************************)
EXTENDS Naturals, FiniteSets, Sequences

CONSTANTS Callers,      \* threads that use the queue
          Fibers,       \* fibers that may run _execute_tasks
          Nodes,        \* TaskNodes of the object pool
          Options,      \* the TaskOptions in use
          Ops,          \* the other functions in use: subset of {"stop", "join", "cancel"}
          MaxTasks,     \* bound on the number of accepted tasks
          MaxCreates,   \* bound on the number of incarnations
          NULL, UNCONNECTED

ASSUME BoundsAssumption == MaxTasks \in Nat /\ MaxCreates \in Nat
ASSUME NodesAssumption == IsFiniteSet(Nodes)
ASSUME OptionsAssumption == Options \subseteq {"normal", "high", "in_place", "high_in_place"}
ASSUME OpsAssumption == Ops \subseteq {"stop", "join", "cancel"}
ASSUME DistinctAssumption ==
    NULL # UNCONNECTED /\ {NULL, UNCONNECTED} \cap Nodes = {} /\ Callers \cap Fibers = {}

Procs == Callers \cup Fibers

VARIABLES head,        \* _head
          vref,        \* _versioned_ref: version and number of references
          stopped,     \* _stopped
          highTasks,   \* _high_priority_tasks
          thisId,      \* version in _this_id
          joinButex,   \* *_join_butex
          slot,        \* the slot: "pooled", "creating", "referenced", "used"
          node,        \* the TaskNodes
          pool,        \* free TaskNodes
          pc, loc,     \* per process: next step, its locals
          ids,         \* versions of the ids given to users
          handles,     \* TaskHandles given to users
          tasks,       \* history: the tasks in the order of the exchanges of _head
          stopRuns,    \* history: versions the execute function was told to stop for
          joined       \* history: versions some join() returned 0 for

queueVars == <<head, vref, stopped, highTasks, thisId, joinButex, slot>>
vars == <<queueVars, node, pool, pc, loc, ids, handles, tasks, stopRuns, joined>>
history == <<ids, handles, tasks, stopRuns, joined>>

Blank == [op |-> "none", ver |-> 0, newVer |-> 0, derefs |-> 0, node |-> NULL,
          prev |-> NULL, newHead |-> NULL, handle |-> NULL, list |-> << >>, high |-> FALSE, cur |-> 1,
          niterated |-> 0, shouldBreak |-> FALSE, destroy |-> FALSE]
FreeNode == [version |-> 0, status |-> "UNEXECUTED", stopTask |-> FALSE,
             iterated |-> FALSE, high |-> FALSE, inPlace |-> FALSE,
             next |-> UNCONNECTED, task |-> 0]

Init == /\ head = NULL /\ vref = [ver |-> 0, ref |-> 0] /\ stopped = FALSE
        /\ highTasks = 0 /\ thisId = 0 /\ joinButex = 0 /\ slot = "pooled"
        /\ node = [n \in Nodes |-> FreeNode] /\ pool = Nodes
        /\ pc = [p \in Procs |-> "idle"] /\ loc = [p \in Procs |-> Blank]
        /\ ids = {} /\ handles = {} /\ tasks = << >> /\ stopRuns = << >> /\ joined = {}

Goto(p, l, r) == pc' = [pc EXCEPT ![p] = l] /\ loc' = [loc EXCEPT ![p] = r]
Return(p) == Goto(p, "idle", Blank)
\* What follows a start_execute() or a dereference() of p: the remaining
\* dereferences, then the return to the user.
RestLabel(p) == IF loc[p].derefs > 0 THEN "deref" ELSE "idle"
Rest(p) == IF loc[p].derefs > 0 THEN [Blank EXCEPT !.op = loc[p].op, !.derefs = loc[p].derefs]
                                ELSE Blank
Continue(p) == Goto(p, RestLabel(p), Rest(p))

-----------------------------------------------------------------------------
(* create(), address(), dereference() and the recycling of the slot *)

\* create(): the checks and resets; the slot comes from the pool.
CreateReset ==
    /\ slot = "pooled" /\ Cardinality(ids) < MaxCreates
    /\ slot' = "creating"
    /\ stopped' = FALSE
    /\ UNCHANGED <<head, vref, highTasks, thisId, joinButex, node, pool, pc, loc, history>>

\* create(): the additional reference, released by stop().
CreateRef ==
    /\ slot = "creating"
    /\ slot' = "referenced"
    /\ vref' = [vref EXCEPT !.ref = @ + 1]
    /\ UNCHANGED <<head, stopped, highTasks, thisId, joinButex, node, pool, pc, loc, history>>

CreateId ==
    /\ slot = "referenced"
    /\ slot' = "used"
    /\ thisId' = vref.ver
    /\ ids' = ids \cup {vref.ver}
    /\ UNCHANGED <<head, vref, stopped, highTasks, joinButex, node, pool, pc, loc,
                   handles, tasks, stopRuns, joined>>

\* address() for execution_queue_execute (op = "execute") or
\* execution_queue_stop (op = "stop"): the reference is taken first.
Address(p, op, v) ==
    /\ pc[p] = "idle"
    /\ op = "execute" => Len(tasks) + Cardinality({q \in Callers : loc[q].op = "execute"}) < MaxTasks
    /\ vref' = [vref EXCEPT !.ref = @ + 1]
    /\ IF vref.ver = v
         THEN Goto(p, op, [Blank EXCEPT !.op = op, !.derefs = 1])
         ELSE Goto(p, "unaddress", [Blank EXCEPT !.op = op, !.ver = vref.ver])
    /\ UNCHANGED <<head, stopped, highTasks, thisId, joinButex, slot, node, pool, history>>

Odd(v) == v % 2 = 1

\* Mutant: the reference taken from a stopped queue is dropped, the recycling forgotten.
Unaddress_NoRecycle(p) ==
    /\ pc[p] = "unaddress"
    /\ vref' = [vref EXCEPT !.ref = @ - 1]
    /\ Return(p)
    /\ UNCHANGED <<head, stopped, highTasks, thisId, joinButex, slot, node, pool, history>>

\* address(): the version does not match, the reference is given back.  The
\* last one to leave a stopped queue recycles it.
Unaddress(p) ==
    LET last == vref.ref = 1 IN
    /\ pc[p] = "unaddress"
    /\ vref' = [vref EXCEPT !.ref = @ - 1]
    /\ \/ /\ vref.ref > 1 \/ (last /\ ~Odd(vref.ver) /\ loc[p].ver = vref.ver)
          /\ Return(p)
       \/ /\ last /\ Odd(vref.ver) /\ vref.ver \in {loc[p].ver, loc[p].ver + 1}
          /\ Goto(p, "recycle", [loc[p] EXCEPT !.ver = vref.ver, !.newVer = vref.ver + 1])
       \/ /\ last /\ (IF Odd(vref.ver) THEN vref.ver \notin {loc[p].ver, loc[p].ver + 1}
                                       ELSE loc[p].ver # vref.ver)
          /\ Goto(p, "check_failed", loc[p])
    /\ UNCHANGED <<head, stopped, highTasks, thisId, joinButex, slot, node, pool, history>>

Dereference(p) ==
    LET r == [loc[p] EXCEPT !.derefs = @ - 1, !.ver = vref.ver] IN
    /\ pc[p] = "deref"
    /\ vref' = [vref EXCEPT !.ref = @ - 1]
    /\ \/ /\ vref.ref > 1
          /\ IF r.derefs > 0 THEN Goto(p, "deref", r) ELSE Return(p)
       \/ /\ vref.ref = 1
          /\ Goto(p, "deref_last", r)
       \/ /\ vref.ref = 0
          /\ Goto(p, "check_failed", r)
    /\ UNCHANGED <<head, stopped, highTasks, thisId, joinButex, slot, node, pool, history>>

\* dereference(): the reference count went from 1 to 0; only now _this_id is read.
DereferenceLast(p) ==
    /\ pc[p] = "deref_last"
    /\ IF loc[p].ver \in {thisId, thisId + 1}
         THEN Goto(p, "recycle", [loc[p] EXCEPT !.newVer = thisId + 2])
         ELSE Goto(p, "invalid_id", loc[p])
    /\ UNCHANGED <<queueVars, node, pool, history>>

\* LOG(FATAL) "Invalid id", return -1.
DereferenceInvalid(p) ==
    /\ pc[p] = "invalid_id"
    /\ Continue(p)
    /\ UNCHANGED <<queueVars, node, pool, history>>

\* _on_recycle(): a stop task is pushed.
OnRecycle(p) ==
    \E n \in pool :
       /\ pool' = pool \ {n}
       /\ node' = [node EXCEPT ![n] = [FreeNode EXCEPT !.version = node[n].version, !.stopTask = TRUE]]
       /\ Goto(p, "exchange", [loc[p] EXCEPT !.node = n])

\* Mutant: whoever saw the last reference go recycles, without the CAS.
Recycle_NoCas(p) ==
    /\ pc[p] = "recycle"
    /\ vref' = [ver |-> loc[p].newVer, ref |-> 0]
    /\ OnRecycle(p)
    /\ UNCHANGED <<head, stopped, highTasks, thisId, joinButex, slot, history>>

\* Mutant: the slot is returned at once, without a stop task.
Recycle_AtOnce(p) ==
    /\ pc[p] = "recycle"
    /\ \/ /\ vref = [ver |-> loc[p].ver, ref |-> 0]
          /\ vref' = [ver |-> loc[p].newVer, ref |-> 0]
          /\ slot' = "pooled"
       \/ /\ vref # [ver |-> loc[p].ver, ref |-> 0]
          /\ UNCHANGED <<vref, slot>>
    /\ Continue(p)
    /\ UNCHANGED <<head, stopped, highTasks, thisId, joinButex, node, pool, history>>

\* The CAS that makes exactly one of the leavers recycle the slot.
Recycle(p) ==
    /\ pc[p] = "recycle"
    /\ \/ /\ vref = [ver |-> loc[p].ver, ref |-> 0]
          /\ vref' = [ver |-> loc[p].newVer, ref |-> 0]
          /\ OnRecycle(p)
       \/ /\ vref # [ver |-> loc[p].ver, ref |-> 0]
          /\ Continue(p)
          /\ UNCHANGED <<vref, node, pool>>
    /\ UNCHANGED <<head, stopped, highTasks, thisId, joinButex, slot, history>>

-----------------------------------------------------------------------------
(* stop(), join(), cancel() *)

\* stop(): the version becomes odd and the id invalid; the second one to stop fails.
StopCas(p) ==
    /\ pc[p] = "stop"
    /\ \/ /\ vref.ver = thisId
          /\ vref' = [vref EXCEPT !.ver = thisId + 1]
          /\ Goto(p, "stop_set", loc[p])
       \/ /\ vref.ver # thisId
          /\ Goto(p, "deref", loc[p])
          /\ UNCHANGED vref
    /\ UNCHANGED <<head, stopped, highTasks, thisId, joinButex, slot, node, pool, history>>

\* stop(): later execute()s fail; the additional reference and that of
\* execution_queue_stop are then released.
StopSet(p) ==
    /\ pc[p] = "stop_set"
    /\ stopped' = TRUE
    /\ Goto(p, "deref", [loc[p] EXCEPT !.derefs = 2])
    /\ UNCHANGED <<head, vref, highTasks, thisId, joinButex, slot, node, pool, history>>

JoinCall(p, v) ==
    /\ pc[p] = "idle"
    /\ Goto(p, "join", [Blank EXCEPT !.op = "join", !.ver = v])
    /\ UNCHANGED <<queueVars, node, pool, history>>

\* join(): butex_wait compares and queues in one step (module Butex).
JoinTest(p) ==
    /\ pc[p] = "join"
    /\ \/ /\ joinButex = loc[p].ver
          /\ Goto(p, "join_wait", loc[p])
          /\ UNCHANGED joined
       \/ /\ joinButex # loc[p].ver
          /\ joined' = joined \cup {loc[p].ver}
          /\ Return(p)
    /\ UNCHANGED <<queueVars, node, pool, ids, handles, tasks, stopRuns>>

\* Mutant: a handle of an earlier use of the node cancels the present task.
Cancel_NoVersion(h) ==
    /\ node[h.node].status = "UNEXECUTED"
    /\ node' = [node EXCEPT ![h.node].status = "EXECUTED"]
    /\ tasks' = [tasks EXCEPT ![h.task].fate = "cancelled"]
    /\ UNCHANGED <<queueVars, pool, pc, loc, ids, handles, stopRuns, joined>>

\* TaskNode::cancel() that returns 0; the calls that return -1 or 1 change nothing.
Cancel(h) ==
    /\ node[h.node].version = h.version
    /\ node[h.node].status = "UNEXECUTED"
    /\ node' = [node EXCEPT ![h.node].status = "EXECUTED"]
    /\ tasks' = [tasks EXCEPT ![h.task].fate = "cancelled"]
    /\ UNCHANGED <<queueVars, pool, pc, loc, ids, handles, stopRuns, joined>>

-----------------------------------------------------------------------------
(* execute() and start_execute() *)

\* execute(): the test of _stopped, the new node and its handle.
Allocate(p, opt) ==
    /\ pc[p] = "execute"
    /\ \/ /\ stopped
          /\ Goto(p, "deref", loc[p])
          /\ UNCHANGED <<node, pool>>
       \/ /\ ~stopped
          /\ \E n \in pool :
                /\ pool' = pool \ {n}
                /\ node' = [node EXCEPT ![n] = [FreeNode EXCEPT !.version = node[n].version,
                                !.high = opt \in {"high", "high_in_place"},
                                !.inPlace = opt \in {"in_place", "high_in_place"}]]
                /\ Goto(p, IF opt \in {"high", "high_in_place"} THEN "count_high" ELSE "exchange",
                        [loc[p] EXCEPT !.node = n])
    /\ UNCHANGED <<queueVars, history>>

\* Before the push, so that the executor sees the number when it sees the task.
CountHigh(p) ==
    /\ pc[p] = "count_high"
    /\ highTasks' = highTasks + 1
    /\ Goto(p, "exchange", loc[p])
    /\ UNCHANGED <<head, vref, stopped, thisId, joinButex, slot, node, pool, history>>

\* The task of node n enters the history, and its handle.
TaskNumber(n) == IF node[n].stopTask THEN 0 ELSE Len(tasks) + 1
EnterTask(n) == IF node[n].stopTask THEN tasks
                ELSE Append(tasks, [high |-> node[n].high, queue |-> thisId,
                                    fate |-> "pending", late |-> 0])
NewHandle(n) == IF node[n].stopTask THEN NULL
                ELSE [node |-> n, version |-> node[n].version, task |-> TaskNumber(n)]

\* Mutant: every producer starts an executor.
Exchange_TakesRight(p) ==
    LET n == loc[p].node IN
    /\ pc[p] = "exchange"
    /\ head' = n
    /\ tasks' = EnterTask(n)
    /\ node' = [node EXCEPT ![n].task = TaskNumber(n), ![n].next = NULL]
    /\ Goto(p, IF node[n].inPlace THEN "begin" ELSE "spawn",
            [loc[p] EXCEPT !.list = <<n>>, !.high = node[n].high, !.handle = NewHandle(n)])
    /\ UNCHANGED <<vref, stopped, highTasks, thisId, joinButex, slot, pool, ids, handles,
                   stopRuns, joined>>

\* The exchange of _head, the point at which the task enters the queue.  The
\* producer that finds NULL has the right to execute.
Exchange(p) ==
    LET n == loc[p].node  r == [loc[p] EXCEPT !.handle = NewHandle(n)] IN
    /\ pc[p] = "exchange"
    /\ head' = n
    /\ tasks' = EnterTask(n)
    /\ \/ /\ head # NULL
          /\ node' = [node EXCEPT ![n].task = TaskNumber(n)]
          /\ Goto(p, "link", [r EXCEPT !.prev = head])
       \/ /\ head = NULL
          /\ node' = [node EXCEPT ![n].task = TaskNumber(n), ![n].next = NULL]
          /\ Goto(p, IF node[n].inPlace THEN "begin" ELSE "spawn",
                  [r EXCEPT !.list = <<n>>, !.high = node[n].high])
    /\ UNCHANGED <<vref, stopped, highTasks, thisId, joinButex, slot, pool, ids, handles,
                   stopRuns, joined>>

\* start_execute() returns, and execute() with the handle of its task.
Pushed(p) == handles' = handles \cup ({loc[p].handle} \ {NULL})

Link(p) ==
    /\ pc[p] = "link"
    /\ node' = [node EXCEPT ![loc[p].node].next = loc[p].prev]
    /\ Pushed(p)
    /\ Continue(p)
    /\ UNCHANGED <<queueVars, pool, ids, tasks, stopRuns, joined>>

\* fiber_start_lazy: a fiber goes on with the nodes that p has taken over.
Spawn(p, f) ==
    /\ pc[p] = "spawn"
    /\ pc[f] = "idle"
    /\ pc' = [pc EXCEPT ![p] = RestLabel(p), ![f] = "loop"]
    /\ loc' = [loc EXCEPT ![p] = Rest(p), ![f] = [Blank EXCEPT !.op = "fiber", !.list = loc[p].list]]
    /\ Pushed(p)
    /\ UNCHANGED <<queueVars, node, pool, ids, tasks, stopRuns, joined>>

-----------------------------------------------------------------------------
(* _execute_tasks(), _execute() and the iterator *)

\* return_task_node(): handles of the node become invalid.
ReturnNodes(ns) ==
    /\ node' = [n \in Nodes |-> IF n \in ns THEN [FreeNode EXCEPT !.version = node[n].version + 1]
                                           ELSE node[n]]
    /\ pool' = pool \cup ns
\* The CHECKs of clear_before_return().
MayReturn(n) == node[n].status # "UNEXECUTED" /\ (node[n].stopTask \/ node[n].iterated)

\* A pass over the tasks, of high priority if there are any.
LoopBegin(f) ==
    LET l == loc[f].list
        drop == node[Head(l)].iterated IN
    /\ pc[f] = "loop"
    /\ ReturnNodes(IF drop THEN {Head(l)} ELSE {})
    /\ IF drop /\ (Len(l) = 1 \/ ~MayReturn(Head(l)))
         THEN Goto(f, "check_failed", loc[f])
         ELSE Goto(f, "begin", [loc[f] EXCEPT !.list = IF drop THEN Tail(l) ELSE l,
                        !.high = highTasks > 0, !.cur = 1, !.niterated = 0, !.shouldBreak = FALSE])
    /\ UNCHANGED <<queueVars, history>>

\* _execute(): the stop task.
ExecuteStop(p) ==
    LET n == Head(loc[p].list) IN
    /\ pc[p] = "begin"
    /\ node[n].stopTask
    /\ node' = [node EXCEPT ![n].iterated = TRUE, ![n].status = "EXECUTED"]
    /\ stopRuns' = Append(stopRuns, thisId)
    /\ IF Len(loc[p].list) = 1
         THEN Goto(p, "executed", [loc[p] EXCEPT !.destroy = TRUE, !.niterated = 1])
         ELSE Goto(p, "check_failed", loc[p])
    /\ UNCHANGED <<queueVars, pool, ids, handles, tasks, joined>>

\* Mutant: the iterator does not look for high-priority tasks.
Advance_NoBreak(p) ==
    LET r == loc[p]
        cur == IF node[r.list[r.cur]].iterated THEN r.cur + 1 ELSE r.cur IN
    /\ pc[p] \in {"begin", "advance"}
    /\ ~node[r.list[r.cur]].stopTask
    /\ Goto(p, "scan", [r EXCEPT !.cur = cur])
    /\ UNCHANGED <<queueVars, node, pool, history>>

\* operator++: in the constructor, and when the task at `cur' is done.
Advance(p) ==
    LET r == loc[p]
        cur == IF node[r.list[r.cur]].iterated THEN r.cur + 1 ELSE r.cur
        break == ~r.high /\ highTasks > 0 IN
    /\ pc[p] \in {"begin", "advance"}
    /\ ~node[r.list[r.cur]].stopTask
    /\ Goto(p, IF break THEN "destruct" ELSE "scan", [r EXCEPT !.cur = cur, !.shouldBreak = break])
    /\ UNCHANGED <<queueVars, node, pool, history>>

First(is) == CHOOSE i \in is : \A j \in is : i <= j
\* Where the iteration of p ends, and the positions before of the tasks of the
\* pass's priority that were not iterated yet.
End(p) == LET l == loc[p].list IN
    First({i \in loc[p].cur..Len(l) : node[l[i]].stopTask} \cup {Len(l) + 1})
Todo(p) == {i \in loc[p].cur..(End(p) - 1) :
               LET n == node[loc[p].list[i]] IN n.high = loc[p].high /\ ~n.iterated}

\* History of a task that starts: the high-priority tasks in the queue wait for it.
Started(t) ==
    [u \in DOMAIN tasks |->
        IF u = t THEN [tasks[u] EXCEPT !.fate = IF @ = "pending" THEN "executed" ELSE "repeated"]
        ELSE IF tasks[u].high /\ tasks[u].fate = "pending" /\ ~tasks[t].high
          THEN [tasks[u] EXCEPT !.late = @ + 1] ELSE tasks[u]]

\* operator++: there is no further task for this pass.
ScanEnd(p) ==
    /\ pc[p] = "scan"
    /\ Todo(p) = {}
    /\ Goto(p, "destruct", [loc[p] EXCEPT !.cur = End(p)])
    /\ UNCHANGED <<queueVars, node, pool, history>>

\* operator++: peek_to_execute() of the next task; the user runs it at "advance".
\* A cancelled task is counted and skipped.
Peek(p) ==
    LET i == First(Todo(p))  n == loc[p].list[i] IN
    /\ pc[p] = "scan"
    /\ Todo(p) # {}
    /\ \/ /\ node[n].status = "UNEXECUTED"
          /\ node' = [node EXCEPT ![n].iterated = TRUE, ![n].status = "EXECUTING"]
          /\ tasks' = Started(node[n].task)
          /\ Goto(p, "advance", [loc[p] EXCEPT !.cur = i, !.niterated = @ + 1])
       \/ /\ node[n].status # "UNEXECUTED"
          /\ node' = [node EXCEPT ![n].iterated = TRUE]
          /\ Goto(p, "scan", [loc[p] EXCEPT !.cur = i + 1, !.niterated = @ + 1])
          /\ UNCHANGED tasks
    /\ UNCHANGED <<queueVars, pool, ids, handles, stopRuns, joined>>

\* ~TaskIteratorBase
Destruct(p) ==
    LET r == loc[p]
        passed == {r.list[i] : i \in 1..(r.cur - 1)}
        done == IF r.shouldBreak /\ r.cur <= Len(r.list) THEN passed \cup {r.list[r.cur]} ELSE passed IN
    /\ pc[p] = "destruct"
    /\ node' = [n \in Nodes |-> IF n \in done /\ node[n].iterated /\ node[n].high = r.high
                                THEN [node[n] EXCEPT !.status = "EXECUTED"] ELSE node[n]]
    /\ Goto(p, "executed", r)
    /\ UNCHANGED <<queueVars, pool, history>>

\* Mutant: a pass over normal tasks is subtracted from the counter too.
Release_Always(p) ==
    LET r == loc[p]
        k == First({i \in DOMAIN r.list : i = Len(r.list) \/ ~node[r.list[i]].iterated}) IN
    /\ pc[p] = "executed"
    /\ highTasks' = highTasks - r.niterated
    /\ ReturnNodes({r.list[i] : i \in 1..(k - 1)})
    /\ Goto(p, "more", [r EXCEPT !.list = SubSeq(@, k, Len(@))])
    /\ UNCHANGED <<head, vref, stopped, thisId, joinButex, slot, history>>

\* The counter is updated (only the executor reads it) and the iterated nodes
\* before the first uniterated or the last one are returned.
Release(p) ==
    LET r == loc[p]
        k == First({i \in DOMAIN r.list : i = Len(r.list) \/ ~node[r.list[i]].iterated}) IN
    /\ pc[p] = "executed"
    /\ highTasks' = IF r.high THEN highTasks - r.niterated ELSE highTasks
    /\ ReturnNodes({r.list[i] : i \in 1..(k - 1)})
    /\ IF \A i \in 1..(k - 1) : MayReturn(r.list[i])
         THEN Goto(p, "more", [r EXCEPT !.list = SubSeq(@, k, Len(@))])
         ELSE Goto(p, "check_failed", r)
    /\ UNCHANGED <<head, vref, stopped, thisId, joinButex, slot, history>>

\* Where _more_tasks() = true leads: the next pass, or a fiber for the in-place executor.
Again(p) == IF p \in Fibers THEN "loop" ELSE "spawn"

\* Mutant: the queue is given up although its first task was not executed.
MoreTasks_DropsUniterated(p) ==
    LET tail == loc[p].list[Len(loc[p].list)] IN
    /\ pc[p] = "more"
    /\ \/ head = tail /\ head' = NULL /\ Goto(p, "finish", loc[p])
       \/ head # tail /\ Goto(p, "sweep", [loc[p] EXCEPT !.newHead = head]) /\ UNCHANGED head
    /\ UNCHANGED <<vref, stopped, highTasks, thisId, joinButex, slot, node, pool, history>>

\* _more_tasks(): the CAS of _head.
MoreTasks(p) ==
    LET l == loc[p].list  tail == l[Len(l)] IN
    /\ pc[p] = "more"
    /\ \/ /\ head = tail /\ ~node[Head(l)].iterated
          /\ Goto(p, Again(p), loc[p])
          /\ UNCHANGED head
       \/ /\ head = tail /\ node[Head(l)].iterated
          /\ head' = NULL
          /\ Goto(p, IF Len(l) = 1 THEN "finish" ELSE "check_failed", loc[p])
       \/ /\ head # tail
          /\ Goto(p, "sweep", [loc[p] EXCEPT !.newHead = head])
          /\ UNCHANGED head
    /\ UNCHANGED <<vref, stopped, highTasks, thisId, joinButex, slot, node, pool, history>>

\* The i-th node behind n; the walk stays at a node whose next is not a node.
Walk(n) == LET w[i \in 0..Cardinality(Nodes)] ==
                   IF i = 0 THEN n ELSE IF w[i - 1] \in Nodes THEN node[w[i - 1]].next ELSE w[i - 1]
           IN w

\* Mutant: the new nodes are not reversed.
SweepNew_NotReversed(p) ==
    LET l == loc[p].list  tail == l[Len(l)]  w == Walk(loc[p].newHead)
        at == {i \in DOMAIN w : w[i] = tail}
        k == First(at) IN
    /\ pc[p] = "sweep"
    /\ at # {}
    /\ Goto(p, Again(p), [loc[p] EXCEPT !.list = l \o [i \in 1..k |-> w[i - 1]], !.newHead = NULL])
    /\ UNCHANGED <<queueVars, node, pool, history>>

\* _more_tasks(): the nodes pushed since are reversed and linked behind the old
\* ones; from then on `list' stands for their links.  The executor spins while one
\* of them is UNCONNECTED; `newHead' is the head that the CAS saw.
SweepNew(p) ==
    LET l == loc[p].list  tail == l[Len(l)]  w == Walk(loc[p].newHead)
        at == {i \in DOMAIN w : w[i] = tail}
        k == First(at) IN
    /\ pc[p] = "sweep"
    /\ at # {}
    /\ Goto(p, Again(p), [loc[p] EXCEPT !.list = l \o [i \in 1..k |-> w[k - i]], !.newHead = NULL])
    /\ node' = [n \in Nodes |-> IF n \in {w[i] : i \in 0..(k - 1)} THEN [node[n] EXCEPT !.next = NULL] ELSE node[n]]
    /\ UNCHANGED <<queueVars, pool, history>>

\* The executor has given up the queue: its last node is returned.
Finish(p) ==
    LET n == Head(loc[p].list) IN
    /\ pc[p] = "finish"
    /\ ReturnNodes({n})
    /\ \/ /\ ~MayReturn(n)
          /\ Goto(p, "check_failed", loc[p]) /\ UNCHANGED handles
       \/ /\ MayReturn(n) /\ p \in Fibers
          /\ IF loc[p].destroy THEN Goto(p, "destroy", loc[p]) ELSE Return(p)
          /\ UNCHANGED handles
       \/ /\ MayReturn(n) /\ p \notin Fibers
          /\ Pushed(p)
          /\ Continue(p)
    /\ UNCHANGED <<queueVars, ids, tasks, stopRuns, joined>>

\* Mutant: the join butex does not skip the odd version of a stopped queue.
Destroy_AddsOne(f) ==
    /\ pc[f] = "destroy"
    /\ joinButex' = joinButex + 1
    /\ Goto(f, "wake_joiners", loc[f])
    /\ UNCHANGED <<head, vref, stopped, highTasks, thisId, slot, node, pool, history>>

\* The join butex gets the version of the next incarnation.
Destroy(f) ==
    /\ pc[f] = "destroy"
    /\ IF head = NULL /\ stopped
         THEN joinButex' = joinButex + 2 /\ Goto(f, "wake_joiners", loc[f])
         ELSE Goto(f, "check_failed", loc[f]) /\ UNCHANGED joinButex
    /\ UNCHANGED <<head, vref, stopped, highTasks, thisId, slot, node, pool, history>>

\* Mutant: butex_wake, one joiner only.
WakeJoiners_One(f) ==
    /\ pc[f] = "wake_joiners"
    /\ \E p \in Procs \ {f} :
          /\ (\E q \in Procs : pc[q] = "join_wait") => pc[p] = "join_wait"
          /\ pc' = [pc EXCEPT ![f] = "return_slot", ![p] = IF @ = "join_wait" THEN "join" ELSE @]
    /\ UNCHANGED <<queueVars, node, pool, loc, history>>

\* butex_wake_all
WakeJoiners(f) ==
    /\ pc[f] = "wake_joiners"
    /\ pc' = [p \in Procs |-> IF p = f THEN "return_slot"
                              ELSE IF pc[p] = "join_wait" THEN "join" ELSE pc[p]]
    /\ UNCHANGED <<queueVars, node, pool, loc, history>>

ReturnSlot(f) ==
    /\ pc[f] = "return_slot"
    /\ slot' = "pooled"
    /\ Return(f)
    /\ UNCHANGED <<head, vref, stopped, highTasks, thisId, joinButex, node, pool, history>>

-----------------------------------------------------------------------------
Create == CreateReset \/ CreateRef \/ CreateId

\* A user calls a function.
Call(c) == \E v \in ids :
    \/ Address(c, "execute", v)
    \/ "stop" \in Ops /\ Address(c, "stop", v)
    \/ "join" \in Ops /\ JoinCall(c, v)

\* A step inside address(), dereference(), stop(), join() or execute().
CallerStep(c) ==
    \/ Unaddress(c) \/ Dereference(c) \/ DereferenceLast(c) \/ DereferenceInvalid(c)
    \/ Recycle(c) \/ StopCas(c) \/ StopSet(c) \/ JoinTest(c)
    \/ \E opt \in Options : Allocate(c, opt)
    \/ CountHigh(c) \/ Exchange(c) \/ Link(c)
    \/ \E f \in Fibers : Spawn(c, f)

\* A step of the executor, a fiber or a producer in place.
Execute(p) == \/ ExecuteStop(p) \/ Advance(p) \/ ScanEnd(p) \/ Peek(p) \/ Destruct(p) \/ Release(p)
              \/ MoreTasks(p) \/ SweepNew(p) \/ Finish(p)

FiberStep(f) == LoopBegin(f) \/ Destroy(f) \/ WakeJoiners(f) \/ ReturnSlot(f)

Next == \/ Create
        \/ \E c \in Callers : Call(c) \/ CallerStep(c)
        \/ \E p \in Procs : Execute(p)
        \/ \E f \in Fibers : FiberStep(f)
        \/ "cancel" \in Ops /\ \E h \in handles : Cancel(h)

Spec == Init /\ [][Next]_vars

\* Threads inside a function and fibers that were started keep running; nobody
\* is obliged to call anything.
FairSpec == /\ Spec
            /\ WF_vars(Create)
            /\ \A c \in Callers : WF_vars(CallerStep(c))
            /\ \A p \in Procs : WF_vars(Execute(p))
            /\ \A f \in Fibers : WF_vars(FiberStep(f))

-----------------------------------------------------------------------------
(* Properties *)

Handle == [node : Nodes, version : Nat, task : Nat]
\* Types of the queue, of its nodes and of the history; the counter of
\* high-priority tasks and the references are never negative.
TypeOK == /\ head \in Nodes \cup {NULL} /\ vref \in [ver : Nat, ref : Nat]
          /\ stopped \in BOOLEAN /\ highTasks \in Nat /\ thisId \in Nat /\ joinButex \in Nat
          /\ slot \in {"pooled", "creating", "referenced", "used"}
          /\ node \in [Nodes -> [version : Nat, status : {"UNEXECUTED", "EXECUTING", "EXECUTED"},
                                 stopTask : BOOLEAN, iterated : BOOLEAN, high : BOOLEAN,
                                 inPlace : BOOLEAN, next : Nodes \cup {NULL, UNCONNECTED}, task : Nat]]
          /\ pool \subseteq Nodes
          /\ ids \subseteq Nat /\ handles \subseteq Handle /\ joined \subseteq ids
          /\ \A t \in DOMAIN tasks : tasks[t].fate \in {"pending", "executed", "cancelled", "repeated"}

\* The labels of a process that owns the right to execute.
Executing == {"spawn", "loop", "begin", "advance", "scan", "destruct", "executed", "more", "sweep"}

\* start_execute(), _more_tasks(): at most one process executes tasks at a time,
\* and one does exactly while _head is not NULL.
SingleExecutor == LET es == {p \in Procs : pc[p] \in Executing} IN
    Cardinality(es) <= 1 /\ (head = NULL <=> es = {})

\* "FIFO order" (execution_queue.h): tasks of one priority start in the order in
\* which they were pushed; only cancelled ones are left out.
InOrder == \A t, u \in DOMAIN tasks :
    (t < u /\ tasks[t].high = tasks[u].high /\ tasks[u].fate = "executed") => tasks[t].fate # "pending"

\* peek_to_execute() against cancel(): a task is executed once or cancelled once,
\* never both, and a stale handle cancels nothing.
FateFollows == [][\A t \in DOMAIN tasks : tasks'[t].fate # tasks[t].fate =>
                     tasks[t].fate = "pending" /\ tasks'[t].fate \in {"executed", "cancelled"}]_vars

\* "the next high_priority_task would be delayed for at most one task"
\* (TaskIteratorBase::operator++).
HighPriorityFirst == \A t \in DOMAIN tasks : tasks[t].late <= 1

\* The execute function is told once per incarnation that the queue is stopped,
\* when all tasks pushed to it are done; none is pushed later.
StopIsLast == /\ \A i, j \in DOMAIN stopRuns : stopRuns[i] = stopRuns[j] => i = j
              /\ \A t \in DOMAIN tasks, i \in DOMAIN stopRuns :
                    tasks[t].queue = stopRuns[i] => tasks[t].fate # "pending"

\* join() returns only after the stop task of its incarnation was executed.
JoinAfterStop == \A v \in joined : \E i \in DOMAIN stopRuns : stopRuns[i] = v

\* No CHECK of the code fails: reference counts, returned nodes, the end of
\* _execute_tasks(), and the state in which create() finds the slot.
ChecksHold == /\ \A p \in Procs : pc[p] # "check_failed"
              /\ slot = "pooled" => head = NULL /\ highTasks = 0

\* dereference() logs "Invalid id" only when somebody else has already recycled
\* the slot for the version that it leaves: no queue is lost.
InvalidIdIsRecycled == \A p \in Procs : pc[p] = "invalid_id" =>
    \E i \in DOMAIN stopRuns : stopRuns[i] + 1 = loc[p].ver

\* The stop task of a stopped queue is pushed by the last one that leaves, and is
\* executed even behind a running executor, unless users keep addressing the dead
\* id for ever.
StoppedQueueEnds ==
    \/ []<>(\E c \in Callers : pc[c] = "unaddress")
    \/ \A i \in 1..MaxCreates : LET v == 2 * (i - 1) IN
          vref.ver = v + 1 ~> \E j \in DOMAIN stopRuns : stopRuns[j] = v

\* A join() of a queue whose stop task was executed returns.
JoinReturns == \A c \in Callers :
    (pc[c] \in {"join", "join_wait"} /\ \E i \in DOMAIN stopRuns : stopRuns[i] = loc[c].ver)
        ~> pc[c] = "idle"

\* One executor while there are tasks, and no CHECK of the code fails.
ExecutorSound == SingleExecutor /\ ChecksHold

\* The order of execution: FIFO within a priority, high priority first.
OrderKept == InOrder /\ HighPriorityFirst

\* Stopping: the stop task is executed once and last, joins wait for it, and the
\* slot is recycled by exactly one of those who leave it.
StopSound == StopIsLast /\ JoinAfterStop /\ InvalidIdIsRecycled

\* A stopped queue ends, and those who join it return.
StopEnds == StoppedQueueEnds /\ JoinReturns
=============================================================================
