------------------------------ MODULE Scheduler ------------------------------
(***************************************************************************)
(* The M:N scheduler of src/eabase/fiber (task_group.cc, task_control.cc,  *)
(* parking_lot.h, remote_task_queue.h): every worker pthread has a         *)
(* TaskGroup with a work stealing run queue `rq' of its own and a locked   *)
(* queue `remote' that other pthreads push to.  A worker without a task    *)
(* looks at every queue, one after the other, and parks on its ParkingLot; *)
(* whoever makes a fiber ready signals the lots.                           *)
(*                                                                         *)
(* One tag and a fixed set of workers.  A WorkStealingQueue is the deque   *)
(* that WorkStealingQueue implements (TaskDeque).  A fiber that blocks (in *)
(* butex_wait or usleep, modules Butex and TaskMeta) is suspended once     *)
(* its remained callback has run, and anybody may then make it ready.      *)
(***************************************************************************)
EXTENDS Integers, FiniteSets, Sequences

CONSTANTS Workers,    \* worker pthreads, each with its TaskGroup
          Externals,  \* other pthreads, the timer thread for example
          Fibers,
          NumLots,    \* TaskControl::PARKING_LOT_NUM (4 in the code)
          LotOf,      \* the lot of a thread: fmix64(pthread_numeric_id()) % NumLots
          Capacity,   \* capacity of a run queue
          RemoteCapacity,
          MaxBlocks,  \* bound on the number of yields and suspensions
          Main,       \* the main task of a worker
          None

Threads == Workers \cup Externals

ASSUME SizesAssumption == /\ Capacity \in Nat \ {0} /\ RemoteCapacity \in Nat \ {0}
                          /\ NumLots \in Nat \ {0} /\ MaxBlocks \in Nat
ASSUME LotsAssumption == LotOf \in [Threads -> 0..(NumLots - 1)]
ASSUME NamesAssumption == /\ Main \notin Fibers /\ None \notin Fibers \cup Workers
                          /\ Workers \cap Externals = {}

VARIABLES rq, remote,     \* per worker: _rq (top first) and _remote_rq
          nosig, rnosig,  \* per worker: _num_nosignal, _remote_num_nosignal
          missed,         \* per worker: the counter of its lot has changed since
                          \* _last_pl_state was saved
          pc,             \* per thread: next step
          cur,            \* per worker: _cur_meta
          left,           \* per worker: queues that TaskControl::steal_task has yet to look at
          op,             \* per thread: the fiber it makes ready, or the remained callback
          sig,            \* per thread: progress of its signal_task()
          nosigGroup,     \* per external: tls_task_group_nosignal
          state,          \* per fiber: "suspended" also before it is started
          blocks,         \* number of yields and suspensions so far
          quiet           \* auxiliary: queued fibers pushed by the callback that
                          \* ignores signals (about_to_quit)

queueVars == <<rq, remote, nosig, rnosig>>
fiberVars == <<state, blocks>>
vars == <<queueVars, missed, pc, cur, left, op, sig, nosigGroup, fiberVars, quiet>>

NoOp == [kind |-> "none", f |-> None, signal |-> "yes", g |-> None]
Ready(f, signal) == [kind |-> "ready", f |-> f, signal |-> signal, g |-> None]
NoSig == [num |-> 0, lots |-> 0]

Init == /\ rq = [w \in Workers |-> << >>] /\ remote = [w \in Workers |-> << >>]
        /\ nosig = [w \in Workers |-> 0] /\ rnosig = [w \in Workers |-> 0]
        /\ missed = [w \in Workers |-> FALSE]
        /\ pc = [t \in Threads |-> IF t \in Workers THEN "wait" ELSE "idle"]
        /\ cur = [w \in Workers |-> Main] /\ left = [w \in Workers |-> {}]
        /\ op = [t \in Threads |-> NoOp] /\ sig = [t \in Threads |-> NoSig]
        /\ nosigGroup = [x \in Externals |-> None]
        /\ state = [f \in Fibers |-> "suspended"] /\ blocks = 0 /\ quiet = {}

Goto(t, l) == pc' = [pc EXCEPT ![t] = l]

-----------------------------------------------------------------------------
(* TaskControl::signal_task and ParkingLot::signal *)

Signalling(t) == sig[t].num > 0
\* No step of signal_task and no callback is left: the thread runs on.
Free(t) == ~Signalling(t) /\ op[t].kind = "none"

\* signal_task(n): at most 2 are woken, starting at the caller's lot.
Signal(t, n) == sig' = [sig EXCEPT ![t] = [num |-> IF n > 2 THEN 2 ELSE n, lots |-> 0]]

Parked(lot) == {w \in Workers : pc[w] = "parked" /\ LotOf[w] = lot}

SignalledLot(t) == (LotOf[t] + sig[t].lots) % NumLots
\* Mutant: only the caller's own lot is signalled.
SignalRest_OwnLot(t, woken) == NoSig

SignalRest(t, woken) ==
    LET num == sig[t].num - woken  lots == sig[t].lots + 1 IN
    IF num = 0 \/ lots = NumLots THEN NoSig ELSE [num |-> num, lots |-> lots]

\* signal(1) on one lot: its counter changes, and one parked worker is woken.
SignalLot(t) ==
    LET lot == SignalledLot(t) IN
    /\ Signalling(t)
    /\ missed' = [w \in Workers |-> missed[w] \/ LotOf[w] = lot]
    /\ \/ /\ Parked(lot) = {}
          /\ sig' = [sig EXCEPT ![t] = SignalRest(t, 0)]
          /\ UNCHANGED pc
       \/ \E w \in Parked(lot) :
             /\ sig' = [sig EXCEPT ![t] = SignalRest(t, 1)]
             /\ Goto(w, "steal")
    /\ UNCHANGED <<queueVars, cur, left, op, nosigGroup, fiberVars, quiet>>

-----------------------------------------------------------------------------
(* TaskGroup::wait_task, steal_task, sched, ending_sched and sched_to *)

\* _pl->wait(_last_pl_state)
Park(w) ==
    /\ pc[w] = "wait" /\ Free(w)
    /\ Goto(w, IF missed[w] THEN "steal" ELSE "parked")
    /\ UNCHANGED <<queueVars, missed, cur, left, op, sig, nosigGroup, fiberVars, quiet>>

\* sched_to: the remained callback of the previous task, if any, is in op[w].
SwitchTo(w, f) == /\ cur' = [cur EXCEPT ![w] = f]
                  /\ left' = [left EXCEPT ![w] = {}]
                  /\ quiet' = quiet \ {f}
                  /\ Goto(w, IF f = Main THEN "wait" ELSE "run")

\* sched, ending_sched: pop the own run queue, the newest first, or steal.
Sched(w) ==
    \/ /\ rq[w] # << >>
       /\ rq' = [rq EXCEPT ![w] = SubSeq(@, 1, Len(@) - 1)]
       /\ SwitchTo(w, rq[w][Len(rq[w])])
    \/ /\ rq[w] = << >>
       /\ Goto(w, "steal")
       /\ UNCHANGED <<rq, cur, left, quiet>>

\* steal_task: the own remote queue, then save the state of the lot.
Steal(w) ==
    /\ pc[w] = "steal"
    /\ \/ /\ remote[w] # << >>
          /\ remote' = [remote EXCEPT ![w] = Tail(@)]
          /\ SwitchTo(w, Head(remote[w]))
          /\ UNCHANGED missed
       \/ /\ remote[w] = << >>
          /\ missed' = [missed EXCEPT ![w] = FALSE]
          /\ left' = [left EXCEPT ![w] = Workers \X {"rq", "remote"}]
          /\ Goto(w, "scan")
          /\ UNCHANGED <<remote, cur, quiet>>
    /\ UNCHANGED <<rq, nosig, rnosig, op, sig, nosigGroup, fiberVars>>

\* TaskControl::steal_task: every group once, in any order (_steal_offset is a
\* prime larger than the number of groups); first its _rq, then its _remote_rq.
\* After the last one the worker goes to its main task, which waits.
NotFound(w, q) == IF left[w] = {q} THEN SwitchTo(w, Main)
                  ELSE left' = [left EXCEPT ![w] = @ \ {q}] /\ UNCHANGED <<pc, cur, quiet>>

ScanRq(w, g) ==
    /\ pc[w] = "scan" /\ <<g, "rq">> \in left[w]
    /\ \/ /\ rq[g] # << >>
          /\ rq' = [rq EXCEPT ![g] = Tail(@)]
          /\ SwitchTo(w, Head(rq[g]))
       \/ /\ rq[g] = << >>
          /\ NotFound(w, <<g, "rq">>)
          /\ UNCHANGED rq
    /\ UNCHANGED <<remote, nosig, rnosig, missed, op, sig, nosigGroup, fiberVars>>

ScanRemote(w, g) ==
    /\ pc[w] = "scan" /\ <<g, "remote">> \in left[w] /\ <<g, "rq">> \notin left[w]
    /\ \/ /\ remote[g] # << >>
          /\ remote' = [remote EXCEPT ![g] = Tail(@)]
          /\ SwitchTo(w, Head(remote[g]))
       \/ /\ remote[g] = << >>
          /\ NotFound(w, <<g, "remote">>)
          /\ UNCHANGED remote
    /\ UNCHANGED <<rq, nosig, rnosig, missed, op, sig, nosigGroup, fiberVars>>

-----------------------------------------------------------------------------
(* ready_to_run, ready_to_run_remote, push_rq *)

\* Mutant: the task is queued without a test for a free slot.
PushLocal_NoBound(w) ==
    /\ pc[w] \in {"run", "wait"} /\ op[w].kind = "ready" /\ ~Signalling(w)
    /\ rq' = [rq EXCEPT ![w] = Append(@, op[w].f)]
    /\ op' = [op EXCEPT ![w] = NoOp]
    /\ Signal(w, 1)
    /\ UNCHANGED <<remote, nosig, rnosig, missed, pc, cur, left, nosigGroup, fiberVars, quiet>>

\* ready_to_run (ready_to_run_in_worker, .._ignoresignal) of a worker.
PushLocal(w) ==
    LET r == op[w] IN
    /\ pc[w] \in {"run", "wait"} /\ r.kind = "ready" /\ ~Signalling(w)
    /\ Len(rq[w]) < Capacity
    /\ rq' = [rq EXCEPT ![w] = Append(@, r.f)]
    /\ op' = [op EXCEPT ![w] = NoOp]
    /\ nosig' = [nosig EXCEPT ![w] = CASE r.signal = "yes" -> 0
                                       [] r.signal = "no" -> @ + 1
                                       [] r.signal = "ignore" -> @]
    /\ IF r.signal = "yes" THEN Signal(w, 1 + nosig[w]) ELSE UNCHANGED sig
    /\ quiet' = IF r.signal = "ignore" THEN quiet \cup {r.f} ELSE quiet
    /\ UNCHANGED <<remote, rnosig, missed, pc, cur, left, nosigGroup, fiberVars>>

\* push_rq of a full queue: signal the tasks held back and try again (with none
\* held back, a try changes nothing).
PushFull(w) ==
    /\ pc[w] \in {"run", "wait"} /\ op[w].kind = "ready" /\ ~Signalling(w)
    /\ Len(rq[w]) >= Capacity /\ nosig[w] > 0
    /\ nosig' = [nosig EXCEPT ![w] = 0]
    /\ Signal(w, nosig[w])
    /\ UNCHANGED <<rq, remote, rnosig, missed, pc, cur, left, op, nosigGroup, fiberVars, quiet>>

PushRemote(t) ==
    LET r == op[t] IN
    /\ t \notin Workers /\ r.kind = "ready" /\ ~Signalling(t)
    /\ Len(remote[r.g]) < RemoteCapacity
    /\ remote' = [remote EXCEPT ![r.g] = Append(@, r.f)]
    /\ op' = [op EXCEPT ![t] = NoOp]
    /\ rnosig' = [rnosig EXCEPT ![r.g] = IF r.signal = "yes" THEN 0 ELSE @ + 1]
    /\ IF r.signal = "yes" THEN Signal(t, 1 + rnosig[r.g]) ELSE UNCHANGED sig
    /\ UNCHANGED <<rq, nosig, missed, pc, cur, left, nosigGroup, fiberVars, quiet>>

PushRemoteFull(t) ==
    LET g == op[t].g IN
    /\ t \notin Workers /\ op[t].kind = "ready" /\ ~Signalling(t)
    /\ Len(remote[g]) >= RemoteCapacity /\ rnosig[g] > 0
    /\ rnosig' = [rnosig EXCEPT ![g] = 0]
    /\ Signal(t, rnosig[g])
    /\ UNCHANGED <<rq, remote, nosig, missed, pc, cur, left, op, nosigGroup, fiberVars, quiet>>

-----------------------------------------------------------------------------
(* What a running fiber does: start or resume others, flush, yield, block, *)
(* end                                                                     *)

Running(w) == pc[w] = "run" /\ Free(w)
Woken(f) == /\ state[f] = "suspended"
            /\ state' = [state EXCEPT ![f] = "alive"]

\* start_background, or ready_to_run of a blocked fiber.
StartLazy(w, f, signal) ==
    /\ Running(w) /\ Woken(f)
    /\ op' = [op EXCEPT ![w] = Ready(f, signal)]
    /\ UNCHANGED <<queueVars, missed, pc, cur, left, sig, nosigGroup, blocks, quiet>>

\* start_foreground, or exchange with a blocked fiber: it runs, and the caller
\* is made ready by the remained callback (NOSIGNAL and about_to_quit are about
\* the caller).
Start(w, f, signal) ==
    /\ Running(w) /\ Woken(f)
    /\ op' = [op EXCEPT ![w] = Ready(cur[w], signal)]
    /\ SwitchTo(w, f)
    /\ UNCHANGED <<queueVars, missed, sig, nosigGroup, blocks>>

Flush(w) ==
    /\ Running(w) /\ nosig[w] > 0
    /\ nosig' = [nosig EXCEPT ![w] = 0]
    /\ Signal(w, nosig[w])
    /\ UNCHANGED <<rq, remote, rnosig, missed, pc, cur, left, op, nosigGroup, fiberVars, quiet>>

\* yield, and the sched of a fiber that blocks.
Block(w, r) ==
    /\ Running(w) /\ blocks < MaxBlocks
    /\ blocks' = blocks + 1
    /\ op' = [op EXCEPT ![w] = r]
    /\ Sched(w)
    /\ UNCHANGED <<remote, nosig, rnosig, missed, sig, nosigGroup, state>>
Yield(w) == Block(w, Ready(cur[w], "yes"))
\* Mutant: the fiber can be made ready while it still runs.
Suspend_AtOnce(w) ==
    /\ Running(w) /\ blocks < MaxBlocks
    /\ blocks' = blocks + 1
    /\ state' = [state EXCEPT ![cur[w]] = "suspended"]
    /\ Sched(w)
    /\ UNCHANGED <<remote, nosig, rnosig, missed, op, sig, nosigGroup>>

Suspend(w) == Block(w, [kind |-> "suspend", f |-> cur[w], signal |-> "yes", g |-> None])

\* The remained callback of a fiber that blocks, in the next task.
Suspended(w) ==
    /\ pc[w] \in {"run", "wait"} /\ op[w].kind = "suspend"
    /\ state' = [state EXCEPT ![op[w].f] = "suspended"]
    /\ op' = [op EXCEPT ![w] = NoOp]
    /\ UNCHANGED <<queueVars, missed, pc, cur, left, sig, nosigGroup, blocks, quiet>>

\* task_runner after the user function: change the version, ending_sched.
Finish(w) ==
    /\ Running(w)
    /\ state' = [state EXCEPT ![cur[w]] = "done"]
    /\ Sched(w)
    /\ UNCHANGED <<remote, nosig, rnosig, missed, op, sig, nosigGroup, blocks>>

-----------------------------------------------------------------------------
(* start_from_non_worker and fiber_flush of a pthread that is not a worker *)

StartRemote(x, f, signal, g) ==
    /\ Free(x) /\ Woken(f)
    /\ signal = "no" => nosigGroup[x] \in {None, g}
    /\ op' = [op EXCEPT ![x] = [Ready(f, signal) EXCEPT !.g = g]]
    /\ nosigGroup' = [nosigGroup EXCEPT ![x] = IF signal = "no" THEN g ELSE @]
    /\ UNCHANGED <<queueVars, missed, pc, cur, left, sig, blocks, quiet>>

FlushRemote(x) ==
    LET g == nosigGroup[x] IN
    /\ Free(x) /\ g # None
    /\ nosigGroup' = [nosigGroup EXCEPT ![x] = None]
    /\ rnosig' = [rnosig EXCEPT ![g] = 0]
    /\ IF rnosig[g] > 0 THEN Signal(x, rnosig[g]) ELSE UNCHANGED sig
    /\ UNCHANGED <<rq, remote, nosig, missed, pc, cur, left, op, fiberVars, quiet>>

-----------------------------------------------------------------------------
Scan(w) == \E g \in Workers : ScanRq(w, g) \/ ScanRemote(w, g)
WorkerStep(w) == \/ Park(w) \/ Steal(w) \/ Scan(w)
                 \/ PushLocal(w) \/ PushFull(w) \/ Suspended(w)
\* What a thread does without a choice of the user.
Step(t) == \/ SignalLot(t)
           \/ t \in Workers /\ WorkerStep(t)
           \/ t \in Externals /\ (PushRemote(t) \/ PushRemoteFull(t))

Next == \/ \E t \in Threads : Step(t)
        \/ \E w \in Workers :
              \/ \E f \in Fibers : \/ \E s \in {"yes", "no"} : StartLazy(w, f, s)
                                   \/ \E s \in {"yes", "no", "ignore"} : Start(w, f, s)
              \/ Flush(w) \/ Yield(w) \/ Suspend(w) \/ Finish(w)
        \/ \E x \in Externals :
              \/ \E f \in Fibers, s \in {"yes", "no"}, g \in Workers : StartRemote(x, f, s, g)
              \/ FlushRemote(x)

Spec == Init /\ [][Next]_vars

-----------------------------------------------------------------------------
\* The variables have their types; no queue holds more than its capacity (push_rq
\* and RemoteTaskQueue::push refuse a task that does not fit).
TypeOK ==
    /\ rq \in [Workers -> Seq(Fibers)] /\ remote \in [Workers -> Seq(Fibers)]
    /\ \A w \in Workers : Len(rq[w]) <= Capacity /\ Len(remote[w]) <= RemoteCapacity
    /\ nosig \in [Workers -> Nat] /\ rnosig \in [Workers -> Nat]
    /\ missed \in [Workers -> BOOLEAN]
    /\ pc \in [Threads -> {"idle", "wait", "parked", "steal", "scan", "run"}]
    /\ cur \in [Workers -> Fibers \cup {Main}]
    /\ left \in [Workers -> SUBSET (Workers \X {"rq", "remote"})]
    /\ op \in [Threads -> [kind : {"none", "ready", "suspend"}, f : Fibers \cup {None},
                           signal : {"yes", "no", "ignore"}, g : Workers \cup {None}]]
    /\ sig \in [Threads -> [num : 0..2, lots : 0..(NumLots - 1)]]
    /\ nosigGroup \in [Externals -> Workers \cup {None}]
    /\ state \in [Fibers -> {"suspended", "alive", "done"}]
    /\ blocks \in 0..MaxBlocks /\ quiet \subseteq Fibers

Positions(q, f) == {p \in UNION {{w} \X DOMAIN q[w] : w \in Workers} : q[p[1]][p[2]] = f}
\* The threads that have the fiber: whose stack it is, or that are about to make
\* it ready or to suspend it.
Holders(f) == {t \in Threads : op[t].f = f \/ (t \in Workers /\ cur[t] = f)}
Places(f) == Cardinality(Positions(rq, f)) + Cardinality(Positions(remote, f))
             + Cardinality(Holders(f))

\* A fiber that is neither blocked nor done is in exactly one place: never on two
\* workers at once, never in two queues and never forgotten; nobody has a blocked
\* one, so that it can be resumed, and no queue has one that is done.
OnePlace == \A f \in Fibers : CASE state[f] = "alive" -> Places(f) = 1
                                [] state[f] = "suspended" -> Places(f) = 0
                                [] state[f] = "done" -> Places(f) = Cardinality(Holders(f))

\* A push that has to wait for a free slot, and has nothing left to signal.
Spinning(t) ==
    /\ op[t].kind = "ready" /\ ~Signalling(t)
    /\ IF t \in Workers THEN /\ pc[t] \in {"run", "wait"}
                             /\ Len(rq[t]) = Capacity /\ nosig[t] = 0
       ELSE Len(remote[op[t].g]) = RemoteCapacity /\ rnosig[op[t].g] = 0

\* No lost wakeup: while a task that has been signalled is queued, the workers do
\* not all sleep, or sleep and wait for a slot of a full queue (all of them
\* waiting for a slot is the deadlock that push_rq's comment admits).  Not claimed
\* while a worker waits for a slot of a queue that holds a quiet task: it may have
\* been woken for another one, and has woken nobody in its place.
NoIdleWithWork ==
    /\ \A w \in Workers : \/ pc[w] = "parked" /\ Free(w)
                          \/ Spinning(w) /\ \A i \in DOMAIN rq[w] : rq[w][i] \notin quiet
    /\ \A x \in Externals : Free(x) \/ Spinning(x)
    => \/ \A w \in Workers : Spinning(w)
       \/ \A w \in Workers : /\ \A i \in DOMAIN rq[w] : rq[w][i] \in quiet
                             /\ Len(remote[w]) <= rnosig[w]
=============================================================================
