-------------------------- MODULE Scheduler_proofs --------------------------
(***************************************************************************)
(* Safety of the scheduler, for any number of workers, pthreads, fibers    *)
(* and parking lots and any capacity of the queues: a fiber is in one      *)
(* place, and a signalled task does not wait while the workers sleep.      *)
(***************************************************************************)
EXTENDS Scheduler, Integers, FiniteSets, Sequences, SequencesExt, SequenceTheorems,
        FiniteSetTheorems, TLAPS

\* The run queues are sequences in which no fiber occurs twice; what the
\* operations on such a list do to its set of members.

\* The members of a list.
LEMMA MembersOfSeq ==
  ASSUME NEW S, NEW s \in Seq(S)
  PROVE  /\ ToSet(s) = {s[i] : i \in 1..Len(s)}
         /\ ToSet(s) \subseteq S
         /\ ToSet(s) = {} <=> s = << >>
         /\ IsInjective(s) <=> \A i, j \in 1..Len(s) : s[i] = s[j] => i = j
<1>1. DOMAIN s = 1..Len(s) /\ Len(s) \in Nat /\ \A i \in 1..Len(s) : s[i] \in S
  OBVIOUS
<1>2. s # << >> => 1 \in 1..Len(s)
  BY EmptySeq
<1>3. ToSet(s) = {s[i] : i \in 1..Len(s)}
  BY <1>1 DEF ToSet
<1>4. ToSet(s) = {} <=> s = << >>
  <2>1. s = << >> => Len(s) = 0
    OBVIOUS
  <2> QED
    BY <1>1, <1>2, <1>3, <2>1
<1>5. IsInjective(s) <=> \A i, j \in 1..Len(s) : s[i] = s[j] => i = j
  BY <1>1 DEF IsInjective
<1> QED
  BY <1>1, <1>3, <1>4, <1>5

\* The empty list.
LEMMA MembersOfEmpty == ToSet(<< >>) = {} /\ IsInjective(<< >>)
BY DEF ToSet, IsInjective

\* A new member at the end of the list.
LEMMA MembersOfAppend ==
  ASSUME NEW S, NEW s \in Seq(S), NEW e \in S
  PROVE  /\ Append(s, e) \in Seq(S) /\ Append(s, e) # << >>
         /\ ToSet(Append(s, e)) = ToSet(s) \cup {e}
         /\ IsInjective(s) /\ e \notin ToSet(s) => IsInjective(Append(s, e))
<1> DEFINE t == Append(s, e)
<1>1. /\ t \in Seq(S) /\ t # << >> /\ Len(t) = Len(s) + 1 /\ Len(s) \in Nat
      /\ \A i \in 1..Len(s) : t[i] = s[i]
      /\ t[Len(s) + 1] = e
  BY AppendProperties
<1> HIDE DEF t
<1>2. ToSet(t) = ToSet(s) \cup {e}
  BY <1>1, MembersOfSeq
<1>3. ASSUME IsInjective(s), e \notin ToSet(s) PROVE IsInjective(t)
  <2>1. \A i \in 1..Len(s) : s[i] # e
    BY <1>3, MembersOfSeq
  <2>2. \A i, j \in 1..Len(s) : s[i] = s[j] => i = j
    BY <1>3, MembersOfSeq
  <2>3. \A i, j \in 1..Len(t) : t[i] = t[j] => i = j
    BY <1>1, <2>1, <2>2
  <2> QED
    BY <1>1, <2>3, MembersOfSeq
<1> QED
  BY <1>1, <1>2, <1>3 DEF t

\* The head is taken off the list.
LEMMA MembersOfTail ==
  ASSUME NEW S, NEW s \in Seq(S), s # << >>, IsInjective(s)
  PROVE  /\ Tail(s) \in Seq(S) /\ IsInjective(Tail(s))
         /\ Head(s) \in ToSet(s)
         /\ ToSet(Tail(s)) = ToSet(s) \ {Head(s)}
<1> DEFINE t == Tail(s)
<1>1. /\ t \in Seq(S) /\ Len(t) = Len(s) - 1 /\ Len(s) \in Nat \ {0}
      /\ \A i \in 1..Len(t) : t[i] = s[i + 1]
  BY HeadTailProperties, EmptySeq
<1>2. Head(s) = s[1]
  BY <1>1
<1> HIDE DEF t
<1>3. \A i, j \in 1..Len(s) : s[i] = s[j] => i = j
  BY MembersOfSeq
<1>4. IsInjective(t)
  <2>1. \A i, j \in 1..Len(t) : t[i] = t[j] => i = j
    BY <1>1, <1>3
  <2> QED
    BY <1>1, <2>1, MembersOfSeq
<1>5. ToSet(t) = {t[i] : i \in 1..Len(t)} /\ ToSet(s) = {s[i] : i \in 1..Len(s)}
  BY <1>1, MembersOfSeq
<1>6. ToSet(t) \subseteq ToSet(s) \ {Head(s)}
  BY <1>1, <1>2, <1>3, <1>5
<1>7. ASSUME NEW x \in ToSet(s) \ {Head(s)} PROVE x \in ToSet(t)
  <2>1. PICK i \in 1..Len(s) : s[i] = x
    BY <1>5
  <2>2. i - 1 \in 1..Len(t) /\ t[i - 1] = x
    BY <1>1, <1>2, <2>1
  <2> QED
    BY <1>5, <2>2
<1>8. Head(s) \in ToSet(s)
  BY <1>1, <1>2, <1>5
<1> QED
  BY <1>1, <1>4, <1>6, <1>7, <1>8 DEF t

\* The last member is taken off the list.
LEMMA MembersOfFront ==
  ASSUME NEW S, NEW s \in Seq(S), s # << >>, IsInjective(s)
  PROVE  LET t == SubSeq(s, 1, Len(s) - 1)  e == s[Len(s)] IN
         /\ t \in Seq(S) /\ IsInjective(t) /\ Len(t) = Len(s) - 1
         /\ e \in ToSet(s)
         /\ ToSet(t) = ToSet(s) \ {e}
<1> DEFINE t == SubSeq(s, 1, Len(s) - 1)
           e == s[Len(s)]
<1>1. Len(s) \in Nat \ {0} /\ \A i \in 1..Len(s) : s[i] \in S
  BY EmptySeq
<1>2. /\ t \in Seq(S) /\ Len(t) = Len(s) - 1
      /\ \A i \in 1..(Len(s) - 1) : t[i] = s[i]
  <2>1. \A i \in 1..(Len(s) - 1) : s[i] \in S
    BY <1>1
  <2>2. /\ t \in Seq(S) /\ Len(t) = IF 1 <= Len(s) - 1 THEN Len(s) - 1 - 1 + 1 ELSE 0
        /\ \A i \in 1..(Len(s) - 1 - 1 + 1) : t[i] = s[1 + i - 1]
    BY <1>1, <2>1, SubSeqProperties
  <2> HIDE DEF t
  <2>3. Len(t) = Len(s) - 1
    <3> DEFINE n == Len(s) - 1
    <3>1. n \in Nat
      BY <1>1
    <3>2. Len(t) = IF 1 <= n THEN n - 1 + 1 ELSE 0
      BY <2>2
    <3> HIDE DEF n
    <3>3. Len(t) = n
      BY <3>1, <3>2
    <3> QED
      BY <3>3 DEF n
  <2>4. \A i \in 1..(Len(s) - 1) : i \in 1..(Len(s) - 1 - 1 + 1) /\ 1 + i - 1 = i
    BY <1>1
  <2>5. \A i \in 1..(Len(s) - 1) : t[i] = s[i]
    BY <2>2, <2>4
  <2> QED
    BY <2>2, <2>3, <2>5
<1> HIDE DEF t
<1>3. \A i, j \in 1..Len(s) : s[i] = s[j] => i = j
  BY MembersOfSeq
<1>4. IsInjective(t)
  <2>1. \A i, j \in 1..Len(t) : t[i] = t[j] => i = j
    BY <1>1, <1>2, <1>3
  <2> QED
    BY <1>2, <2>1, MembersOfSeq
<1>5. ToSet(t) = {t[i] : i \in 1..Len(t)} /\ ToSet(s) = {s[i] : i \in 1..Len(s)}
  BY <1>2, MembersOfSeq
<1>6. e \in ToSet(s)
  BY <1>1, <1>5
<1>7. ToSet(t) \subseteq ToSet(s) \ {e}
  BY <1>1, <1>2, <1>3, <1>5
<1>8. ASSUME NEW x \in ToSet(s) \ {e} PROVE x \in ToSet(t)
  <2>1. PICK i \in 1..Len(s) : s[i] = x
    BY <1>5
  <2>2. i \in 1..Len(t) /\ t[i] = x
    BY <1>1, <1>2, <2>1
  <2> QED
    BY <1>5, <2>2
<1> QED
  BY <1>2, <1>4, <1>6, <1>7, <1>8 DEF t

-----------------------------------------------------------------------------

\* A thread has a fiber: Holders(f) is the set of the threads that have f.
Has(t, f) == op[t].f = f \/ (t \in Workers /\ cur[t] = f)
Queued(f, w) == f \in ToSet(rq[w]) \cup ToSet(remote[w])

\* Nothing is queued twice, nor queued and on a stack, nor on two stacks.
PlaceInv ==
    /\ \A w \in Workers : IsInjective(rq[w]) /\ IsInjective(remote[w])
    /\ \A f \in Fibers, w, v \in Workers :
          /\ f \in ToSet(rq[w]) /\ f \in ToSet(rq[v]) => w = v
          /\ f \in ToSet(remote[w]) /\ f \in ToSet(remote[v]) => w = v
          /\ ~(f \in ToSet(rq[w]) /\ f \in ToSet(remote[v]))
    /\ \A f \in Fibers, w \in Workers, t \in Threads : Queued(f, w) => ~Has(t, f)
    /\ \A f \in Fibers, t, u \in Threads : Has(t, f) /\ Has(u, f) => t = u

\* Who is alive is somewhere; who is queued, or about to be, is alive; nobody has a
\* blocked fiber.
StateInv == \A f \in Fibers :
    /\ state[f] = "alive" => \/ \E w \in Workers : Queued(f, w)
                             \/ \E t \in Threads : Has(t, f)
    /\ \A w \in Workers : Queued(f, w) => state[f] = "alive"
    /\ \A t \in Threads : /\ op[t].f = f => state[f] = "alive"
                          /\ state[f] = "suspended" => ~Has(t, f)

\* What a thread has at hand at each step.
OpInv ==
    /\ \A t \in Threads : op[t].kind = "none" <=> op[t].f = None
    /\ \A x \in Externals : /\ pc[x] = "idle" /\ op[x].kind # "suspend"
                            /\ op[x].kind = "ready" => op[x].g \in Workers
    /\ \A w \in Workers :
          /\ pc[w] # "idle"
          /\ pc[w] = "run" => cur[w] \in Fibers /\ state[cur[w]] = "alive" /\ op[w].f # cur[w]
          /\ pc[w] \in {"wait", "parked"} => cur[w] = Main
          /\ pc[w] \in {"steal", "scan"} => \/ cur[w] = Main
                                            \/ op[w].f = cur[w]
                                            \/ cur[w] \in Fibers /\ state[cur[w]] = "done"

IInv == TypeOK /\ PlaceInv /\ StateInv /\ OpInv

-----------------------------------------------------------------------------
(* Waking the workers.  Let p be a worker that sleeps, or will before it   *)
(* looks at the queue q again, and let q hold a task that was signalled.   *)
(* Then a worker that has no signalled task of its own is awake and will   *)
(* look at q, or a signal is on its way to the lot of p.                   *)

QueueNames == Workers \X {"rq", "remote"}

\* The queue holds a task that somebody was signalled for.
Loud(q) == IF q[2] = "rq" THEN nosig[q[1]] = 0 /\ ~(ToSet(rq[q[1]]) \subseteq quiet)
                          ELSE Len(remote[q[1]]) > rnosig[q[1]]

Asleep(p, q) == \/ pc[p] = "parked"
                \/ ~missed[p] /\ (pc[p] = "wait" \/ (pc[p] = "scan" /\ q \notin left[p]))

\* The worker will look at q before it sleeps, or runs and has nothing to share.
Helper(a, q) == /\ ~Loud(<<a, "rq">>)
                /\ \/ pc[a] \in {"run", "steal"}
                   \/ pc[a] = "scan" /\ (q \in left[a] \/ missed[a])
                   \/ pc[a] = "wait" /\ missed[a]

\* signal_task has yet to signal the lot of p.
Reaches(t, p) == /\ Signalling(t)
                 /\ \E i \in sig[t].lots..(NumLots - 1) : (LotOf[t] + i) % NumLots = LotOf[p]

WakeInv == \A p \in Workers, q \in QueueNames :
    Loud(q) /\ Asleep(p, q) => \/ \E a \in Workers : Helper(a, q)
                               \/ \E t \in Threads : Reaches(t, p)

\* A worker does not sleep on a task of its own.
OwnInv == \A w \in Workers :
    /\ pc[w] # "run" /\ op[w].kind = "ready" => op[w].signal = "yes"
    /\ pc[w] = "parked" => rq[w] = << >>
    /\ pc[w] = "scan" => rq[w] = << >> \/ <<w, "rq">> \in left[w]
    /\ pc[w] = "wait" => \/ rq[w] = << >>
                         \/ missed[w]
                         \/ Signalling(w) /\ sig[w].lots = 0

SleepInv == OwnInv /\ WakeInv

-----------------------------------------------------------------------------
(* The queues *)

\* r is q without f, which was in the queue of g; r is q with f at the end of that of g.
Popped(q, r, g, f) ==
    /\ r \in [Workers -> Seq(Fibers)] /\ \A w \in Workers \ {g} : r[w] = q[w]
    /\ f \in ToSet(q[g]) /\ f \in Fibers /\ ToSet(r[g]) = ToSet(q[g]) \ {f}
    /\ IsInjective(r[g]) /\ Len(r[g]) = Len(q[g]) - 1
Pushed(q, r, g, f) ==
    /\ r \in [Workers -> Seq(Fibers)] /\ \A w \in Workers \ {g} : r[w] = q[w]
    /\ ToSet(r[g]) = ToSet(q[g]) \cup {f} /\ r[g] # << >>
    /\ (IsInjective(q[g]) /\ f \notin ToSet(q[g]) => IsInjective(r[g]))
    /\ Len(r[g]) = Len(q[g]) + 1

\* WorkStealingQueue::steal, RemoteTaskQueue::pop
LEMMA PopHead ==
  ASSUME NEW q \in [Workers -> Seq(Fibers)], NEW g \in Workers, q[g] # << >>, IsInjective(q[g])
  PROVE  Popped(q, [q EXCEPT ![g] = Tail(@)], g, Head(q[g]))
<1>1. /\ Tail(q[g]) \in Seq(Fibers) /\ IsInjective(Tail(q[g])) /\ Head(q[g]) \in ToSet(q[g])
      /\ ToSet(Tail(q[g])) = ToSet(q[g]) \ {Head(q[g])}
  BY MembersOfTail
<1>2. Len(Tail(q[g])) = Len(q[g]) - 1 /\ Head(q[g]) \in Fibers
  BY HeadTailProperties
<1> DEFINE r == [q EXCEPT ![g] = Tail(@)]
<1>3. /\ r \in [Workers -> Seq(Fibers)] /\ r[g] = Tail(q[g])
      /\ \A w \in Workers \ {g} : r[w] = q[w]
  BY <1>1
<1> HIDE DEF r
<1>4. Popped(q, r, g, Head(q[g]))
  BY <1>1, <1>2, <1>3 DEF Popped
<1> QED
  BY <1>4 DEF r

\* WorkStealingQueue::pop
LEMMA PopLast ==
  ASSUME NEW q \in [Workers -> Seq(Fibers)], NEW g \in Workers, q[g] # << >>, IsInjective(q[g])
  PROVE  Popped(q, [q EXCEPT ![g] = SubSeq(@, 1, Len(@) - 1)], g, q[g][Len(q[g])])
<1> DEFINE s == SubSeq(q[g], 1, Len(q[g]) - 1)
           e == q[g][Len(q[g])]
           r == [q EXCEPT ![g] = SubSeq(@, 1, Len(@) - 1)]
<1>1. /\ s \in Seq(Fibers) /\ IsInjective(s) /\ Len(s) = Len(q[g]) - 1
      /\ e \in ToSet(q[g]) /\ ToSet(s) = ToSet(q[g]) \ {e}
  BY MembersOfFront
<1>2. e \in Fibers
  BY <1>1, MembersOfSeq
<1>3. /\ r \in [Workers -> Seq(Fibers)] /\ r[g] = s /\ \A w \in Workers \ {g} : r[w] = q[w]
  BY <1>1
<1> HIDE DEF s, e, r
<1>4. Popped(q, r, g, e)
  BY <1>1, <1>2, <1>3 DEF Popped
<1> QED
  BY <1>4 DEF r, e

\* WorkStealingQueue::push, RemoteTaskQueue::push
LEMMA Push ==
  ASSUME NEW q \in [Workers -> Seq(Fibers)], NEW g \in Workers, NEW f \in Fibers
  PROVE  Pushed(q, [q EXCEPT ![g] = Append(@, f)], g, f)
<1> DEFINE s == Append(q[g], f)
           r == [q EXCEPT ![g] = Append(@, f)]
<1>1. /\ s \in Seq(Fibers) /\ s # << >> /\ ToSet(s) = ToSet(q[g]) \cup {f}
      /\ (IsInjective(q[g]) /\ f \notin ToSet(q[g]) => IsInjective(s))
  BY MembersOfAppend
<1>2. Len(s) = Len(q[g]) + 1
  BY AppendProperties
<1>3. /\ r \in [Workers -> Seq(Fibers)] /\ r[g] = s /\ \A w \in Workers \ {g} : r[w] = q[w]
  BY <1>1
<1> HIDE DEF s, r
<1>4. Pushed(q, r, g, f)
  BY <1>1, <1>2, <1>3 DEF Pushed
<1> QED
  BY <1>4 DEF r

\* What start_from_non_worker leaves in op.
LEMMA RemoteOp ==
  ASSUME NEW f, NEW s, NEW h
  PROVE  [Ready(f, s) EXCEPT !.g = h] = [kind |-> "ready", f |-> f, signal |-> s, g |-> h]
BY DEF Ready

\* signal_task wakes at most two.
LEMMA SignalType ==
  ASSUME sig \in [Threads -> [num : 0..2, lots : 0..(NumLots - 1)]],
         NEW t \in Threads, NEW n \in Nat, Signal(t, n)
  PROVE  /\ sig' \in [Threads -> [num : 0..2, lots : 0..(NumLots - 1)]]
         /\ \A u \in Threads \ {t} : sig'[u] = sig[u]
         /\ sig'[t].lots = 0 /\ (n > 0 => sig'[t].num > 0)
<1>1. [num |-> IF n > 2 THEN 2 ELSE n, lots |-> 0] \in [num : 0..2, lots : 0..(NumLots - 1)]
  BY SizesAssumption
<1> QED
  BY <1>1 DEF Signal

\* A fiber that is taken off a queue and run is in one place still; the fiber that ran
\* stays where op has it.
LEMMA TakePlace ==
  ASSUME PlaceInv, NEW w \in Workers, NEW g \in Workers, NEW f \in Fibers,
         \/ Popped(rq, rq', g, f) /\ UNCHANGED remote
         \/ Popped(remote, remote', g, f) /\ UNCHANGED rq,
         cur \in [Workers -> Fibers \cup {Main}], cur' = [cur EXCEPT ![w] = f],
         \A t \in Threads, h \in Fibers : op'[t].f = h => Has(t, h)
  PROVE  /\ PlaceInv'
         /\ \A h \in Fibers \ {f}, v \in Workers : Queued(h, v)' <=> Queued(h, v)
         /\ \A v \in Workers : ~Queued(f, v)'
<1>1. \A v \in Workers : /\ ToSet(rq'[v]) \subseteq ToSet(rq[v]) /\ IsInjective(rq'[v])
                         /\ ToSet(remote'[v]) \subseteq ToSet(remote[v]) /\ IsInjective(remote'[v])
  BY DEF PlaceInv, Popped
<1>2. \A v \in Workers : ~Queued(f, v)'
  BY DEF PlaceInv, Popped, Queued
<1>3. \A h \in Fibers \ {f}, v \in Workers : Queued(h, v)' <=> Queued(h, v)
  BY DEF Popped, Queued
<1>4. Queued(f, g)
  BY DEF Popped, Queued
<1>5. \A t \in Threads : ~Has(t, f)
  BY <1>4 DEF PlaceInv
<1>6. \A t \in Threads, h \in Fibers \ {f} : Has(t, h)' => Has(t, h)
  BY DEF Has
<1>7. \A t \in Threads : Has(t, f)' => t = w
  BY <1>5 DEF Has
<1>8. \A h \in Fibers, t, u \in Threads : Has(t, h)' /\ Has(u, h)' => t = u
  BY <1>6, <1>7 DEF PlaceInv
<1>9. \A h \in Fibers, v \in Workers, t \in Threads : Queued(h, v)' => ~Has(t, h)'
  BY <1>2, <1>3, <1>6 DEF PlaceInv
<1>10. PlaceInv'
  BY <1>1, <1>8, <1>9 DEF PlaceInv
<1> QED
  BY <1>2, <1>3, <1>10

\* Steps that move no fiber.
LEMMA StayPlace ==
  ASSUME PlaceInv, StateInv, UNCHANGED <<rq, remote, cur, op, state>>
  PROVE  PlaceInv' /\ StateInv'
BY DEF PlaceInv, StateInv, Queued, Has

-----------------------------------------------------------------------------
(* One place *)

\* The next lot of signal_task.
LEMMA SignalRestType ==
  ASSUME TypeOK, NEW t \in Threads, Signalling(t), NEW n \in {0, 1}
  PROVE  /\ SignalRest(t, n) \in [num : 0..2, lots : 0..(NumLots - 1)]
         /\ SignalRest(t, 0).num > 0 \/ sig[t].lots + 1 = NumLots
         /\ SignalRest(t, n).num > 0 => SignalRest(t, n).lots = sig[t].lots + 1
<1>1. sig[t] \in [num : 0..2, lots : 0..(NumLots - 1)] /\ sig[t].num > 0
  BY DEF TypeOK, Signalling
<1>2. /\ sig[t].num \in 0..2 /\ sig[t].lots \in 0..(NumLots - 1) /\ NumLots \in Nat
      /\ sig[t].num - n \in 0..2
  BY <1>1, SizesAssumption
<1> QED
  BY <1>1, <1>2, SizesAssumption DEF SignalRest, NoSig

\* A queue does not grow when a fiber is taken off it.
LEMMA PoppedLen ==
  ASSUME NEW q \in [Workers -> Seq(Fibers)], NEW r, NEW g \in Workers, NEW f,
         Popped(q, r, g, f), NEW n \in Nat, \A v \in Workers : Len(q[v]) <= n
  PROVE  \A v \in Workers : Len(r[v]) <= n
<1>1. \A v \in Workers : Len(q[v]) \in Nat
  OBVIOUS
<1>2. Len(r[g]) = Len(q[g]) - 1 /\ \A v \in Workers \ {g} : r[v] = q[v]
  BY DEF Popped
<1>3. Len(r[g]) <= n
  BY <1>1, <1>2
<1> QED
  BY <1>2, <1>3

\* What sched and ending_sched do.
LEMMA SchedStep ==
  ASSUME IInv, NEW w \in Workers, Sched(w)
  PROVE  \/ \E f \in Fibers : Popped(rq, rq', w, f) /\ SwitchTo(w, f)
         \/ rq[w] = << >> /\ Goto(w, "steal") /\ UNCHANGED <<rq, cur, left, quiet>>
<1>1. CASE rq[w] # << >>
  <2>1. Popped(rq, [rq EXCEPT ![w] = SubSeq(@, 1, Len(@) - 1)], w, rq[w][Len(rq[w])])
    BY <1>1, PopLast DEF IInv, TypeOK, PlaceInv
  <2>2. rq[w][Len(rq[w])] \in Fibers
    BY <2>1 DEF Popped
  <2> QED
    BY <1>1, <2>1, <2>2 DEF Sched
<1>2. CASE rq[w] = << >>
  BY <1>2 DEF Sched
<1> QED
  BY <1>1, <1>2

\* What the switch to a fiber does to the worker.
LEMMA SwitchStep ==
  ASSUME TypeOK, NEW w \in Workers, NEW f \in Fibers, SwitchTo(w, f)
  PROVE  /\ cur' = [cur EXCEPT ![w] = f] /\ cur' \in [Workers -> Fibers \cup {Main}]
         /\ left' = [left EXCEPT ![w] = {}]
         /\ left' \in [Workers -> SUBSET (Workers \X {"rq", "remote"})]
         /\ quiet' = quiet \ {f} /\ quiet' \subseteq Fibers
         /\ pc' = [pc EXCEPT ![w] = "run"]
         /\ pc' \in [Threads -> {"idle", "wait", "parked", "steal", "scan", "run"}]
<1>1. f # Main
  BY NamesAssumption
<1> QED
  BY <1>1 DEF TypeOK, SwitchTo, Goto

\* The slots before anything runs.
LEMMA InitInv == Init => IInv
<1> SUFFICES ASSUME Init PROVE IInv
  OBVIOUS
<1> USE DEF Init
<1>1. TypeOK
  <2>1. << >> \in Seq(Fibers) /\ Len(<< >>) = 0
    OBVIOUS
  <2>2. rq \in [Workers -> Seq(Fibers)] /\ remote \in [Workers -> Seq(Fibers)]
    BY <2>1
  <2>3. \A w \in Workers : Len(rq[w]) <= Capacity /\ Len(remote[w]) <= RemoteCapacity
    BY <2>1, SizesAssumption
  <2>4. missed \in [Workers -> BOOLEAN]
    BY Zenon
  <2>5. sig \in [Threads -> [num : 0..2, lots : 0..(NumLots - 1)]]
    BY SizesAssumption DEF NoSig
  <2>6. op \in [Threads -> [kind : {"none", "ready", "suspend"}, f : Fibers \cup {None},
                           signal : {"yes", "no", "ignore"}, g : Workers \cup {None}]]
    BY DEF NoOp
  <2> QED
    BY <2>2, <2>3, <2>4, <2>5, <2>6, SizesAssumption DEF TypeOK
<1>2. \A f \in Fibers : /\ \A t \in Threads : ~Has(t, f)
                        /\ \A w \in Workers : ~Queued(f, w)
  BY NamesAssumption, MembersOfEmpty DEF Has, Queued, NoOp, Threads
<1>3. PlaceInv /\ StateInv
  BY <1>2, MembersOfEmpty DEF PlaceInv, StateInv, Queued, Has
<1>4. OpInv
  BY NamesAssumption DEF OpInv, NoOp, Threads
<1> QED
  BY <1>1, <1>3, <1>4 DEF IInv

\* A worker that has nothing to run takes a fiber off a queue.
LEMMA TakeInv ==
  ASSUME IInv, NEW w \in Workers, NEW g \in Workers, NEW f \in Fibers,
         \/ Popped(rq, rq', g, f) /\ UNCHANGED remote
         \/ Popped(remote, remote', g, f) /\ UNCHANGED rq,
         SwitchTo(w, f), pc[w] \in {"steal", "scan"}, missed' \in [Workers -> BOOLEAN],
         UNCHANGED <<nosig, rnosig, op, sig, nosigGroup, state, blocks>>
  PROVE  IInv'
<1> USE DEF IInv
<1>0. Workers \subseteq Threads /\ Externals \subseteq Threads /\ Workers \cap Externals = {}
  BY NamesAssumption DEF Threads
<1>1. /\ cur' = [cur EXCEPT ![w] = f] /\ cur' \in [Workers -> Fibers \cup {Main}]
      /\ left' \in [Workers -> SUBSET (Workers \X {"rq", "remote"})] /\ quiet' \subseteq Fibers
      /\ pc' = [pc EXCEPT ![w] = "run"]
      /\ pc' \in [Threads -> {"idle", "wait", "parked", "steal", "scan", "run"}]
  BY SwitchStep
<1>2. TypeOK'
  <2>1. rq' \in [Workers -> Seq(Fibers)] /\ remote' \in [Workers -> Seq(Fibers)]
    BY DEF Popped, TypeOK
  <2>2. \A v \in Workers : Len(rq'[v]) <= Capacity /\ Len(remote'[v]) <= RemoteCapacity
    <3>1. CASE Popped(rq, rq', g, f) /\ UNCHANGED remote
      BY <3>1, PoppedLen, SizesAssumption DEF TypeOK
    <3>2. CASE Popped(remote, remote', g, f) /\ UNCHANGED rq
      BY <3>2, PoppedLen, SizesAssumption DEF TypeOK
    <3> QED
      BY <3>1, <3>2
  <2> QED
    BY <1>1, <2>1, <2>2 DEF TypeOK
<1>3. /\ PlaceInv'
      /\ \A h \in Fibers \ {f}, v \in Workers : Queued(h, v)' <=> Queued(h, v)
      /\ \A v \in Workers : ~Queued(f, v)'
  BY <1>1, TakePlace DEF TypeOK, Has
<1>4. Queued(f, g) /\ state[f] = "alive" /\ \A t \in Threads : ~Has(t, f)
  BY DEF Popped, Queued, PlaceInv, StateInv
<1>5. Has(w, f)' /\ w \in Threads
  BY <1>0, <1>1 DEF Has, TypeOK
<1>6. \A t \in Threads, h \in Fibers : Has(t, h)' => Has(t, h) \/ h = f
  BY <1>1 DEF Has, TypeOK
<1>7. \A t \in Threads, h \in Fibers : Has(t, h) /\ state[h] = "alive" => Has(t, h)'
  <2>1. \A h \in Fibers : cur[w] = h /\ state[h] = "alive" => op[w].f = h
    BY <1>0, NamesAssumption DEF OpInv
  <2>2. \A t \in Workers \ {w} : cur'[t] = cur[t]
    BY <1>1 DEF TypeOK
  <2> QED
    BY <2>1, <2>2 DEF Has
<1>8. StateInv'
  BY <1>3, <1>4, <1>5, <1>6, <1>7 DEF StateInv
<1>9. OpInv'
  BY <1>0, <1>1, <1>4 DEF OpInv, TypeOK, Has
<1> QED
  BY <1>2, <1>3, <1>8, <1>9

\* A worker that has found nothing goes to its main task.
LEMMA MainInv ==
  ASSUME IInv, NEW w \in Workers, SwitchTo(w, Main), pc[w] = "scan",
         UNCHANGED <<rq, remote, nosig, rnosig, missed, op, sig, nosigGroup, state, blocks>>
  PROVE  IInv'
<1> USE DEF IInv
<1>0. Workers \subseteq Threads /\ Externals \subseteq Threads /\ Workers \cap Externals = {}
  BY NamesAssumption DEF Threads
<1>1. /\ cur' = [cur EXCEPT ![w] = Main] /\ pc' = [pc EXCEPT ![w] = "wait"]
      /\ left' = [left EXCEPT ![w] = {}] /\ quiet' = quiet \ {Main}
  BY DEF SwitchTo, Goto
<1>2. TypeOK'
  BY <1>1 DEF TypeOK
<1>3. \A h \in Fibers, v \in Workers : Queued(h, v)' <=> Queued(h, v)
  BY DEF Queued
<1>4. \A t \in Threads, h \in Fibers : Has(t, h)' => Has(t, h)
  BY <1>1, NamesAssumption DEF Has, TypeOK
<1>5. \A t \in Threads, h \in Fibers : Has(t, h) /\ state[h] = "alive" => Has(t, h)'
  BY <1>0, <1>1, NamesAssumption DEF Has, TypeOK, OpInv
<1>6. PlaceInv'
  BY <1>3, <1>4 DEF PlaceInv
<1>7. StateInv'
  BY <1>3, <1>4, <1>5 DEF StateInv
<1>8. OpInv'
  BY <1>0, <1>1 DEF OpInv, TypeOK
<1> QED
  BY <1>2, <1>6, <1>7, <1>8

\* A running fiber leaves its worker: it yields or blocks, and op has it.
LEMMA BlockInv ==
  ASSUME IInv, NEW w \in Workers,
         NEW r \in [kind : {"ready", "suspend"}, f : {cur[w]}, signal : {"yes"}, g : {None}],
         Block(w, r)
  PROVE  IInv'
<1> USE DEF IInv
<1>0. Workers \subseteq Threads /\ Externals \subseteq Threads /\ Workers \cap Externals = {}
  BY NamesAssumption DEF Threads
<1> DEFINE c == cur[w]
<1>1. /\ pc[w] = "run" /\ op[w].kind = "none" /\ op[w].f = None
      /\ c \in Fibers /\ state[c] = "alive" /\ r.f = c /\ r.kind # "none"
      /\ op' = [op EXCEPT ![w] = r] /\ Sched(w)
      /\ UNCHANGED <<remote, nosig, rnosig, missed, sig, nosigGroup, state>>
      /\ blocks' = blocks + 1 /\ blocks < MaxBlocks
  BY <1>0 DEF Block, Running, Free, OpInv
<1>2. op' \in [Threads -> [kind : {"none", "ready", "suspend"}, f : Fibers \cup {None},
                           signal : {"yes", "no", "ignore"}, g : Workers \cup {None}]]
  <2>1. r \in [kind : {"none", "ready", "suspend"}, f : Fibers \cup {None},
               signal : {"yes", "no", "ignore"}, g : Workers \cup {None}]
    BY <1>1
  <2> QED
    BY <1>1, <2>1 DEF TypeOK
<1>3. blocks' \in 0..MaxBlocks
  BY <1>1, SizesAssumption DEF TypeOK
<1>4. \A t \in Threads, h \in Fibers : op'[t].f = h => Has(t, h)
  BY <1>0, <1>1 DEF Has, TypeOK
<1>5. op'[w] = r /\ \A t \in Threads \ {w} : op'[t] = op[t]
  BY <1>1, <1>0 DEF TypeOK
<1>6. ASSUME NEW f \in Fibers, Popped(rq, rq', w, f), SwitchTo(w, f) PROVE IInv'
  <2>1. /\ cur' = [cur EXCEPT ![w] = f] /\ cur' \in [Workers -> Fibers \cup {Main}]
        /\ left' \in [Workers -> SUBSET (Workers \X {"rq", "remote"})] /\ quiet' \subseteq Fibers
        /\ pc' = [pc EXCEPT ![w] = "run"]
        /\ pc' \in [Threads -> {"idle", "wait", "parked", "steal", "scan", "run"}]
    BY <1>6, SwitchStep
  <2>2. TypeOK'
    <3>1. rq' \in [Workers -> Seq(Fibers)]
      BY <1>6 DEF Popped
    <3>3. \A v \in Workers : Len(rq'[v]) <= Capacity
      BY <1>6, PoppedLen, SizesAssumption DEF TypeOK
    <3> QED
      BY <1>1, <1>2, <1>3, <2>1, <3>1, <3>3 DEF TypeOK
  <2>3. /\ PlaceInv'
        /\ \A h \in Fibers \ {f}, v \in Workers : Queued(h, v)' <=> Queued(h, v)
        /\ \A v \in Workers : ~Queued(f, v)'
    BY <1>1, <1>4, <1>6, <2>1, TakePlace DEF TypeOK
  <2>4. Queued(f, w) /\ state[f] = "alive" /\ \A t \in Threads : ~Has(t, f)
    BY <1>6 DEF Popped, Queued, PlaceInv, StateInv
  <2>5. Has(w, f)' /\ w \in Threads /\ f # c
    BY <1>0, <2>1, <2>4 DEF Has, TypeOK
  <2>6. \A t \in Threads, h \in Fibers : Has(t, h)' => Has(t, h) \/ h = f
    <3>1. \A t \in Workers : cur'[t] = cur[t] \/ cur'[t] = f
      BY <2>1 DEF TypeOK
    <3> QED
      BY <1>4, <3>1 DEF Has
  <2>7. \A t \in Threads, h \in Fibers : Has(t, h) => Has(t, h)'
    BY <1>0, <1>1, <1>5, <2>1, NamesAssumption DEF Has, TypeOK
  <2>8. StateInv'
    BY <1>1, <1>4, <1>5, <2>3, <2>4, <2>5, <2>6, <2>7 DEF StateInv
  <2>9. OpInv'
    BY <1>0, <1>1, <1>5, <2>1, <2>4, <2>5, NamesAssumption DEF OpInv, TypeOK
  <2> QED
    BY <2>2, <2>3, <2>8, <2>9
<1>7. ASSUME Goto(w, "steal"), UNCHANGED <<rq, cur, left, quiet>> PROVE IInv'
  <2>1. TypeOK'
    BY <1>1, <1>2, <1>3, <1>7 DEF TypeOK, Goto
  <2>2. \A h \in Fibers, v \in Workers : Queued(h, v)' <=> Queued(h, v)
    BY <1>1, <1>7 DEF Queued
  <2>3. \A t \in Threads, h \in Fibers : Has(t, h)' <=> Has(t, h)
    BY <1>0, <1>1, <1>5, <1>7, NamesAssumption DEF Has
  <2>4. PlaceInv'
    BY <1>1, <1>7, <2>2, <2>3 DEF PlaceInv
  <2>5. StateInv'
    BY <1>1, <1>5, <2>2, <2>3 DEF StateInv
  <2>6. OpInv'
    BY <1>0, <1>1, <1>5, <1>7, NamesAssumption DEF OpInv, TypeOK, Goto
  <2> QED
    BY <2>1, <2>4, <2>5, <2>6
<1> QED
  BY <1>1, <1>6, <1>7, SchedStep

\* ready_to_run puts the fiber that op has on a queue.
LEMMA PushInv ==
  ASSUME IInv, NEW t \in Threads, NEW g \in Workers, NEW f, f = op[t].f, op[t].kind = "ready",
         t \in Workers => pc[t] \in {"run", "wait"},
         \/ Pushed(rq, rq', g, f) /\ UNCHANGED remote
         \/ Pushed(remote, remote', g, f) /\ UNCHANGED rq,
         op' = [op EXCEPT ![t] = NoOp], UNCHANGED <<cur, pc, state>>
  PROVE  /\ PlaceInv' /\ StateInv' /\ OpInv'
         /\ op' \in [Threads -> [kind : {"none", "ready", "suspend"}, f : Fibers \cup {None},
                                 signal : {"yes", "no", "ignore"}, g : Workers \cup {None}]]
<1> USE DEF IInv
<1>0. Workers \subseteq Threads /\ Externals \subseteq Threads /\ Workers \cap Externals = {}
  BY NamesAssumption DEF Threads
<1>1. /\ f \in Fibers /\ Has(t, f) /\ state[f] = "alive"
      /\ t \in Workers => cur[t] # f
  BY <1>0, NamesAssumption DEF OpInv, TypeOK, Has, StateInv
<1>2. \A v \in Workers : ~Queued(f, v)
  BY <1>1 DEF PlaceInv
<1>3. op' \in [Threads -> [kind : {"none", "ready", "suspend"}, f : Fibers \cup {None},
                           signal : {"yes", "no", "ignore"}, g : Workers \cup {None}]]
  BY DEF TypeOK, NoOp
<1>4. op'[t] = NoOp /\ \A u \in Threads \ {t} : op'[u] = op[u]
  BY DEF TypeOK
<1>5. NoOp.f = None /\ NoOp.kind = "none" /\ None \notin Fibers
  BY NamesAssumption DEF NoOp
<1>6. \A u \in Threads : ~Has(u, f)'
  <2>1. ~Has(t, f)'
    BY <1>1, <1>4, <1>5 DEF Has
  <2>2. \A u \in Threads \ {t} : ~Has(u, f)
    BY <1>1 DEF PlaceInv
  <2> QED
    BY <1>4, <2>1, <2>2 DEF Has
<1>7. \A u \in Threads, h \in Fibers \ {f} : Has(u, h)' <=> Has(u, h)
  BY <1>4, <1>5 DEF Has
<1>8. \A h \in Fibers \ {f}, v \in Workers : Queued(h, v)' <=> Queued(h, v)
  BY DEF Queued, Pushed
<1>9. Queued(f, g)'
  BY DEF Queued, Pushed
<1>10. PlaceInv'
  <2>1. \A v \in Workers : IsInjective(rq'[v]) /\ IsInjective(remote'[v])
    BY <1>2 DEF PlaceInv, Pushed, Queued
  <2>2. \A h \in Fibers, v, u \in Workers :
          /\ h \in ToSet(rq'[v]) /\ h \in ToSet(rq'[u]) => v = u
          /\ h \in ToSet(remote'[v]) /\ h \in ToSet(remote'[u]) => v = u
          /\ ~(h \in ToSet(rq'[v]) /\ h \in ToSet(remote'[u]))
    <3>1. \A v \in Workers : f \notin ToSet(rq[v]) /\ f \notin ToSet(remote[v])
      BY <1>2 DEF Queued
    <3>2. CASE Pushed(rq, rq', g, f) /\ UNCHANGED remote
      <4>1. \A v \in Workers, h \in Fibers :
              h \in ToSet(rq'[v]) <=> h \in ToSet(rq[v]) \/ (v = g /\ h = f)
        BY <3>2 DEF Pushed
      <4> QED
        BY <3>1, <3>2, <4>1 DEF PlaceInv
    <3>3. CASE Pushed(remote, remote', g, f) /\ UNCHANGED rq
      <4>1. \A v \in Workers, h \in Fibers :
              h \in ToSet(remote'[v]) <=> h \in ToSet(remote[v]) \/ (v = g /\ h = f)
        BY <3>3 DEF Pushed
      <4> QED
        BY <3>1, <3>3, <4>1 DEF PlaceInv
    <3> QED
      BY <3>2, <3>3
  <2>3. \A h \in Fibers, v \in Workers, u \in Threads : Queued(h, v)' => ~Has(u, h)'
    BY <1>6, <1>7, <1>8 DEF PlaceInv
  <2>4. \A h \in Fibers, u, v \in Threads : Has(u, h)' /\ Has(v, h)' => u = v
    BY <1>6, <1>7 DEF PlaceInv
  <2> QED
    BY <2>1, <2>2, <2>3, <2>4 DEF PlaceInv
<1>11. StateInv'
  BY <1>1, <1>4, <1>5, <1>6, <1>7, <1>8, <1>9 DEF StateInv
<1>12. OpInv'
  BY <1>0, <1>4, <1>5, NamesAssumption DEF OpInv
<1> QED
  BY <1>3, <1>10, <1>11, <1>12

\* Somebody starts a fiber, or is about to resume a blocked one.
LEMMA GiveInv ==
  ASSUME IInv, NEW t \in Threads, NEW f \in Fibers, state[f] = "suspended", op[t].kind = "none",
         NEW s \in {"yes", "no", "ignore"}, NEW h \in Workers \cup {None},
         t \in Externals => h \in Workers,
         op' = [op EXCEPT ![t] = [kind |-> "ready", f |-> f, signal |-> s, g |-> h]],
         state' = [state EXCEPT ![f] = "alive"], UNCHANGED <<rq, remote, cur, pc>>
  PROVE  /\ PlaceInv' /\ StateInv' /\ OpInv'
         /\ op' \in [Threads -> [kind : {"none", "ready", "suspend"}, f : Fibers \cup {None},
                                 signal : {"yes", "no", "ignore"}, g : Workers \cup {None}]]
         /\ state' \in [Fibers -> {"suspended", "alive", "done"}]
<1> USE DEF IInv
<1>0. Workers \subseteq Threads /\ Externals \subseteq Threads /\ Workers \cap Externals = {}
  BY NamesAssumption DEF Threads
<1>1. /\ op' \in [Threads -> [kind : {"none", "ready", "suspend"}, f : Fibers \cup {None},
                           signal : {"yes", "no", "ignore"}, g : Workers \cup {None}]]
      /\ state' \in [Fibers -> {"suspended", "alive", "done"}]
  BY DEF TypeOK
<1>2. /\ op'[t].f = f /\ op'[t].kind = "ready" /\ op'[t].g = h
      /\ \A u \in Threads \ {t} : op'[u] = op[u]
  BY DEF TypeOK
<1>3. state'[f] = "alive" /\ \A k \in Fibers \ {f} : state'[k] = state[k]
  BY DEF TypeOK
<1>4. /\ op[t].f = None /\ None \notin Fibers
      /\ \A u \in Threads : ~Has(u, f)
      /\ \A v \in Workers : ~Queued(f, v)
  BY NamesAssumption DEF OpInv, StateInv
<1>5. /\ Has(t, f)' /\ \A u \in Threads \ {t} : ~Has(u, f)'
      /\ \A u \in Threads, k \in Fibers \ {f} : Has(u, k)' <=> Has(u, k)
  BY <1>2, <1>4 DEF Has
<1>6. \A k \in Fibers, v \in Workers : Queued(k, v)' <=> Queued(k, v)
  BY DEF Queued
<1>7. PlaceInv'
  BY <1>4, <1>5, <1>6 DEF PlaceInv
<1>8. StateInv'
  BY <1>2, <1>3, <1>4, <1>5, <1>6 DEF StateInv
<1>9. \A v \in Workers : cur[v] # f
  BY <1>0, <1>4 DEF Has
<1>10. OpInv'
  <2>1. \A u \in Threads : op'[u].kind = "none" <=> op'[u].f = None
    BY <1>2, <1>4 DEF OpInv
  <2>2. \A x \in Externals : /\ pc'[x] = "idle" /\ op'[x].kind # "suspend"
                             /\ op'[x].kind = "ready" => op'[x].g \in Workers
    BY <1>0, <1>2 DEF OpInv
  <2>3. ASSUME NEW w \in Workers
        PROVE  /\ pc'[w] # "idle"
               /\ pc'[w] = "run" => /\ cur'[w] \in Fibers /\ state'[cur'[w]] = "alive"
                                    /\ op'[w].f # cur'[w]
               /\ pc'[w] \in {"wait", "parked"} => cur'[w] = Main
               /\ pc'[w] \in {"steal", "scan"} => \/ cur'[w] = Main
                                                  \/ op'[w].f = cur'[w]
                                                  \/ cur'[w] \in Fibers /\ state'[cur'[w]] = "done"
    <3>1. cur[w] = Main \/ cur[w] \in Fibers \ {f}
      BY <1>9 DEF TypeOK
    <3>2. cur[w] \in Fibers => state'[cur[w]] = state[cur[w]]
      BY <1>3, <3>1, <1>9
    <3>3. w = t => op[w].f # cur[w] \/ cur[w] = Main
      BY <1>4, <3>1
    <3> QED
      BY <1>0, <1>2, <1>4, <1>9, <3>1, <3>2, <3>3 DEF OpInv
  <2> QED
    BY <2>1, <2>2, <2>3 DEF OpInv
<1> QED
  BY <1>1, <1>7, <1>8, <1>10

\* Every step preserves the invariant.
LEMMA NextInv == IInv /\ [Next]_vars => IInv'
<1> SUFFICES ASSUME IInv, [Next]_vars PROVE IInv'
  OBVIOUS
<1> USE DEF IInv, queueVars, fiberVars
<1>w. /\ Workers \subseteq Threads /\ Externals \subseteq Threads /\ Workers \cap Externals = {}
      /\ \A t \in Threads : t \in Workers \/ t \in Externals
  BY NamesAssumption DEF Threads
<1>1. ASSUME NEW t \in Threads, SignalLot(t) PROVE IInv'
  <2>0. /\ UNCHANGED <<queueVars, cur, left, op, nosigGroup, fiberVars, quiet>>
        /\ \/ UNCHANGED pc
           \/ \E w \in Workers : pc[w] = "parked" /\ pc' = [pc EXCEPT ![w] = "steal"]
    BY <1>1 DEF SignalLot, Parked, Goto
  <2>1. TypeOK'
    <3>1. missed' \in [Workers -> BOOLEAN]
      <4>1. missed' = [w \in Workers |-> missed[w] \/ LotOf[w] = SignalledLot(t)]
        BY <1>1 DEF SignalLot
      <4> QED
        BY <4>1, Zenon
    <3>2. sig' \in [Threads -> [num : 0..2, lots : 0..(NumLots - 1)]]
      <4>1. \E n \in {0, 1} : sig' = [sig EXCEPT ![t] = SignalRest(t, n)]
        BY <1>1 DEF SignalLot
      <4>2. \A n \in {0, 1} : SignalRest(t, n) \in [num : 0..2, lots : 0..(NumLots - 1)]
        BY <1>1, SignalRestType DEF SignalLot
      <4> QED
        BY <4>1, <4>2 DEF TypeOK
    <3>3. pc' \in [Threads -> {"idle", "wait", "parked", "steal", "scan", "run"}]
      BY <2>0 DEF TypeOK
    <3> QED
      BY <2>0, <3>1, <3>2, <3>3 DEF TypeOK
  <2>2. PlaceInv'
    BY <2>0, StayPlace
  <2>3. StateInv'
    BY <2>0, StayPlace
  <2>4. OpInv'
    BY <1>w, <2>0 DEF OpInv, TypeOK
  <2> QED
    BY <2>1, <2>2, <2>3, <2>4
<1>2. ASSUME NEW w \in Workers, Park(w) PROVE IInv'
  <2>1. TypeOK'
    BY <1>2, <1>w DEF Park, Goto, TypeOK
  <2>2. PlaceInv'
    BY <1>2, StayPlace DEF Park
  <2>3. StateInv'
    BY <1>2, StayPlace DEF Park
  <2>4. OpInv'
    BY <1>2, <1>w DEF Park, Goto, OpInv, TypeOK
  <2> QED
    BY <2>1, <2>2, <2>3, <2>4
<1>3. ASSUME NEW w \in Workers, Steal(w) PROVE IInv'
  <2>1. CASE remote[w] # << >>
    <3>1. Popped(remote, [remote EXCEPT ![w] = Tail(@)], w, Head(remote[w]))
      BY <2>1, PopHead DEF TypeOK, PlaceInv
    <3>2. Head(remote[w]) \in Fibers
      BY <3>1 DEF Popped
    <3>3. missed' \in [Workers -> BOOLEAN]
      BY <1>3, <2>1 DEF Steal, TypeOK
    <3> QED
      BY <1>3, <2>1, <3>1, <3>2, <3>3, TakeInv DEF Steal
  <2>2. CASE remote[w] = << >>
    <3>1. /\ UNCHANGED <<rq, remote, nosig, rnosig, cur, op, sig, nosigGroup, state, blocks, quiet>>
          /\ missed' = [missed EXCEPT ![w] = FALSE] /\ pc' = [pc EXCEPT ![w] = "scan"]
          /\ left' = [left EXCEPT ![w] = Workers \X {"rq", "remote"}] /\ pc[w] = "steal"
      BY <1>3, <2>2 DEF Steal, Goto
    <3>2. PlaceInv' /\ StateInv'
      BY <3>1, StayPlace
    <3>3. missed' \in [Workers -> BOOLEAN]
      <4>1. missed \in [Workers -> BOOLEAN] /\ missed' = [missed EXCEPT ![w] = FALSE]
        BY <3>1 DEF TypeOK
      <4> QED
        BY <4>1
    <3>4. TypeOK'
      BY <3>1, <3>3 DEF TypeOK
    <3>5. OpInv'
      BY <1>w, <3>1 DEF OpInv, TypeOK
    <3> QED
      BY <3>2, <3>4, <3>5
  <2> QED
    BY <2>1, <2>2
<1>4. ASSUME NEW w \in Workers, NEW g \in Workers, ScanRq(w, g) PROVE IInv'
  <2>1. CASE rq[g] # << >>
    <3>1. Popped(rq, [rq EXCEPT ![g] = Tail(@)], g, Head(rq[g]))
      BY <2>1, PopHead DEF TypeOK, PlaceInv
    <3>2. Head(rq[g]) \in Fibers
      BY <3>1 DEF Popped
    <3>3. missed' \in [Workers -> BOOLEAN]
      BY <1>4 DEF ScanRq, TypeOK
    <3> QED
      BY <1>4, <2>1, <3>1, <3>2, <3>3, TakeInv DEF ScanRq
  <2>2. CASE rq[g] = << >> /\ left[w] = {<<g, "rq">>}
    BY <1>4, <2>2, MainInv DEF ScanRq, NotFound
  <2>3. CASE rq[g] = << >> /\ left[w] # {<<g, "rq">>}
    <3>1. /\ UNCHANGED <<rq, remote, nosig, rnosig, missed, pc, cur, op, sig, nosigGroup, state,
                         blocks, quiet>>
          /\ left' = [left EXCEPT ![w] = @ \ {<<g, "rq">>}]
      BY <1>4, <2>3 DEF ScanRq, NotFound
    <3>2. PlaceInv' /\ StateInv'
      BY <3>1, StayPlace
    <3>3. left' \in [Workers -> SUBSET (Workers \X {"rq", "remote"})]
      <4>1. left[w] \ {<<g, "rq">>} \in SUBSET (Workers \X {"rq", "remote"})
        BY DEF TypeOK
      <4> QED
        BY <3>1, <4>1 DEF TypeOK
    <3>4. TypeOK'
      BY <3>1, <3>3 DEF TypeOK
    <3>5. OpInv'
      BY <3>1 DEF OpInv
    <3> QED
      BY <3>2, <3>4, <3>5
  <2> QED
    BY <2>1, <2>2, <2>3
<1>5. ASSUME NEW w \in Workers, NEW g \in Workers, ScanRemote(w, g) PROVE IInv'
  <2>1. CASE remote[g] # << >>
    <3>1. Popped(remote, [remote EXCEPT ![g] = Tail(@)], g, Head(remote[g]))
      BY <2>1, PopHead DEF TypeOK, PlaceInv
    <3>2. Head(remote[g]) \in Fibers
      BY <3>1 DEF Popped
    <3>3. missed' \in [Workers -> BOOLEAN]
      BY <1>5 DEF ScanRemote, TypeOK
    <3> QED
      BY <1>5, <2>1, <3>1, <3>2, <3>3, TakeInv DEF ScanRemote
  <2>2. CASE remote[g] = << >> /\ left[w] = {<<g, "remote">>}
    BY <1>5, <2>2, MainInv DEF ScanRemote, NotFound
  <2>3. CASE remote[g] = << >> /\ left[w] # {<<g, "remote">>}
    <3>1. /\ UNCHANGED <<rq, remote, nosig, rnosig, missed, pc, cur, op, sig, nosigGroup, state,
                         blocks, quiet>>
          /\ left' = [left EXCEPT ![w] = @ \ {<<g, "remote">>}]
      BY <1>5, <2>3 DEF ScanRemote, NotFound
    <3>2. PlaceInv' /\ StateInv'
      BY <3>1, StayPlace
    <3>3. left' \in [Workers -> SUBSET (Workers \X {"rq", "remote"})]
      <4>1. left[w] \ {<<g, "remote">>} \in SUBSET (Workers \X {"rq", "remote"})
        BY DEF TypeOK
      <4> QED
        BY <3>1, <4>1 DEF TypeOK
    <3>4. TypeOK'
      BY <3>1, <3>3 DEF TypeOK
    <3>5. OpInv'
      BY <3>1 DEF OpInv
    <3> QED
      BY <3>2, <3>4, <3>5
  <2> QED
    BY <2>1, <2>2, <2>3
<1>6. ASSUME NEW w \in Workers, PushLocal(w) PROVE IInv'
  <2>0. /\ Pushed(rq, rq', w, op[w].f) /\ op' = [op EXCEPT ![w] = NoOp] /\ op[w].f \in Fibers
        /\ UNCHANGED <<remote, rnosig, missed, pc, cur, left, nosigGroup, state, blocks>>
        /\ op[w].kind = "ready" /\ pc[w] \in {"run", "wait"} /\ w \in Threads
    <3>1. op[w].f \in Fibers /\ w \in Threads
      BY <1>6, <1>w DEF PushLocal, OpInv, TypeOK
    <3>2. Pushed(rq, [rq EXCEPT ![w] = Append(@, op[w].f)], w, op[w].f)
      BY <3>1, Push DEF TypeOK
    <3> QED
      BY <1>6, <3>1, <3>2 DEF PushLocal
  <2>5. /\ PlaceInv' /\ StateInv' /\ OpInv'
        /\ op' \in [Threads -> [kind : {"none", "ready", "suspend"}, f : Fibers \cup {None},
                                signal : {"yes", "no", "ignore"}, g : Workers \cup {None}]]
    BY <2>0, PushInv
  <2>1. TypeOK'
    <3>1. \A v \in Workers : Len(rq'[v]) <= Capacity
      <4>1. Len(rq[w]) \in Nat /\ Len(rq[w]) < Capacity
        BY <1>6 DEF PushLocal, TypeOK
      <4>2. Len(rq'[w]) = Len(rq[w]) + 1 /\ \A v \in Workers \ {w} : rq'[v] = rq[v]
        BY <2>0 DEF Pushed
      <4>3. Len(rq'[w]) <= Capacity
        BY <4>1, <4>2, SizesAssumption
      <4> QED
        BY <4>2, <4>3 DEF TypeOK
    <3>2. nosig' \in [Workers -> Nat] /\ nosig[w] \in Nat
      <4>1. op[w].signal \in {"yes", "no", "ignore"} /\ nosig \in [Workers -> Nat]
        BY <2>0 DEF TypeOK
      <4> QED
        BY <1>6, <4>1 DEF PushLocal
    <3>3. sig' \in [Threads -> [num : 0..2, lots : 0..(NumLots - 1)]]
      <4>1. CASE UNCHANGED sig
        BY <4>1 DEF TypeOK
      <4>2. CASE Signal(w, 1 + nosig[w])
        BY <2>0, <3>2, <4>2, SignalType DEF TypeOK
      <4> QED
        BY <1>6, <4>1, <4>2 DEF PushLocal
    <3>4. quiet' \subseteq Fibers
      BY <1>6, <2>0 DEF PushLocal, TypeOK
    <3>5. rq' \in [Workers -> Seq(Fibers)]
      BY <2>0 DEF Pushed
    <3> QED
      BY <2>0, <2>5, <3>1, <3>2, <3>3, <3>4, <3>5 DEF TypeOK
  <2>2. PlaceInv'
    BY <2>5
  <2>3. StateInv'
    BY <2>5
  <2>4. OpInv'
    BY <2>5
  <2> QED
    BY <2>1, <2>2, <2>3, <2>4
<1>7. ASSUME NEW w \in Workers, PushFull(w) PROVE IInv'
  <2>1. TypeOK'
    <3>1. nosig[w] \in Nat /\ w \in Threads /\ w \in Workers
      BY <1>7, <1>w DEF PushFull, OpInv, TypeOK
    <3>2. sig' \in [Threads -> [num : 0..2, lots : 0..(NumLots - 1)]]
      <4>1. CASE Signal(w, nosig[w])
        BY <3>1, <4>1, SignalType DEF TypeOK
      <4>2. CASE UNCHANGED sig
        BY <4>2 DEF TypeOK
      <4> QED
        BY <1>7, <4>1, <4>2 DEF PushFull
    <3> QED
      BY <1>7, <3>1, <3>2 DEF PushFull, TypeOK
  <2>2. PlaceInv'
    BY <1>7, StayPlace DEF PushFull
  <2>3. StateInv'
    BY <1>7, StayPlace DEF PushFull
  <2>4. OpInv'
    BY <1>7, <1>w DEF PushFull, OpInv, TypeOK
  <2> QED
    BY <2>1, <2>2, <2>3, <2>4
<1>8. ASSUME NEW t \in Externals, PushRemote(t) PROVE IInv'
  <2> DEFINE g == op[t].g
  <2>0. /\ Pushed(remote, remote', g, op[t].f) /\ op' = [op EXCEPT ![t] = NoOp]
        /\ op[t].f \in Fibers /\ g \in Workers
        /\ UNCHANGED <<rq, nosig, missed, pc, cur, left, nosigGroup, state, blocks, quiet>>
        /\ op[t].kind = "ready" /\ t \in Threads /\ t \notin Workers
    <3>1. op[t].f \in Fibers /\ t \in Threads /\ g \in Workers
      BY <1>8, <1>w DEF PushRemote, OpInv, TypeOK
    <3>2. Pushed(remote, [remote EXCEPT ![g] = Append(@, op[t].f)], g, op[t].f)
      BY <3>1, Push DEF TypeOK
    <3> QED
      BY <1>8, <3>1, <3>2 DEF PushRemote
  <2>5. /\ PlaceInv' /\ StateInv' /\ OpInv'
        /\ op' \in [Threads -> [kind : {"none", "ready", "suspend"}, f : Fibers \cup {None},
                                signal : {"yes", "no", "ignore"}, g : Workers \cup {None}]]
    BY <2>0, PushInv
  <2>1. TypeOK'
    <3>1. \A v \in Workers : Len(remote'[v]) <= RemoteCapacity
      <4>1. Len(remote[g]) \in Nat /\ Len(remote[g]) < RemoteCapacity
        BY <1>8, <2>0 DEF PushRemote, TypeOK
      <4>2. Len(remote'[g]) = Len(remote[g]) + 1 /\ \A v \in Workers \ {g} : remote'[v] = remote[v]
        BY <2>0 DEF Pushed
      <4>3. Len(remote'[g]) <= RemoteCapacity
        BY <4>1, <4>2, SizesAssumption
      <4> QED
        BY <4>2, <4>3 DEF TypeOK
    <3>2. rnosig' \in [Workers -> Nat] /\ rnosig[g] \in Nat
      <4>1. rnosig \in [Workers -> Nat]
        BY <2>0 DEF TypeOK
      <4> QED
        BY <1>8, <2>0, <4>1 DEF PushRemote
    <3>3. sig' \in [Threads -> [num : 0..2, lots : 0..(NumLots - 1)]]
      <4>1. CASE UNCHANGED sig
        BY <4>1 DEF TypeOK
      <4>2. CASE Signal(t, 1 + rnosig[g])
        BY <2>0, <3>2, <4>2, SignalType DEF TypeOK
      <4> QED
        BY <1>8, <4>1, <4>2 DEF PushRemote
    <3>5. remote' \in [Workers -> Seq(Fibers)]
      BY <2>0 DEF Pushed
    <3> QED
      BY <2>0, <2>5, <3>1, <3>2, <3>3, <3>5 DEF TypeOK
  <2>2. PlaceInv'
    BY <2>5
  <2>3. StateInv'
    BY <2>5
  <2>4. OpInv'
    BY <2>5
  <2> QED
    BY <2>1, <2>2, <2>3, <2>4
<1>9. ASSUME NEW t \in Externals, PushRemoteFull(t) PROVE IInv'
  <2>1. TypeOK'
    <3>1. rnosig[op[t].g] \in Nat /\ t \in Threads /\ op[t].g \in Workers
      BY <1>9, <1>w DEF PushRemoteFull, OpInv, TypeOK
    <3>2. sig' \in [Threads -> [num : 0..2, lots : 0..(NumLots - 1)]]
      <4>1. CASE Signal(t, rnosig[op[t].g])
        BY <3>1, <4>1, SignalType DEF TypeOK
      <4>2. CASE UNCHANGED sig
        BY <4>2 DEF TypeOK
      <4> QED
        BY <1>9, <4>1, <4>2 DEF PushRemoteFull
    <3> QED
      BY <1>9, <3>1, <3>2 DEF PushRemoteFull, TypeOK
  <2>2. PlaceInv'
    BY <1>9, StayPlace DEF PushRemoteFull
  <2>3. StateInv'
    BY <1>9, StayPlace DEF PushRemoteFull
  <2>4. OpInv'
    BY <1>9, <1>w DEF PushRemoteFull, OpInv, TypeOK
  <2> QED
    BY <2>1, <2>2, <2>3, <2>4
<1>10. ASSUME NEW w \in Workers, NEW f \in Fibers, NEW s \in {"yes", "no"},
            StartLazy(w, f, s)
     PROVE  IInv'
  <2>0. /\ op[w].kind = "none" /\ state[f] = "suspended" /\ w \in Threads /\ w \notin Externals
        /\ state' = [state EXCEPT ![f] = "alive"]
        /\ op' = [op EXCEPT ![w] = [kind |-> "ready", f |-> f, signal |-> s, g |-> None]]
        /\ UNCHANGED <<queueVars, missed, pc, cur, left, sig, nosigGroup, blocks, quiet>>
    BY <1>10, <1>w DEF StartLazy, Running, Free, Woken, Ready
  <2>5. /\ PlaceInv' /\ StateInv' /\ OpInv'
        /\ op' \in [Threads -> [kind : {"none", "ready", "suspend"}, f : Fibers \cup {None},
                                signal : {"yes", "no", "ignore"}, g : Workers \cup {None}]]
        /\ state' \in [Fibers -> {"suspended", "alive", "done"}]
    BY <2>0, GiveInv
  <2>1. TypeOK'
    BY <2>0, <2>5 DEF TypeOK
  <2>2. PlaceInv'
    BY <2>5
  <2>3. StateInv'
    BY <2>5
  <2>4. OpInv'
    BY <2>5
  <2> QED
    BY <2>1, <2>2, <2>3, <2>4
<1>11. ASSUME NEW w \in Workers, NEW f \in Fibers, NEW s \in {"yes", "no", "ignore"},
            Start(w, f, s)
     PROVE  IInv'
  <2>c. PICK c : c = cur[w]
    OBVIOUS
  <2>0. /\ op[w].kind = "none" /\ op[w].f = None /\ None \notin Fibers /\ state[f] = "suspended"
        /\ w \in Threads /\ c \in Fibers /\ state[c] = "alive" /\ c # f
        /\ SwitchTo(w, f) /\ state' = [state EXCEPT ![f] = "alive"]
        /\ op' = [op EXCEPT ![w] = [kind |-> "ready", f |-> c, signal |-> s, g |-> None]]
        /\ UNCHANGED <<queueVars, missed, sig, nosigGroup, blocks>>
    <3>1. /\ Running(w) /\ Woken(f) /\ op' = [op EXCEPT ![w] = Ready(cur[w], s)] /\ SwitchTo(w, f)
          /\ UNCHANGED <<queueVars, missed, sig, nosigGroup, blocks>>
      BY <1>11 DEF Start
    <3>2. pc[w] = "run" /\ op[w].kind = "none" /\ w \in Threads
      BY <3>1, <1>w DEF Running, Free
    <3>3. op[w].f = None /\ None \notin Fibers /\ c \in Fibers /\ state[c] = "alive"
      BY <2>c, <3>2, NamesAssumption DEF OpInv
    <3> QED
      BY <2>c, <3>1, <3>2, <3>3 DEF Woken, Ready
  <2>1. /\ cur' = [cur EXCEPT ![w] = f] /\ cur' \in [Workers -> Fibers \cup {Main}]
        /\ left' \in [Workers -> SUBSET (Workers \X {"rq", "remote"})] /\ quiet' \subseteq Fibers
        /\ pc' = [pc EXCEPT ![w] = "run"]
        /\ pc' \in [Threads -> {"idle", "wait", "parked", "steal", "scan", "run"}]
    BY <2>0, SwitchStep
  <2>2. /\ op'[w].f = c /\ op'[w].kind = "ready" /\ \A u \in Threads \ {w} : op'[u] = op[u]
        /\ state'[f] = "alive" /\ \A k \in Fibers \ {f} : state'[k] = state[k]
        /\ cur'[w] = f /\ \A u \in Workers \ {w} : cur'[u] = cur[u]
    BY <2>0, <2>1 DEF TypeOK
  <2>3. /\ op' \in [Threads -> [kind : {"none", "ready", "suspend"}, f : Fibers \cup {None},
                                signal : {"yes", "no", "ignore"}, g : Workers \cup {None}]]
        /\ state' \in [Fibers -> {"suspended", "alive", "done"}]
    BY <2>0 DEF TypeOK
  <2>4. \A u \in Threads, v \in Workers : ~Has(u, f) /\ ~Queued(f, v)
    BY <2>0 DEF StateInv
  <2>6. /\ Has(w, f)' /\ \A u \in Threads \ {w} : ~Has(u, f)'
        /\ \A u \in Threads, k \in Fibers \ {f} : Has(u, k)' <=> Has(u, k)
    BY <2>c, <2>0, <2>2, <2>4 DEF Has
  <2>7. \A k \in Fibers, v \in Workers : Queued(k, v)' <=> Queued(k, v)
    BY <2>0 DEF Queued
  <2>8. PlaceInv'
    BY <2>0, <2>4, <2>6, <2>7 DEF PlaceInv
  <2>9. StateInv'
    BY <2>c, <2>0, <2>2, <2>4, <2>6, <2>7 DEF StateInv
  <2>10. \A v \in Workers : cur[v] # f
    BY <1>w, <2>4 DEF Has
  <2>11. OpInv'
    <3>1. \A u \in Threads : op'[u].kind = "none" <=> op'[u].f = None
      BY <2>0, <2>2 DEF OpInv
    <3>2. \A x \in Externals : /\ pc'[x] = "idle" /\ op'[x].kind # "suspend"
                               /\ op'[x].kind = "ready" => op'[x].g \in Workers
      BY <1>w, <2>1, <2>2 DEF OpInv, TypeOK
    <3>3. ASSUME NEW v \in Workers
          PROVE  /\ pc'[v] # "idle"
                 /\ pc'[v] = "run" => /\ cur'[v] \in Fibers /\ state'[cur'[v]] = "alive"
                                      /\ op'[v].f # cur'[v]
                 /\ pc'[v] \in {"wait", "parked"} => cur'[v] = Main
                 /\ pc'[v] \in {"steal", "scan"} =>
                      \/ cur'[v] = Main
                      \/ op'[v].f = cur'[v]
                      \/ cur'[v] \in Fibers /\ state'[cur'[v]] = "done"
      <4>1. CASE v = w
        BY <4>1, <2>0, <2>1, <2>2 DEF TypeOK
      <4>2. CASE v # w
        <5>1. pc'[v] = pc[v] /\ cur'[v] = cur[v] /\ op'[v] = op[v]
          BY <4>2, <1>w, <2>1, <2>2 DEF TypeOK
        <5>2. cur[v] \in Fibers => state'[cur[v]] = state[cur[v]]
          BY <2>2, <2>10
        <5> QED
          BY <5>1, <5>2 DEF OpInv
      <4> QED
        BY <4>1, <4>2
    <3> QED
      BY <3>1, <3>2, <3>3 DEF OpInv
  <2>12. TypeOK'
    BY <2>0, <2>1, <2>3 DEF TypeOK
  <2> QED
    BY <2>8, <2>9, <2>11, <2>12
<1>12. ASSUME NEW w \in Workers, Flush(w) PROVE IInv'
  <2>1. TypeOK'
    <3>1. nosig[w] \in Nat /\ w \in Threads /\ w \in Workers
      BY <1>12, <1>w DEF Flush, OpInv, TypeOK
    <3>2. sig' \in [Threads -> [num : 0..2, lots : 0..(NumLots - 1)]]
      <4>1. CASE Signal(w, nosig[w])
        BY <3>1, <4>1, SignalType DEF TypeOK
      <4>2. CASE UNCHANGED sig
        BY <4>2 DEF TypeOK
      <4> QED
        BY <1>12, <4>1, <4>2 DEF Flush
    <3> QED
      BY <1>12, <3>1, <3>2 DEF Flush, TypeOK
  <2>2. PlaceInv'
    BY <1>12, StayPlace DEF Flush
  <2>3. StateInv'
    BY <1>12, StayPlace DEF Flush
  <2>4. OpInv'
    BY <1>12, <1>w DEF Flush, Running, OpInv, TypeOK
  <2> QED
    BY <2>1, <2>2, <2>3, <2>4
<1>13. ASSUME NEW w \in Workers, Yield(w) PROVE IInv'
  <2>1. Ready(cur[w], "yes") \in [kind : {"ready", "suspend"}, f : {cur[w]}, signal : {"yes"}, g : {None}]
    BY DEF Ready
  <2> QED
    BY <1>13, <2>1, BlockInv DEF Yield
<1>14. ASSUME NEW w \in Workers, Suspend(w) PROVE IInv'
  <2>1. [kind |-> "suspend", f |-> cur[w], signal |-> "yes", g |-> None]
          \in [kind : {"ready", "suspend"}, f : {cur[w]}, signal : {"yes"}, g : {None}]
    OBVIOUS
  <2> QED
    BY <1>14, <2>1, BlockInv DEF Suspend
<1>15. ASSUME NEW w \in Workers, Suspended(w) PROVE IInv'
  <2>c. PICK c : c = op[w].f
    OBVIOUS
  <2>0. /\ op[w].kind = "suspend" /\ c \in Fibers /\ state[c] = "alive" /\ cur[w] # c /\ w \in Threads
        /\ state' = [state EXCEPT ![c] = "suspended"] /\ op' = [op EXCEPT ![w] = NoOp]
        /\ UNCHANGED <<queueVars, missed, pc, cur, left, sig, nosigGroup, blocks, quiet>>
        /\ NoOp.f = None /\ NoOp.kind = "none" /\ None \notin Fibers /\ Main \notin Fibers
        /\ pc[w] \in {"run", "wait"}
    <3>1. op[w].kind = "suspend" /\ w \in Threads /\ pc[w] \in {"run", "wait"}
      BY <1>15, <1>w DEF Suspended
    <3>2. c \in Fibers
      BY <2>c, <3>1 DEF OpInv, TypeOK
    <3>3. state[c] = "alive" /\ cur[w] # c
      BY <2>c, <3>1, <3>2, NamesAssumption DEF OpInv, StateInv
    <3> QED
      BY <1>15, <2>c, <3>1, <3>2, <3>3, NamesAssumption DEF Suspended, NoOp
  <2>1. /\ op'[w] = NoOp /\ \A u \in Threads \ {w} : op'[u] = op[u]
        /\ state'[c] = "suspended" /\ \A k \in Fibers \ {c} : state'[k] = state[k]
    BY <2>0 DEF TypeOK
  <2>2. /\ op' \in [Threads -> [kind : {"none", "ready", "suspend"}, f : Fibers \cup {None},
                                signal : {"yes", "no", "ignore"}, g : Workers \cup {None}]]
        /\ state' \in [Fibers -> {"suspended", "alive", "done"}]
    BY <2>0 DEF TypeOK, NoOp
  <2>3. Has(w, c) /\ \A u \in Threads \ {w} : ~Has(u, c)
    BY <2>c, <2>0 DEF Has, PlaceInv
  <2>4. \A v \in Workers : ~Queued(c, v) /\ (v # w => cur[v] # c)
    BY <1>w, <2>0, <2>3 DEF Has, PlaceInv
  <2>6. /\ \A u \in Threads : ~Has(u, c)'
        /\ \A u \in Threads, k \in Fibers \ {c} : Has(u, k)' <=> Has(u, k)
    BY <2>c, <2>0, <2>1, <2>3 DEF Has
  <2>7. \A k \in Fibers, v \in Workers : Queued(k, v)' <=> Queued(k, v)
    BY <2>0 DEF Queued
  <2>8. PlaceInv'
    BY <2>0, <2>4, <2>6, <2>7 DEF PlaceInv
  <2>9. StateInv'
    <3>1. \A u \in Threads : op'[u].f # c
      BY <2>6 DEF Has
    <3>2. \A u \in Threads, k \in Fibers \ {c} : op'[u].f = k => op[u].f = k
      BY <2>0, <2>1
    <3> QED
      BY <2>0, <2>1, <2>4, <2>6, <2>7, <3>1, <3>2 DEF StateInv
  <2>11. OpInv'
    <3>1. \A u \in Threads : op'[u].kind = "none" <=> op'[u].f = None
      BY <2>0, <2>1 DEF OpInv
    <3>2. \A x \in Externals : /\ pc'[x] = "idle" /\ op'[x].kind # "suspend"
                               /\ op'[x].kind = "ready" => op'[x].g \in Workers
      BY <1>w, <2>0, <2>1 DEF OpInv
    <3>3. ASSUME NEW v \in Workers
          PROVE  /\ pc'[v] # "idle"
                 /\ pc'[v] = "run" => /\ cur'[v] \in Fibers /\ state'[cur'[v]] = "alive"
                                      /\ op'[v].f # cur'[v]
                 /\ pc'[v] \in {"wait", "parked"} => cur'[v] = Main
                 /\ pc'[v] \in {"steal", "scan"} =>
                      \/ cur'[v] = Main
                      \/ op'[v].f = cur'[v]
                      \/ cur'[v] \in Fibers /\ state'[cur'[v]] = "done"
      <4>0. cur[v] # c /\ cur'[v] = cur[v] /\ pc'[v] = pc[v] /\ v \in Threads
        BY <1>w, <2>0, <2>4
      <4>1. cur[v] \in Fibers => state'[cur[v]] = state[cur[v]]
        BY <2>1, <4>0
      <4>2. v # w => op'[v] = op[v]
        BY <2>1, <4>0
      <4>3. op'[v].f = op[v].f \/ (v = w /\ op'[v].f = None)
        BY <2>0, <2>1, <4>2
      <4> QED
        BY <2>0, <4>0, <4>1, <4>2, <4>3 DEF OpInv
    <3> QED
      BY <3>1, <3>2, <3>3 DEF OpInv
  <2>12. TypeOK'
    BY <2>0, <2>2 DEF TypeOK
  <2> QED
    BY <2>8, <2>9, <2>11, <2>12
<1>16. ASSUME NEW w \in Workers, Finish(w) PROVE IInv'
  <2>c. PICK c : c = cur[w]
    OBVIOUS
  <2>0. /\ pc[w] = "run" /\ op[w].f = None /\ None \notin Fibers /\ c \in Fibers /\ state[c] = "alive"
        /\ state' = [state EXCEPT ![c] = "done"] /\ Sched(w) /\ w \in Threads
        /\ UNCHANGED <<remote, nosig, rnosig, missed, op, sig, nosigGroup, blocks>>
    BY <1>16, <1>w, <2>c, NamesAssumption DEF Finish, Running, Free, OpInv
  <2>1. /\ state' \in [Fibers -> {"suspended", "alive", "done"}]
        /\ state'[c] = "done" /\ \A k \in Fibers \ {c} : state'[k] = state[k]
    BY <2>0 DEF TypeOK
  <2>2. Has(w, c) /\ \A u \in Threads \ {w} : ~Has(u, c)
    BY <2>c, <2>0 DEF Has, PlaceInv
  <2>3. /\ \A v \in Workers : ~Queued(c, v) /\ (v # w => cur[v] # c)
        /\ \A u \in Threads : op[u].f # c
    BY <1>w, <2>c, <2>0, <2>2 DEF Has, PlaceInv
  <2>4. ASSUME NEW f \in Fibers, Popped(rq, rq', w, f), SwitchTo(w, f) PROVE IInv'
    <3>1. /\ cur' = [cur EXCEPT ![w] = f] /\ cur' \in [Workers -> Fibers \cup {Main}]
          /\ left' \in [Workers -> SUBSET (Workers \X {"rq", "remote"})] /\ quiet' \subseteq Fibers
          /\ pc' = [pc EXCEPT ![w] = "run"]
          /\ pc' \in [Threads -> {"idle", "wait", "parked", "steal", "scan", "run"}]
      BY <2>4, SwitchStep
    <3>2. TypeOK'
      <4>1. rq' \in [Workers -> Seq(Fibers)]
        BY <2>4 DEF Popped
      <4>2. \A v \in Workers : Len(rq'[v]) <= Capacity
        BY <2>4, PoppedLen, SizesAssumption DEF TypeOK
      <4> QED
        BY <2>0, <2>1, <3>1, <4>1, <4>2 DEF TypeOK
    <3>3. /\ PlaceInv'
          /\ \A h \in Fibers \ {f}, v \in Workers : Queued(h, v)' <=> Queued(h, v)
          /\ \A v \in Workers : ~Queued(f, v)'
      <4>1. \A t \in Threads, h \in Fibers : op'[t].f = h => Has(t, h)
        BY <2>0 DEF Has
      <4> QED
        BY <2>0, <2>4, <3>1, <4>1, TakePlace DEF TypeOK
    <3>4. Queued(f, w) /\ state[f] = "alive" /\ (\A t \in Threads : ~Has(t, f)) /\ f # c
      BY <2>3, <2>4 DEF Popped, Queued, PlaceInv, StateInv
    <3>5. cur'[w] = f /\ \A v \in Workers \ {w} : cur'[v] = cur[v]
      BY <3>1 DEF TypeOK
    <3>6. /\ Has(w, f)' /\ \A u \in Threads \ {w} : ~Has(u, f)'
          /\ \A u \in Threads, k \in Fibers \ {f, c} : Has(u, k)' <=> Has(u, k)
      BY <2>c, <2>0, <3>4, <3>5 DEF Has
    <3>7. \A u \in Threads : Has(u, c)' => Has(u, c)
      BY <2>c, <2>0, <3>4, <3>5 DEF Has
    <3>8. StateInv'
      BY <2>0, <2>1, <2>3, <3>3, <3>4, <3>6, <3>7 DEF StateInv
    <3>9. OpInv'
      <4>1. ASSUME NEW v \in Workers, v # w PROVE cur[v] \in Fibers => state'[cur[v]] = state[cur[v]]
        BY <4>1, <2>1, <2>3
      <4>2. pc'[w] = "run" /\ \A u \in Threads \ {w} : pc'[u] = pc[u]
        BY <2>0, <3>1 DEF TypeOK
      <4> QED
        BY <1>w, <2>c, <2>0, <2>1, <3>4, <3>5, <4>1, <4>2 DEF OpInv
    <3> QED
      BY <3>2, <3>3, <3>8, <3>9
  <2>5. ASSUME Goto(w, "steal"), UNCHANGED <<rq, cur, left, quiet>> PROVE IInv'
    <3>1. TypeOK'
      BY <2>0, <2>1, <2>5 DEF TypeOK, Goto
    <3>2. \A h \in Fibers, v \in Workers : Queued(h, v)' <=> Queued(h, v)
      BY <2>0, <2>5 DEF Queued
    <3>3. \A t \in Threads, h \in Fibers : Has(t, h)' <=> Has(t, h)
      BY <2>0, <2>5 DEF Has
    <3>4. PlaceInv'
      BY <2>0, <2>5, <3>2, <3>3 DEF PlaceInv
    <3>5. StateInv'
      BY <2>0, <2>1, <2>3, <3>2, <3>3 DEF StateInv
    <3>6. OpInv'
      <4>1. ASSUME NEW v \in Workers, v # w PROVE cur[v] \in Fibers => state'[cur[v]] = state[cur[v]]
        BY <4>1, <2>1, <2>3
      <4>2. pc'[w] = "steal" /\ \A u \in Threads \ {w} : pc'[u] = pc[u]
        BY <2>0, <2>5 DEF TypeOK, Goto
      <4> QED
        BY <1>w, <2>c, <2>0, <2>1, <2>5, <4>1, <4>2 DEF OpInv
    <3> QED
      BY <3>1, <3>4, <3>5, <3>6
  <2> QED
    BY <2>0, <2>4, <2>5, SchedStep
<1>17. ASSUME NEW x \in Externals, NEW f \in Fibers, NEW s \in {"yes", "no"}, NEW g \in Workers,
            StartRemote(x, f, s, g)
     PROVE  IInv'
  <2>0. /\ op[x].kind = "none" /\ state[f] = "suspended" /\ x \in Threads /\ g \in Workers
        /\ state' = [state EXCEPT ![f] = "alive"]
        /\ op' = [op EXCEPT ![x] = [kind |-> "ready", f |-> f, signal |-> s, g |-> g]]
        /\ nosigGroup' = [nosigGroup EXCEPT ![x] = IF s = "no" THEN g ELSE @]
        /\ UNCHANGED <<queueVars, missed, pc, cur, left, sig, blocks, quiet>>
    <3>1. op' = [op EXCEPT ![x] = [Ready(f, s) EXCEPT !.g = g]]
      BY <1>17 DEF StartRemote
    <3>2. [Ready(f, s) EXCEPT !.g = g] = [kind |-> "ready", f |-> f, signal |-> s, g |-> g]
      BY RemoteOp
    <3>3. op' = [op EXCEPT ![x] = [kind |-> "ready", f |-> f, signal |-> s, g |-> g]]
      BY <3>1, <3>2, Zenon
    <3> QED
      BY <1>17, <1>w, <3>3 DEF StartRemote, Free, Woken
  <2>5. /\ PlaceInv' /\ StateInv' /\ OpInv'
        /\ op' \in [Threads -> [kind : {"none", "ready", "suspend"}, f : Fibers \cup {None},
                                signal : {"yes", "no", "ignore"}, g : Workers \cup {None}]]
        /\ state' \in [Fibers -> {"suspended", "alive", "done"}]
    BY <2>0, GiveInv
  <2>1. TypeOK'
    BY <2>0, <2>5 DEF TypeOK
  <2>2. PlaceInv'
    BY <2>5
  <2>3. StateInv'
    BY <2>5
  <2>4. OpInv'
    BY <2>5
  <2> QED
    BY <2>1, <2>2, <2>3, <2>4
<1>18. ASSUME NEW x \in Externals, FlushRemote(x) PROVE IInv'
  <2>1. TypeOK'
    <3>1. rnosig[nosigGroup[x]] \in Nat /\ x \in Threads /\ nosigGroup[x] \in Workers
      BY <1>18, <1>w DEF FlushRemote, OpInv, TypeOK
    <3>2. sig' \in [Threads -> [num : 0..2, lots : 0..(NumLots - 1)]]
      <4>1. CASE Signal(x, rnosig[nosigGroup[x]])
        BY <3>1, <4>1, SignalType DEF TypeOK
      <4>2. CASE UNCHANGED sig
        BY <4>2 DEF TypeOK
      <4> QED
        BY <1>18, <4>1, <4>2 DEF FlushRemote
    <3> QED
      BY <1>18, <3>1, <3>2 DEF FlushRemote, TypeOK
  <2>2. PlaceInv'
    BY <1>18, StayPlace DEF FlushRemote
  <2>3. StateInv'
    BY <1>18, StayPlace DEF FlushRemote
  <2>4. OpInv'
    BY <1>18, <1>w DEF FlushRemote, Free, OpInv, TypeOK
  <2> QED
    BY <2>1, <2>2, <2>3, <2>4
<1>19. CASE UNCHANGED vars
  <2>1. PlaceInv' /\ StateInv'
    BY <1>19, StayPlace DEF vars
  <2> QED
    BY <1>19, <2>1 DEF vars, TypeOK, OpInv
<1> QED
  BY <1>1, <1>2, <1>3, <1>4, <1>5, <1>6, <1>7, <1>8, <1>9, <1>10, <1>11, <1>12,
     <1>13, <1>14, <1>15, <1>16, <1>17, <1>18, <1>19, <1>w
     DEF Next, Step, WorkerStep, Scan

\* The inductive invariant of the places of fibers.
LEMMA SpecInv == Spec => []IInv
BY InitInv, NextInv, PTL DEF Spec

\* The type invariant of the scheduler: no queue ever holds more than its capacity,
\* whoever pushes (push_rq and RemoteTaskQueue::push test for a free slot), and the
\* progress of signal_task stays within the lots.
THEOREM TypeCorrect == Spec => []TypeOK
<1>1. IInv => TypeOK
  BY DEF IInv
<1> QED
  BY <1>1, SpecInv, PTL

\* A fiber that is in one queue, once, has one position; one that is in none has none.
LEMMA OnePosition ==
  ASSUME NEW q \in [Workers -> Seq(Fibers)], NEW f \in Fibers, NEW w \in Workers,
         f \in ToSet(q[w]), IsInjective(q[w]), \A v \in Workers : f \in ToSet(q[v]) => v = w
  PROVE  Cardinality(Positions(q, f)) = 1
<1>1. PICK i \in DOMAIN q[w] : q[w][i] = f
  BY DEF ToSet
<1>2. \A j \in DOMAIN q[w] : q[w][j] = f => j = i
  BY <1>1 DEF IsInjective
<1>3. \A v \in Workers : \A j \in DOMAIN q[v] : q[v][j] = f => v = w
  BY DEF ToSet
<1>4. Positions(q, f) = {<<w, i>>}
  <2>1. <<w, i>> \in Positions(q, f)
    BY <1>1 DEF Positions
  <2>2. ASSUME NEW p \in Positions(q, f) PROVE p = <<w, i>>
    <3>1. PICK v \in Workers : p \in {v} \X DOMAIN q[v]
      BY DEF Positions
    <3>2. p = <<v, p[2]>> /\ p[2] \in DOMAIN q[v] /\ q[v][p[2]] = f
      BY <3>1 DEF Positions
    <3> QED
      BY <1>2, <1>3, <3>2
  <2> QED
    BY <2>1, <2>2
<1> QED
  BY <1>4, FS_Singleton

\* A fiber that is in no queue has no position.
LEMMA NoPosition ==
  ASSUME NEW q \in [Workers -> Seq(Fibers)], NEW f \in Fibers,
         \A v \in Workers : f \notin ToSet(q[v])
  PROVE  Cardinality(Positions(q, f)) = 0
<1>1. ASSUME NEW p \in Positions(q, f) PROVE FALSE
  <2>1. PICK v \in Workers : p \in {v} \X DOMAIN q[v]
    BY DEF Positions
  <2>2. p[2] \in DOMAIN q[v] /\ q[v][p[2]] = f
    BY <2>1 DEF Positions
  <2> QED
    BY <2>2 DEF ToSet
<1>2. Positions(q, f) = {}
  BY <1>1
<1> QED
  BY <1>2, FS_EmptySet

\* The invariant is stronger than OnePlace.
LEMMA InvOnePlace == IInv => OnePlace
<1> SUFFICES ASSUME IInv, NEW f \in Fibers
             PROVE  CASE state[f] = "alive" -> Places(f) = 1
                      [] state[f] = "suspended" -> Places(f) = 0
                      [] state[f] = "done" -> Places(f) = Cardinality(Holders(f))
  BY DEF OnePlace
<1> USE DEF IInv
<1> DEFINE A == Cardinality(Positions(rq, f))
           B == Cardinality(Positions(remote, f))
           H == Cardinality(Holders(f))
<1>0. Places(f) = A + B + H /\ rq \in [Workers -> Seq(Fibers)] /\ remote \in [Workers -> Seq(Fibers)]
  BY DEF Places, TypeOK
<1>1. Holders(f) = {t \in Threads : Has(t, f)}
  BY DEF Holders, Has
<1>2. (\A t \in Threads : ~Has(t, f)) => H = 0
  <2> SUFFICES ASSUME \A t \in Threads : ~Has(t, f) PROVE H = 0
    OBVIOUS
  <2>1. Holders(f) = {}
    BY <1>1
  <2> QED
    BY <2>1, FS_EmptySet
<1>3. ASSUME NEW t \in Threads, Has(t, f) PROVE H = 1
  <2>1. \A u \in Threads : Has(u, f) => u = t
    BY <1>3 DEF PlaceInv
  <2>2. Holders(f) = {t}
    BY <1>1, <1>3, <2>1
  <2> QED
    BY <2>2, FS_Singleton
<1>4. (\A v \in Workers : ~Queued(f, v)) => A = 0 /\ B = 0
  BY <1>0, NoPosition DEF Queued
<1>5. ASSUME NEW w \in Workers, Queued(f, w) PROVE H = 0 /\ ((A = 1 /\ B = 0) \/ (A = 0 /\ B = 1))
  <2>1. H = 0
    BY <1>2, <1>5 DEF PlaceInv
  <2>2. CASE f \in ToSet(rq[w])
    <3>1. A = 1
      BY <1>0, <2>2, OnePosition DEF PlaceInv
    <3>2. \A v \in Workers : f \notin ToSet(remote[v])
      BY <2>2 DEF PlaceInv
    <3>3. B = 0
      BY <1>0, <3>2, NoPosition
    <3> QED
      BY <2>1, <3>1, <3>3
  <2>3. CASE f \in ToSet(remote[w])
    <3>1. B = 1
      BY <1>0, <2>3, OnePosition DEF PlaceInv
    <3>2. \A v \in Workers : f \notin ToSet(rq[v])
      BY <2>3 DEF PlaceInv
    <3>3. A = 0
      BY <1>0, <3>2, NoPosition
    <3> QED
      BY <2>1, <3>1, <3>3
  <2> QED
    BY <1>5, <2>2, <2>3 DEF Queued
<1> HIDE DEF A, B, H
<1>6. CASE state[f] = "alive"
  <2>1. ASSUME NEW w \in Workers, Queued(f, w) PROVE Places(f) = 1
    BY <1>0, <1>5, <2>1
  <2>2. ASSUME \A w \in Workers : ~Queued(f, w) PROVE Places(f) = 1
    <3>1. PICK t \in Threads : Has(t, f)
      BY <1>6, <2>2 DEF StateInv
    <3> QED
      BY <1>0, <1>3, <1>4, <2>2, <3>1
  <2>3. Places(f) = 1
    BY <2>1, <2>2
  <2> QED
    BY <1>6, <2>3
<1>7. CASE state[f] = "suspended"
  <2>1. (\A w \in Workers : ~Queued(f, w)) /\ \A t \in Threads : ~Has(t, f)
    BY <1>7 DEF StateInv
  <2>2. Places(f) = 0
    BY <1>0, <1>2, <1>4, <2>1
  <2> QED
    BY <1>7, <2>2
<1>8. CASE state[f] = "done"
  <2>1. \A w \in Workers : ~Queued(f, w)
    BY <1>8 DEF StateInv
  <2>2. H = 0 \/ H = 1
    BY <1>2, <1>3
  <2>3. Places(f) = H
    BY <1>0, <1>4, <2>1, <2>2
  <2> QED
    BY <1>8, <2>3 DEF H
<1> QED
  BY <1>6, <1>7, <1>8 DEF TypeOK

\* A fiber that is neither blocked nor done is in exactly one queue, once, or with one
\* thread, whatever is stolen, pushed from outside, yielded and resumed: it never runs on
\* two workers, and sched_to, ready_to_run and the remained callbacks never drop it.
THEOREM OnePlaceCorrect == Spec => []OnePlace
BY InvOnePlace, SpecInv, PTL

-----------------------------------------------------------------------------
(* No lost wakeup *)

\* signal_task goes through every lot, the caller's own first.
LEMMA OwnLot ==
  ASSUME NEW t \in Threads
  PROVE  (LotOf[t] + 0) % NumLots = LotOf[t]
<1>1. LotOf[t] \in 0..(NumLots - 1) /\ NumLots \in Nat \ {0}
  BY SizesAssumption, LotsAssumption
<1> QED
  BY <1>1

\* signal_task comes to every lot, wherever it starts.
LEMMA EveryLot ==
  ASSUME NEW t \in Threads, NEW p \in Workers
  PROVE  \E i \in 0..(NumLots - 1) : (LotOf[t] + i) % NumLots = LotOf[p]
<1>0. p \in Threads
  BY DEF Threads
<1>1. PICK a \in 0..(NumLots - 1) : a = LotOf[t]
  BY LotsAssumption
<1>2. PICK b \in 0..(NumLots - 1) : b = LotOf[p]
  BY <1>0, LotsAssumption
<1>3. NumLots \in Nat \ {0}
  BY SizesAssumption
<1>4. CASE a <= b
  <2>1. b - a \in 0..(NumLots - 1) /\ a + (b - a) = b /\ b % NumLots = b
    BY <1>3, <1>4
  <2> QED
    BY <1>1, <1>2, <2>1
<1>5. CASE a > b
  <2> DEFINE n == b + NumLots
             q == n \div NumLots
             r == n % NumLots
  <2>1. /\ NumLots - (a - b) \in 0..(NumLots - 1) /\ a + (NumLots - (a - b)) = n
        /\ n \in NumLots..(2 * NumLots - 1)
    BY <1>3, <1>5
  <2>2. n = NumLots * q + r /\ q \in Int /\ r \in 0..(NumLots - 1)
    BY <1>3, <2>1
  <2> HIDE DEF q, r
  <2>3. q > 0
    <3>1. q <= 0 => NumLots * q <= 0
      BY <1>3, <2>2
    <3> QED
      BY <1>3, <2>1, <2>2, <3>1
  <2>4. q < 2
    <3>1. q >= 2 => NumLots * q >= 2 * NumLots
      BY <1>3, <2>2
    <3> QED
      BY <1>3, <2>1, <2>2, <3>1
  <2>5. NumLots * q = NumLots
    BY <1>3, <2>2, <2>3, <2>4
  <2>6. r = b
    BY <1>3, <2>2, <2>5
  <2> QED
    BY <1>1, <1>2, <2>1, <2>6 DEF r
<1> QED
  BY <1>3, <1>4, <1>5

\* After signal_task has begun, a signal is on its way to every worker.
LEMMA SignalReaches ==
  ASSUME TypeOK, NEW t \in Threads, NEW n \in Nat \ {0}, Signal(t, n)
  PROVE  /\ \A p \in Workers : Reaches(t, p)'
         /\ sig'[t].lots = 0 /\ Signalling(t)' /\ \A u \in Threads \ {t} : sig'[u] = sig[u]
<1>1. /\ \A u \in Threads \ {t} : sig'[u] = sig[u]
      /\ sig'[t].lots = 0 /\ sig'[t].num > 0
  BY SignalType DEF TypeOK
<1> QED
  BY <1>1, EveryLot DEF Reaches, Signalling

\* A queue that a fiber is taken off has a signalled task only if it had one: the fiber
\* that is no longer quiet is no longer queued.
LEMMA TakeLoud ==
  ASSUME IInv, NEW f, \A v \in Workers : f \notin ToSet(rq'[v]),
         \A v \in Workers : ToSet(rq'[v]) \subseteq ToSet(rq[v]),
         \A v \in Workers : Len(remote'[v]) <= Len(remote[v]) /\ Len(remote'[v]) \in Nat,
         quiet' = quiet \ {f}, UNCHANGED <<nosig, rnosig>>
  PROVE  \A q \in QueueNames : Loud(q)' => Loud(q)
<1>1. \A v \in Workers : Loud(<<v, "rq">>)' => Loud(<<v, "rq">>)
  BY DEF Loud
<1>2. \A v \in Workers : Loud(<<v, "remote">>)' => Loud(<<v, "remote">>)
  <2>1. \A v \in Workers : Len(remote[v]) \in Nat /\ rnosig[v] \in Nat
    BY DEF IInv, TypeOK
  <2> QED
    BY <2>1 DEF Loud
<1> QED
  BY <1>1, <1>2 DEF QueueNames

\* A queue that has no fiber has no signalled task.
LEMMA EmptyQuiet ==
  ASSUME TypeOK, NEW g \in Workers
  PROVE  /\ rq[g] = << >> => ~Loud(<<g, "rq">>)
         /\ remote[g] = << >> => ~Loud(<<g, "remote">>)
<1>1. rq[g] = << >> => ToSet(rq[g]) = {}
  BY MembersOfEmpty
<1>2. remote[g] = << >> => Len(remote[g]) = 0
  OBVIOUS
<1>3. rnosig[g] \in Nat
  BY DEF TypeOK
<1> QED
  BY <1>1, <1>2, <1>3 DEF Loud

\* A step of one worker that makes no task known: if the worker is no more asleep and no
\* less a helper than before, nobody is forgotten.
LEMMA CalmWake ==
  ASSUME WakeInv, NEW w \in Workers, UNCHANGED sig,
         \A q \in QueueNames : Loud(q)' => Loud(q),
         \A u \in Workers \ {w} : pc'[u] = pc[u] /\ missed'[u] = missed[u] /\ left'[u] = left[u],
         \A q \in QueueNames : Loud(q)' /\ Asleep(w, q)' => Asleep(w, q),
         \A q \in QueueNames : Loud(q)' /\ Helper(w, q) => Helper(w, q)'
  PROVE  WakeInv'
<1> SUFFICES ASSUME NEW p \in Workers, NEW q \in QueueNames, Loud(q)', Asleep(p, q)'
             PROVE  (\E a \in Workers : Helper(a, q)') \/ \E t \in Threads : Reaches(t, p)'
  BY DEF WakeInv, QueueNames
<1>1. Asleep(p, q)
  BY DEF Asleep
<1>2. Loud(q)
  OBVIOUS
<1>3. \A a \in Workers : Helper(a, q) => Helper(a, q)'
  <2>1. ASSUME NEW a \in Workers, a # w, Helper(a, q) PROVE Helper(a, q)'
    <3>1. ~Loud(<<a, "rq">>)'
      BY <2>1 DEF Helper, QueueNames
    <3> QED
      BY <2>1, <3>1 DEF Helper
  <2> QED
    BY <2>1
<1>4. \A t \in Threads : Reaches(t, p) => Reaches(t, p)'
  BY DEF Reaches, Signalling
<1> QED
  BY <1>1, <1>2, <1>3, <1>4 DEF WakeInv

\* signal_task has begun: nobody is forgotten.
LEMMA SignalWake ==
  ASSUME NEW t \in Threads, \A p \in Workers : Reaches(t, p)'
  PROVE  WakeInv'
BY DEF WakeInv

\* Steps that change nothing of what the workers sleep by.
LEMMA StillWake ==
  ASSUME WakeInv, UNCHANGED <<pc, missed, left, sig>>,
         \A q \in QueueNames : Loud(q)' => Loud(q)
  PROVE  WakeInv'
<1> SUFFICES ASSUME NEW p \in Workers, NEW q \in QueueNames, Loud(q)', Asleep(p, q)'
             PROVE  (\E a \in Workers : Helper(a, q)') \/ \E t \in Threads : Reaches(t, p)'
  BY DEF WakeInv, QueueNames
<1>1. Asleep(p, q)
  BY DEF Asleep
<1>2. Asleep(p, q) => (\E a \in Workers : Helper(a, q)) \/ \E t \in Threads : Reaches(t, p)
  BY DEF WakeInv
<1>3. \A a \in Workers : Helper(a, q) => Helper(a, q)'
  BY DEF Helper, QueueNames
<1>4. \A t \in Threads : Reaches(t, p) => Reaches(t, p)'
  BY DEF Reaches, Signalling
<1> QED
  BY <1>1, <1>2, <1>3, <1>4

\* Steps that leave the workers' own queues and what they do alone.
LEMMA StillOwn ==
  ASSUME OwnInv, UNCHANGED <<rq, pc, missed, left>>,
         \A w \in Workers : op'[w] = op[w] \/ op'[w] = NoOp \/ pc[w] = "run",
         \A w \in Workers : sig'[w] = sig[w] \/ (sig'[w].lots = 0 /\ Signalling(w)')
  PROVE  OwnInv'
<1>1. NoOp.kind # "ready"
  BY DEF NoOp
<1> QED
  BY <1>1 DEF OwnInv, Signalling

\* A worker takes a fiber off a queue and runs it.
LEMMA TakeSleep ==
  ASSUME IInv, SleepInv, NEW w \in Workers, NEW g \in Workers, NEW f \in Fibers,
         \/ Popped(rq, rq', g, f) /\ UNCHANGED remote
         \/ Popped(remote, remote', g, f) /\ UNCHANGED rq,
         SwitchTo(w, f), pc[w] \in {"run", "steal", "scan"},
         \A u \in Workers \ {w} : op'[u] = op[u],
         UNCHANGED <<missed, nosig, rnosig, sig>>
  PROVE  SleepInv'
<1> USE DEF IInv, SleepInv
<1>w. Workers \subseteq Threads
  BY DEF Threads
<1>1. /\ left' = [left EXCEPT ![w] = {}] /\ quiet' = quiet \ {f} /\ pc' = [pc EXCEPT ![w] = "run"]
  BY SwitchStep
<1>2. /\ pc'[w] = "run" /\ \A u \in Workers \ {w} : pc'[u] = pc[u] /\ left'[u] = left[u]
  BY <1>w, <1>1 DEF TypeOK
<1>3. \A q \in QueueNames : Loud(q)' => Loud(q)
  <2>1. \A v \in Workers : f \notin ToSet(rq'[v]) /\ ToSet(rq'[v]) \subseteq ToSet(rq[v])
    BY DEF Popped, PlaceInv
  <2>2. \A v \in Workers : Len(remote[v]) \in Nat
    BY DEF TypeOK
  <2>3. \A v \in Workers : Len(remote'[v]) <= Len(remote[v]) /\ Len(remote'[v]) \in Nat
    <3>1. CASE UNCHANGED remote
      BY <2>2, <3>1
    <3>2. CASE Popped(remote, remote', g, f)
      <4>1. /\ Len(remote'[g]) = Len(remote[g]) - 1 /\ remote'[g] \in Seq(Fibers)
            /\ \A v \in Workers \ {g} : remote'[v] = remote[v]
        BY <3>2 DEF Popped
      <4>2. Len(remote'[g]) \in Nat
        BY <4>1
      <4> QED
        BY <2>2, <4>1, <4>2
    <3> QED
      BY <3>1, <3>2
  <2> QED
    BY <1>1, <2>1, <2>3, TakeLoud
<1>4. \A v \in Workers : rq'[v] = rq[v] \/ rq[v] # << >>
  BY MembersOfEmpty DEF Popped
<1>5. OwnInv'
  BY <1>2, <1>4 DEF OwnInv, Signalling
<1>6. \A q \in QueueNames : ~Asleep(w, q)'
  BY <1>2 DEF Asleep
<1>7. \A q \in QueueNames : Helper(w, q) => Helper(w, q)'
  <2>1. ~Loud(<<w, "rq">>) => ~Loud(<<w, "rq">>)'
    BY <1>3 DEF QueueNames
  <2> QED
    BY <1>2, <2>1 DEF Helper
<1>8. WakeInv'
  BY <1>2, <1>3, <1>6, <1>7, CalmWake
<1> QED
  BY <1>5, <1>8

\* A worker looks at a queue that has nothing for it.
LEMMA PassSleep ==
  ASSUME IInv, SleepInv, NEW w \in Workers, NEW c \in QueueNames, c \in left[w], ~Loud(c),
         c = <<w, "rq">> => rq[w] = << >>,
         pc[w] = "scan", NotFound(w, c),
         UNCHANGED <<rq, remote, nosig, rnosig, missed, op, sig>>
  PROVE  SleepInv'
<1> USE DEF IInv, SleepInv
<1>w. Workers \subseteq Threads /\ Main \notin Fibers
  BY NamesAssumption DEF Threads
<1>1. /\ quiet' = quiet /\ left'[w] = left[w] \ {c}
      /\ \/ pc'[w] = "scan"
         \/ pc'[w] = "wait" /\ left[w] = {c}
      /\ \A u \in Workers \ {w} : pc'[u] = pc[u] /\ left'[u] = left[u]
  <2>1. CASE left[w] = {c}
    <3>1. SwitchTo(w, Main)
      BY <2>1 DEF NotFound
    <3>2. /\ left' = [left EXCEPT ![w] = {}] /\ quiet' = quiet \ {Main}
          /\ pc' = [pc EXCEPT ![w] = "wait"]
      BY <3>1 DEF SwitchTo, Goto
    <3>3. quiet' = quiet
      BY <1>w, <3>2 DEF TypeOK
    <3> QED
      BY <1>w, <2>1, <3>2, <3>3 DEF TypeOK
  <2>2. CASE left[w] # {c}
    <3>1. left' = [left EXCEPT ![w] = left[w] \ {c}] /\ UNCHANGED <<pc, cur, quiet>>
      BY <2>2 DEF NotFound
    <3> QED
      BY <3>1 DEF TypeOK
  <2> QED
    BY <2>1, <2>2
<1>2. \A q \in QueueNames : Loud(q)' <=> Loud(q)
  BY <1>1 DEF Loud
<1>3. OwnInv'
  <2>1. rq[w] = << >> \/ (<<w, "rq">> \in left[w] /\ c # <<w, "rq">>)
    BY DEF OwnInv
  <2>2. pc'[w] = "wait" => rq[w] = << >>
    BY <1>1, <2>1
  <2>3. rq[w] = << >> \/ <<w, "rq">> \in left'[w]
    BY <1>1, <2>1
  <2> QED
    BY <1>1, <2>2, <2>3 DEF OwnInv, Signalling
<1>4. \A q \in QueueNames : Loud(q)' /\ Asleep(w, q)' => Asleep(w, q)
  <2> SUFFICES ASSUME NEW q \in QueueNames, Loud(q)', Asleep(w, q)' PROVE Asleep(w, q)
    OBVIOUS
  <2>1. q # c
    BY <1>2
  <2>2. ~missed[w] /\ q \notin left[w]
    BY <1>1, <2>1 DEF Asleep
  <2> QED
    BY <2>2 DEF Asleep
<1>5. \A q \in QueueNames : Loud(q)' /\ Helper(w, q) => Helper(w, q)'
  <2> SUFFICES ASSUME NEW q \in QueueNames, Loud(q)', Helper(w, q) PROVE Helper(w, q)'
    OBVIOUS
  <2>1. q # c
    BY <1>2
  <2>2. ~Loud(<<w, "rq">>)'
    BY <1>2 DEF Helper, QueueNames
  <2>3. q \in left[w] \/ missed[w]
    BY DEF Helper
  <2>4. q \in left'[w] \/ missed'[w]
    BY <1>1, <2>1, <2>3
  <2>5. pc'[w] = "wait" => missed'[w]
    BY <1>1, <2>1, <2>3
  <2> QED
    BY <1>1, <2>2, <2>4, <2>5 DEF Helper
<1>6. WakeInv'
  BY <1>1, <1>2, <1>4, <1>5, CalmWake
<1> QED
  BY <1>3, <1>6

\* sched and ending_sched.
LEMMA SchedSleep ==
  ASSUME IInv, SleepInv, NEW w \in Workers, Sched(w), pc[w] = "run",
         \A u \in Workers \ {w} : op'[u] = op[u], op'[w].kind = "ready" => op'[w].signal = "yes",
         UNCHANGED <<remote, missed, nosig, rnosig, sig>>
  PROVE  SleepInv'
<1> USE DEF IInv, SleepInv
<1>w. Workers \subseteq Threads
  BY DEF Threads
<1>1. ASSUME NEW f \in Fibers, Popped(rq, rq', w, f), SwitchTo(w, f) PROVE SleepInv'
  BY <1>1, TakeSleep
<1>2. ASSUME rq[w] = << >>, Goto(w, "steal"), UNCHANGED <<rq, cur, left, quiet>> PROVE SleepInv'
  <2>1. pc'[w] = "steal" /\ \A u \in Workers \ {w} : pc'[u] = pc[u]
    BY <1>w, <1>2 DEF TypeOK, Goto
  <2>2. \A q \in QueueNames : Loud(q)' <=> Loud(q)
    BY <1>2 DEF Loud
  <2>3. OwnInv'
    BY <1>2, <2>1 DEF OwnInv, Signalling
  <2>4. \A q \in QueueNames : ~Asleep(w, q)'
    BY <2>1 DEF Asleep
  <2>5. \A q \in QueueNames : Helper(w, q) => Helper(w, q)'
    <3>1. ~Loud(<<w, "rq">>) => ~Loud(<<w, "rq">>)'
      BY <2>2 DEF QueueNames
    <3> QED
      BY <2>1, <3>1 DEF Helper
  <2>6. WakeInv'
    BY <1>2, <2>1, <2>2, <2>4, <2>5, CalmWake
  <2> QED
    BY <2>3, <2>6
<1> QED
  BY <1>1, <1>2, SchedStep

\* Nothing is queued at first.
LEMMA InitSleep == Init => SleepInv
<1> SUFFICES ASSUME Init PROVE SleepInv
  OBVIOUS
<1>1. OwnInv
  <2>1. \A w \in Workers : pc[w] = "wait" /\ op[w].kind = "none" /\ rq[w] = << >>
    BY DEF Init, NoOp, Threads
  <2> QED
    BY <2>1 DEF OwnInv
<1>2. \A g \in Workers : ~Loud(<<g, "rq">>) /\ ~Loud(<<g, "remote">>)
  BY InitInv, EmptyQuiet DEF Init, IInv
<1>3. ASSUME NEW q \in QueueNames PROVE ~Loud(q)
  <2>1. PICK g \in Workers, k \in {"rq", "remote"} : q = <<g, k>>
    BY DEF QueueNames
  <2> QED
    BY <1>2, <2>1
<1>4. WakeInv
  BY <1>3 DEF WakeInv
<1> QED
  BY <1>1, <1>4 DEF SleepInv

\* Every step preserves the invariant.
LEMMA NextSleep == IInv /\ SleepInv /\ [Next]_vars => SleepInv'
<1> SUFFICES ASSUME IInv, SleepInv, [Next]_vars PROVE SleepInv'
  OBVIOUS
<1> USE DEF IInv, SleepInv, queueVars, fiberVars
<1>w. /\ Workers \subseteq Threads /\ Externals \subseteq Threads /\ Workers \cap Externals = {}
      /\ \A t \in Threads : t \in Workers \/ t \in Externals
  BY NamesAssumption DEF Threads
<1>1. ASSUME NEW t \in Threads, SignalLot(t) PROVE SleepInv'
  <2>1. /\ UNCHANGED <<queueVars, cur, left, op, nosigGroup, fiberVars, quiet>> /\ Signalling(t)
        /\ missed' = [w \in Workers |-> missed[w] \/ LotOf[w] = SignalledLot(t)]
        /\ \/ /\ \A w \in Workers : ~(pc[w] = "parked" /\ LotOf[w] = SignalledLot(t))
              /\ UNCHANGED pc /\ sig' = [sig EXCEPT ![t] = SignalRest(t, 0)]
           \/ /\ \E w \in Workers : pc[w] = "parked" /\ pc' = [pc EXCEPT ![w] = "steal"]
              /\ sig' = [sig EXCEPT ![t] = SignalRest(t, 1)]
    BY <1>1 DEF SignalLot, Parked, Goto
  <2>2. /\ \A u \in Threads \ {t} : sig'[u] = sig[u]
        /\ \A w \in Workers : missed[w] => missed'[w]
        /\ \A w \in Workers : LotOf[w] = SignalledLot(t) => missed'[w]
    BY <2>1 DEF TypeOK
  <2>3. \A w \in Workers : pc'[w] = pc[w] \/ (pc[w] = "parked" /\ pc'[w] = "steal")
    BY <1>w, <2>1 DEF TypeOK
  <2>4. OwnInv'
    <3>1. \A w \in Workers : Signalling(w) /\ sig[w].lots = 0
                               => missed'[w] \/ (Signalling(w)' /\ sig'[w].lots = 0)
      <4> SUFFICES ASSUME NEW w \in Workers, Signalling(w), sig[w].lots = 0
                   PROVE  missed'[w] \/ (Signalling(w)' /\ sig'[w].lots = 0)
        OBVIOUS
      <4>1. CASE w = t
        <5>1. SignalledLot(t) = LotOf[w]
          BY <4>1, OwnLot DEF SignalledLot
        <5> QED
          BY <2>2, <5>1
      <4>2. CASE w # t
        BY <1>w, <2>2, <4>2 DEF Signalling
      <4> QED
        BY <4>1, <4>2
    <3> QED
      BY <2>1, <2>2, <2>3, <3>1 DEF OwnInv
  <2>5. \A q \in QueueNames : Loud(q)' <=> Loud(q)
    BY <2>1 DEF Loud
  <2>6. WakeInv'
    <3> SUFFICES ASSUME NEW p \in Workers, NEW q \in QueueNames, Loud(q)', Asleep(p, q)'
                 PROVE  (\E a \in Workers : Helper(a, q)') \/ \E u \in Threads : Reaches(u, p)'
      BY DEF WakeInv, QueueNames
    <3>1. ASSUME NEW w \in Workers, pc[w] = "parked", pc' = [pc EXCEPT ![w] = "steal"]
          PROVE  \E a \in Workers : Helper(a, q)'
      <4>1. ~Loud(<<w, "rq">>)
        BY <3>1, EmptyQuiet DEF OwnInv
      <4>2. ~Loud(<<w, "rq">>)'
        BY <2>5, <4>1 DEF QueueNames
      <4>3. pc'[w] = "steal"
        BY <1>w, <3>1 DEF TypeOK
      <4> QED
        BY <4>2, <4>3 DEF Helper
    <3>2. ASSUME \A w \in Workers : ~(pc[w] = "parked" /\ LotOf[w] = SignalledLot(t)),
                 UNCHANGED pc, sig' = [sig EXCEPT ![t] = SignalRest(t, 0)]
          PROVE  (\E a \in Workers : Helper(a, q)') \/ \E u \in Threads : Reaches(u, p)'
      <4>1. Asleep(p, q) /\ Loud(q)
        BY <2>1, <2>2, <2>5, <3>2 DEF Asleep
      <4>2. ASSUME NEW a \in Workers, Helper(a, q) PROVE Helper(a, q)'
        <5>1. ~Loud(<<a, "rq">>)'
          BY <2>5, <4>2 DEF Helper, QueueNames
        <5> QED
          BY <2>1, <2>2, <3>2, <4>2, <5>1 DEF Helper
      <4>3. ASSUME NEW u \in Threads, u # t, Reaches(u, p) PROVE Reaches(u, p)'
        BY <2>2, <4>3 DEF Reaches, Signalling
      <4>4. ASSUME Reaches(t, p) PROVE Reaches(t, p)'
        <5>1. PICK i \in sig[t].lots..(NumLots - 1) : (LotOf[t] + i) % NumLots = LotOf[p]
          BY <4>4 DEF Reaches
        <5>2. sig[t].lots \in 0..(NumLots - 1) /\ NumLots \in Nat
          BY SizesAssumption DEF TypeOK
        <5>3. i # sig[t].lots
          <6> SUFFICES ASSUME i = sig[t].lots PROVE FALSE
            OBVIOUS
          <6>1. LotOf[p] = SignalledLot(t)
            BY <5>1 DEF SignalledLot
          <6>2. missed'[p] /\ pc[p] # "parked"
            BY <2>2, <3>2, <6>1
          <6> QED
            BY <3>2, <6>2 DEF Asleep
        <5>4. i \in (sig[t].lots + 1)..(NumLots - 1) /\ sig[t].lots + 1 # NumLots
          BY <5>1, <5>2, <5>3
        <5>5. SignalRest(t, 0).num > 0 /\ SignalRest(t, 0).lots = sig[t].lots + 1
          BY <2>1, <5>4, SignalRestType
        <5>6. sig'[t] = SignalRest(t, 0)
          BY <3>2 DEF TypeOK
        <5>7. Signalling(t)' /\ sig'[t].lots = sig[t].lots + 1
          BY <5>5, <5>6 DEF Signalling
        <5> QED
          BY <5>1, <5>4, <5>7 DEF Reaches
      <4> QED
        BY <4>1, <4>2, <4>3, <4>4 DEF WakeInv
    <3> QED
      BY <2>1, <3>1, <3>2
  <2> QED
    BY <2>4, <2>6
<1>2. ASSUME NEW w \in Workers, Park(w) PROVE SleepInv'
  <2>1. /\ pc[w] = "wait" /\ ~Signalling(w) /\ op[w].kind = "none"
        /\ UNCHANGED <<queueVars, missed, cur, left, op, sig, nosigGroup, fiberVars, quiet>>
        /\ pc' = [pc EXCEPT ![w] = IF missed[w] THEN "steal" ELSE "parked"]
    BY <1>2 DEF Park, Free, Goto
  <2>2. /\ \A u \in Workers \ {w} : pc'[u] = pc[u]
        /\ missed[w] => pc'[w] = "steal"
        /\ ~missed[w] => pc'[w] = "parked"
    BY <1>w, <2>1 DEF TypeOK
  <2>3. \A q \in QueueNames : Loud(q)' <=> Loud(q)
    BY <2>1 DEF Loud
  <2>4. OwnInv'
    BY <2>1, <2>2 DEF OwnInv, Signalling
  <2>5. \A q \in QueueNames : Asleep(w, q)' => Asleep(w, q)
    BY <2>1, <2>2 DEF Asleep
  <2>6. \A q \in QueueNames : Helper(w, q) => Helper(w, q)'
    <3>1. ~Loud(<<w, "rq">>) => ~Loud(<<w, "rq">>)'
      BY <2>3 DEF QueueNames
    <3> QED
      BY <2>1, <2>2, <3>1 DEF Helper
  <2>7. WakeInv'
    BY <2>1, <2>2, <2>3, <2>5, <2>6, CalmWake
  <2> QED
    BY <2>4, <2>7
<1>3. ASSUME NEW w \in Workers, Steal(w) PROVE SleepInv'
  <2>1. CASE remote[w] # << >>
    <3>1. Popped(remote, [remote EXCEPT ![w] = Tail(@)], w, Head(remote[w]))
      BY <2>1, PopHead DEF TypeOK, PlaceInv
    <3>2. Head(remote[w]) \in Fibers
      BY <3>1 DEF Popped
    <3> QED
      BY <1>3, <2>1, <3>1, <3>2, TakeSleep DEF Steal
  <2>2. CASE remote[w] = << >>
    <3>1. /\ UNCHANGED <<rq, remote, nosig, rnosig, cur, op, sig, quiet>> /\ pc[w] = "steal"
          /\ missed' = [missed EXCEPT ![w] = FALSE] /\ pc' = [pc EXCEPT ![w] = "scan"]
          /\ left' = [left EXCEPT ![w] = Workers \X {"rq", "remote"}]
      BY <1>3, <2>2 DEF Steal, Goto
    <3>2. /\ pc'[w] = "scan" /\ \A u \in Workers \ {w} : pc'[u] = pc[u]
          /\ left'[w] = QueueNames /\ \A u \in Workers \ {w} : left'[u] = left[u]
          /\ \A u \in Workers \ {w} : missed'[u] = missed[u]
      BY <1>w, <3>1 DEF TypeOK, QueueNames
    <3>3. \A q \in QueueNames : Loud(q)' <=> Loud(q)
      BY <3>1 DEF Loud
    <3>4. OwnInv'
      <4>1. <<w, "rq">> \in left'[w]
        BY <3>2 DEF QueueNames
      <4> QED
        BY <3>1, <3>2, <4>1 DEF OwnInv, Signalling
    <3>5. \A q \in QueueNames : ~Asleep(w, q)'
      BY <3>2 DEF Asleep
    <3>6. \A q \in QueueNames : Helper(w, q) => Helper(w, q)'
      <4>1. ~Loud(<<w, "rq">>) => ~Loud(<<w, "rq">>)'
        BY <3>3 DEF QueueNames
      <4> QED
        BY <3>1, <3>2, <4>1 DEF Helper
    <3>7. WakeInv'
      BY <3>1, <3>2, <3>3, <3>5, <3>6, CalmWake
    <3> QED
      BY <3>4, <3>7
  <2> QED
    BY <2>1, <2>2
<1>4. ASSUME NEW w \in Workers, NEW g \in Workers, ScanRq(w, g) PROVE SleepInv'
  <2>1. CASE rq[g] # << >>
    <3>1. Popped(rq, [rq EXCEPT ![g] = Tail(@)], g, Head(rq[g]))
      BY <2>1, PopHead DEF TypeOK, PlaceInv
    <3>2. Head(rq[g]) \in Fibers
      BY <3>1 DEF Popped
    <3> QED
      BY <1>4, <2>1, <3>1, <3>2, TakeSleep DEF ScanRq
  <2>2. CASE rq[g] = << >>
    <3>1. ~Loud(<<g, "rq">>)
      BY <2>2, EmptyQuiet
    <3>2. <<g, "rq">> \in QueueNames /\ (<<g, "rq">> = <<w, "rq">> => rq[w] = << >>)
      BY <2>2 DEF QueueNames
    <3> QED
      BY <1>4, <2>2, <3>1, <3>2, PassSleep DEF ScanRq
  <2> QED
    BY <2>1, <2>2
<1>5. ASSUME NEW w \in Workers, NEW g \in Workers, ScanRemote(w, g) PROVE SleepInv'
  <2>1. CASE remote[g] # << >>
    <3>1. Popped(remote, [remote EXCEPT ![g] = Tail(@)], g, Head(remote[g]))
      BY <2>1, PopHead DEF TypeOK, PlaceInv
    <3>2. Head(remote[g]) \in Fibers
      BY <3>1 DEF Popped
    <3> QED
      BY <1>5, <2>1, <3>1, <3>2, TakeSleep DEF ScanRemote
  <2>2. CASE remote[g] = << >>
    <3>1. ~Loud(<<g, "remote">>)
      BY <2>2, EmptyQuiet
    <3>2. <<g, "remote">> \in QueueNames /\ (<<g, "remote">> = <<w, "rq">> => rq[w] = << >>)
      BY <2>2 DEF QueueNames
    <3> QED
      BY <1>5, <2>2, <3>1, <3>2, PassSleep DEF ScanRemote
  <2> QED
    BY <2>1, <2>2
<1>6. ASSUME NEW w \in Workers, PushLocal(w) PROVE SleepInv'
  <2>0. /\ Pushed(rq, rq', w, op[w].f) /\ op' = [op EXCEPT ![w] = NoOp] /\ op[w].f \in Fibers
        /\ UNCHANGED <<remote, rnosig, missed, pc, cur, left, nosigGroup, state, blocks>>
        /\ op[w].kind = "ready" /\ pc[w] \in {"run", "wait"} /\ w \in Threads
    <3>1. op[w].f \in Fibers /\ w \in Threads
      BY <1>6, <1>w DEF PushLocal, OpInv, TypeOK
    <3>2. Pushed(rq, [rq EXCEPT ![w] = Append(@, op[w].f)], w, op[w].f)
      BY <3>1, Push DEF TypeOK
    <3> QED
      BY <1>6, <3>1, <3>2 DEF PushLocal
  <2>1. /\ nosig[w] \in Nat /\ op'[w] = NoOp /\ \A u \in Workers \ {w} : op'[u] = op[u]
        /\ \A u \in Workers \ {w} : rq'[u] = rq[u]
    BY <1>w, <2>0 DEF TypeOK, Pushed
  <2>2. CASE op[w].signal = "yes"
    <3>1. /\ \A p \in Workers : Reaches(w, p)'
          /\ sig'[w].lots = 0 /\ Signalling(w)' /\ \A u \in Threads \ {w} : sig'[u] = sig[u]
      <4>1. 1 + nosig[w] \in Nat \ {0} /\ Signal(w, 1 + nosig[w])
        BY <1>6, <2>1, <2>2 DEF PushLocal
      <4> QED
        BY <2>0, <4>1, SignalReaches
    <3>2. OwnInv'
      <4>1. op'[w].kind # "ready" /\ pc'[w] \in {"run", "wait"}
        BY <2>0, <2>1 DEF NoOp
      <4>2. \A u \in Workers \ {w} : /\ pc'[u] = pc[u] /\ op'[u] = op[u] /\ rq'[u] = rq[u]
                                     /\ left'[u] = left[u] /\ sig'[u] = sig[u] /\ missed'[u] = missed[u]
        BY <1>w, <2>0, <2>1, <3>1
      <4> QED
        BY <3>1, <4>1, <4>2 DEF OwnInv, Signalling
    <3> QED
      BY <2>0, <3>1, <3>2, SignalWake
  <2>3. CASE op[w].signal # "yes"
    <3>1. pc[w] = "run" /\ UNCHANGED sig
      BY <1>6, <2>0, <2>3 DEF PushLocal, OwnInv
    <3>2. OwnInv'
      BY <2>0, <2>1, <3>1 DEF OwnInv, NoOp, Signalling
    <3>3. nosig' = [nosig EXCEPT ![w] = IF op[w].signal = "no" THEN @ + 1 ELSE @]
      <4>1. op[w].signal \in {"no", "ignore"}
        BY <2>0, <2>3 DEF TypeOK
      <4> QED
        BY <1>6, <4>1 DEF PushLocal
    <3>4. Loud(<<w, "rq">>)' => Loud(<<w, "rq">>)
      <4>1. CASE op[w].signal = "no"
        <5>1. nosig'[w] = nosig[w] + 1
          BY <3>3, <4>1 DEF TypeOK
        <5>2. nosig'[w] # 0
          BY <2>1, <5>1
        <5> QED
          BY <5>2 DEF Loud
      <4>2. CASE op[w].signal # "no"
        <5>1. nosig'[w] = nosig[w] /\ quiet' = quiet \cup {op[w].f}
          <6>1. op[w].signal = "ignore"
            BY <2>0, <2>3, <4>2 DEF TypeOK
          <6> QED
            BY <1>6, <3>3, <6>1 DEF TypeOK, PushLocal
        <5>2. ToSet(rq'[w]) = ToSet(rq[w]) \cup {op[w].f}
          BY <2>0 DEF Pushed
        <5> QED
          BY <5>1, <5>2 DEF Loud
      <4> QED
        BY <4>1, <4>2
    <3>5. \A v \in Workers \ {w} : Loud(<<v, "rq">>)' => Loud(<<v, "rq">>)
      <4>1. \A v \in Workers \ {w} : nosig'[v] = nosig[v]
        BY <3>3 DEF TypeOK
      <4>2. quiet \subseteq quiet'
        BY <1>6 DEF PushLocal
      <4> QED
        BY <2>1, <4>1, <4>2 DEF Loud
    <3>6. \A v \in Workers : Loud(<<v, "remote">>)' => Loud(<<v, "remote">>)
      BY <2>0 DEF Loud
    <3>7. \A q \in QueueNames : Loud(q)' => Loud(q)
      BY <3>4, <3>5, <3>6 DEF QueueNames
    <3> QED
      BY <2>0, <3>1, <3>2, <3>7, StillWake
  <2> QED
    BY <2>2, <2>3
<1>7. ASSUME NEW w \in Workers, PushFull(w) PROVE SleepInv'
  <2>1. /\ nosig[w] \in Nat \ {0} /\ Signal(w, nosig[w]) /\ w \in Threads
        /\ UNCHANGED <<rq, pc, missed, left, op>>
    BY <1>7, <1>w DEF PushFull, OpInv, TypeOK
  <2>2. /\ \A p \in Workers : Reaches(w, p)'
        /\ sig'[w].lots = 0 /\ Signalling(w)' /\ \A u \in Threads \ {w} : sig'[u] = sig[u]
    BY <2>1, SignalReaches
  <2>3. OwnInv'
    <3>1. \A v \in Workers : sig'[v] = sig[v] \/ (sig'[v].lots = 0 /\ Signalling(v)')
      BY <1>w, <2>2
    <3> QED
      BY <2>1, <3>1, StillOwn
  <2> QED
    BY <2>1, <2>2, <2>3, SignalWake
<1>8. ASSUME NEW t \in Externals, PushRemote(t) PROVE SleepInv'
  <2>g. PICK g : g = op[t].g
    OBVIOUS
  <2>0. /\ Pushed(remote, remote', g, op[t].f) /\ op' = [op EXCEPT ![t] = NoOp]
        /\ op[t].f \in Fibers /\ g \in Workers
        /\ UNCHANGED <<rq, nosig, missed, pc, cur, left, nosigGroup, state, blocks, quiet>>
        /\ op[t].kind = "ready" /\ t \in Threads /\ t \notin Workers
    <3>1. op[t].f \in Fibers /\ t \in Threads /\ g \in Workers
      BY <1>8, <1>w, <2>g DEF PushRemote, OpInv, TypeOK
    <3>2. Pushed(remote, [remote EXCEPT ![g] = Append(@, op[t].f)], g, op[t].f)
      BY <3>1, Push DEF TypeOK
    <3> QED
      BY <1>8, <2>g, <3>1, <3>2 DEF PushRemote
  <2>1. /\ rnosig[g] \in Nat /\ \A u \in Workers : op'[u] = op[u]
    BY <1>w, <2>0 DEF TypeOK
  <2>2. CASE op[t].signal = "yes"
    <3>1. /\ \A p \in Workers : Reaches(t, p)'
          /\ sig'[t].lots = 0 /\ Signalling(t)' /\ \A u \in Threads \ {t} : sig'[u] = sig[u]
      <4>1. 1 + rnosig[g] \in Nat \ {0} /\ Signal(t, 1 + rnosig[g])
        BY <1>8, <2>g, <2>1, <2>2 DEF PushRemote
      <4> QED
        BY <2>0, <4>1, SignalReaches
    <3>2. OwnInv'
      BY <1>w, <2>0, <2>1, <3>1, StillOwn
    <3> QED
      BY <2>0, <3>1, <3>2, SignalWake
  <2>3. CASE op[t].signal # "yes"
    <3>1. UNCHANGED sig /\ rnosig' = [rnosig EXCEPT ![g] = @ + 1]
      BY <1>8, <2>g, <2>3 DEF PushRemote
    <3>2. OwnInv'
      BY <2>0, <2>1, <3>1, StillOwn
    <3>3. Loud(<<g, "remote">>)' => Loud(<<g, "remote">>)
      <4>1. rnosig'[g] = rnosig[g] + 1 /\ Len(remote'[g]) = Len(remote[g]) + 1 /\ Len(remote[g]) \in Nat
        BY <2>0, <3>1 DEF TypeOK, Pushed
      <4> QED
        BY <2>1, <4>1 DEF Loud
    <3>4. \A v \in Workers \ {g} : Loud(<<v, "remote">>)' => Loud(<<v, "remote">>)
      <4>1. \A v \in Workers \ {g} : rnosig'[v] = rnosig[v] /\ remote'[v] = remote[v]
        BY <2>0, <3>1 DEF TypeOK, Pushed
      <4> QED
        BY <4>1 DEF Loud
    <3>5. \A v \in Workers : Loud(<<v, "rq">>)' => Loud(<<v, "rq">>)
      BY <2>0 DEF Loud
    <3>6. \A q \in QueueNames : Loud(q)' => Loud(q)
      BY <3>3, <3>4, <3>5 DEF QueueNames
    <3> QED
      BY <2>0, <3>1, <3>2, <3>6, StillWake
  <2> QED
    BY <2>2, <2>3
<1>9. ASSUME NEW t \in Externals, PushRemoteFull(t) PROVE SleepInv'
  <2>1. /\ rnosig[op[t].g] \in Nat \ {0} /\ Signal(t, rnosig[op[t].g]) /\ t \in Threads
        /\ UNCHANGED <<rq, pc, missed, left, op>>
    BY <1>9, <1>w DEF PushRemoteFull, OpInv, TypeOK
  <2>2. /\ \A p \in Workers : Reaches(t, p)'
        /\ sig'[t].lots = 0 /\ Signalling(t)' /\ \A u \in Threads \ {t} : sig'[u] = sig[u]
    BY <2>1, SignalReaches
  <2>3. OwnInv'
    <3>1. \A v \in Workers : sig'[v] = sig[v] \/ (sig'[v].lots = 0 /\ Signalling(v)')
      BY <1>w, <2>2
    <3> QED
      BY <2>1, <3>1, StillOwn
  <2> QED
    BY <2>1, <2>2, <2>3, SignalWake
<1>10. ASSUME NEW w \in Workers, NEW f \in Fibers, NEW s \in {"yes", "no"},
            StartLazy(w, f, s)
     PROVE  SleepInv'
  <2>1. /\ UNCHANGED <<rq, remote, nosig, rnosig, pc, missed, left, sig, quiet>>
        /\ \A v \in Workers : op'[v] = op[v] \/ op'[v] = NoOp \/ pc[v] = "run"
    BY <1>10, <1>w DEF StartLazy, Running, Free, Woken, Ready, TypeOK
  <2>2. OwnInv'
    BY <2>1, StillOwn
  <2>3. \A q \in QueueNames : Loud(q)' => Loud(q)
    BY <2>1 DEF Loud
  <2> QED
    BY <2>1, <2>2, <2>3, StillWake
<1>11. ASSUME NEW w \in Workers, NEW f \in Fibers, NEW s \in {"yes", "no", "ignore"},
            Start(w, f, s)
     PROVE  SleepInv'
  <2>1. /\ pc[w] = "run" /\ state[f] = "suspended" /\ SwitchTo(w, f)
        /\ op' = [op EXCEPT ![w] = Ready(cur[w], s)]
        /\ UNCHANGED <<rq, remote, nosig, rnosig, missed, sig>>
    BY <1>11 DEF Start, Running, Woken
  <2>2. /\ left' = [left EXCEPT ![w] = {}] /\ quiet' = quiet \ {f} /\ pc' = [pc EXCEPT ![w] = "run"]
    BY <2>1, SwitchStep
  <2>3. /\ pc'[w] = "run"
        /\ \A u \in Workers \ {w} : pc'[u] = pc[u] /\ left'[u] = left[u] /\ op'[u] = op[u]
    BY <1>w, <2>1, <2>2 DEF TypeOK
  <2>4. \A q \in QueueNames : Loud(q)' => Loud(q)
    <3>1. \A v \in Workers : f \notin ToSet(rq'[v]) /\ ToSet(rq'[v]) \subseteq ToSet(rq[v])
      BY <2>1 DEF StateInv, Queued
    <3>2. \A v \in Workers : Len(remote'[v]) <= Len(remote[v]) /\ Len(remote'[v]) \in Nat
      BY <2>1 DEF TypeOK
    <3> QED
      BY <2>1, <2>2, <3>1, <3>2, TakeLoud
  <2>5. OwnInv'
    BY <2>1, <2>3 DEF OwnInv, Signalling
  <2>6. \A q \in QueueNames : ~Asleep(w, q)'
    BY <2>3 DEF Asleep
  <2>7. \A q \in QueueNames : Helper(w, q) => Helper(w, q)'
    <3>1. ~Loud(<<w, "rq">>) => ~Loud(<<w, "rq">>)'
      BY <2>4 DEF QueueNames
    <3> QED
      BY <2>3, <3>1 DEF Helper
  <2>8. WakeInv'
    BY <2>1, <2>3, <2>4, <2>6, <2>7, CalmWake
  <2> QED
    BY <2>5, <2>8
<1>12. ASSUME NEW w \in Workers, Flush(w) PROVE SleepInv'
  <2>1. /\ nosig[w] \in Nat \ {0} /\ Signal(w, nosig[w]) /\ w \in Threads
        /\ UNCHANGED <<rq, pc, missed, left, op>>
    BY <1>12, <1>w DEF Flush, Running, OpInv, TypeOK
  <2>2. /\ \A p \in Workers : Reaches(w, p)'
        /\ sig'[w].lots = 0 /\ Signalling(w)' /\ \A u \in Threads \ {w} : sig'[u] = sig[u]
    BY <2>1, SignalReaches
  <2>3. OwnInv'
    <3>1. \A v \in Workers : sig'[v] = sig[v] \/ (sig'[v].lots = 0 /\ Signalling(v)')
      BY <1>w, <2>2
    <3> QED
      BY <2>1, <3>1, StillOwn
  <2> QED
    BY <2>1, <2>2, <2>3, SignalWake
<1>13. ASSUME NEW w \in Workers, Yield(w) PROVE SleepInv'
  <2>1. /\ Sched(w) /\ pc[w] = "run" /\ UNCHANGED <<remote, missed, nosig, rnosig, sig>>
        /\ op'[w].signal = "yes" /\ \A u \in Workers \ {w} : op'[u] = op[u]
    BY <1>13, <1>w DEF Yield, Block, Running, Free, Ready, TypeOK
  <2> QED
    BY <2>1, SchedSleep
<1>14. ASSUME NEW w \in Workers, Suspend(w) PROVE SleepInv'
  <2>1. /\ Sched(w) /\ pc[w] = "run" /\ UNCHANGED <<remote, missed, nosig, rnosig, sig>>
        /\ op'[w].signal = "yes" /\ \A u \in Workers \ {w} : op'[u] = op[u]
    BY <1>14, <1>w DEF Suspend, Block, Running, Free, TypeOK
  <2> QED
    BY <2>1, SchedSleep
<1>15. ASSUME NEW w \in Workers, Suspended(w) PROVE SleepInv'
  <2>1. /\ UNCHANGED <<rq, remote, nosig, rnosig, pc, missed, left, sig, quiet>>
        /\ \A v \in Workers : op'[v] = op[v] \/ op'[v] = NoOp \/ pc[v] = "run"
    BY <1>15, <1>w DEF Suspended, TypeOK
  <2>2. OwnInv'
    BY <2>1, StillOwn
  <2>3. \A q \in QueueNames : Loud(q)' => Loud(q)
    BY <2>1 DEF Loud
  <2> QED
    BY <2>1, <2>2, <2>3, StillWake
<1>16. ASSUME NEW w \in Workers, Finish(w) PROVE SleepInv'
  <2>1. /\ Sched(w) /\ pc[w] = "run" /\ UNCHANGED <<remote, missed, nosig, rnosig, sig, op>>
        /\ op[w].kind = "none"
    BY <1>16 DEF Finish, Running, Free
  <2> QED
    BY <2>1, SchedSleep
<1>17. ASSUME NEW x \in Externals, NEW f \in Fibers, NEW s \in {"yes", "no"}, NEW g \in Workers,
            StartRemote(x, f, s, g)
     PROVE  SleepInv'
  <2>1. /\ UNCHANGED <<rq, remote, nosig, rnosig, pc, missed, left, sig, quiet>>
        /\ \A v \in Workers : op'[v] = op[v] \/ op'[v] = NoOp \/ pc[v] = "run"
    BY <1>17, <1>w DEF StartRemote, Free, Woken, TypeOK
  <2>2. OwnInv'
    BY <2>1, StillOwn
  <2>3. \A q \in QueueNames : Loud(q)' => Loud(q)
    BY <2>1 DEF Loud
  <2> QED
    BY <2>1, <2>2, <2>3, StillWake
<1>18. ASSUME NEW x \in Externals, FlushRemote(x) PROVE SleepInv'
  <2> DEFINE g == nosigGroup[x]
  <2>1. /\ rnosig[g] \in Nat /\ g \in Workers /\ x \in Threads /\ rnosig' = [rnosig EXCEPT ![g] = 0]
        /\ UNCHANGED <<rq, remote, nosig, pc, missed, left, op, quiet>>
        /\ IF rnosig[g] > 0 THEN Signal(x, rnosig[g]) ELSE UNCHANGED sig
    BY <1>18, <1>w DEF FlushRemote, TypeOK
  <2>2. CASE rnosig[g] > 0
    <3>1. /\ \A p \in Workers : Reaches(x, p)'
          /\ sig'[x].lots = 0 /\ Signalling(x)' /\ \A u \in Threads \ {x} : sig'[u] = sig[u]
      BY <2>1, <2>2, SignalReaches
    <3>2. OwnInv'
      BY <1>w, <2>1, <3>1, StillOwn
    <3> QED
      BY <2>1, <3>1, <3>2, SignalWake
  <2>3. CASE ~(rnosig[g] > 0)
    <3>1. rnosig[g] = 0 /\ UNCHANGED sig
      BY <2>1, <2>3
    <3>2. rnosig' = rnosig
      BY <2>1, <3>1 DEF TypeOK
    <3>3. \A q \in QueueNames : Loud(q)' => Loud(q)
      BY <2>1, <3>2 DEF Loud
    <3>4. OwnInv'
      BY <2>1, <3>1, StillOwn
    <3> QED
      BY <2>1, <3>1, <3>3, <3>4, StillWake
  <2> QED
    BY <2>2, <2>3
<1>19. CASE UNCHANGED vars
  <2>1. UNCHANGED <<rq, remote, nosig, rnosig, pc, missed, left, op, sig, quiet>>
    BY <1>19 DEF vars
  <2>2. OwnInv'
    BY <2>1, StillOwn
  <2>3. \A q \in QueueNames : Loud(q)' => Loud(q)
    BY <2>1 DEF Loud
  <2> QED
    BY <2>1, <2>2, <2>3, StillWake
<1> QED
  BY <1>1, <1>2, <1>3, <1>4, <1>5, <1>6, <1>7, <1>8, <1>9, <1>10, <1>11, <1>12,
     <1>13, <1>14, <1>15, <1>16, <1>17, <1>18, <1>19, <1>w
     DEF Next, Step, WorkerStep, Scan

\* The invariant of the workers that are about to park.
LEMMA SpecSleep == Spec => []SleepInv
<1>1. Init => SleepInv
  BY InitSleep
<1>2. IInv /\ SleepInv /\ [Next]_vars => SleepInv'
  BY NextSleep
<1> QED
  BY <1>1, <1>2, SpecInv, PTL DEF Spec

\* The invariant is stronger than NoIdleWithWork.
LEMMA SleepNoIdle == IInv /\ SleepInv => NoIdleWithWork
<1> SUFFICES ASSUME IInv, SleepInv,
                    \A w \in Workers : \/ pc[w] = "parked" /\ Free(w)
                                       \/ /\ Spinning(w)
                                          /\ \A i \in DOMAIN rq[w] : rq[w][i] \notin quiet,
                    \A x \in Externals : Free(x) \/ Spinning(x),
                    NEW p \in Workers, ~Spinning(p)
             PROVE  \A w \in Workers : /\ \A i \in DOMAIN rq[w] : rq[w][i] \in quiet
                                       /\ Len(remote[w]) <= rnosig[w]
  BY DEF NoIdleWithWork
<1> USE DEF IInv, SleepInv
<1>w. Workers \subseteq Threads /\ \A t \in Threads : t \in Workers \/ t \in Externals
  BY DEF Threads
<1>1. pc[p] = "parked"
  OBVIOUS
<1>2. \A t \in Threads : ~Signalling(t)
  BY <1>w DEF Free, Spinning
<1>3. \A t \in Threads : ~Reaches(t, p)
  BY <1>2 DEF Reaches
<1>4. ASSUME NEW a \in Workers, NEW q \in QueueNames PROVE ~Helper(a, q)
  <2>1. CASE pc[a] = "parked"
    BY <2>1 DEF Helper
  <2>2. CASE Spinning(a) /\ \A i \in DOMAIN rq[a] : rq[a][i] \notin quiet
    <3>1. nosig[a] = 0 /\ Len(rq[a]) = Capacity /\ rq[a] \in Seq(Fibers)
      BY <2>2 DEF Spinning, TypeOK
    <3>2. 1 \in DOMAIN rq[a]
      BY <3>1, SizesAssumption
    <3>3. rq[a][1] \in ToSet(rq[a]) /\ rq[a][1] \notin quiet
      BY <2>2, <3>2 DEF ToSet
    <3>4. Loud(<<a, "rq">>)
      BY <3>1, <3>3 DEF Loud
    <3> QED
      BY <3>4 DEF Helper
  <2> QED
    BY <2>1, <2>2
<1>5. \A q \in QueueNames : ~Loud(q)
  <2>1. \A q \in QueueNames : Asleep(p, q)
    BY <1>1 DEF Asleep
  <2> QED
    BY <1>3, <1>4, <2>1 DEF WakeInv
<1>6. ASSUME NEW w \in Workers
      PROVE  (\A i \in DOMAIN rq[w] : rq[w][i] \in quiet) /\ Len(remote[w]) <= rnosig[w]
  <2>1. ~Loud(<<w, "rq">>) /\ ~Loud(<<w, "remote">>)
    BY <1>5 DEF QueueNames
  <2>2. Len(remote[w]) <= rnosig[w]
    <3>1. Len(remote[w]) \in Nat /\ rnosig[w] \in Nat
      BY DEF TypeOK
    <3> QED
      BY <2>1, <3>1 DEF Loud
  <2>3. CASE pc[w] = "parked"
    <3>1. rq[w] = << >>
      BY <2>3 DEF OwnInv
    <3>2. ToSet(rq[w]) = {}
      BY <3>1, MembersOfEmpty
    <3> QED
      BY <2>2, <3>2 DEF ToSet
  <2>4. CASE Spinning(w)
    <3>1. nosig[w] = 0
      BY <2>4 DEF Spinning
    <3>2. ToSet(rq[w]) \subseteq quiet
      BY <2>1, <3>1 DEF Loud
    <3> QED
      BY <2>2, <3>2 DEF ToSet
  <2> QED
    BY <2>3, <2>4
<1> QED
  BY <1>6

\* No lost wakeup, whatever the number of workers and lots: wait_task compares the state
\* of the lot that steal_task saved before it looked at the queues, and signal_task goes on
\* to the next lot, so that no signalled task is left while the workers sleep.
THEOREM NoIdleCorrect == Spec => []NoIdleWithWork
BY SleepNoIdle, SpecInv, SpecSleep, PTL

=============================================================================
